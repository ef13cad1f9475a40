# A verification of AutoTestTools

AutoTestTools drives VoIP phones from a PC: an operator types commands, scripts
repeat them, a sender thread passes them on to the phones over UDP, a receiver
thread takes the phones' logs (`ReadMe.txt`). This directory holds TLA+ models of
the program (`core/src`), the TLC runs that check them and TLAPS proofs about
them. The modules are translated from the C code; where code and documentation
disagree the models follow the code; a run, or the list at the end of the tables of
section 4, shows the disagreement.

To run a check: `tlc -workers 2 -config X.cfg M`, with the pairs of the table in
section 4; to check proofs: `tlapm M.tla` for each module of the table in section 5.

## 1. Inventory

### Threads

| thread | created by | runs | ended by |
|---|---|---|---|
| main | - | `main`: readline, `cmd_proc` | line beginning with `quit`, end of input |
| sender | `start test`, `start all` | `cmd_send` (polls the message queue) | SIGQUIT from `stop`, `quit` |
| receiver | `start rec`, `start all` | `ret_receive` (polls the syslog socket) | SIGQUIT from `stop`, `quit` |
| up to ten scripts | `runScript` | `scriptCmdProcess`, which calls `cmd_proc` | end of the script, SIGQUIT from `stop` |

SIGQUIT is handled by `sig_handler`, which calls `pthread_exit` wherever the
thread is. The handler is installed by the threads themselves. One mutex, `gMutex`,
guards the client tables, in places.

### Components

| component | state | operations | interacts through |
|---|---|---|---|
| Client tables (`at_network.c`) | `gSockets`, `gClientIpAddr`, `clientSockAddr`, `gClientFlag`, kernel descriptors | getters, setters, `network_config`, `closeSocket` | called by commands, sender, receiver |
| Client commands (`at_cmdProc.c`) | `gCmdParam`, `gParamNum`, `gMutex` | `add`, `del`, `changeIp`, `show` | tables; the parsed line is shared by all command threads |
| Message queue, test mode | System V queue `gMsgid`, `thr_cmdSend_id` | `ioevt`, `call`, `syslog`, `hideFeature`, `start`, `stop`, `quit`, `cmd_send` | the kernel's queue, which outlives the program |
| Receiver | `syslogSockFd`, `gSyslogPort`, `gSuccessCall`, `thr_retReceive_id` | `syslogServerInit`, `ret_receive`, `syslogProcess` | tables (drops a client), phones (port they are told) |
| Script engine | `gScriptParam`, `gScriptCount`, locals | `cpScriptContentToArray`, `scriptCmdProcess` | `cmd_proc` |
| Script threads | `thr_script_id`, `gScriptName` | `runScript`, `stop n script`, `stop all`, `start` | script number handed over in the shared line |
| Event encoding (`keyMap.c`, `ioevt`) | `gKeyLib` (constant), the static buffer of `getTokens` | `ioevt`, `call`, `syslogConf`, `hideFeatureProc`, `getKeyCode` | the shared line; message contents |
| Random commands | none | `getRandValue`, `randomKey`, `randomTime`, `delay` | the shared line, `cmd_proc` |
| autoConfig | `gConfFileName` | runs a file as commands of the main thread | `cmd_proc` |
| Reports | none | `help`, `look`, the note written by `quit` | read counters |
| Line editing (`readline.c`) | none | completion | - |

### What is hard here

* All command threads share one parsed line; a handler reads it at several times,
  and the inner `getTokens` of `ioevt` overwrites it while others read it.
* Texts are cut, numbers narrowed to a byte and random values rounded to floats on
  the way from a command to its message.
* A port or an address is put into a message when it is typed and used when the
  message leaves the queue.
* Check and act on the tables are in different critical sections, and
  `network_config` writes them in none.
* A descriptor stays in its slot after it is closed.
* Threads are killed by a signal at any instruction, whatever they hold.
* Thread ids, script numbers and slots are passed by convention, in windows.
* The queue blocks when full and survives the program.
* Phones' logs arrive at any time, twice, or not at all.
* The script interpreter finds its loops by searching an array.

`PROJECT.json` lists each of these hazards at its line with the properties that
watch it. What makes the components correct: a client in use owns its socket and
the address on show; no socket leaks; `gMutex` is released; commands leave in
order and at most once; a script does exactly what its file says, under the number
it was given, and can be stopped; the receiver reads the port the phones were told.

## 2. Modules

| module | models | composition |
|---|---|---|
| `Network` | client tables, descriptors, the steps of `network_config` | used by `ClientTable` |
| `ClientTable` | main, scripts, sender and receiver on the tables under `gMutex` | EXTENDS `Network` |
| `MCClientTable` | values for its constants | EXTENDS `ClientTable` |
| `ClientTableProofs` | theorems | EXTENDS `ClientTable` |
| `CommandChannel` | what the way from command to phone promises: a lossy first-in first-out channel | abstract specification |
| `CommandQueue` | message queue, senders, `start`/`stop`/`quit`, end and restart of the program | implements `CommandChannel` |
| `CommandChannelProofs`, `CommandQueueProofs` | theorems | EXTENDS the module named; the second INSTANCEs the first under the refinement mapping |
| `PhoneCommands` | from a line to its message: `ioevt`, `call`, `syslog`, `hideFeature`, `randomKey`, `randomTime`, `delay`, `autoConfig` | ends where `CommandQueue` begins, at `msgsnd` |
| `MCPhoneCommands` | lines of two threads, a configuration file | EXTENDS `PhoneCommands` |
| `PhoneCommandsProofs` | theorems | EXTENDS `PhoneCommands`, `DataLemmas` |
| `SyslogServer` | receive mode: socket, port, logs, counters, the way of the port to the phones | has the queue as `CommandChannel` promises it: in order, lossy |
| `SyslogServerProofs` | theorems | EXTENDS `SyslogServer`, `DataLemmas` |
| `ScriptEngine` | interpreter of one script, against the meaning of the script | - |
| `MCScriptEngine` | all scripts of bounded size | EXTENDS `ScriptEngine` |
| `ScriptEngineProofs` | theorems | EXTENDS `ScriptEngine`, `DataLemmas` |
| `ScriptThreads` | numbers, names, arrays and slots of script threads | - |
| `MCScriptThreads` | lines of the operator and of the scripts | EXTENDS `ScriptThreads` |
| `ScriptThreadsProofs` | theorems | EXTENDS `ScriptThreads` |
| `DataLemmas` | lemmas about numbers, sequences and sums; no part of the system | - |

**Atomicity.** One action is one stretch of code in which no other thread can see
or change what it touches: taking a mutex is an action, a critical section is as
many actions as it writes to state that is also read without the mutex, every
unlocked access is its own action, and so is every use of `gCmdParam`. Undefined
behaviour is a choice between its outcomes (a joined thread id in `PthreadKill`,
the uninitialised `loopStart`), or ends the model where the outcomes cannot be
listed (`strayed`, `crashed`).

**ClientTable.** `pc[t]` is the place of a thread in its handler, `loc[t]` its
locals. `Issue` is `getTokens` replacing `gCmdParam`; `Dispatch` calls the handler
that `gCmdParam[0]` names by then. `AddEnter, AddNum, Lock, AddRead, NetCheck, NetFlag,
NetAton, NetSocket, NetAddr, Lock, AddWrite` is `addClient` with `network_config` inside; `del` and the
receiver share `ClearFlag, ClearSocket, ClearAddr`. Descriptors are reused as the
kernel does, which is what makes a stale one dangerous. `Stop` kills a thread
anywhere; if it held `gMutex` the mutex becomes `Orphan`. Constants choose who does
what: `Line[t]` is the set of lines thread t may issue, `Suspended` the numbers in
"suspended" logs, `Stoppable` the threads that may be stopped.

**CommandQueue.** Senders are numbered incarnations 1..MaxSender, so that an id may
be stale. A sender is `new` (no handler installed yet), at `poll`, or at `hold` with
the message it took and has not sent. `Killed` and `Launch` lose everything but the
queue. The refinement maps the channel's pending commands to the held message
followed by the queue.

**PhoneCommands.** A handler is the sequence of its uses of the shared line
(`ioevt == <<"args", "range", "code", "client", ...>>`), `todo[t]` what thread t has
ahead of it, `loc[t]` what it has taken from the line so far. Between any two uses
other threads may parse lines of their own (`Issue`, `Compose`), and `TakeKeys`
itself overwrites the line. Texts are values compared as a whole, except the names
and codes of keys, which keep their characters because the list of keys is cut in
the middle of one (`keyTokens`; a `Word` is a text that is not empty, as `strtok` yields);
what lies where another text was is `Stray`.
`disturbed` records whose line was overwritten, so that properties can be stated for
the others. Parsing one line is one step, although two threads may also mix two
lines character by character. `rand()` has `RAND_BITS` and a float `FLT_BITS` bits;
`getRandValue` computes with the same roundings in that width; numbers of a line are
small enough for a float to hold them exactly (a bound, `PhoneAssumption`). Test mode
is on.

**ScriptEngine.** A program is a sequence of blocks, plain or loops; `Render` writes
it as a file with comments, the engine copies and executes the file, and `Meaning`
is what `ReadMe.txt:23-26` says the program does. Lines are records (kind,
argument); text is left out. `MAX_SC_LINE` is a parameter.

**ScriptThreads.** Main and the scripts parse lines at any time, also while a handler of
theirs or of another thread is at work. `pc[t]` is the place of a thread, one for each
read of `gCmdParam` and each access to a slot: `RunArgs, RunNumber, RunTaken, RunName,
Create, SetSlot` is `runScript`, `StopArgs, StopWhich, StopScript, StopRange, StopId, Kill,
Join, ClearSlot` is `stop 1 script`, `AllId, Kill, Join, AllClear` the loop of `stop all`.
A new thread reads its number (`Begin`), opens the file its slot names (`Open`) and
allocates its array (`Malloc`). It ends at the last line (`End, FreeArray, Exit`), at a
loop of 0 rounds, which clears the slot once more than the other ways do (`LoopRefused,
FreeArray, Exit`; any next line may be such a loop), or by a signal (`Die`).
`gScriptParam` says who allocated the array of a slot and whether it has been freed.
`request` records what `runScript` created a thread for; `mixed` records that the new
thread (`at_cmdProc.c:1022`) or `stop` (732) has read the number of another line, that a
script has started or stopped scripts, or that `runScript` has found a slot free whose
script met a loop of 0 rounds and has yet to free its array and clear the slot again
(1089 to 1105). Nothing prevents any of these: the properties that depend on it say so.

**SyslogServer.** Sockets are numbered in the order they are opened; `boundTo` is
the kernel's table of ports. `SyslogConf` reads `gSyslogPort` when the operator types
`syslog`, `Told` hands the message to the phone or loses it, in the order of `told`.
Phones are the environment: they log to the port they were told, and datagrams may be
lost.

## 3. Properties

Each property is stated in words above its definition. The ones that took most
thought:

* `ClientsConsistent`, `NoFdLeak` (ClientTable): relations between three tables and the
  kernel's descriptors that hold although `network_config` writes outside the mutex.
* `AddressedSend` (ClientTable): the sender comes out of its critical section with the
  socket and the address of the client it looked up, and until `sendto` only a `del` of
  that client takes them away. What happens then is in section 4.
* `MutexOwned`, `LockReleased`: every path through every handler, also with the
  shared line changing under it, gives the mutex back.
* `Implements` (CommandQueue): order and at-most-once delivery over several senders
  and program runs, as refinement of `CommandChannel`.
* `OperatorNotStuck`, `QueueDrains`, `StopReturns`: nobody hangs.
* `FlagTellsAddress` (ClientTable): what `show` prints is what `cmd_send` goes by,
  with "suspended" logs removing clients at any time.
* `SentAsTyped`, `ValidIsSent`, `NeverAnotherKey`, `KeysFit`, `ClientBound`,
  `RandomStaysInReach` (PhoneCommands): a line that is not disturbed, and whose list of
  keys fits into `keyCodes`, is sent as it means; a list of key names that is cut never
  presses another key; and whatever disturbs a handler, `ioevt` writes inside its arrays
  and `ioevt` and `call` name a client or, `ioevt` alone, the number after the last one.
  `syslog` and `hideFeature` take any number of a line parsed meanwhile.
* `FollowsScript`, `CompletesScript`, `ScriptEnds`, `StaysInside` (ScriptEngine).
* `StopEndsItsNumber` (ScriptThreads): whatever is parsed over what, `stop` signals a
  thread created for the number it has read. `RunsItsScript`, `OneThreadPerNumber`,
  `RunningIsStoppable`, `StopAllStopsAll` hold as long as `mixed` is false; scripts may
  parse lines of their own while main starts and stops others, and end at a loop of 0
  rounds; only where such a line was read in place of main's, or a number was given out
  again before its script was through, is nothing claimed any more.
* `AdvertisedIsRead`, `PortsNeverGoBack`, `CountsTalksOnce`, `SuspendReaches`
  (SyslogServer).

Every property of a passing run has a mutant in `PROJECT.json`: a variant of one
operator (its name says how it differs, defined next to the original) under which TLC
finds the property violated.

## 4. Runs

Passing:

| cfg | module | bounds | shows |
|---|---|---|---|
| `operator` | MCClientTable | 2 clients, 2 addresses, a bad one, 2 descriptors, numbers 0..2; stop may hit sender and receiver | tables, sockets, sender |
| `suspend` | MCClientTable | 2 clients, logs for all numbers, `add` and `del` only | what holds in spite of logs: no leak, flag and address text agree |
| `locks` | MCClientTable | 1 client, operator, one script, sender | mutex discipline and release |
| `queue` | CommandQueue | operator and 2 scripts, queue of 2, 2 senders, 2 program runs, 4 messages, quit spelled both ways | order, at most once, one sender, nobody hangs |
| `script` | MCScriptEngine | all scripts of up to 2 blocks of up to 2 commands, counts 0..2, with and without marks, garbage -1 and 7, array of 9 lines | exact execution and end of well-formed scripts, the array is left by others only |
| `handover` | MCScriptThreads | operator and 2 script threads, 2 slots, one file; `runScript` of both numbers, `stop 0 script`, `stop all`, `start test`, `start rec`; scripts parse lines whose number, 3, is refused | hand-over of numbers, arrays and slots, types |
| `receive` | SyslogServer | 3 clients, 2 phones, 3 ports, one taken, 3 sockets, one log per phone, 2 `syslog` messages on their way | port and its way to the phones, counters, suspended logs |
| `phone_commands` | MCPhoneCommands | one operator line against two script lines, 2 clients, numbers 0, 2, 130, events of 3 keys (5 characters), `rand()` of 12 bits, floats of 9 | messages, keys, random values, the shared line |

Violations, each a disagreement between the code and the line quoted in
`PROJECT.json`:

| cfg | property | what the code does |
|---|---|---|
| `suspended_twice` | AddedClientIsConnected | a second or late "suspended" log closes another client's socket |
| `stop_in_section` | MutexNotOrphaned | `stop` may leave `gMutex` locked for ever |
| `stop_at_once` | StopKeepsProgram | `stop` right after `start` ends the program |
| `handover_hurried` | RunsAsAsked | a command parsed before a new thread has read its number makes it run another script |

Further disagreements are part of the models and excepted by name in the
properties they would violate, or kept out by a condition below:

* Two threads that add the same client, also when one of them only ran into the
  other's line between `Issue` and `Dispatch`: a socket leaks and two addresses mix
  (`NoFdLeak`, `ClientsConsistent` with scripts; `at_cmdProc.c:365-370`).
* `q` runs `quit` and returns to the prompt with the id of the dead sender still set
  (`input = "q"` in `SendIdNamesSender`, `OperatorNotStuck`, `QueueDrains`;
  `autoTest.c:68` against `ReadMe.txt:130-131`).
* A script that ends before `runScript` has stored its id leaves its number taken
  (`at_cmdProc.c:836`).
* `stop 1 script` reads the number again after it has waited for the thread, and clears
  the slot of whatever line was parsed last, by the script it is ending too. The number
  it was asked for then stays taken, although it prints "script %d stoped!", and a
  running script may lose its slot (`at_cmdProc.c:732-733`; `mixed` in `ClearSlot`).
* A script that meets a loop of 0 rounds clears its slot, frees its array and clears the
  slot again. A script started under its number in between loses its array and its slot,
  and neither `stop` nor `stop all` finds it (`at_cmdProc.c:1089, 1103, 1105` against
  `ReadMe.txt:126`; `mixed` in `RunTaken`).
* A client deleted while the sender holds its socket: the descriptor may go to the client
  added next, and the command leaves through that one's socket (`autoTest.c:103, 107`;
  `AddressedSend` leaves a deleted client out).
* `runScript` and `stop` accept number 10 and leave arrays of ten (`strayed`;
  `at_cmdProc.c:819`).
* The receiver ignores suspended logs of client 0, those whose file cannot be
  opened (`skipped`); the calls in a log without a number are counted for client 2
  (`sentTo`; `autoTest.c:155, 225, 244`), because AT_ERROR is 2. A "suspended" log without
  a number takes client 2 out of the test, though its phone has reported nothing
  (`ReadMe.txt:200`).
* After 20 receivers there is no port left: receive mode says it is on and reads
  nothing (`AdvertisedIsRead` asks for a receiver that could bind a port;
  `autoTest.c:182`).
* A script of more than `MAX_SC_LINE` lines, or a loop without its marks, leaves the
  array (`crashed`; `at_cmdProc.c:204, 1056`; `StaysInside` is about well-formed scripts).
* Phones told a port before a restart of receive mode are not heard after it: the
  old socket stays open and bound (`autoTest.c:177`).
* `changeIp` never succeeds: it wants a client in use, `network_config` refuses one
  (`at_network.c:116`). If a "suspended" log takes the client out in between, it does
  get through and leaves an address text on show for an unused client
  (`FlagTellsAddress` is checked and proved without `changeIp`).
* `randomTime min max` may wait for more than max, up to min + max
  (`at_cmdProc.c:274`; `RandomStaysInReach` allows that).
* The list of keys of `ioevt` is cut to 19 characters, and a cut key *code* may be
  another key's: of `1,1,1,1,1,1,1,1,1,251` the last key becomes `2`
  (`at_cmdProc.c:510`; `NeverAnotherKey` is about names, none of which begins another).
  A cut name is refused, so seven keys `s1` are not sent although `ReadMe.txt:25-26` only
  excludes more than ten (`ValidIsSent` is about lists that fit).
* The second range check of `ioevt` lets the number MAX_CLIENT through
  (`at_cmdProc.c:504`; `ClientBound` allows that).
* The sample `config.txt:5` starts a script without the number `runScript` wants
  (`at_cmdProc.c:813`), so that line is refused.

Why the bounds are enough: two clients and two descriptors are what it takes for a
descriptor to move from one slot to another; number 2 is the first beyond the
table; a queue of two with three producers is full, empty and in between; two senders
are one replaced by the next; two program runs let the queue survive one; two
script threads on two slots let a slot be reused while the thread before is still ending,
and a slot be cleared while the other is taken, and number 3 is one the range checks
refuse; two blocks
let a loop follow a plain block or another loop, and an array of nine lines is
outgrown by the longest scripts only; three sockets are one more than there are
free ports. Events of three keys are cut after five characters, which lists of short
keys fill exactly, lists of longer ones exceed by a whole key or in the middle of
one; number 130 is one a signed byte does not hold, 2 the first beyond the clients.
Two lines of a script are what it takes to disturb a handler of the operator between
two uses and then again, or to dispatch to a third one's handler. With `RAND_BITS`
greater than `FLT_BITS` rand() is rounded as it is in the program (31 and 24 bits);
`randomKey` draws two keys of the table and everything from its last place on,
because the interesting values are at the end. The mutants show that the bounds reach the
interesting cases. Bounds of the model alone are named in the CONSTANTS
(`MaxSender`, `MaxLaunch`, `MaxMsg`, `ThreadId`, `MaxFd`, `MaxLog`, `MaxTold`, `Place`,
`MaxLine`).

`CHECK_DEADLOCK FALSE` is set: the system may stop, at a bound (all ids used, all
messages queued), when the program has ended, or where undefined behaviour
ends the model.

### Conditions of the passing runs

What fails in a violation run is kept out of the passing ones by a constant or by a
condition the property names, never by a changed action: `operator` has no scripts and
no suspended logs; `suspend` has no scripts; `locks` stops no thread; the properties of
`handover` except `TypeOK` and `StopEndsItsNumber` speak of behaviours that are not
`mixed`, while any line may be parsed at any time; `ValidIsSent` asks that the list of
keys fits. So a passing run, together with its violation run or the list above, says what
the code relies on.

### Fairness

`FairSpec` of `ClientTable` lets a thread that is inside a handler, the receiver and
the sender continue: they are kernel threads that wait for nothing but `gMutex`.
Weak fairness suffices for taking it because `LockReleased` asks for its release
only. `FairSpec` of `CommandQueue` lets the main thread's handlers, blocked `msgsnd`
calls, senders and pending signals proceed; each is one thread's next step, which
stays enabled. `ScriptEngine` and `SyslogServer` run their one thread. Nothing makes
an operator type, a phone log, or a program start.

## 5. Proofs

Eight modules hold theorems; each theorem is for every value of the constants, so for
any number of clients, threads, messages, ports, any scripts and any command lines.
Every invariant and every action property of a passing run is proved.

| module | theorems (property) |
|---|---|
| `ClientTableProofs` | `TypeCorrect` (TypeOK), `MutualExclusion` (MutexOwned), `OperatorKeepsClients` (ClientsConsistent), `OperatorLeaksNothing` (NoFdLeak), `SenderIsAddressed` (AddressedSend), `ShowTellsWhoIsUsed` (FlagTellsAddress) |
| `CommandChannelProofs` | `ChannelInOrder` (InOrder) |
| `CommandQueueProofs` | `QueueTypeCorrect` (TypeOK), `OneSender` (SendIdNamesSender), `QueueRefinesChannel` (Implements), `MessagesInOrder` |
| `ScriptThreadsProofs` | `ScriptTypeCorrect` (TypeOK), `StopEndsTheRightScript` (StopEndsItsNumber), `ScriptsAreTheirOwn` (RunsItsScript), `NumbersAreNotShared` (OneThreadPerNumber), `ScriptsAreStoppable` (RunningIsStoppable), `AllAreStopped` (StopAllStopsAll) |
| `SyslogServerProofs` | `ReceiverTypeCorrect` (TypeOK), `ReceiverReadsAdvertised` (AdvertisedIsRead), `PhonesAreToldUpwards` (PortsNeverGoBack), `TalksAreCountedOnce` (CountsTalksOnce) |
| `ScriptEngineProofs` | `ScriptEngineTypeCorrect` (TypeOK), `ScriptStaysInside` (StaysInside), `ScriptIsFollowed` (FollowsScript), `ScriptIsCompleted` (CompletesScript) |
| `PhoneCommandsProofs` | `PhoneTypesHold` (TypeOK), `KeysAlwaysFit` (KeysFit), `MessagesNameClients` (ClientBound), `RandomInReach` (RandomStaysInReach), `LinesSentAsTyped` (SentAsTyped), `KeysNeverMistaken` (NeverAnotherKey), `ValidLinesSent` (ValidIsSent) |
| `DataLemmas` | lemmas only |

**ClientTable.** `TypeCorrect` needs that a thread in a section that writes has a client
number in range (`TypeInv`): the range checks of four different handlers make the
unchecked accesses safe, `delClient`'s through the flag getter. `MutexOwned` is
inductive; its proof has one step per action, grouped by what the action does to the
mutex (`MutexOutside`, `Unlock`), and holds for any scripts, logs and stop commands.

Under `Script = {}` and `Suspended = {}` the inductive invariant `OperatorInv` adds to
`ClientsConsistent` and `NoFdLeak` what main knows at each place of its handlers (`MainKnows`: in
`netSocket` the slot is unused, in `addLock2` it owns its socket and its address is in
the line, ...), that the others do not write (`OthersQuiet`), and that every open
descriptor is named by its slot (`OpenIsNamed`). It is needed because the properties
speak of finished clients only, while a step's effect depends on the half-finished one.
`SenderIsAddressed` follows from it: `ClientsConsistent` gives the sender what it needs
when it leaves its section, and of the steps of main only `ClearFlag` of that client
disturbs it afterwards, because whatever `network_config` writes belongs to a slot that
is not in use (`MainLeavesSender`, `NextAddressed`).
The two conditions are necessary: `suspended_twice` shows it for suspended logs, the
first of the further disagreements of section 4 for scripts.

`ShowTellsWhoIsUsed` allows suspended logs, and stops of receiver and sender anywhere;
it asks for `Script = {}` and that no `changeIp` is typed (`NoChangeIp`), whose race with
a log breaks the property (section 4). `LogInv` says which thread is at work on a client
that has an address without being in use (`AddressesAgree`); a thread stopped there
leaves `gMutex` to nobody, after which nothing is claimed.

**CommandQueue.** `OneSender` and the refinement rest on one invariant: room for the
messages that wait in `msgsnd` is left in the model's bound (`RoomLeft`), exactly the
senders at `hold` carry a message (`Carrying`), and the id is passed on from `start` to `stop` or
`quit` and from there to the join (`IdIsPassedOn`, `SignalledIsAwaited`). With a single
sender at a time, the message held and the queue behind it are the channel's pending
commands, and each step is one of the channel or a stutter. `CommandChannelProofs` proves
of the channel that what is delivered is in order (`ChannelInv` adds that pending
commands are later than delivered ones); `MessagesInOrder` obtains the same of
`CommandQueue` through the refinement alone.

**ScriptThreads.** `ScriptTypeCorrect` and `StopEndsTheRightScript` hold without
conditions, whichever lines are parsed over each other: `SlotsNameTheirs` says that a slot
only ever names a thread created for it, because `runScript` takes its number from the
line once, and `stop` takes number and id in one expression. The other four theorems
speak of behaviours that are not `mixed`; `handover_hurried` and the disagreements of
section 4 about `stop` and about loops of 0 rounds show that they must. Their invariant `Inv` adds
`Undisturbed`, what holds while `mixed` is false: scripts are only at work on lines that
leave the slots alone (`Alone`), a thread's number, file and array are those of its request (`Own`),
its slot names it, or is free already while it is ending (`Stoppable`), no two live
threads were created for one number (`OneEach`), and what main knows inside `runScript`,
`stop` and `stop all` (`MainKnows`). It says nothing about which lines are parsed when.

**SyslogServer.** `PortsInv` says that every port below the one told to phones is bound,
by a receiver or by another program: so the least free port is above it. With it, the
messages on their way and what phones have been told are sorted (`ToldInv`). `CountsTalksOnce` speaks of the counters alone and is not
inductive: a log that waits in a socket or is being worked on may still be counted.
`CountsPending` adds these to the counter; then every step moves a log from one place
to the next, or drops it, and only `PhoneLogs` raises both sides.

**ScriptEngine.** `Places` says, for each `pc`, where the engine stands: at the beginning
of a block (`AtBlock`), inside a plain one (`InPlain`), between "loop n" and the end mark
(`InScan`), or in round r behind the k-th command of a loop (`InLoop`); with it, what has
been executed and counted by then. To tie a line number to a block, the first half of
the proof shows what the copied array looks like: the lines of block i begin where
those of the blocks before it end, and the marks lie around its commands. Two places
need care. An empty block leaves the line number where it was, so `SamePlace` moves
from a block to the next one that has lines; and nothing behind a loop without rounds
is executed, so a block's meaning counts only as long as `Passed` holds. `ScriptStaysInside`,
`ScriptIsFollowed` and `ScriptIsCompleted` then read their property off `Places`. Programs,
their number of blocks, counts and commands, the size of the array and what the
uninitialised variables hold are arbitrary.

**PhoneCommands.** What is ahead of a thread is a suffix of the handler it was
dispatched to (`TypeInv`), so what lies behind it (`behind`) is a set of steps, and
`HandlerOrder` lists once for all eight handlers which steps lie behind which
(`InOrder`). `StepKind` reduces every action to four kinds: a thread gives up, has a line
parsed, begins a handler, or goes on by one step whose effect on its locals `Effect`
states. Three invariants follow that scheme. `ClientInv` and `ValueInv` say that a number
taken is within bounds once the step that takes it lies behind, whichever line it came
from and however often the thread was disturbed. `LineInv` says that a thread nobody
has disturbed follows some line (`Follows`: each piece taken so far is that line's),
which is the one it was given or the one `randomKey` composed from it (`lines`). At
`send` everything has been taken, which gives `SentAsTyped`; at a refusal the line
followed is the refused one, which gives `ValidIsSent`. `NeverAnotherKey` and `KeysFit`
rest on `TokensLeft`, what is left of a list of words when it is cut: a beginning of
the list, at most its last word shortened, and no more than `MAX_IOEVT` of them since
each takes two characters. `RandomStaysInReach` rests on `RandomRange`: a number that is
at most M * RANDS, for an M a float holds, is rounded to at most M * RANDS, because that
is a multiple of the unit it is rounded to; both roundings are of this kind. So a value
drawn is at most min + max; the bound is reached when rand() has more bits than a float.

The condition `ClientsFitByte` of three theorems (at most 127 clients, the program has
10) says what the signed byte of the message can hold.

**DataLemmas.** Induction over data is done with sets: a set of numbers that contains 0
and with each number the next one contains all (`Induction`, from `LeastExists`, which is
derived from the library's theorem on strict subset orderings). Stated that way the
provers can instantiate it. It yields what `FlattenSeq` and `SumFunction`, both defined
by recursive functions, compute for every sequence and every finite set.

The assumptions are `NetworkAssumption`, `ThreadAssumption`, `QueueAssumption`,
`ScriptThreadsAssumption`, `ScriptAssumption`, `SyslogAssumption`, `PhoneAssumption` and
`KeyAssumption`, which TLC evaluates in the runs of their modules. `KeyAssumption` is
about the characters of the texts in `gKeyLib` (none is empty, no name begins with
another text of the table): the provers do not look into strings, TLC does.

Only model-checked: all liveness, which is outside TLAPS's reach (`LockReleased`,
`StopReturns`, `OperatorNotStuck`, `QueueDrains`, `ScriptEnds`, `SuspendReaches`).

## 6. Not modelled

* Text: names, formats, file contents beyond kinds of lines; how the number of a client
  is cut out of a log (`getLogClientNum` searches a blank behind it, into `tmpBuff[3]`;
  phones are taken to write one or two digits and a blank); overflows of text
  buffers (`parameter[10]`, `tmpBuff[3]`, `log`), the missing `mtype` of `msgQ_t`, two
  threads inside `strtok` at once.
* Reports (`help`, `look`, the note of `quit`), which print state and change none;
  completion of command names; the Makefile and the bundled readline.
* `setSocket`, `get_cNumAndIpAddr` and `clear_stdin_buff`, which are never called.
* Script threads that issue `start`, `stop` or `quit` for the sender and the receiver
  (CommandQueue has main do it; ReadMe lists these commands for main only).
* Duplicated UDP datagrams; `fclose`d files and memory.

## 7. Plan

1. Done: tables and commands, mutex, queue, script engine, script threads, receiver,
   messages and random commands; refinement of the channel; the proofs of section 5.
2. A composition of `CommandQueue` and `ClientTable` in which a message queued for a
   client reaches the socket that client has when it is sent, with `del` and `add`
   in between.
3. Proofs: `ClientsConsistent` and `NoFdLeak` with scripts that leave `add` to main;
   the composition of step 2.
