---------------------------- MODULE ScriptThreads ----------------------------
(***************************************************************************)
(* How script threads get their number and give it back: runScript creates *)
(* a thread without an argument, and the thread takes its number from      *)
(* gCmdParam[1], the last line anybody parsed, when it comes to run        *)
(* (scriptCmdProcess).  stop ends scripts through the slots of             *)
(* thr_script_id, start erases the names of the files (gScriptParamInit).  *)
(*                                                                         *)
(* Any thread parses lines at any time.  Each read of the shared line and  *)
(* each access to a slot is a step of its own.  No id is given out twice:  *)
(* a pthread call with the id of a thread that has been joined is          *)
(* undefined, and the model ends there (Kill).                             *)
(***************************************************************************)
EXTENDS Integers

CONSTANTS
  MAX_SCRIPT_THREAD,  (* number of slots                                   *)
  Main,               (* the thread that reads the terminal                *)
  ThreadId,           (* ids pthread_create may return, bounds the threads *)
  None,               (* ERROR as a thread id, NULL as an array            *)
  Freed,              (* an array that has been freed                      *)
  File,               (* names of script files that exist                  *)
  NoFile,             (* any text that names none, the empty one included  *)
  PARAM_SC,           (* the word "script"                                 *)
  Number,             (* values atoi(gCmdParam[1]) takes                   *)
  MainLine,           (* lines typed at the terminal                       *)
  ScriptLine          (* lines of the script files                         *)

Slot   == 0 .. MAX_SCRIPT_THREAD - 1
Thread == {Main} \cup ThreadId

(* "other" stands for every command that leaves the slots alone.           *)
Command == {"runScript", "stop", "start", "other"}

(* gCmdParam[0], gParamNum, gCmdParam[1] as a word and as atoi reads it,   *)
(* gCmdParam[2].                                                           *)
CommandLine == [cmd : Command, argc : 0 .. 3, word : {"all", "test", "rec", "number"},
                num : Number, par : File \cup {NoFile, PARAM_SC}]

ASSUME ScriptThreadsAssumption ==
  /\ MAX_SCRIPT_THREAD \in Nat \ {0}
  /\ {Main, None, Freed} \cap ThreadId = {} /\ None # Freed
  /\ Slot \subseteq Number /\ Number \subseteq Int
  /\ {NoFile, PARAM_SC} \cap File = {}
  /\ MainLine \subseteq CommandLine /\ ScriptLine \subseteq CommandLine

VARIABLES
  gCmdParam,      (* the last line parsed, by whichever thread             *)
  thr_script_id,  (* the thread in each slot, None when the slot is free   *)
  gScriptName,    (* the file of each slot                                 *)
  gScriptParam,   (* the array of each slot, named by who allocated it     *)
  pc,             (* where each thread is                                  *)
  loc,            (* locals of a command: scriptNum or index, and scId     *)
  scriptNum,      (* the number a script thread has read                   *)
  scriptFd,       (* the file it has opened                                *)
  killed, joined, (* threads with SIGQUIT pending, threads joined          *)
  strayed,        (* an access outside an array, or to one that is freed   *)
  request,        (* history: what runScript created each thread for       *)
  mixed           (* history: a command for scripts came from a script, a  *)
                  (* thread or stop read the number of another line, or    *)
                  (* runScript took a number under which a script is still *)
                  (* ending                                                *)

slots == <<thr_script_id, gScriptName, gScriptParam>>
each  == <<scriptNum, scriptFd, request>>
ends  == <<killed, joined>>
vars  == <<gCmdParam, slots, pc, loc, each, ends, strayed, mixed>>

NoLine    == [cmd |-> "other", argc |-> 0, word |-> "number", num |-> 0, par |-> NoFile]
NoLocals  == [num |-> 0, scId |-> None]
NoRequest == [num |-> 0, file |-> NoFile]

Init ==
  /\ gCmdParam = NoLine
  /\ thr_script_id = [n \in Slot |-> None]
  /\ gScriptName   = [n \in Slot |-> NoFile]
  /\ gScriptParam  = [n \in Slot |-> None]
  /\ pc  = [t \in Thread |-> IF t = Main THEN "idle" ELSE "none"]
  /\ loc = [t \in Thread |-> NoLocals]
  /\ scriptNum = [i \in ThreadId |-> 0]
  /\ scriptFd  = [i \in ThreadId |-> NoFile]
  /\ request   = [i \in ThreadId |-> NoRequest]
  /\ killed = {} /\ joined = {}
  /\ strayed = FALSE /\ mixed = FALSE

goto(t, l) == pc' = [pc EXCEPT ![t] = l]

(* A function returns: its locals are gone. *)
return(t) == goto(t, "idle") /\ loc' = [loc EXCEPT ![t] = NoLocals]

(* A test in a handler: on to l, or back to the prompt or script. *)
check(t, ok, l) ==
  \/ ok /\ goto(t, l) /\ UNCHANGED loc
  \/ ~ok /\ return(t)

(* setScriptThreadID(k, ERROR) and what lies behind its range check, which *)
(* asks for MIN_CLIENT..MAX_CLIENT: the first number beyond the slots is   *)
(* let through.                                                            *)
clears(k) ==
  /\ thr_script_id' = [n \in Slot |-> IF n = k THEN None ELSE thr_script_id[n]]
  /\ strayed' = (k = MAX_SCRIPT_THREAD)

-----------------------------------------------------------------------------
(* cmd_proc: getTokens replaces gCmdParam, then the handler is looked up   *)
(* by whatever gCmdParam[0] holds.                                         *)

(* The line a script thread executes is read from the array of its slot.   *)
Issue(t) ==
  /\ pc[t] = "idle"
  /\ \/ t = Main /\ gCmdParam' \in MainLine
     \/ /\ t # Main /\ gScriptParam[scriptNum[t]] \notin {None, Freed}
        /\ gCmdParam' \in ScriptLine
  /\ goto(t, "dispatch")
  /\ UNCHANGED <<slots, loc, each, ends, strayed, mixed>>

ArrayStray(i) ==
  /\ pc[i] = "idle" /\ gScriptParam[scriptNum[i]] \in {None, Freed}
  /\ strayed' = TRUE
  /\ UNCHANGED <<gCmdParam, slots, pc, loc, each, ends, mixed>>

Dispatch(t) ==
  /\ pc[t] = "dispatch"
  /\ goto(t, gCmdParam.cmd)
  /\ mixed' = (mixed \/ (t # Main /\ gCmdParam.cmd # "other"))
  /\ UNCHANGED <<gCmdParam, slots, loc, each, ends, strayed>>

(* ioevt and randomKey parse once more (getTokens, cmd_proc).              *)
OtherCommand(t) ==
  /\ pc[t] = "other"
  /\ gCmdParam' \in {gCmdParam} \cup {l \in MainLine \cup ScriptLine : l.cmd = "other"}
  /\ return(t)
  /\ UNCHANGED <<slots, each, ends, strayed, mixed>>

-----------------------------------------------------------------------------
(* start: start rec returns before the names are erased *)

StartArgs(t) ==
  /\ pc[t] = "start"
  /\ check(t, gCmdParam.argc = 1, "isRec")
  /\ UNCHANGED <<gCmdParam, slots, each, ends, strayed, mixed>>

StartRec(t) ==
  /\ pc[t] = "isRec"
  /\ check(t, gCmdParam.word # "rec", "names")
  /\ UNCHANGED <<gCmdParam, slots, each, ends, strayed, mixed>>

(* gScriptParamInit, the last that start and stop all do here. *)
EraseNames(t) ==
  /\ pc[t] = "names"
  /\ gScriptName' = [n \in Slot |-> NoFile]
  /\ return(t)
  /\ UNCHANGED <<gCmdParam, thr_script_id, gScriptParam, each, ends, strayed, mixed>>

-----------------------------------------------------------------------------
(* runScript, with the test mode on *)

RunArgs(t) ==
  /\ pc[t] = "runScript"
  /\ check(t, gCmdParam.argc = 2, "number")
  /\ UNCHANGED <<gCmdParam, slots, each, ends, strayed, mixed>>

(* The range check lets MAX_SCRIPT_THREAD through. *)
RunNumber(t) ==
  /\ pc[t] = "number"
  /\ \/ /\ gCmdParam.num \in 0 .. MAX_SCRIPT_THREAD
        /\ loc' = [loc EXCEPT ![t].num = gCmdParam.num]
        /\ goto(t, "taken")
     \/ gCmdParam.num \notin 0 .. MAX_SCRIPT_THREAD /\ return(t)
  /\ UNCHANGED <<gCmdParam, slots, each, ends, strayed, mixed>>

isFree(n) == n \in Slot => thr_script_id[n] = None

(* A script has no line left, but its thread is still to free its array    *)
(* and to clear its slot.                                                  *)
Ending(i) == pc[i] \in {"free", "exit"}

endsUnder(n) == \E i \in ThreadId : Ending(i) /\ request[i].num = n

(* Mutant: runScript does not look whether the number is taken. *)
RunTakenNot(t) ==
  /\ pc[t] = "taken"
  /\ strayed' = (loc[t].num \notin Slot)
  /\ mixed' = (mixed \/ (isFree(loc[t].num) /\ endsUnder(loc[t].num)))
  /\ goto(t, "name")
  /\ UNCHANGED <<gCmdParam, slots, loc, each, ends>>

(* The slot of a script that is ending is free already when it has met a   *)
(* loop of 0 rounds (LoopRefused).                                         *)
RunTaken(t) ==
  /\ pc[t] = "taken"
  /\ strayed' = (loc[t].num \notin Slot)
  /\ mixed' = (mixed \/ (isFree(loc[t].num) /\ endsUnder(loc[t].num)))
  /\ check(t, isFree(loc[t].num), "name")
  /\ UNCHANGED <<gCmdParam, slots, each, ends>>

RunName(t) ==
  /\ pc[t] = "name"
  /\ gScriptName' = [gScriptName EXCEPT ![loc[t].num] =
                       IF gCmdParam.par \in File THEN gCmdParam.par ELSE NoFile]
  /\ goto(t, "create")
  /\ UNCHANGED <<gCmdParam, thr_script_id, gScriptParam, loc, each, ends, strayed, mixed>>

Create(t, i) ==
  /\ pc[t] = "create" /\ pc[i] = "none"
  /\ pc' = [pc EXCEPT ![t] = "set", ![i] = "new"]
  /\ loc' = [loc EXCEPT ![t].scId = i]
  /\ request' = [request EXCEPT ![i] = [num |-> loc[t].num, file |-> gScriptName[loc[t].num]]]
  /\ UNCHANGED <<gCmdParam, slots, scriptNum, scriptFd, ends, strayed, mixed>>

CreateFails(t) ==
  /\ pc[t] = "create"
  /\ return(t)
  /\ UNCHANGED <<gCmdParam, slots, each, ends, strayed, mixed>>

(* Mutant: the id is stored in the slot behind. *)
SetSlotNext(t) ==
  /\ pc[t] = "set"
  /\ thr_script_id' = [thr_script_id EXCEPT ![(loc[t].num + 1) % MAX_SCRIPT_THREAD] = loc[t].scId]
  /\ return(t)
  /\ UNCHANGED <<gCmdParam, gScriptName, gScriptParam, each, ends, strayed, mixed>>

SetSlot(t) ==
  /\ pc[t] = "set"
  /\ thr_script_id' = [thr_script_id EXCEPT ![loc[t].num] = loc[t].scId]
  /\ return(t)
  /\ UNCHANGED <<gCmdParam, gScriptName, gScriptParam, each, ends, strayed, mixed>>

-----------------------------------------------------------------------------
(* scriptCmdProcess, apart from the order of its lines *)

(* The number is not checked before it indexes gScriptCount: it may be     *)
(* that of another command, and no slot at all.                            *)
Begin(i) ==
  /\ pc[i] = "new"
  /\ scriptNum' = [scriptNum EXCEPT ![i] = gCmdParam.num]
  /\ strayed' = (gCmdParam.num \notin Slot)
  /\ mixed' = (mixed \/ gCmdParam.num # request[i].num)
  /\ goto(i, "open")
  /\ UNCHANGED <<gCmdParam, slots, loc, scriptFd, request, ends>>

Open(i) ==
  /\ pc[i] = "open"
  /\ scriptFd' = [scriptFd EXCEPT ![i] = gScriptName[scriptNum[i]]]
  /\ goto(i, IF gScriptName[scriptNum[i]] = NoFile THEN "exit" ELSE "malloc")
  /\ UNCHANGED <<gCmdParam, slots, loc, scriptNum, request, ends, strayed, mixed>>

Malloc(i) ==
  /\ pc[i] = "malloc"
  /\ \/ /\ gScriptParam' = [gScriptParam EXCEPT ![scriptNum[i]] = i]
        /\ goto(i, "idle")
     \/ /\ gScriptParam' = [gScriptParam EXCEPT ![scriptNum[i]] = None]
        /\ goto(i, "free")
  /\ UNCHANGED <<gCmdParam, thr_script_id, gScriptName, loc, each, ends, strayed, mixed>>

(* The last line is done, or there was none (cp error). *)
End(i) ==
  /\ pc[i] = "idle"
  /\ goto(i, "free")
  /\ UNCHANGED <<gCmdParam, slots, loc, each, ends, strayed, mixed>>

(* The next line is a loop of 0 or fewer rounds: it ends the script and    *)
(* clears the slot, before the array is freed and the slot cleared once    *)
(* more.                                                                   *)
LoopRefused(i) ==
  /\ pc[i] = "idle" /\ gScriptParam[scriptNum[i]] \notin {None, Freed}
  /\ clears(scriptNum[i])
  /\ goto(i, "free")
  /\ UNCHANGED <<gCmdParam, gScriptName, gScriptParam, loc, each, ends, mixed>>

(* free(NULL) does nothing, a second free is undefined. *)
FreeArray(i) ==
  /\ pc[i] = "free"
  /\ strayed' = (gScriptParam[scriptNum[i]] = Freed)
  /\ gScriptParam' = [gScriptParam EXCEPT ![scriptNum[i]] = IF @ = None THEN None ELSE Freed]
  /\ goto(i, "exit")
  /\ UNCHANGED <<gCmdParam, thr_script_id, gScriptName, loc, each, ends, mixed>>

(* pthread_exit: the thread's locals are gone. *)
exits(i) ==
  /\ goto(i, "dead")
  /\ loc' = [loc EXCEPT ![i] = NoLocals]
  /\ scriptNum' = [scriptNum EXCEPT ![i] = 0]
  /\ scriptFd'  = [scriptFd EXCEPT ![i] = NoFile]
  /\ killed' = killed \ {i}

Exit(i) ==
  /\ pc[i] = "exit"
  /\ clears(scriptNum[i])
  /\ exits(i)
  /\ UNCHANGED <<gCmdParam, gScriptName, gScriptParam, request, joined, mixed>>

(* sig_handler ends the thread wherever it is; its slot is not touched. *)
Die(i) ==
  /\ i \in killed
  /\ exits(i)
  /\ UNCHANGED <<gCmdParam, slots, request, joined, strayed, mixed>>

-----------------------------------------------------------------------------
(* stop; stop test and stop rec do not concern scripts. *)

StopArgs(t) ==
  /\ pc[t] = "stop"
  /\ check(t, gCmdParam.argc \in {1, 2}, "isAll")
  /\ UNCHANGED <<gCmdParam, slots, each, ends, strayed, mixed>>

StopWhich(t) ==
  /\ pc[t] = "isAll"
  /\ goto(t, IF gCmdParam.word = "all" THEN "all" ELSE "isScript")
  /\ UNCHANGED <<gCmdParam, slots, loc, each, ends, strayed, mixed>>

StopScript(t) ==
  /\ pc[t] = "isScript"
  /\ check(t, gCmdParam.word \notin {"test", "rec"} /\ gCmdParam.par = PARAM_SC, "range")
  /\ UNCHANGED <<gCmdParam, slots, each, ends, strayed, mixed>>

StopRange(t) ==
  /\ pc[t] = "range"
  /\ check(t, gCmdParam.num \in 0 .. MAX_SCRIPT_THREAD, "id")
  /\ UNCHANGED <<gCmdParam, slots, each, ends, strayed, mixed>>

(* The number is read again; loc.num keeps it for the properties only. *)
StopId(t) ==
  /\ pc[t] = "id"
  /\ strayed' = (gCmdParam.num \notin Slot)
  /\ \/ /\ gCmdParam.num \in Slot /\ thr_script_id[gCmdParam.num] # None
        /\ loc' = [loc EXCEPT ![t] = [num |-> gCmdParam.num, scId |-> thr_script_id[gCmdParam.num]]]
        /\ goto(t, "kill")
     \/ (gCmdParam.num \in Slot => thr_script_id[gCmdParam.num] = None) /\ return(t)
  /\ UNCHANGED <<gCmdParam, slots, each, ends, mixed>>

(* Of a thread that has been joined already nothing is known any more. *)
Kill(t) ==
  /\ pc[t] \in {"kill", "allKill"}
  /\ strayed' = (loc[t].scId \in joined)
  /\ killed' = IF pc[loc[t].scId] = "dead" THEN killed ELSE killed \cup {loc[t].scId}
  /\ goto(t, IF pc[t] = "kill" THEN "join" ELSE "allJoin")
  /\ UNCHANGED <<gCmdParam, slots, loc, each, joined, mixed>>

Join(t) ==
  /\ pc[t] \in {"join", "allJoin"} /\ pc[loc[t].scId] = "dead"
  /\ joined' = joined \cup {loc[t].scId}
  /\ goto(t, IF pc[t] = "join" THEN "clear" ELSE "allClear")
  /\ UNCHANGED <<gCmdParam, slots, loc, each, killed, strayed, mixed>>

(* Which slot is cleared is read from the line once more. *)
ClearSlot(t) ==
  /\ pc[t] = "clear"
  /\ clears(gCmdParam.num)
  /\ mixed' = (mixed \/ gCmdParam.num # loc[t].num)
  /\ return(t)
  /\ UNCHANGED <<gCmdParam, gScriptName, gScriptParam, each, ends>>

-----------------------------------------------------------------------------
(* stop all: one slot after the other, loc.num being the index *)

(* Mutant: the loop over the slots is off by one. *)
AllIdBeyond(t) ==
  /\ pc[t] = "all"
  /\ \/ /\ loc[t].num \in Slot /\ thr_script_id[loc[t].num] = None
        /\ loc' = [loc EXCEPT ![t].num = @ + 1]
        /\ UNCHANGED pc
     \/ /\ loc[t].num \in Slot /\ thr_script_id[loc[t].num] # None
        /\ loc' = [loc EXCEPT ![t].scId = thr_script_id[loc[t].num]]
        /\ goto(t, "allKill")
     \/ /\ loc[t].num = MAX_SCRIPT_THREAD
        /\ loc' = [loc EXCEPT ![t].num = @ + 1]
        /\ goto(t, "names")
  /\ UNCHANGED <<gCmdParam, slots, each, ends, strayed, mixed>>

(* Mutant: the last slot is left out. *)
AllIdShort(t) ==
  /\ pc[t] = "all"
  /\ \/ /\ loc[t].num \in Slot /\ thr_script_id[loc[t].num] = None
        /\ loc' = [loc EXCEPT ![t].num = @ + 1]
        /\ UNCHANGED pc
     \/ /\ loc[t].num \in Slot /\ thr_script_id[loc[t].num] # None
        /\ loc' = [loc EXCEPT ![t].scId = thr_script_id[loc[t].num]]
        /\ goto(t, "allKill")
     \/ loc[t].num = MAX_SCRIPT_THREAD - 1 /\ goto(t, "names") /\ UNCHANGED loc
  /\ UNCHANGED <<gCmdParam, slots, each, ends, strayed, mixed>>

AllId(t) ==
  /\ pc[t] = "all"
  /\ \/ /\ loc[t].num \in Slot /\ thr_script_id[loc[t].num] = None
        /\ loc' = [loc EXCEPT ![t].num = @ + 1]
        /\ UNCHANGED pc
     \/ /\ loc[t].num \in Slot /\ thr_script_id[loc[t].num] # None
        /\ loc' = [loc EXCEPT ![t].scId = thr_script_id[loc[t].num]]
        /\ goto(t, "allKill")
     \/ loc[t].num \notin Slot /\ goto(t, "names") /\ UNCHANGED loc
  /\ UNCHANGED <<gCmdParam, slots, each, ends, strayed, mixed>>

AllClear(t) ==
  /\ pc[t] = "allClear"
  /\ clears(loc[t].num)
  /\ loc' = [loc EXCEPT ![t].num = @ + 1]
  /\ goto(t, "all")
  /\ UNCHANGED <<gCmdParam, gScriptName, gScriptParam, each, ends, mixed>>

-----------------------------------------------------------------------------
Handler(t) ==
  \/ Issue(t) \/ Dispatch(t) \/ OtherCommand(t)
  \/ StartArgs(t) \/ StartRec(t) \/ EraseNames(t)
  \/ RunArgs(t) \/ RunNumber(t) \/ RunTaken(t) \/ RunName(t)
  \/ CreateFails(t) \/ SetSlot(t)
  \/ StopArgs(t) \/ StopWhich(t) \/ StopScript(t) \/ StopRange(t) \/ StopId(t)
  \/ Kill(t) \/ Join(t) \/ ClearSlot(t)
  \/ AllId(t) \/ AllClear(t)

ScriptThread(i) ==
  \/ Begin(i) \/ Open(i) \/ Malloc(i) \/ ArrayStray(i)
  \/ End(i) \/ LoopRefused(i) \/ FreeArray(i) \/ Exit(i) \/ Die(i)

Step ==
  \/ \E t \in Thread : Handler(t) \/ (\E i \in ThreadId : Create(t, i))
  \/ \E i \in ThreadId : ScriptThread(i)

(* Undefined behaviour: nothing is said of the program from there on.      *)
Next == ~strayed /\ Step

Spec == Init /\ [][Next]_vars
-----------------------------------------------------------------------------
(* Properties *)

Label == Command \cup
  {"idle", "dispatch", "isRec", "names", "number", "taken", "name", "create", "set",
   "isAll", "isScript", "range", "id", "kill", "join", "clear",
   "all", "allKill", "allJoin", "allClear",
   "none", "new", "open", "malloc", "free", "exit", "dead"}

(* Every variable keeps its type: an array is only left through the three  *)
(* reads of a number that end the model (strayed).                         *)
TypeOK ==
  /\ gCmdParam \in CommandLine
  /\ thr_script_id \in [Slot -> ThreadId \cup {None}]
  /\ gScriptName \in [Slot -> File \cup {NoFile}]
  /\ gScriptParam \in [Slot -> ThreadId \cup {None, Freed}]
  /\ pc \in [Thread -> Label]
  /\ loc \in [Thread -> [num : 0 .. MAX_SCRIPT_THREAD, scId : ThreadId \cup {None}]]
  /\ scriptNum \in [ThreadId -> Number]
  /\ scriptFd \in [ThreadId -> File \cup {NoFile}]
  /\ request \in [ThreadId -> [num : Slot, file : File \cup {NoFile}]]
  /\ killed \subseteq ThreadId /\ joined \subseteq ThreadId
  /\ strayed \in BOOLEAN /\ mixed \in BOOLEAN

(* Thread i has been created and has not ended.                            *)
Live(i) == pc[i] \notin {"none", "dead"}

(* It executes the lines of its script.                                    *)
Running(i) == pc[i] \notin {"none", "new", "open", "malloc", "free", "exit", "dead"}

(* "stop 1(thread num) script" (ReadMe.txt:126): the thread stop is about  *)
(* to end is one that runScript created for the number stop has read,      *)
(* whichever lines are parsed over each other, and however many threads    *)
(* start and stop scripts (runScript, at_cmdProc.c:836; stop, 726).        *)
StopEndsItsNumber ==
  \A t \in Thread : pc[t] \in {"kill", "allKill"} =>
    request[loc[t].scId].num = loc[t].num

(* As long as only main has started and stopped scripts, no thread has     *)
(* read the number of another line (scriptCmdProcess, at_cmdProc.c:1022;   *)
(* stop, 732), and no runScript has taken a number while a script that met *)
(* a loop of 0 rounds was still ending under it (at_cmdProc.c:1089-1105),  *)
(* a thread that executes lines has opened the file it was created for and *)
(* reads an array of its own that nobody has freed.                        *)
RunsItsScript ==
  ~mixed => \A i \in ThreadId : Running(i) =>
    scriptFd[i] = request[i].file /\ gScriptParam[scriptNum[i]] = i

(* Under the same condition no two threads work under one number, so they  *)
(* neither count each other's rounds nor free each other's array and slot. *)
OneThreadPerNumber ==
  ~mixed => \A i, j \in ThreadId :
    Running(i) /\ Running(j) /\ i # j => scriptNum[i] # scriptNum[j]

(* "stop 1(thread num) script" (ReadMe.txt:126): under the same condition  *)
(* a script can be stopped from the moment runScript returns until it has  *)
(* no line left: its slot names it (setScriptThreadID, at_cmdProc.c:836,   *)
(* 1089 and 1105).                                                         *)
RunningIsStoppable ==
  ~mixed => \A i \in ThreadId : Live(i) /\ ~Ending(i) =>
    \/ thr_script_id[request[i].num] = i
    \/ pc[Main] = "set" /\ loc[Main].scId = i

(* Under the same condition, once stop all erases the names, no script has *)
(* a line left (at_cmdProc.c:692-700).                                     *)
StopAllStopsAll ==
  [][~mixed /\ pc[Main] = "all" /\ pc'[Main] = "names" =>
       \A i \in ThreadId : (Live(i) => Ending(i))']_vars

(* "runScript 1(script num:0-9) script.txt" (ReadMe.txt:42): whichever     *)
(* lines are parsed, a script thread that executes lines runs the file     *)
(* runScript was given, under the number it was given.                     *)
RunsAsAsked ==
  \A i \in ThreadId : Running(i) =>
    [num |-> scriptNum[i], file |-> scriptFd[i]] = request[i]
=============================================================================
