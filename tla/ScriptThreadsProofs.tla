-------------------------- MODULE ScriptThreadsProofs --------------------------
(***************************************************************************)
(* Theorems about ScriptThreads, for any number of slots, threads, files   *)
(* and commands, and for lines parsed by any thread at any time.           *)
(***************************************************************************)
EXTENDS ScriptThreads, TLAPS

(* Where a command uses its locals, and where stop has chosen a thread. *)
Chosen  == {"kill", "join", "clear", "allKill", "allJoin", "allClear"}
Holding == Chosen \cup {"taken", "name", "create", "set", "all", "names"}

LocalsOK ==
  \A t \in Thread :
    /\ pc[t] \notin Holding => loc[t] = NoLocals
    /\ pc[t] \in {"name", "create"} => strayed \/ loc[t].num \in Slot
    /\ pc[t] \in {"set"} \cup Chosen => loc[t].num \in Slot /\ loc[t].scId \in ThreadId

NumbersOK ==
  \A i \in ThreadId : pc[i] \notin {"none", "new", "dead"} => strayed \/ scriptNum[i] \in Slot

TypeInv == TypeOK /\ LocalsOK /\ NumbersOK

LEMMA SlotFacts ==
  /\ MAX_SCRIPT_THREAD \in Nat /\ 0 \in Slot /\ Slot \subseteq 0 .. MAX_SCRIPT_THREAD
  /\ \A n \in Slot : n + 1 \in 0 .. MAX_SCRIPT_THREAD
  /\ \A n \in 0 .. MAX_SCRIPT_THREAD : n \notin Slot => n = MAX_SCRIPT_THREAD
  /\ NoLocals \in [num : 0 .. MAX_SCRIPT_THREAD, scId : ThreadId \cup {None}]
  /\ NoRequest \in [num : Slot, file : File \cup {NoFile}]
BY ScriptThreadsAssumption DEF Slot, NoLocals, NoRequest

LEMMA LineFacts ==
  ASSUME NEW l \in CommandLine
  PROVE  l.cmd \in Command /\ l.num \in Number
BY DEF CommandLine

LEMMA InitTypeInv == Init => TypeInv
<1> SUFFICES ASSUME Init PROVE TypeInv
  OBVIOUS
<1>1. gCmdParam \in CommandLine
  BY ScriptThreadsAssumption, SlotFacts DEF Init, NoLine, CommandLine, Command
<1>2. request \in [ThreadId -> [num : Slot, file : File \cup {NoFile}]]
  BY SlotFacts DEF Init
<1>3. loc \in [Thread -> [num : 0 .. MAX_SCRIPT_THREAD, scId : ThreadId \cup {None}]]
  BY SlotFacts DEF Init
<1>4. 0 \in Number
  BY ScriptThreadsAssumption, SlotFacts
<1>5. TypeOK
  BY <1>1, <1>2, <1>3, <1>4 DEF Init, TypeOK, Label
<1>6. LocalsOK /\ NumbersOK
  BY ScriptThreadsAssumption DEF Init, LocalsOK, NumbersOK, Holding, Chosen, Thread
<1> QED
  BY <1>5, <1>6 DEF TypeInv

LEMMA ClearsType ==
  ASSUME TypeOK, NEW k, clears(k)
  PROVE  thr_script_id' \in [Slot -> ThreadId \cup {None}] /\ strayed' \in BOOLEAN
BY DEF TypeOK, clears

(* A thread takes a step: only its own locals change. *)
LEMMA StepLocals ==
  ASSUME TypeInv, ~strayed, NEW t \in Thread, NEW l, goto(t, l),
         NEW r, loc' = [loc EXCEPT ![t] = r],
         l \notin Holding => r = NoLocals,
         l \in {"name", "create"} => strayed' \/ r.num \in Slot,
         l \in {"set"} \cup Chosen => r.num \in Slot /\ r.scId \in ThreadId
  PROVE  LocalsOK'
BY DEF TypeInv, TypeOK, LocalsOK, goto

(* What only speaks of where a thread is and of its locals. *)
PlacesOK ==
  /\ pc \in [Thread -> Label]
  /\ loc \in [Thread -> [num : 0 .. MAX_SCRIPT_THREAD, scId : ThreadId \cup {None}]]
  /\ LocalsOK /\ NumbersOK

(* A thread goes on inside its command, or to the next one. *)
LEMMA GoesOn ==
  ASSUME TypeInv, ~strayed, NEW t \in Thread, pc[t] \notin {"none", "new", "dead"},
         NEW l \in Label \ {"none", "new", "dead"}, goto(t, l),
         NEW r \in [num : 0 .. MAX_SCRIPT_THREAD, scId : ThreadId \cup {None}],
         loc' = [loc EXCEPT ![t] = r], UNCHANGED scriptNum,
         l \notin Holding => r = NoLocals,
         l \in {"name", "create"} => strayed' \/ r.num \in Slot,
         l \in {"set"} \cup Chosen => r.num \in Slot /\ r.scId \in ThreadId
  PROVE  PlacesOK'
<1>1. LocalsOK'
  BY StepLocals
<1>2. NumbersOK'
  BY DEF TypeInv, TypeOK, NumbersOK, goto
<1> QED
  BY <1>1, <1>2 DEF TypeInv, TypeOK, PlacesOK, goto

(* The labels at which a step leaves other locals than it found. *)
LEMMA LabelFacts ==
  \A l \in {"taken", "all", "allKill", "names"} :
    /\ l \in Label \ {"none", "new", "dead"} /\ l \in Holding
    /\ l \notin {"name", "create"}
    /\ l # "allKill" => l \notin {"set"} \cup Chosen
BY DEF Label, Holding, Chosen

LEMMA Moves ==
  ASSUME TypeInv, ~strayed, NEW t \in Thread, pc[t] \notin {"none", "new", "dead"},
         NEW l \in Label \ {"none", "new", "dead"}, goto(t, l), UNCHANGED <<loc, scriptNum>>,
         l \notin Holding => pc[t] \notin Holding,
         l \in {"name", "create"} => strayed' \/ loc[t].num \in Slot,
         l \in {"set"} \cup Chosen => pc[t] \in {"set"} \cup Chosen
  PROVE  PlacesOK'
<1>1. /\ loc[t] \in [num : 0 .. MAX_SCRIPT_THREAD, scId : ThreadId \cup {None}]
      /\ loc' = [loc EXCEPT ![t] = loc[t]]
  BY DEF TypeInv, TypeOK
<1>2. /\ l \notin Holding => loc[t] = NoLocals
      /\ l \in {"set"} \cup Chosen => loc[t].num \in Slot /\ loc[t].scId \in ThreadId
  BY DEF TypeInv, LocalsOK
<1> HIDE DEF Holding, Chosen
<1> QED
  BY <1>1, <1>2, GoesOn

LEMMA Returns ==
  ASSUME TypeInv, ~strayed, NEW t \in Thread, pc[t] \notin {"none", "new", "dead"},
         return(t), UNCHANGED scriptNum
  PROVE  PlacesOK'
<1>1. "idle" \in Label \ {"none", "new", "dead"} /\ "idle" \notin Holding /\ "idle" \notin Chosen
  BY DEF Label, Holding, Chosen
<1> QED
  BY <1>1, SlotFacts, GoesOn DEF return

LEMMA Checks ==
  ASSUME TypeInv, ~strayed, NEW t \in Thread, pc[t] \notin {"none", "new", "dead"},
         NEW ok, NEW l \in Label \ {"none", "new", "dead"}, check(t, ok, l), UNCHANGED scriptNum,
         l \notin Holding => pc[t] \notin Holding,
         l \in {"name", "create"} /\ ok => strayed' \/ loc[t].num \in Slot,
         l \notin {"set"} \cup Chosen
  PROVE  PlacesOK'
BY Moves, Returns DEF check

LEMMA CommandTypeInv ==
  ASSUME TypeInv, ~strayed, NEW t \in Thread,
         Issue(t) \/ Dispatch(t) \/ OtherCommand(t)
         \/ StartArgs(t) \/ StartRec(t) \/ EraseNames(t)
  PROVE  TypeInv'
<1> USE DEF slots, each, ends
<1>1. CASE Issue(t)
  <2>1. PlacesOK'
    BY <1>1, Moves DEF Issue, Label, Holding, Chosen
  <2> QED
    BY <1>1, <2>1, ScriptThreadsAssumption DEF Issue, TypeInv, TypeOK, PlacesOK
<1>2. CASE Dispatch(t)
  <2>1. gCmdParam.cmd \in Command
    BY LineFacts DEF TypeInv, TypeOK
  <2>2. PlacesOK'
    BY <1>2, <2>1, Moves DEF Dispatch, Label, Command, Holding, Chosen
  <2> QED
    BY <1>2, <2>2 DEF Dispatch, TypeInv, TypeOK, PlacesOK
<1>3. CASE OtherCommand(t)
  <2>1. PlacesOK'
    BY <1>3, Returns DEF OtherCommand
  <2>2. gCmdParam' \in CommandLine
    BY <1>3, ScriptThreadsAssumption DEF OtherCommand, TypeInv, TypeOK
  <2> QED
    BY <1>3, <2>1, <2>2 DEF OtherCommand, TypeInv, TypeOK, PlacesOK
<1>4. CASE StartArgs(t)
  <2>1. PlacesOK'
    BY <1>4, Checks DEF StartArgs, Label, Holding, Chosen
  <2> QED
    BY <1>4, <2>1 DEF StartArgs, TypeInv, TypeOK, PlacesOK
<1>5. CASE StartRec(t)
  <2>1. PlacesOK'
    BY <1>5, Checks DEF StartRec, Label, Holding, Chosen
  <2> QED
    BY <1>5, <2>1 DEF StartRec, TypeInv, TypeOK, PlacesOK
<1>6. CASE EraseNames(t)
  <2>1. PlacesOK'
    BY <1>6, Returns DEF EraseNames
  <2> QED
    BY <1>6, <2>1 DEF EraseNames, TypeInv, TypeOK, PlacesOK
<1> QED
  BY <1>1, <1>2, <1>3, <1>4, <1>5, <1>6

LEMMA RunTypeInv ==
  ASSUME TypeInv, ~strayed, NEW t \in Thread,
         \/ RunArgs(t) \/ RunNumber(t) \/ RunTaken(t) \/ RunName(t)
         \/ CreateFails(t) \/ SetSlot(t)
         \/ \E i \in ThreadId : Create(t, i)
  PROVE  TypeInv'
<1> USE DEF slots, each, ends
<1>1. CASE RunArgs(t)
  <2>1. PlacesOK'
    BY <1>1, Checks DEF RunArgs, Label, Holding, Chosen
  <2> QED
    BY <1>1, <2>1 DEF RunArgs, TypeInv, TypeOK, PlacesOK
<1>2. CASE RunNumber(t)
  <2>1. PlacesOK'
    <3>1. CASE return(t)
      BY <1>2, <3>1, Returns DEF RunNumber
    <3>2. CASE /\ gCmdParam.num \in 0 .. MAX_SCRIPT_THREAD
               /\ loc' = [loc EXCEPT ![t].num = gCmdParam.num] /\ goto(t, "taken")
      <4>1. /\ [loc[t] EXCEPT !.num = gCmdParam.num]
                 \in [num : 0 .. MAX_SCRIPT_THREAD, scId : ThreadId \cup {None}]
            /\ loc' = [loc EXCEPT ![t] = [loc[t] EXCEPT !.num = gCmdParam.num]]
        BY <3>2 DEF TypeInv, TypeOK
      <4> QED
        BY <1>2, <3>2, <4>1, LabelFacts, GoesOn DEF RunNumber
    <3> QED
      BY <1>2, <3>1, <3>2 DEF RunNumber
  <2> QED
    BY <1>2, <2>1 DEF RunNumber, TypeInv, TypeOK, PlacesOK
<1>3. CASE RunTaken(t)
  <2>1. PlacesOK'
    BY <1>3, Checks DEF RunTaken, Label, Holding, Chosen
  <2> QED
    BY <1>3, <2>1 DEF RunTaken, TypeInv, TypeOK, PlacesOK
<1>4. CASE RunName(t)
  <2>1. loc[t].num \in Slot
    BY <1>4 DEF RunName, TypeInv, LocalsOK
  <2>2. PlacesOK'
    BY <1>4, <2>1, Moves DEF RunName, Label, Holding, Chosen
  <2> QED
    BY <1>4, <2>2 DEF RunName, TypeInv, TypeOK, PlacesOK
<1>5. CASE CreateFails(t)
  <2>1. PlacesOK'
    BY <1>5, Returns DEF CreateFails
  <2> QED
    BY <1>5, <2>1 DEF CreateFails, TypeInv, TypeOK, PlacesOK
<1>6. CASE SetSlot(t)
  <2>1. PlacesOK'
    BY <1>6, Returns DEF SetSlot
  <2>2. loc[t].scId \in ThreadId
    BY <1>6 DEF SetSlot, TypeInv, LocalsOK
  <2> QED
    BY <1>6, <2>1, <2>2 DEF SetSlot, TypeInv, TypeOK, PlacesOK
<1>7. ASSUME NEW i \in ThreadId, Create(t, i) PROVE TypeInv'
  <2>1. loc[t].num \in Slot
    BY <1>7 DEF Create, TypeInv, LocalsOK
  <2>2. [num |-> loc[t].num, file |-> gScriptName[loc[t].num]] \in [num : Slot, file : File \cup {NoFile}]
    BY <2>1 DEF TypeInv, TypeOK
  <2>3. pc' \in [Thread -> Label]
    BY <1>7 DEF Create, TypeInv, TypeOK, Label
  <2>4. loc' \in [Thread -> [num : 0 .. MAX_SCRIPT_THREAD, scId : ThreadId \cup {None}]]
    BY <1>7 DEF Create, TypeInv, TypeOK
  <2>5. LocalsOK'
    <3> SUFFICES ASSUME NEW u \in Thread PROVE
          /\ pc'[u] \notin Holding => loc'[u] = NoLocals
          /\ pc'[u] \in {"name", "create"} => strayed' \/ loc'[u].num \in Slot
          /\ pc'[u] \in {"set"} \cup Chosen => loc'[u].num \in Slot /\ loc'[u].scId \in ThreadId
      BY DEF LocalsOK
    <3>1. CASE u = t
      <4>1. pc'[u] = "set"
        BY <1>7, <3>1 DEF Create, TypeInv, TypeOK, Thread
      <4>2. loc'[u].num = loc[t].num /\ loc'[u].scId = i
        BY <1>7, <3>1 DEF Create, TypeInv, TypeOK
      <4> QED
        BY <2>1, <4>1, <4>2 DEF Holding, Chosen
    <3>2. CASE u # t /\ u = i
      BY <1>7, <3>2 DEF Create, TypeInv, TypeOK, LocalsOK, Thread, Holding, Chosen
    <3>3. CASE u # t /\ u # i
      BY <1>7, <3>3 DEF Create, TypeInv, TypeOK, LocalsOK, Thread
    <3> QED
      BY <3>1, <3>2, <3>3
  <2>6. NumbersOK'
    BY <1>7 DEF Create, TypeInv, TypeOK, NumbersOK, Thread
  <2> QED
    BY <1>7, <2>2, <2>3, <2>4, <2>5, <2>6 DEF Create, TypeInv, TypeOK
<1> QED
  BY <1>1, <1>2, <1>3, <1>4, <1>5, <1>6, <1>7

LEMMA StopTypeInv ==
  ASSUME TypeInv, ~strayed, NEW t \in Thread,
         \/ StopArgs(t) \/ StopWhich(t) \/ StopScript(t) \/ StopRange(t) \/ StopId(t)
         \/ Kill(t) \/ Join(t) \/ ClearSlot(t) \/ AllId(t) \/ AllClear(t)
  PROVE  TypeInv'
<1> USE DEF slots, each, ends
<1>1. CASE StopArgs(t)
  <2>1. PlacesOK'
    BY <1>1, Checks DEF StopArgs, Label, Holding, Chosen
  <2> QED
    BY <1>1, <2>1 DEF StopArgs, TypeInv, TypeOK, PlacesOK
<1>2. CASE StopWhich(t)
  <2>1. PlacesOK'
    BY <1>2, Moves DEF StopWhich, Label, Holding, Chosen
  <2> QED
    BY <1>2, <2>1 DEF StopWhich, TypeInv, TypeOK, PlacesOK
<1>3. CASE StopScript(t)
  <2>1. PlacesOK'
    BY <1>3, Checks DEF StopScript, Label, Holding, Chosen
  <2> QED
    BY <1>3, <2>1 DEF StopScript, TypeInv, TypeOK, PlacesOK
<1>4. CASE StopRange(t)
  <2>1. PlacesOK'
    BY <1>4, Checks DEF StopRange, Label, Holding, Chosen
  <2> QED
    BY <1>4, <2>1 DEF StopRange, TypeInv, TypeOK, PlacesOK
<1>5. CASE StopId(t)
  <2>1. PlacesOK'
    <3>1. CASE return(t)
      BY <1>5, <3>1, Returns DEF StopId
    <3>2. CASE /\ gCmdParam.num \in Slot /\ thr_script_id[gCmdParam.num] # None
               /\ loc' = [loc EXCEPT ![t] = [num |-> gCmdParam.num, scId |-> thr_script_id[gCmdParam.num]]]
               /\ goto(t, "kill")
      <4>1. thr_script_id[gCmdParam.num] \in ThreadId
        BY <3>2 DEF TypeInv, TypeOK
      <4>2. DEFINE r == [num |-> gCmdParam.num, scId |-> thr_script_id[gCmdParam.num]]
      <4>3. /\ r \in [num : 0 .. MAX_SCRIPT_THREAD, scId : ThreadId \cup {None}]
            /\ r.num \in Slot /\ r.scId \in ThreadId
        BY <3>2, <4>1, SlotFacts
      <4>4. loc' = [loc EXCEPT ![t] = r]
        BY <3>2
      <4> HIDE DEF r
      <4> QED
        BY <1>5, <3>2, <4>3, <4>4, GoesOn DEF StopId, Label, Holding, Chosen
    <3> QED
      BY <1>5, <3>1, <3>2 DEF StopId
  <2> QED
    BY <1>5, <2>1 DEF StopId, TypeInv, TypeOK, PlacesOK
<1>6. CASE Kill(t)
  <2>1. PlacesOK'
    BY <1>6, Moves DEF Kill, Label, Holding, Chosen
  <2>2. loc[t].scId \in ThreadId
    BY <1>6 DEF Kill, TypeInv, LocalsOK, Chosen
  <2> QED
    BY <1>6, <2>1, <2>2 DEF Kill, TypeInv, TypeOK, PlacesOK
<1>7. CASE Join(t)
  <2>1. PlacesOK'
    BY <1>7, Moves DEF Join, Label, Holding, Chosen
  <2>2. loc[t].scId \in ThreadId
    BY <1>7 DEF Join, TypeInv, LocalsOK, Chosen
  <2> QED
    BY <1>7, <2>1, <2>2 DEF Join, TypeInv, TypeOK, PlacesOK
<1>8. CASE ClearSlot(t)
  <2>1. PlacesOK'
    BY <1>8, Returns DEF ClearSlot
  <2>2. thr_script_id' \in [Slot -> ThreadId \cup {None}] /\ strayed' \in BOOLEAN
    BY <1>8, ClearsType DEF ClearSlot, TypeInv
  <2> QED
    BY <1>8, <2>1, <2>2 DEF ClearSlot, TypeInv, TypeOK, PlacesOK
<1>9. CASE AllId(t)
  <2>1. pc[t] = "all" /\ UNCHANGED scriptNum
    BY <1>9 DEF AllId
  <2>2. loc[t] \in [num : 0 .. MAX_SCRIPT_THREAD, scId : ThreadId \cup {None}]
    BY DEF TypeInv, TypeOK
  <2>3. ASSUME loc[t].num \in Slot, loc' = [loc EXCEPT ![t].num = @ + 1], UNCHANGED pc
        PROVE  PlacesOK'
    <3>1. goto(t, "all")
      BY <1>9, <2>3 DEF AllId, goto, TypeInv, TypeOK
    <3>2. DEFINE r == [loc[t] EXCEPT !.num = @ + 1]
    <3>3. /\ r \in [num : 0 .. MAX_SCRIPT_THREAD, scId : ThreadId \cup {None}]
          /\ loc' = [loc EXCEPT ![t] = r]
      BY <2>2, <2>3, SlotFacts DEF TypeInv, TypeOK
    <3> HIDE DEF r
    <3> QED
      BY <2>1, <3>1, <3>3, LabelFacts, GoesOn
  <2>4. ASSUME loc[t].num \in Slot, thr_script_id[loc[t].num] # None,
               loc' = [loc EXCEPT ![t].scId = thr_script_id[loc[t].num]], goto(t, "allKill")
        PROVE  PlacesOK'
    <3>1. thr_script_id[loc[t].num] \in ThreadId
      BY <2>4 DEF TypeInv, TypeOK
    <3>2. loc' = [loc EXCEPT ![t] = [loc[t] EXCEPT !.scId = thr_script_id[loc[t].num]]]
      BY <2>4 DEF TypeInv, TypeOK
    <3>3. DEFINE r == [loc[t] EXCEPT !.scId = thr_script_id[loc[t].num]]
    <3>4. /\ r \in [num : 0 .. MAX_SCRIPT_THREAD, scId : ThreadId \cup {None}]
          /\ r.num \in Slot /\ r.scId \in ThreadId
      BY <2>2, <2>4, <3>1
    <3>5. loc' = [loc EXCEPT ![t] = r]
      BY <3>2
    <3> HIDE DEF r
    <3> QED
      BY <2>1, <2>4, <3>4, <3>5, LabelFacts, GoesOn
  <2>5. ASSUME goto(t, "names"), UNCHANGED loc PROVE PlacesOK'
    <3>1. loc' = [loc EXCEPT ![t] = loc[t]]
      BY <2>5 DEF TypeInv, TypeOK
    <3> QED
      BY <2>1, <2>2, <2>5, <3>1, LabelFacts, GoesOn
  <2>6. PlacesOK'
    BY <1>9, <2>3, <2>4, <2>5 DEF AllId
  <2> QED
    BY <1>9, <2>6 DEF AllId, TypeInv, TypeOK, PlacesOK
<1>10. CASE AllClear(t)
  <2>1. loc[t] \in [num : 0 .. MAX_SCRIPT_THREAD, scId : ThreadId \cup {None}] /\ loc[t].num \in Slot
    BY <1>10 DEF AllClear, TypeInv, TypeOK, LocalsOK, Chosen
  <2>2. DEFINE r == [loc[t] EXCEPT !.num = @ + 1]
  <2>3. /\ r \in [num : 0 .. MAX_SCRIPT_THREAD, scId : ThreadId \cup {None}]
        /\ loc' = [loc EXCEPT ![t] = r]
    BY <1>10, <2>1, SlotFacts DEF AllClear, TypeInv, TypeOK
  <2>4. PlacesOK'
    <3>1. pc[t] = "allClear" /\ goto(t, "all") /\ UNCHANGED scriptNum
      BY <1>10 DEF AllClear
    <3> HIDE DEF r
    <3> QED
      BY <2>3, <3>1, LabelFacts, GoesOn
  <2>5. thr_script_id' \in [Slot -> ThreadId \cup {None}] /\ strayed' \in BOOLEAN
    BY <1>10, ClearsType DEF AllClear, TypeInv
  <2> QED
    BY <1>10, <2>4, <2>5 DEF AllClear, TypeInv, TypeOK, PlacesOK
<1> QED
  BY <1>1, <1>2, <1>3, <1>4, <1>5, <1>6, <1>7, <1>8, <1>9, <1>10

LEMMA ThreadTypeInv ==
  ASSUME TypeInv, ~strayed, NEW i \in ThreadId, ScriptThread(i)
  PROVE  TypeInv'
<1> USE DEF slots, each, ends
<1> i \in Thread
  BY DEF Thread
<1>1. CASE Begin(i)
  <2>1. gCmdParam.num \in Number
    BY LineFacts DEF TypeInv, TypeOK
  <2>2. LocalsOK'
    <3>1. loc[i] = NoLocals
      BY <1>1 DEF Begin, TypeInv, LocalsOK, Holding, Chosen
    <3>2. loc' = [loc EXCEPT ![i] = loc[i]]
      BY <1>1 DEF Begin, TypeInv, TypeOK
    <3>3. "open" \notin {"name", "create"} /\ "open" \notin {"set"} \cup Chosen
      BY DEF Chosen
    <3>4. goto(i, "open")
      BY <1>1 DEF Begin
    <3> QED
      BY <3>1, <3>2, <3>3, <3>4, StepLocals
  <2>3. NumbersOK'
    <3>1. strayed' \/ gCmdParam.num \in Slot
      BY <1>1 DEF Begin
    <3>2. /\ scriptNum' = [scriptNum EXCEPT ![i] = gCmdParam.num]
          /\ pc' = [pc EXCEPT ![i] = "open"]
      BY <1>1 DEF Begin, goto
    <3> QED
      BY <3>1, <3>2 DEF TypeInv, TypeOK, NumbersOK
  <2>4. pc' \in [Thread -> Label]
    BY <1>1 DEF Begin, TypeInv, TypeOK, goto, Label
  <2> QED
    BY <1>1, <2>1, <2>2, <2>3, <2>4 DEF Begin, TypeInv, TypeOK
<1>2. CASE Open(i)
  <2>1. scriptNum[i] \in Slot
    BY <1>2 DEF Open, TypeInv, NumbersOK
  <2>2. PlacesOK'
    BY <1>2, Moves DEF Open, Label, Holding, Chosen
  <2> QED
    BY <1>2, <2>1, <2>2 DEF Open, TypeInv, TypeOK, PlacesOK
<1>3. CASE Malloc(i)
  <2>1. PlacesOK'
    BY <1>3, Moves DEF Malloc, Label, Holding, Chosen
  <2> QED
    BY <1>3, <2>1 DEF Malloc, TypeInv, TypeOK, PlacesOK
<1>4. CASE ArrayStray(i)
  BY <1>4 DEF ArrayStray, TypeInv, TypeOK, LocalsOK, NumbersOK
<1>5. CASE End(i)
  <2>1. PlacesOK'
    BY <1>5, Moves DEF End, Label, Holding, Chosen
  <2> QED
    BY <1>5, <2>1 DEF End, TypeInv, TypeOK, PlacesOK
<1>6. CASE LoopRefused(i)
  <2>1. PlacesOK'
    BY <1>6, Moves DEF LoopRefused, Label, Holding, Chosen
  <2>2. thr_script_id' \in [Slot -> ThreadId \cup {None}] /\ strayed' \in BOOLEAN
    BY <1>6, ClearsType DEF LoopRefused, TypeInv
  <2> QED
    BY <1>6, <2>1, <2>2 DEF LoopRefused, TypeInv, TypeOK, PlacesOK
<1>7. CASE FreeArray(i)
  <2>1. PlacesOK'
    BY <1>7, Moves DEF FreeArray, Label, Holding, Chosen
  <2> QED
    BY <1>7, <2>1 DEF FreeArray, TypeInv, TypeOK, PlacesOK
<1>8. ASSUME exits(i) PROVE PlacesOK'
  <2>1. LocalsOK'
    <3>1. "dead" \notin {"name", "create"} /\ "dead" \notin {"set"} \cup Chosen
      BY DEF Chosen
    <3> QED
      BY <1>8, <3>1, StepLocals DEF exits
  <2>2. NumbersOK'
    BY <1>8 DEF exits, TypeInv, TypeOK, NumbersOK, goto
  <2> QED
    BY <1>8, <2>1, <2>2, SlotFacts DEF exits, TypeInv, TypeOK, PlacesOK, goto, Label
<1>9. 0 \in Number
  BY ScriptThreadsAssumption, SlotFacts
<1>10. CASE Exit(i)
  <2>1. thr_script_id' \in [Slot -> ThreadId \cup {None}] /\ strayed' \in BOOLEAN
    BY <1>10, ClearsType DEF Exit, TypeInv
  <2> QED
    BY <1>8, <1>9, <1>10, <2>1 DEF Exit, exits, TypeInv, TypeOK, PlacesOK
<1>11. CASE Die(i)
  BY <1>8, <1>9, <1>11 DEF Die, exits, TypeInv, TypeOK, PlacesOK
<1> QED
  BY <1>1, <1>2, <1>3, <1>4, <1>5, <1>6, <1>7, <1>10, <1>11 DEF ScriptThread

LEMMA NextTypeInv == TypeInv /\ [Next]_vars => TypeInv'
<1> SUFFICES ASSUME TypeInv, [Next]_vars PROVE TypeInv'
  OBVIOUS
<1>1. CASE UNCHANGED vars
  BY <1>1 DEF vars, slots, each, ends, TypeInv, TypeOK, LocalsOK, NumbersOK
<1>2. CASE Next
  BY <1>2, CommandTypeInv, RunTypeInv, StopTypeInv, ThreadTypeInv DEF Next, Step, Handler
<1> QED
  BY <1>1, <1>2

(* Whoever parses a line, and whenever: the slots, the names, the arrays   *)
(* and what each thread holds keep their types.                            *)
THEOREM ScriptTypeCorrect == Spec => []TypeOK
<1>1. TypeInv => TypeOK
  BY DEF TypeInv
<1> QED
  BY <1>1, InitTypeInv, NextTypeInv, PTL DEF Spec

-----------------------------------------------------------------------------
(* Which threads the slots and stop know. *)

(* A slot, and a command that has created or chosen a thread, only names   *)
(* one that was created for its number.                                    *)
SlotsNameTheirs ==
  /\ \A n \in Slot : thr_script_id[n] # None =>
       request[thr_script_id[n]].num = n /\ pc[thr_script_id[n]] # "none"
  /\ \A t \in Thread : pc[t] \in {"set"} \cup Chosen =>
       request[loc[t].scId].num = loc[t].num /\ pc[loc[t].scId] # "none"

LEMMA InitSlots == Init => SlotsNameTheirs
BY ScriptThreadsAssumption DEF Init, SlotsNameTheirs, Chosen, Thread

LEMMA KeepsTheirs ==
  ASSUME TypeInv, SlotsNameTheirs, NEW t \in Thread, NEW l, goto(t, l), l # "none",
         UNCHANGED request,
         \A n \in Slot : \/ thr_script_id'[n] \in {thr_script_id[n], None}
                         \/ /\ request[thr_script_id'[n]].num = n
                            /\ pc[thr_script_id'[n]] # "none",
         \A u \in Thread \ {t} : loc'[u] = loc[u],
         l \in {"set"} \cup Chosen =>
           request[loc'[t].scId].num = loc'[t].num /\ pc[loc'[t].scId] # "none"
  PROVE  SlotsNameTheirs'
<1>1. \A u : pc[u] # "none" => pc'[u] # "none"
  BY DEF TypeInv, TypeOK, goto
<1>2. \A u \in Thread \ {t} : pc'[u] = pc[u]
  BY DEF TypeInv, TypeOK, goto
<1>3. pc'[t] = l
  BY DEF TypeInv, TypeOK, goto
<1> QED
  BY <1>1, <1>2, <1>3 DEF SlotsNameTheirs

(* Nothing that SlotsNameTheirs speaks of changes. *)
Quiet(t) ==
  /\ UNCHANGED <<thr_script_id, request>>
  /\ \A u \in Thread \ {t} : loc'[u] = loc[u]
  /\ \E l : goto(t, l) /\ l # "none" /\ l \notin {"set"} \cup Chosen

LEMMA QuietKeeps ==
  ASSUME TypeInv, SlotsNameTheirs, NEW t \in Thread, Quiet(t)
  PROVE  SlotsNameTheirs'
<1>1. PICK l : goto(t, l) /\ l # "none" /\ l \notin {"set"} \cup Chosen
  BY DEF Quiet
<1>2. /\ UNCHANGED <<thr_script_id, request>>
      /\ \A u \in Thread \ {t} : loc'[u] = loc[u]
  BY DEF Quiet
<1> QED
  BY <1>1, <1>2, KeepsTheirs

LEMMA HandlersQuiet ==
  ASSUME TypeInv, NEW t \in Thread,
         \/ Issue(t) \/ Dispatch(t) \/ OtherCommand(t)
         \/ StartArgs(t) \/ StartRec(t) \/ EraseNames(t)
         \/ RunArgs(t) \/ RunNumber(t) \/ RunTaken(t) \/ RunName(t) \/ CreateFails(t)
         \/ StopArgs(t) \/ StopWhich(t) \/ StopScript(t) \/ StopRange(t)
  PROVE  Quiet(t)
<1> USE DEF slots, each, ends
<1>1. gCmdParam.cmd \in Command
  BY LineFacts DEF TypeInv, TypeOK
<1>2. \A l \in Command \cup {"idle", "dispatch", "isRec", "names", "number", "taken", "name",
                              "create", "isAll", "isScript", "range", "id", "all"} :
        l # "none" /\ l \notin {"set"} \cup Chosen
  BY DEF Command, Chosen
<1>3. ASSUME return(t) PROVE /\ goto(t, "idle") /\ \A u \in Thread \ {t} : loc'[u] = loc[u]
  BY <1>3 DEF return, TypeInv, TypeOK
<1>4. CASE Issue(t) \/ Dispatch(t)
  BY <1>1, <1>2, <1>4 DEF Issue, Dispatch, Quiet
<1>5. CASE OtherCommand(t) \/ EraseNames(t) \/ CreateFails(t)
  BY <1>2, <1>3, <1>5 DEF OtherCommand, EraseNames, CreateFails, Quiet
<1>6. CASE StartArgs(t) \/ StartRec(t) \/ RunArgs(t) \/ RunTaken(t)
  BY <1>2, <1>3, <1>6 DEF StartArgs, StartRec, RunArgs, RunTaken, check, Quiet
<1>7. CASE StopArgs(t) \/ StopScript(t) \/ StopRange(t)
  BY <1>2, <1>3, <1>7 DEF StopArgs, StopScript, StopRange, check, Quiet
<1>8. CASE RunNumber(t)
  BY <1>2, <1>3, <1>8 DEF RunNumber, Quiet, TypeInv, TypeOK
<1>9. CASE RunName(t) \/ StopWhich(t)
  BY <1>2, <1>9 DEF RunName, StopWhich, Quiet
<1> QED
  BY <1>4, <1>5, <1>6, <1>7, <1>8, <1>9

LEMMA HandlerSlots ==
  ASSUME TypeInv, SlotsNameTheirs, ~strayed, NEW t \in Thread,
         \/ SetSlot(t) \/ StopId(t) \/ Kill(t) \/ Join(t) \/ ClearSlot(t)
         \/ AllId(t) \/ AllClear(t) \/ \E i \in ThreadId : Create(t, i)
  PROVE  SlotsNameTheirs'
<1> USE DEF slots, each, ends
<1>1. ASSUME return(t)
      PROVE  /\ goto(t, "idle") /\ \A u \in Thread \ {t} : loc'[u] = loc[u]
             /\ "idle" # "none" /\ "idle" \notin {"set"} \cup Chosen
  BY <1>1 DEF return, TypeInv, TypeOK, Chosen
<1>2. CASE SetSlot(t)
  <2>1. /\ loc[t].num \in Slot
        /\ request[loc[t].scId].num = loc[t].num /\ pc[loc[t].scId] # "none"
    BY <1>2 DEF SetSlot, TypeInv, LocalsOK, SlotsNameTheirs
  <2>2. \A n \in Slot : \/ thr_script_id'[n] = thr_script_id[n]
                        \/ thr_script_id'[n] = loc[t].scId /\ n = loc[t].num
    BY <1>2 DEF SetSlot, TypeInv, TypeOK
  <2> QED
    BY <1>1, <1>2, <2>1, <2>2, KeepsTheirs DEF SetSlot
<1>3. CASE StopId(t)
  <2>1. CASE return(t)
    BY <1>1, <1>3, <2>1, KeepsTheirs DEF StopId
  <2>2. ASSUME gCmdParam.num \in Slot, thr_script_id[gCmdParam.num] # None,
               loc' = [loc EXCEPT ![t] = [num |-> gCmdParam.num, scId |-> thr_script_id[gCmdParam.num]]],
               goto(t, "kill")
        PROVE  SlotsNameTheirs'
    <3>1. /\ loc'[t].num = gCmdParam.num /\ loc'[t].scId = thr_script_id[gCmdParam.num]
          /\ \A u \in Thread \ {t} : loc'[u] = loc[u]
      BY <2>2 DEF TypeInv, TypeOK
    <3>2. /\ request[thr_script_id[gCmdParam.num]].num = gCmdParam.num
          /\ pc[thr_script_id[gCmdParam.num]] # "none"
      BY <2>2 DEF SlotsNameTheirs
    <3>3. UNCHANGED <<thr_script_id, request>>
      BY <1>3 DEF StopId
    <3> QED
      BY <2>2, <3>1, <3>2, <3>3, KeepsTheirs
  <2> QED
    BY <1>3, <2>1, <2>2 DEF StopId
<1>4. CASE Kill(t) \/ Join(t)
  <2>1. request[loc[t].scId].num = loc[t].num /\ pc[loc[t].scId] # "none"
    BY <1>4 DEF Kill, Join, SlotsNameTheirs, Chosen
  <2>2. PICK l \in {"join", "allJoin", "clear", "allClear"} : goto(t, l)
    BY <1>4 DEF Kill, Join
  <2>3. UNCHANGED <<thr_script_id, request, loc>> /\ l # "none"
    BY <1>4 DEF Kill, Join
  <2> QED
    BY <2>1, <2>2, <2>3, KeepsTheirs
<1>5. ASSUME NEW k, clears(k) PROVE \A n \in Slot : thr_script_id'[n] \in {thr_script_id[n], None}
  BY <1>5 DEF clears
<1>6. CASE ClearSlot(t)
  BY <1>1, <1>5, <1>6, KeepsTheirs DEF ClearSlot
<1>7. CASE AllId(t)
  <2>1. UNCHANGED <<thr_script_id, request>> /\ pc[t] = "all"
    BY <1>7 DEF AllId
  <2>2. ASSUME loc[t].num \in Slot, thr_script_id[loc[t].num] # None,
               loc' = [loc EXCEPT ![t].scId = thr_script_id[loc[t].num]], goto(t, "allKill")
        PROVE  SlotsNameTheirs'
    <3>1. /\ loc'[t].num = loc[t].num /\ loc'[t].scId = thr_script_id[loc[t].num]
          /\ \A u \in Thread \ {t} : loc'[u] = loc[u]
      BY <2>2 DEF TypeInv, TypeOK
    <3>2. /\ request[thr_script_id[loc[t].num]].num = loc[t].num
          /\ pc[thr_script_id[loc[t].num]] # "none"
      BY <2>2 DEF SlotsNameTheirs
    <3> QED
      BY <2>1, <2>2, <3>1, <3>2, KeepsTheirs
  <2>3. ASSUME loc' = [loc EXCEPT ![t].num = @ + 1], UNCHANGED pc PROVE Quiet(t)
    <3>1. goto(t, "all") /\ "all" \notin {"set"} \cup Chosen
      BY <2>1, <2>3 DEF goto, TypeInv, TypeOK, Chosen
    <3>2. \A u \in Thread \ {t} : loc'[u] = loc[u]
      BY <2>3 DEF TypeInv, TypeOK
    <3> QED
      BY <2>1, <3>1, <3>2 DEF Quiet
  <2>4. ASSUME goto(t, "names"), UNCHANGED loc PROVE Quiet(t)
    <3>1. "names" \notin {"set"} \cup Chosen
      BY DEF Chosen
    <3> QED
      BY <2>1, <2>4, <3>1 DEF Quiet
  <2> QED
    BY <1>7, <2>2, <2>3, <2>4, QuietKeeps DEF AllId
<1>8. CASE AllClear(t)
  <2>1. \A u \in Thread \ {t} : loc'[u] = loc[u]
    BY <1>8 DEF AllClear, TypeInv, TypeOK
  <2>2. "all" \notin {"set"} \cup Chosen
    BY DEF Chosen
  <2> QED
    BY <1>5, <1>8, <2>1, <2>2, KeepsTheirs DEF AllClear
<1>9. ASSUME NEW i \in ThreadId, Create(t, i) PROVE SlotsNameTheirs'
  <2>1. \A j \in ThreadId : pc[j] # "none" => j # i /\ pc'[j] # "none" /\ request'[j] = request[j]
    BY <1>9 DEF Create, TypeInv, TypeOK, Thread
  <2>2. \A n \in Slot : thr_script_id[n] \in ThreadId \cup {None}
    BY DEF TypeInv, TypeOK
  <2>3. \A n \in Slot : thr_script_id'[n] # None =>
          request'[thr_script_id'[n]].num = n /\ pc'[thr_script_id'[n]] # "none"
    <3>1. UNCHANGED thr_script_id
      BY <1>9 DEF Create
    <3>2. \A n \in Slot : thr_script_id[n] # None =>
            /\ thr_script_id[n] \in ThreadId
            /\ request[thr_script_id[n]].num = n /\ pc[thr_script_id[n]] # "none"
      BY <2>2 DEF SlotsNameTheirs
    <3> QED
      BY <2>1, <3>1, <3>2
  <2>4. ASSUME NEW u \in Thread, pc'[u] \in {"set"} \cup Chosen
        PROVE  request'[loc'[u].scId].num = loc'[u].num /\ pc'[loc'[u].scId] # "none"
    <3>1. CASE u = t
      <4>1. loc'[t].scId = i /\ loc'[t].num = loc[t].num
        BY <1>9 DEF Create, TypeInv, TypeOK
      <4>2. request'[i].num = loc[t].num
        BY <1>9 DEF Create, TypeInv, TypeOK
      <4>3. pc'[i] # "none"
        BY <1>9 DEF Create, TypeInv, TypeOK, Thread
      <4> QED
        BY <3>1, <4>1, <4>2, <4>3
    <3>2. CASE u # t
      <4>1. u # i /\ pc'[u] = pc[u] /\ loc'[u] = loc[u]
        BY <1>9, <2>4, <3>2 DEF Create, TypeInv, TypeOK, Thread, Chosen
      <4>2. /\ loc[u].scId \in ThreadId /\ pc[loc[u].scId] # "none"
            /\ request[loc[u].scId].num = loc[u].num
        BY <2>4, <4>1 DEF SlotsNameTheirs, TypeInv, LocalsOK
      <4> QED
        BY <2>1, <4>1, <4>2
    <3> QED
      BY <3>1, <3>2
  <2> QED
    BY <2>3, <2>4 DEF SlotsNameTheirs
<1> QED
  BY <1>2, <1>3, <1>4, <1>6, <1>7, <1>8, <1>9

LEMMA ThreadSlots ==
  ASSUME TypeInv, SlotsNameTheirs, ~strayed, NEW i \in ThreadId, ScriptThread(i)
  PROVE  SlotsNameTheirs'
<1> USE DEF slots, each, ends
<1> i \in Thread
  BY DEF Thread
<1>1. \A l \in {"open", "exit", "malloc", "idle", "free", "dead"} :
        l # "none" /\ l \notin {"set"} \cup Chosen
  BY DEF Chosen
<1>2. CASE Begin(i) \/ Open(i) \/ Malloc(i) \/ End(i) \/ FreeArray(i)
  <2>1. Quiet(i)
    BY <1>1, <1>2 DEF Begin, Open, Malloc, End, FreeArray, Quiet
  <2> QED
    BY <2>1, QuietKeeps
<1>3. CASE ArrayStray(i)
  BY <1>3 DEF ArrayStray, SlotsNameTheirs
<1>4. ASSUME NEW k, clears(k) PROVE \A n \in Slot : thr_script_id'[n] \in {thr_script_id[n], None}
  BY <1>4 DEF clears
<1>5. CASE LoopRefused(i)
  BY <1>1, <1>4, <1>5, KeepsTheirs DEF LoopRefused
<1>6. ASSUME exits(i) PROVE goto(i, "dead") /\ \A u \in Thread \ {i} : loc'[u] = loc[u]
  BY <1>6 DEF exits, TypeInv, TypeOK
<1>7. CASE Exit(i)
  BY <1>1, <1>4, <1>6, <1>7, KeepsTheirs DEF Exit
<1>8. CASE Die(i)
  BY <1>1, <1>6, <1>8, KeepsTheirs DEF Die
<1> QED
  BY <1>2, <1>3, <1>5, <1>7, <1>8 DEF ScriptThread

LEMMA NextSlots == TypeInv /\ SlotsNameTheirs /\ [Next]_vars => SlotsNameTheirs'
<1> SUFFICES ASSUME TypeInv, SlotsNameTheirs, [Next]_vars PROVE SlotsNameTheirs'
  OBVIOUS
<1>1. CASE UNCHANGED vars
  BY <1>1 DEF vars, slots, each, ends, SlotsNameTheirs
<1>2. CASE Next
  BY <1>2, HandlersQuiet, QuietKeeps, HandlerSlots, ThreadSlots DEF Next, Step, Handler
<1> QED
  BY <1>1, <1>2

(* However many threads start and stop scripts, and whichever lines are    *)
(* parsed over each other, stop and stop all only end threads that were    *)
(* created for the number they have read (at_cmdProc.c:726, 693).          *)
THEOREM StopEndsTheRightScript == Spec => []StopEndsItsNumber
<1>1. Init => TypeInv /\ SlotsNameTheirs
  BY InitTypeInv, InitSlots
<1>2. TypeInv /\ SlotsNameTheirs /\ [Next]_vars => (TypeInv /\ SlotsNameTheirs)'
  BY NextTypeInv, NextSlots
<1>3. SlotsNameTheirs => StopEndsItsNumber
  BY DEF SlotsNameTheirs, StopEndsItsNumber, Chosen
<1> QED
  BY <1>1, <1>2, <1>3, PTL DEF Spec

-----------------------------------------------------------------------------
(* What holds while only main starts and stops scripts, no thread reads    *)
(* the number of another line, and runScript takes no number under which a *)
(* script is still ending (~mixed).                                        *)

(* Script threads only execute other commands. *)
Alone ==
  \A i \in ThreadId : pc[i] \in {"none", "new", "open", "malloc", "idle", "dispatch", "other",
                                 "free", "exit", "dead"}

(* A thread has, or will read, what it was created for. *)
Own ==
  \A i \in ThreadId :
    /\ pc[i] \notin {"none", "new", "dead"} => scriptNum[i] = request[i].num
    /\ pc[i] \in {"new", "open"} => gScriptName[request[i].num] \in {request[i].file, NoFile}
    /\ pc[i] \in {"malloc", "idle", "dispatch", "other"} => scriptFd[i] = request[i].file
    /\ pc[i] \in {"idle", "dispatch", "other"} => gScriptParam[request[i].num] = i

(* The slot of a number names its thread until that thread is ending. *)
Stoppable ==
  \A i \in ThreadId : Live(i) =>
    \/ thr_script_id[request[i].num] = i
    \/ pc[Main] = "set" /\ loc[Main].scId = i
    \/ Ending(i) /\ thr_script_id[request[i].num] = None

(* No two threads were created for one number. *)
OneEach ==
  \A i, j \in ThreadId : Live(i) /\ Live(j) /\ request[i].num = request[j].num => i = j

(* What main knows inside runScript, stop and stop all. *)
OnlyHas(n, S) == \A j \in ThreadId : Live(j) /\ request[j].num = n => j \in S

MainKnows ==
  /\ pc[Main] \in {"name", "create"} => OnlyHas(loc[Main].num, {})
  /\ pc[Main] \in {"set"} \cup Chosen => OnlyHas(loc[Main].num, {loc[Main].scId})
  /\ pc[Main] \in {"clear", "allClear"} => pc[loc[Main].scId] = "dead"
  /\ pc[Main] \in {"all", "allKill", "allJoin", "allClear"} =>
       \A j \in ThreadId : Live(j) => Ending(j) \/ request[j].num >= loc[Main].num

Undisturbed == Alone /\ Own /\ Stoppable /\ OneEach /\ MainKnows

Inv == TypeInv /\ SlotsNameTheirs /\ (mixed \/ Undisturbed)

LEMMA MainFacts == Main \in Thread /\ Main \notin ThreadId /\ \A i \in ThreadId : i # None /\ i \in Thread
BY ScriptThreadsAssumption DEF Thread

LEMMA InitInv == Init => Inv
<1> SUFFICES ASSUME Init PROVE Inv
  OBVIOUS
<1>1. \A i \in ThreadId : pc[i] = "none"
  BY MainFacts DEF Init
<1>2. pc[Main] = "idle" /\ "idle" \notin Chosen
  BY MainFacts DEF Init, Chosen
<1>3. Undisturbed
  BY <1>1, <1>2 DEF Undisturbed, Alone, Own, Stoppable, OneEach, MainKnows, Live
<1> QED
  BY <1>3, InitTypeInv, InitSlots DEF Inv

(* Main goes on; names may be erased. *)
LEMMA MainMoves ==
  ASSUME Undisturbed, TypeInv, pc[Main] # "set", \A i \in ThreadId : pc'[i] = pc[i],
         UNCHANGED <<thr_script_id, gScriptParam, scriptNum, scriptFd, request>>,
         \A n \in Slot : gScriptName'[n] \in {gScriptName[n], NoFile},
         MainKnows'
  PROVE  Undisturbed'
<1>1. Alone'
  BY DEF Undisturbed, Alone
<1>2. \A i \in ThreadId : request[i].num \in Slot
  BY DEF TypeInv, TypeOK
<1>3. Own'
  BY <1>2 DEF Undisturbed, Own
<1>4. Stoppable' /\ OneEach'
  BY DEF Undisturbed, Stoppable, OneEach, Live, Ending
<1> QED
  BY <1>1, <1>3, <1>4 DEF Undisturbed

LEMMA MainLeaves ==
  ASSUME Undisturbed, TypeInv, pc[Main] # "set",
         NEW l, goto(Main, l), l \notin {"name", "create", "set", "all"} \cup Chosen,
         UNCHANGED <<thr_script_id, gScriptParam, scriptNum, scriptFd, request>>,
         \A n \in Slot : gScriptName'[n] \in {gScriptName[n], NoFile}
  PROVE  Undisturbed'
<1>1. pc'[Main] = l /\ \A i \in ThreadId : pc'[i] = pc[i]
  BY MainFacts DEF goto, TypeInv, TypeOK
<1>2. {"allKill", "allJoin", "clear", "allClear"} \subseteq Chosen
  BY DEF Chosen
<1>3. MainKnows'
  BY <1>1, <1>2 DEF MainKnows
<1> QED
  BY <1>1, <1>3, MainMoves

LEMMA MainCommands ==
  ASSUME Undisturbed, TypeInv,
         \/ Issue(Main) \/ Dispatch(Main) \/ OtherCommand(Main)
         \/ StartArgs(Main) \/ StartRec(Main) \/ EraseNames(Main)
         \/ RunArgs(Main) \/ RunNumber(Main) \/ CreateFails(Main)
         \/ StopArgs(Main) \/ StopScript(Main) \/ StopRange(Main)
  PROVE  Undisturbed'
<1> USE DEF slots, each, ends
<1>1. gCmdParam.cmd \in Command
  BY LineFacts DEF TypeInv, TypeOK
<1>2. \A l \in Command \cup {"idle", "dispatch", "isRec", "names", "number", "taken",
                              "isAll", "isScript", "range", "id"} :
        l \notin {"name", "create", "set", "all"} \cup Chosen
  BY DEF Command, Chosen
<1>3. CASE Issue(Main) \/ Dispatch(Main)
  BY <1>1, <1>2, <1>3, MainLeaves DEF Issue, Dispatch
<1>4. CASE OtherCommand(Main) \/ EraseNames(Main) \/ CreateFails(Main)
  BY <1>2, <1>4, MainLeaves DEF OtherCommand, EraseNames, CreateFails, return
<1>5. CASE StartArgs(Main) \/ StartRec(Main) \/ RunArgs(Main)
  BY <1>2, <1>5, MainLeaves DEF StartArgs, StartRec, RunArgs, check, return
<1>6. CASE StopArgs(Main) \/ StopScript(Main) \/ StopRange(Main)
  BY <1>2, <1>6, MainLeaves DEF StopArgs, StopScript, StopRange, check, return
<1>7. CASE RunNumber(Main)
  BY <1>2, <1>7, MainLeaves DEF RunNumber, return
<1> QED
  BY <1>3, <1>4, <1>5, <1>6, <1>7

LEMMA MainRuns ==
  ASSUME Undisturbed, TypeInv, SlotsNameTheirs, ~strayed, ~mixed',
         \/ RunTaken(Main) \/ RunName(Main) \/ SetSlot(Main)
         \/ \E i \in ThreadId : Create(Main, i)
  PROVE  Undisturbed'
<1> USE MainFacts DEF slots, each, ends
<1>1. \A i \in ThreadId : request[i].num \in Slot
  BY DEF TypeInv, TypeOK
<1>2. CASE RunTaken(Main)
  <2>1. CASE return(Main)
    <3>1. "idle" \notin {"name", "create", "set", "all"} \cup Chosen
      BY DEF Chosen
    <3> QED
      BY <1>2, <2>1, <3>1, MainLeaves DEF RunTaken, return
  <2>2. ASSUME isFree(loc[Main].num), goto(Main, "name"), UNCHANGED loc
        PROVE  Undisturbed'
    <3>1. OnlyHas(loc[Main].num, {})
      <4>1. pc[Main] = "taken" /\ ~endsUnder(loc[Main].num)
        BY <1>2, <2>2 DEF RunTaken
      <4> QED
        BY <1>1, <2>2, <4>1 DEF Undisturbed, Stoppable, OnlyHas, isFree, endsUnder
    <3>2. pc'[Main] = "name" /\ \A i \in ThreadId : pc'[i] = pc[i]
      BY <2>2 DEF goto, TypeInv, TypeOK
    <3>3. "name" \notin {"set"} \cup Chosen
      BY DEF Chosen
    <3>4. UNCHANGED <<slots, scriptNum, scriptFd, request>> /\ pc[Main] # "set"
      BY <1>2 DEF RunTaken
    <3>5. MainKnows'
      BY <2>2, <3>1, <3>2, <3>3, <3>4 DEF MainKnows, OnlyHas, Live
    <3> QED
      BY <3>2, <3>4, <3>5, MainMoves
  <2> QED
    BY <1>2, <2>1, <2>2 DEF RunTaken, check
<1>3. CASE RunName(Main)
  <2>1. loc[Main].num \in Slot /\ OnlyHas(loc[Main].num, {})
    BY <1>3 DEF RunName, TypeInv, LocalsOK, Undisturbed, MainKnows
  <2>2. \A n \in Slot : n # loc[Main].num => gScriptName'[n] = gScriptName[n]
    BY <1>3 DEF RunName, TypeInv, TypeOK
  <2>3. /\ pc'[Main] = "create" /\ \A i \in ThreadId : pc'[i] = pc[i]
        /\ "create" \notin {"set"} \cup Chosen
    BY <1>3 DEF RunName, goto, TypeInv, TypeOK, Chosen
  <2>4. UNCHANGED <<thr_script_id, gScriptParam, loc, scriptNum, scriptFd, request>>
    BY <1>3 DEF RunName
  <2>5. Alone'
    BY <2>3 DEF Undisturbed, Alone
  <2>6. Own'
    <3>1. \A i \in ThreadId : pc[i] \in {"new", "open"} => gScriptName'[request[i].num] = gScriptName[request[i].num]
      BY <1>1, <2>1, <2>2 DEF OnlyHas, Live
    <3> QED
      BY <2>3, <2>4, <3>1 DEF Undisturbed, Own
  <2>7. Stoppable' /\ OneEach'
    BY <1>3, <2>3, <2>4 DEF RunName, Undisturbed, Stoppable, OneEach, Live, Ending
  <2>8. MainKnows'
    BY <2>1, <2>3, <2>4 DEF MainKnows, OnlyHas, Live
  <2> QED
    BY <2>5, <2>6, <2>7, <2>8 DEF Undisturbed
<1>4. CASE SetSlot(Main)
  <2>1. /\ loc[Main].num \in Slot /\ OnlyHas(loc[Main].num, {loc[Main].scId})
        /\ request[loc[Main].scId].num = loc[Main].num
    BY <1>4 DEF SetSlot, TypeInv, LocalsOK, SlotsNameTheirs, Undisturbed, MainKnows
  <2>2. \A n \in Slot : thr_script_id'[n] = IF n = loc[Main].num THEN loc[Main].scId ELSE thr_script_id[n]
    BY <1>4 DEF SetSlot, TypeInv, TypeOK
  <2>3. pc'[Main] = "idle" /\ \A i \in ThreadId : pc'[i] = pc[i]
    BY <1>4 DEF SetSlot, return, goto, TypeInv, TypeOK
  <2>4. UNCHANGED <<gScriptName, gScriptParam, scriptNum, scriptFd, request>>
    BY <1>4 DEF SetSlot
  <2>5. Alone' /\ Own' /\ OneEach'
    BY <2>3, <2>4 DEF Undisturbed, Alone, Own, OneEach, Live
  <2>6. Stoppable'
    <3> SUFFICES ASSUME NEW i \in ThreadId, Live(i)
                 PROVE  \/ thr_script_id'[request[i].num] = i
                        \/ Ending(i) /\ thr_script_id'[request[i].num] = None
      BY <2>3, <2>4 DEF Stoppable, Live, Ending
    <3>1. CASE i = loc[Main].scId
      BY <2>1, <2>2, <3>1
    <3>2. CASE i # loc[Main].scId
      <4>1. request[i].num # loc[Main].num
        BY <2>1, <3>2 DEF OnlyHas
      <4>2. \/ thr_script_id[request[i].num] = i
            \/ Ending(i) /\ thr_script_id[request[i].num] = None
        BY <3>2 DEF Undisturbed, Stoppable
      <4> QED
        BY <1>1, <2>2, <4>1, <4>2
    <3> QED
      BY <3>1, <3>2
  <2>7. MainKnows'
    BY <2>3 DEF MainKnows, Chosen
  <2> QED
    BY <2>5, <2>6, <2>7 DEF Undisturbed
<1>5. ASSUME NEW i \in ThreadId, Create(Main, i) PROVE Undisturbed'
  <2>1. /\ loc[Main].num \in Slot /\ OnlyHas(loc[Main].num, {}) /\ pc[i] = "none"
        /\ pc[Main] = "create"
    BY <1>5 DEF Create, TypeInv, LocalsOK, Undisturbed, MainKnows
  <2>2. /\ pc'[Main] = "set" /\ pc'[i] = "new"
        /\ \A j \in ThreadId \ {i} : pc'[j] = pc[j] /\ request'[j] = request[j]
    BY <1>5 DEF Create, TypeInv, TypeOK
  <2>3. loc'[Main].scId = i /\ loc'[Main].num = loc[Main].num
    BY <1>5 DEF Create, TypeInv, TypeOK
  <2>4. request'[i].num = loc[Main].num /\ request'[i].file = gScriptName[loc[Main].num]
    BY <1>5 DEF Create, TypeInv, TypeOK
  <2>5. UNCHANGED <<slots, scriptNum, scriptFd>>
    BY <1>5 DEF Create
  <2>6. Alone'
    BY <2>2 DEF Undisturbed, Alone
  <2>7. Own'
    BY <2>2, <2>4, <2>5 DEF Undisturbed, Own
  <2>8. Stoppable' /\ OneEach'
    <3>1. Stoppable'
      BY <2>1, <2>2, <2>3, <2>5 DEF Undisturbed, Stoppable, Live, Ending
    <3>2. OneEach'
      BY <2>1, <2>2, <2>4 DEF Undisturbed, OneEach, OnlyHas, Live
    <3> QED
      BY <3>1, <3>2
  <2>9. MainKnows'
    <3>1. OnlyHas(loc[Main].num, {i})'
      BY <2>1, <2>2, <2>3 DEF OnlyHas, Live
    <3>2. "set" \notin {"name", "create", "clear", "allClear", "all", "allKill", "allJoin"}
      OBVIOUS
    <3> QED
      BY <2>2, <2>3, <3>1, <3>2 DEF MainKnows, OnlyHas
  <2> QED
    BY <2>6, <2>7, <2>8, <2>9 DEF Undisturbed
<1> QED
  BY <1>2, <1>3, <1>4, <1>5

LEMMA MainStops ==
  ASSUME Undisturbed, TypeInv, SlotsNameTheirs, ~strayed, ~mixed',
         \/ StopWhich(Main) \/ StopId(Main) \/ Kill(Main) \/ Join(Main) \/ ClearSlot(Main)
         \/ AllId(Main) \/ AllClear(Main)
  PROVE  Undisturbed'
<1> USE MainFacts DEF slots, each, ends
<1>1. \A i \in ThreadId : request[i].num \in Slot
  BY DEF TypeInv, TypeOK
<1>2. ASSUME NEW l, goto(Main, l) PROVE pc'[Main] = l /\ \A i \in ThreadId : pc'[i] = pc[i]
  BY <1>2 DEF goto, TypeInv, TypeOK
<1>3. CASE StopWhich(Main)
  <2>1. CASE goto(Main, "isScript")
    <3>1. "isScript" \notin {"name", "create", "set", "all"} \cup Chosen
      BY DEF Chosen
    <3> QED
      BY <1>3, <2>1, <3>1, MainLeaves DEF StopWhich
  <2>2. CASE goto(Main, "all")
    <3>1. loc[Main].num = 0
      BY <1>3 DEF StopWhich, TypeInv, LocalsOK, Holding, Chosen, NoLocals
    <3>2. \A i \in ThreadId : request[i].num >= 0
      BY <1>1 DEF Slot
    <3>3. "all" \notin {"set"} \cup Chosen
      BY DEF Chosen
    <3>4. MainKnows'
      BY <1>2, <1>3, <2>2, <3>1, <3>2, <3>3 DEF StopWhich, MainKnows
    <3> QED
      BY <1>2, <1>3, <2>2, <3>4, MainMoves DEF StopWhich
  <2> QED
    BY <1>3, <2>1, <2>2 DEF StopWhich
<1>4. CASE StopId(Main)
  <2>1. CASE return(Main)
    <3>1. "idle" \notin {"name", "create", "set", "all"} \cup Chosen
      BY DEF Chosen
    <3> QED
      BY <1>4, <2>1, <3>1, MainLeaves DEF StopId, return
  <2>2. ASSUME gCmdParam.num \in Slot, thr_script_id[gCmdParam.num] # None,
               loc' = [loc EXCEPT ![Main] = [num |-> gCmdParam.num, scId |-> thr_script_id[gCmdParam.num]]],
               goto(Main, "kill")
        PROVE  Undisturbed'
    <3>1. loc'[Main].num = gCmdParam.num /\ loc'[Main].scId = thr_script_id[gCmdParam.num]
      BY <2>2 DEF TypeInv, TypeOK
    <3>2. pc[Main] = "id" /\ UNCHANGED <<slots, scriptNum, scriptFd, request>>
      BY <1>4 DEF StopId
    <3>3. OnlyHas(gCmdParam.num, {thr_script_id[gCmdParam.num]})
      BY <2>2, <3>2 DEF Undisturbed, Stoppable, OnlyHas
    <3>4. MainKnows'
      BY <1>2, <2>2, <3>1, <3>2, <3>3 DEF MainKnows, OnlyHas, Live
    <3> QED
      BY <1>2, <2>2, <3>2, <3>4, MainMoves
  <2> QED
    BY <1>4, <2>1, <2>2 DEF StopId
<1>5. CASE Kill(Main) \/ Join(Main)
  <2>1. PICK l \in {"join", "allJoin", "clear", "allClear"} :
          /\ goto(Main, l) /\ (l \in {"allJoin", "allClear"} => pc[Main] \in {"allKill", "allJoin"})
          /\ l \in {"clear", "allClear"} => pc[loc[Main].scId] = "dead"
    BY <1>5 DEF Kill, Join
  <2>2. UNCHANGED <<slots, loc, scriptNum, scriptFd, request>> /\ pc[Main] \in Chosen
    BY <1>5 DEF Kill, Join, Chosen
  <2>3. pc[Main] # "set" /\ l \notin {"name", "create", "all", "allKill"}
    BY <2>1, <2>2 DEF Chosen
  <2>4. loc[Main].scId \in ThreadId
    BY <2>2 DEF TypeInv, LocalsOK
  <2>5. MainKnows'
    BY <1>2, <2>1, <2>2, <2>3, <2>4 DEF Undisturbed, MainKnows, OnlyHas, Live, Ending
  <2> QED
    BY <1>2, <2>1, <2>2, <2>3, <2>5, MainMoves
<1>6. ASSUME pc[Main] \in {"clear", "allClear"}, clears(loc[Main].num),
             UNCHANGED <<gScriptName, gScriptParam, scriptNum, scriptFd, request>>,
             \A i \in ThreadId : pc'[i] = pc[i]
      PROVE  /\ Alone' /\ Own' /\ Stoppable' /\ OneEach'
             /\ \A i \in ThreadId : Live(i) => request[i].num # loc[Main].num
  <2>1. OnlyHas(loc[Main].num, {loc[Main].scId}) /\ ~Live(loc[Main].scId)
    BY <1>6 DEF Undisturbed, MainKnows, Chosen, Live
  <2>2. \A i \in ThreadId : Live(i) => request[i].num # loc[Main].num
    BY <2>1 DEF OnlyHas
  <2>3. Alone' /\ Own' /\ OneEach'
    BY <1>6 DEF Undisturbed, Alone, Own, OneEach, Live
  <2>4. Stoppable'
    <3>1. \A i \in ThreadId : Live(i) => thr_script_id'[request[i].num] = thr_script_id[request[i].num]
      BY <1>1, <1>6, <2>2 DEF clears
    <3>2. pc[Main] # "set"
      BY <1>6
    <3> QED
      BY <1>6, <3>1, <3>2 DEF Undisturbed, Stoppable, Live, Ending
  <2> QED
    BY <2>2, <2>3, <2>4
<1>7. CASE ClearSlot(Main)
  <2>1. clears(loc[Main].num)
    <3>1. gCmdParam.num = loc[Main].num
      BY <1>7 DEF ClearSlot
    <3> QED
      BY <1>7, <3>1 DEF ClearSlot
  <2>2. goto(Main, "idle") /\ pc[Main] = "clear"
    BY <1>7 DEF ClearSlot, return
  <2>3. UNCHANGED <<gScriptName, gScriptParam, scriptNum, scriptFd, request>>
    BY <1>7 DEF ClearSlot
  <2>4. MainKnows'
    BY <1>2, <2>2 DEF MainKnows, Chosen
  <2> QED
    BY <1>2, <1>6, <2>1, <2>2, <2>3, <2>4 DEF Undisturbed
<1>8. CASE AllClear(Main)
  <2>1. clears(loc[Main].num) /\ goto(Main, "all") /\ pc[Main] = "allClear"
    BY <1>8 DEF AllClear
  <2>2. UNCHANGED <<gScriptName, gScriptParam, scriptNum, scriptFd, request>>
    BY <1>8 DEF AllClear
  <2>3. loc[Main].num \in Slot /\ loc'[Main].num = loc[Main].num + 1
    BY <1>8 DEF AllClear, TypeInv, TypeOK, LocalsOK, Chosen
  <2>4. \A i \in ThreadId : Live(i) => Ending(i) \/ request[i].num >= loc[Main].num
    BY <2>1 DEF Undisturbed, MainKnows
  <2>5. /\ Alone' /\ Own' /\ Stoppable' /\ OneEach'
        /\ \A i \in ThreadId : Live(i) => request[i].num # loc[Main].num
    BY <1>2, <1>6, <2>1, <2>2
  <2>6. \A i \in ThreadId : Live(i) => Ending(i) \/ request[i].num >= loc[Main].num + 1
    BY <1>1, <2>3, <2>4, <2>5 DEF Slot
  <2>7. "all" \notin {"set"} \cup Chosen
    BY DEF Chosen
  <2>8. MainKnows'
    BY <1>2, <2>1, <2>2, <2>3, <2>6, <2>7 DEF MainKnows, Live, Ending
  <2> QED
    BY <2>5, <2>8 DEF Undisturbed
<1>9. CASE AllId(Main)
  <2>1. pc[Main] = "all" /\ UNCHANGED <<slots, scriptNum, scriptFd, request>>
    BY <1>9 DEF AllId
  <2>2. \A i \in ThreadId : Live(i) => Ending(i) \/ request[i].num >= loc[Main].num
    BY <2>1 DEF Undisturbed, MainKnows
  <2>3. ASSUME loc[Main].num \in Slot, thr_script_id[loc[Main].num] = None,
               loc' = [loc EXCEPT ![Main].num = @ + 1], UNCHANGED pc
        PROVE  Undisturbed'
    <3>1. loc'[Main].num = loc[Main].num + 1
      BY <2>3 DEF TypeInv, TypeOK
    <3>2. \A i \in ThreadId : Live(i) => Ending(i) \/ request[i].num # loc[Main].num
      BY <2>1, <2>3 DEF Undisturbed, Stoppable
    <3>3. \A i \in ThreadId : Live(i) => Ending(i) \/ request[i].num >= loc[Main].num + 1
      BY <1>1, <2>2, <2>3, <3>2 DEF Slot
    <3>4. "all" \notin {"set"} \cup Chosen
      BY DEF Chosen
    <3>5. MainKnows'
      BY <2>1, <2>3, <3>1, <3>3, <3>4 DEF MainKnows, Live, Ending
    <3> QED
      BY <2>1, <2>3, <3>5, MainMoves
  <2>4. ASSUME thr_script_id[loc[Main].num] # None, goto(Main, "allKill"),
               loc' = [loc EXCEPT ![Main].scId = thr_script_id[loc[Main].num]]
        PROVE  Undisturbed'
    <3>1. loc'[Main].num = loc[Main].num /\ loc'[Main].scId = thr_script_id[loc[Main].num]
      BY <2>4 DEF TypeInv, TypeOK
    <3>2. OnlyHas(loc[Main].num, {thr_script_id[loc[Main].num]})
      BY <2>1, <2>4 DEF Undisturbed, Stoppable, OnlyHas
    <3>3. MainKnows'
      BY <1>2, <2>1, <2>2, <2>4, <3>1, <3>2 DEF MainKnows, OnlyHas, Live, Ending
    <3> QED
      BY <1>2, <2>1, <2>4, <3>3, MainMoves
  <2>5. CASE goto(Main, "names")
    <3>1. "names" \notin {"name", "create", "set", "all"} \cup Chosen
      BY DEF Chosen
    <3> QED
      BY <2>1, <2>5, <3>1, MainLeaves
  <2> QED
    BY <1>9, <2>3, <2>4, <2>5 DEF AllId
<1> QED
  BY <1>3, <1>4, <1>5, <1>7, <1>8, <1>9

(* A script thread goes on or ends: what main knows stays true. *)
LEMMA MainStillKnows ==
  ASSUME Undisturbed, TypeInv, pc'[Main] = pc[Main], loc'[Main] = loc[Main], UNCHANGED request,
         \A j \in ThreadId : (Live(j))' => Live(j) /\ (Ending(j) => (Ending(j))'),
         \A j \in ThreadId : pc[j] = "dead" => pc'[j] = "dead"
  PROVE  MainKnows'
<1>1. pc[Main] \in {"clear", "allClear"} => loc[Main].scId \in ThreadId
  BY MainFacts DEF TypeInv, LocalsOK, Chosen
<1> QED
  BY <1>1 DEF Undisturbed, MainKnows, OnlyHas

(* A script thread executes a line, or has no more. *)
LEMMA ThreadLines ==
  ASSUME Undisturbed, TypeInv, NEW i \in ThreadId, ~mixed',
         Handler(i) \/ (\E j \in ThreadId : Create(i, j)) \/ End(i)
  PROVE  Undisturbed'
<1> USE MainFacts DEF slots, each, ends
<1>1. pc[i] \in {"none", "new", "open", "malloc", "idle", "dispatch", "other", "free", "exit", "dead"}
  BY DEF Undisturbed, Alone
<1>2. Issue(i) \/ Dispatch(i) \/ OtherCommand(i) \/ End(i)
  BY <1>1 DEF Handler, StartArgs, StartRec, EraseNames, RunArgs, RunNumber, RunTaken, RunName,
     Create, CreateFails, SetSlot, StopArgs, StopWhich, StopScript, StopRange, StopId, Kill, Join,
     ClearSlot, AllId, AllClear
<1>3. PICK l \in {"dispatch", "other", "idle", "free"} : goto(i, l)
  BY <1>2 DEF Issue, Dispatch, OtherCommand, return, End
<1>4. pc[i] \in {"idle", "dispatch", "other"} /\ UNCHANGED <<slots, scriptNum, scriptFd, request>>
  BY <1>2 DEF Issue, Dispatch, OtherCommand, End
<1>5. loc'[Main] = loc[Main]
  BY <1>2 DEF Issue, Dispatch, OtherCommand, return, End, TypeInv, TypeOK
<1>6. /\ pc'[i] = l /\ pc'[Main] = pc[Main]
      /\ \A j \in ThreadId \ {i} : pc'[j] = pc[j]
  BY <1>3 DEF goto, TypeInv, TypeOK
<1>7. \A j \in ThreadId :
        /\ ((Live(j))' <=> Live(j)) /\ (Ending(j) => (Ending(j))')
        /\ pc[j] = "dead" => pc'[j] = "dead"
  BY <1>3, <1>4, <1>6 DEF Live, Ending
<1>8. MainKnows'
  BY <1>4, <1>5, <1>6, <1>7, MainStillKnows
<1>9. Alone' /\ Own'
  BY <1>3, <1>4, <1>6 DEF Undisturbed, Alone, Own
<1>10. Stoppable' /\ OneEach'
  BY <1>4, <1>5, <1>6, <1>7 DEF Undisturbed, Stoppable, OneEach
<1> QED
  BY <1>8, <1>9, <1>10 DEF Undisturbed

LEMMA ThreadOwn ==
  ASSUME Undisturbed, TypeInv, SlotsNameTheirs, ~strayed, ~mixed',
         NEW i \in ThreadId, ScriptThread(i)
  PROVE  Undisturbed'
<1> USE MainFacts DEF slots, each, ends
<1>1. \A j \in ThreadId : request[j].num \in Slot
  BY DEF TypeInv, TypeOK
<1>2. ASSUME NEW l, goto(i, l)
      PROVE  /\ pc'[i] = l /\ pc'[Main] = pc[Main]
             /\ \A j \in ThreadId \ {i} : pc'[j] = pc[j]
  BY <1>2 DEF goto, TypeInv, TypeOK
<1>3. pc[i] \notin {"none", "new", "dead"} => scriptNum[i] = request[i].num
  BY DEF Undisturbed, Own
<1>4. \A j \in ThreadId : Live(i) /\ Live(j) /\ request[j].num = request[i].num => j = i
  BY DEF Undisturbed, OneEach
(* The thread lives on, with the same slots, and main does not move. *)
<1>5. ASSUME NEW l \in {"open", "malloc", "idle", "free", "exit"}, goto(i, l), Live(i),
             Ending(i) => l = "exit", UNCHANGED <<thr_script_id, loc, request>>
      PROVE  Alone' /\ Stoppable' /\ OneEach' /\ MainKnows'
  <2>1. \A j \in ThreadId :
          /\ ((Live(j))' <=> Live(j)) /\ (Ending(j) => (Ending(j))')
          /\ pc[j] = "dead" => pc'[j] = "dead"
    BY <1>2, <1>5 DEF Live, Ending
  <2>2. MainKnows'
    BY <1>2, <1>5, <2>1, MainStillKnows
  <2>3. Alone'
    BY <1>2, <1>5 DEF Undisturbed, Alone
  <2>4. Stoppable' /\ OneEach'
    BY <1>2, <1>5, <2>1 DEF Undisturbed, Stoppable, OneEach
  <2> QED
    BY <2>2, <2>3, <2>4
<1>6. CASE Begin(i)
  <2>1. gCmdParam.num = request[i].num
    BY <1>6 DEF Begin
  <2>2. scriptNum'[i] = request[i].num /\ \A j \in ThreadId \ {i} : scriptNum'[j] = scriptNum[j]
    BY <1>6, <2>1 DEF Begin, TypeInv, TypeOK
  <2>3. UNCHANGED <<slots, loc, scriptFd, request>> /\ pc[i] = "new" /\ goto(i, "open")
    BY <1>6 DEF Begin
  <2>4. Own'
    BY <1>2, <2>2, <2>3 DEF Undisturbed, Own
  <2> QED
    BY <1>5, <2>3, <2>4 DEF Undisturbed, Live, Ending
<1>7. CASE Open(i)
  <2>1. UNCHANGED <<slots, loc, scriptNum, request>> /\ pc[i] = "open"
    BY <1>7 DEF Open
  <2>2. gScriptName[scriptNum[i]] \in {request[i].file, NoFile}
    BY <1>3, <2>1 DEF Undisturbed, Own
  <2>3. scriptFd'[i] = gScriptName[scriptNum[i]] /\ \A j \in ThreadId \ {i} : scriptFd'[j] = scriptFd[j]
    BY <1>7 DEF Open, TypeInv, TypeOK
  <2>4. CASE gScriptName[scriptNum[i]] = NoFile
    <3>1. goto(i, "exit")
      BY <1>7, <2>4 DEF Open
    <3>2. Own'
      BY <1>2, <1>3, <2>1, <2>3, <3>1 DEF Undisturbed, Own
    <3> QED
      BY <1>5, <2>1, <3>1, <3>2 DEF Undisturbed, Live, Ending
  <2>5. CASE gScriptName[scriptNum[i]] # NoFile
    <3>1. goto(i, "malloc")
      BY <1>7, <2>5 DEF Open
    <3>2. Own'
      BY <1>2, <1>3, <2>1, <2>2, <2>3, <2>5, <3>1 DEF Undisturbed, Own
    <3> QED
      BY <1>5, <2>1, <3>1, <3>2 DEF Undisturbed, Live, Ending
  <2> QED
    BY <2>4, <2>5
<1>8. CASE Malloc(i)
  <2>1. /\ UNCHANGED <<thr_script_id, gScriptName, loc, scriptNum, scriptFd, request>>
        /\ pc[i] = "malloc" /\ scriptNum[i] = request[i].num
    BY <1>3, <1>8 DEF Malloc
  <2>2. PICK l \in {"idle", "free"} :
          goto(i, l) /\ (l = "idle" => gScriptParam'[request[i].num] = i)
    BY <1>1, <1>8, <2>1 DEF Malloc, TypeInv, TypeOK
  <2>3. \A n \in Slot : n # request[i].num => gScriptParam'[n] = gScriptParam[n]
    BY <1>8, <2>1 DEF Malloc, TypeInv, TypeOK
  <2>4. \A j \in ThreadId \ {i} : Live(j) => gScriptParam'[request[j].num] = gScriptParam[request[j].num]
    BY <1>1, <1>4, <2>1, <2>3 DEF Live
  <2>5. Own'
    BY <1>2, <2>1, <2>2, <2>4 DEF Undisturbed, Own, Live
  <2> QED
    BY <1>5, <2>1, <2>2, <2>5 DEF Undisturbed, Live, Ending
<1>9. CASE ArrayStray(i)
  BY <1>9 DEF ArrayStray, Undisturbed, Alone, Own, Stoppable, OneEach, MainKnows, OnlyHas, Live,
     Ending
<1>10. CASE FreeArray(i)
  <2>1. /\ UNCHANGED <<thr_script_id, gScriptName, loc, scriptNum, scriptFd, request>>
        /\ pc[i] = "free" /\ scriptNum[i] = request[i].num /\ goto(i, "exit")
    BY <1>3, <1>10 DEF FreeArray
  <2>2. \A n \in Slot : n # request[i].num => gScriptParam'[n] = gScriptParam[n]
    BY <1>10, <2>1 DEF FreeArray, TypeInv, TypeOK
  <2>3. \A j \in ThreadId \ {i} : Live(j) => gScriptParam'[request[j].num] = gScriptParam[request[j].num]
    BY <1>1, <1>4, <2>1, <2>2 DEF Live
  <2>4. Own'
    BY <1>2, <2>1, <2>3 DEF Undisturbed, Own, Live
  <2> QED
    BY <1>5, <2>1, <2>4 DEF Undisturbed, Live, Ending
<1>11. CASE Exit(i) \/ Die(i)
  <2>1. /\ goto(i, "dead") /\ UNCHANGED <<gScriptName, gScriptParam, request>>
        /\ loc'[Main] = loc[Main]
    BY <1>11 DEF Exit, Die, exits, TypeInv, TypeOK
  <2>2. \A j \in ThreadId \ {i} : scriptNum'[j] = scriptNum[j] /\ scriptFd'[j] = scriptFd[j]
    BY <1>11 DEF Exit, Die, exits, TypeInv, TypeOK
  <2>3. \A j \in ThreadId : ((Live(j))' <=> Live(j) /\ j # i) /\ (j # i /\ Ending(j) => (Ending(j))')
    BY <1>2, <2>1 DEF Live, Ending
  <2>4. \A j \in ThreadId \ {i} : Live(j) => thr_script_id'[request[j].num] = thr_script_id[request[j].num]
    <3>1. CASE Die(i)
      BY <3>1 DEF Die
    <3>2. CASE Exit(i)
      <4>1. pc[i] = "exit" /\ clears(request[i].num)
        <5>1. pc[i] = "exit"
          BY <3>2 DEF Exit
        <5>2. scriptNum[i] = request[i].num
          BY <1>3, <5>1
        <5> QED
          BY <3>2, <5>1, <5>2 DEF Exit
      <4> QED
        BY <1>1, <1>4, <4>1 DEF clears, Live
    <3> QED
      BY <1>11, <3>1, <3>2
  <2>5. MainKnows'
    BY <1>2, <2>1, <2>3, MainStillKnows
  <2>6. Alone' /\ Own'
    BY <1>2, <2>1, <2>2 DEF Undisturbed, Alone, Own
  <2>7. Stoppable' /\ OneEach'
    BY <1>2, <2>1, <2>3, <2>4 DEF Undisturbed, Stoppable, OneEach
  <2> QED
    BY <2>5, <2>6, <2>7 DEF Undisturbed
<1>12. CASE LoopRefused(i)
  <2>1. /\ UNCHANGED <<gScriptName, gScriptParam, loc, scriptNum, scriptFd, request>>
        /\ pc[i] = "idle" /\ scriptNum[i] = request[i].num /\ goto(i, "free")
        /\ clears(request[i].num)
    <3>1. pc[i] = "idle"
      BY <1>12 DEF LoopRefused
    <3> QED
      BY <1>3, <1>12, <3>1 DEF LoopRefused
  <2>2. \A j \in ThreadId :
          /\ ((Live(j))' <=> Live(j)) /\ (Ending(j) => (Ending(j))')
          /\ pc[j] = "dead" => pc'[j] = "dead"
    BY <1>2, <2>1 DEF Live, Ending
  <2>3. MainKnows'
    BY <1>2, <2>1, <2>2, MainStillKnows
  <2>4. Alone' /\ Own' /\ OneEach'
    BY <1>2, <2>1, <2>2 DEF Undisturbed, Alone, Own, OneEach
  <2>5. Stoppable'
    <3>1. thr_script_id'[request[i].num] = None /\ (Ending(i))'
      BY <1>1, <1>2, <2>1 DEF clears, Ending
    <3>2. \A j \in ThreadId \ {i} :
            Live(j) => thr_script_id'[request[j].num] = thr_script_id[request[j].num]
      BY <1>1, <1>4, <2>1 DEF clears, Live
    <3> QED
      BY <1>2, <2>1, <2>2, <3>1, <3>2 DEF Undisturbed, Stoppable
  <2> QED
    BY <2>3, <2>4, <2>5 DEF Undisturbed
<1> QED
  BY <1>6, <1>7, <1>8, <1>9, <1>10, <1>11, <1>12, ThreadLines DEF ScriptThread

(* Once a command has been mixed up it stays so. *)
LEMMA MixedStays == Next /\ mixed => mixed'
BY DEF Next, Step, Handler, ScriptThread, Issue, Dispatch, OtherCommand, StartArgs, StartRec,
   EraseNames, RunArgs, RunNumber, RunTaken, RunName, Create, CreateFails, SetSlot, Begin, Open,
   Malloc, ArrayStray, End, LoopRefused, FreeArray, Exit, Die, StopArgs, StopWhich, StopScript,
   StopRange, StopId, Kill, Join, ClearSlot, AllId, AllClear

LEMMA NextInv == Inv /\ [Next]_vars => Inv'
<1> SUFFICES ASSUME Inv, [Next]_vars PROVE Inv'
  OBVIOUS
<1>1. TypeInv' /\ SlotsNameTheirs'
  BY NextTypeInv, NextSlots DEF Inv
<1>2. CASE UNCHANGED vars
  <2>1. Undisturbed => Undisturbed'
    BY <1>2 DEF vars, slots, each, Undisturbed, Alone, Own, Stoppable, OneEach, MainKnows, OnlyHas,
       Live, Ending
  <2> QED
    BY <1>1, <1>2, <2>1 DEF Inv, vars
<1>3. ASSUME Next, ~mixed' PROVE Undisturbed'
  <2>1. Undisturbed /\ TypeInv /\ SlotsNameTheirs /\ ~strayed
    BY <1>3, MixedStays DEF Inv, Next
  <2>2. ASSUME NEW t \in Thread, Handler(t) \/ \E i \in ThreadId : Create(t, i) PROVE Undisturbed'
    <3>1. CASE t = Main
      BY <1>3, <2>1, <2>2, <3>1, MainCommands, MainRuns, MainStops DEF Handler
    <3>2. CASE t \in ThreadId
      BY <1>3, <2>1, <2>2, <3>2, ThreadLines
    <3> QED
      BY <3>1, <3>2 DEF Thread
  <2>3. ASSUME NEW i \in ThreadId, ScriptThread(i) PROVE Undisturbed'
    BY <1>3, <2>1, <2>3, ThreadOwn
  <2> QED
    BY <1>3, <2>2, <2>3 DEF Next, Step
<1> QED
  BY <1>1, <1>2, <1>3 DEF Inv

LEMMA InvIsSafe ==
  ASSUME Inv
  PROVE  RunsItsScript /\ OneThreadPerNumber /\ RunningIsStoppable
<1> SUFFICES ASSUME ~mixed PROVE RunsItsScript /\ OneThreadPerNumber /\ RunningIsStoppable
  BY DEF RunsItsScript, OneThreadPerNumber, RunningIsStoppable
<1>1. TypeInv /\ SlotsNameTheirs /\ Undisturbed
  BY DEF Inv
<1>2. \A i \in ThreadId : Running(i) =>
        /\ Live(i) /\ pc[i] \in {"idle", "dispatch", "other"}
        /\ scriptNum[i] = request[i].num
  BY <1>1 DEF Undisturbed, Alone, Own, Running, Live
<1>3. RunsItsScript
  BY <1>1, <1>2 DEF Undisturbed, Own, RunsItsScript
<1>4. OneThreadPerNumber
  BY <1>1, <1>2 DEF Undisturbed, OneEach, OneThreadPerNumber
<1>5. RunningIsStoppable
  BY <1>1 DEF Undisturbed, Stoppable, RunningIsStoppable, Live
<1> QED
  BY <1>3, <1>4, <1>5

(* As long as only main starts and stops scripts, no thread reads the      *)
(* number of another line (at_cmdProc.c:1022, 732), and runScript takes no *)
(* number under which a script is still ending (1089 to 1105): a thread    *)
(* that executes lines has opened the file it was created for and owns its *)
(* array.                                                                  *)
THEOREM ScriptsAreTheirOwn == Spec => []RunsItsScript
<1>1. Inv /\ [Next]_vars => Inv'
  BY NextInv
<1>2. Inv => RunsItsScript
  BY InvIsSafe
<1> QED
  BY <1>1, <1>2, InitInv, PTL DEF Spec

(* Under the same conditions no two threads execute lines under one        *)
(* number.                                                                 *)
THEOREM NumbersAreNotShared == Spec => []OneThreadPerNumber
<1>1. Inv /\ [Next]_vars => Inv'
  BY NextInv
<1>2. Inv => OneThreadPerNumber
  BY InvIsSafe
<1> QED
  BY <1>1, <1>2, InitInv, PTL DEF Spec

(* Under the same conditions the slot of its number names every script     *)
(* that has lines left, from the moment runScript returns.                 *)
THEOREM ScriptsAreStoppable == Spec => []RunningIsStoppable
<1>1. Inv /\ [Next]_vars => Inv'
  BY NextInv
<1>2. Inv => RunningIsStoppable
  BY InvIsSafe
<1> QED
  BY <1>1, <1>2, InitInv, PTL DEF Spec

(* Only the step of stop all that leaves its loop goes on to the names. *)
LEMMA LeavesLoop ==
  ASSUME TypeInv, Next, pc[Main] = "all", pc'[Main] = "names"
  PROVE  loc[Main].num \notin Slot /\ \A i \in ThreadId : pc'[i] = pc[i]
<1> USE MainFacts
<1>1. ASSUME NEW t \in Thread, t # Main, NEW l, goto(t, l) PROVE FALSE
  BY <1>1 DEF goto, TypeInv, TypeOK
<1>2. ASSUME NEW t \in Thread, t # Main, Handler(t) PROVE FALSE
  BY <1>1, <1>2 DEF Handler, Issue, Dispatch, OtherCommand, StartArgs, StartRec, EraseNames,
     RunArgs, RunNumber, RunTaken, RunName, CreateFails, SetSlot, StopArgs, StopWhich, StopScript,
     StopRange, StopId, Kill, Join, ClearSlot, AllId, AllClear, check, return
<1>3. ASSUME NEW i \in ThreadId, ScriptThread(i) PROVE FALSE
  BY <1>1, <1>3 DEF ScriptThread, Begin, Open, Malloc, ArrayStray, End, LoopRefused, FreeArray,
     Exit, Die, exits
<1>4. ASSUME NEW t \in Thread, NEW i \in ThreadId, Create(t, i) PROVE FALSE
  BY <1>4 DEF Create, TypeInv, TypeOK
<1>5. AllId(Main)
  BY <1>2, <1>3, <1>4 DEF Next, Step, Handler, Issue, Dispatch, OtherCommand, StartArgs, StartRec,
     EraseNames, RunArgs, RunNumber, RunTaken, RunName, CreateFails, SetSlot, StopArgs, StopWhich,
     StopScript, StopRange, StopId, Kill, Join, ClearSlot, AllClear
<1> QED
  BY <1>5 DEF AllId, goto, TypeInv, TypeOK

(* Under the same conditions, once stop all erases the names no script has *)
(* a line left (at_cmdProc.c:692-700).                                     *)
THEOREM AllAreStopped == Spec => StopAllStopsAll
<1>1. Inv /\ [Next]_vars => Inv'
  BY NextInv
<1>2. Inv /\ [Next]_vars => [~mixed /\ pc[Main] = "all" /\ pc'[Main] = "names" =>
                              \A i \in ThreadId : (Live(i) => Ending(i))']_vars
  <2> SUFFICES ASSUME Inv, Next, ~mixed, pc[Main] = "all", pc'[Main] = "names",
                      NEW i \in ThreadId
               PROVE  (Live(i) => Ending(i))'
    OBVIOUS
  <2>1. TypeInv /\ Undisturbed
    BY DEF Inv
  <2>2. loc[Main].num \notin Slot /\ pc'[i] = pc[i]
    BY <2>1, LeavesLoop
  <2>3. Live(i) => Ending(i) \/ request[i].num >= loc[Main].num
    BY <2>1 DEF Undisturbed, MainKnows
  <2>4. loc[Main].num \in 0 .. MAX_SCRIPT_THREAD /\ request[i].num \in Slot
    BY <2>1, MainFacts DEF TypeInv, TypeOK
  <2>5. Live(i) => Ending(i)
    BY <2>2, <2>3, <2>4, SlotFacts DEF Slot
  <2> QED
    BY <2>2, <2>5 DEF Live, Ending
<1> QED
  BY <1>1, <1>2, InitInv, PTL DEF Spec, StopAllStopsAll
================================================================================
