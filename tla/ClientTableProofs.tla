-------------------------- MODULE ClientTableProofs --------------------------
(***************************************************************************)
(* Theorems about ClientTable, for any number of clients, addresses,       *)
(* descriptors and script threads, with stops, suspended logs and every    *)
(* command allowed to every thread.                                        *)
(***************************************************************************)
EXTENDS ClientTable, TLAPS

(* TypeOK is not inductive: that network_config opens a socket only for a  *)
(* number in the table, and that the loop of showClient stays inside it,   *)
(* is remembered by where the thread is.                                   *)
NumberChecked ==
  \A t \in Thread :
    pc[t] \in {"netFlag", "netAton", "netSocket", "showLock", "showRead"} =>
      loc[t].num \in Client

TypeInv == TypeOK /\ NumberChecked

Locals == [num  : Number,
           ret  : {"idle", "addLock2", "chgLock2"},
           fd   : Fd \cup {ERROR, FAILED},
           addr : Ip \cup {NoIp}]

LEMMA SectionFacts ==
  /\ \A l \in DOMAIN Section : Section[l] \in Critical /\ l \notin Critical
  /\ \A l \in DOMAIN Section : Section[l] \in Label
  /\ \A l \in DOMAIN Section : Section[l] = "showRead" => l = "showLock"
  /\ \A l \in DOMAIN Section : Section[l] \notin {"netFlag", "netAton", "netSocket", "showLock"}
BY DEF Section, Critical, Label

LEMMA NumberFacts == Client \subseteq Number /\ MIN_CLIENT \in Client /\ MIN_CLIENT \in Number
BY NetworkAssumption, ThreadAssumption DEF Client, MIN_CLIENT

LEMMA NoLocalsType == NoLocals \in Locals
BY NumberFacts DEF NoLocals, Locals

LEMMA InitTypeInv == Init => TypeInv
<1> SUFFICES ASSUME Init PROVE TypeInv
  OBVIOUS
<1> USE DEF Init
<1>1. NetworkTypeOK
  BY NumberFacts DEF NetworkInit, NetworkTypeOK
<1>2. gMutex \in Thread \cup {Free, Orphan}
  OBVIOUS
<1>3. gCmdParam \in CommandLine
  BY NumberFacts DEF CommandLine, Command
<1>4. pc \in [Thread -> Label]
  BY DEF Label
<1>5. loc \in [Thread -> Locals]
  BY NoLocalsType
<1>6. NumberChecked
  BY DEF NumberChecked, Thread, CmdThread
<1> QED
  BY <1>1, <1>2, <1>3, <1>4, <1>5, <1>6 DEF TypeInv, TypeOK, Locals

-----------------------------------------------------------------------------
(* What a step of thread t does to the control state: t goes to one of the *)
(* labels in L, its locals keep their type, no other thread moves.         *)
Moves(t, L) ==
  /\ pc' \in [Thread -> Label] /\ pc'[t] \in L
  /\ loc' \in [Thread -> Locals]
  /\ \A u \in Thread \ {t} : pc'[u] = pc[u] /\ loc'[u] = loc[u]

LEMMA GotoMoves ==
  ASSUME TypeInv, NEW t \in Thread, NEW l \in Label, goto(t, l),
         loc' \in [Thread -> Locals], \A u \in Thread \ {t} : loc'[u] = loc[u]
  PROVE  Moves(t, {l})
BY DEF goto, Moves, TypeInv, TypeOK

LEMMA StayMoves ==
  ASSUME TypeInv, NEW t \in Thread, NEW l \in Label, goto(t, l), UNCHANGED loc
  PROVE  Moves(t, {l})
BY DEF goto, Moves, TypeInv, TypeOK, Locals

LEMMA ReturnMoves ==
  ASSUME TypeInv, NEW t \in Thread, return(t)
  PROVE  Moves(t, {"idle"})
<1>1. goto(t, "idle") /\ "idle" \in Label
  BY DEF return, Label
<1>2. loc' \in [Thread -> Locals] /\ \A u \in Thread \ {t} : loc'[u] = loc[u]
  BY NoLocalsType DEF return, TypeInv, TypeOK, Locals
<1> QED
  BY <1>1, <1>2, GotoMoves

(* A thread that takes its number from the line keeps its locals' type. *)
LEMMA TakeNumMoves ==
  ASSUME TypeInv, NEW t \in Thread, NEW l \in Label, takeNum(t, l)
  PROVE  Moves(t, {l})
<1>1. loc' \in [Thread -> Locals] /\ \A u \in Thread \ {t} : loc'[u] = loc[u]
  BY DEF takeNum, TypeInv, TypeOK, Locals, CommandLine
<1> QED
  BY <1>1, GotoMoves DEF takeNum

LEMMA LockMoves ==
  ASSUME TypeInv, NEW t \in Thread, Lock(t)
  PROVE  Moves(t, {Section[pc[t]]})
BY SectionFacts, StayMoves DEF Lock

LEMMA DispatchMoves ==
  ASSUME TypeInv, NEW t \in Thread
  PROVE  /\ Issue(t) => Moves(t, {"dispatch"})
         /\ Dispatch(t) => Moves(t, Command)
         /\ OtherCommand(t) \/ StartStopNothing(t) => Moves(t, {"idle"})
<1>1. "dispatch" \in Label /\ gCmdParam.cmd \in Command /\ Command \subseteq Label
  BY DEF Label, TypeInv, TypeOK, CommandLine
<1>2. Dispatch(t) => Moves(t, {gCmdParam.cmd})
  BY <1>1, StayMoves DEF Dispatch
<1>3. Dispatch(t) => Moves(t, Command)
  BY <1>1, <1>2 DEF Moves
<1>4. Issue(t) => Moves(t, {"dispatch"})
  BY <1>1, StayMoves DEF Issue
<1>5. OtherCommand(t) \/ StartStopNothing(t) => Moves(t, {"idle"})
  BY ReturnMoves DEF OtherCommand, StartStopNothing
<1> QED
  BY <1>3, <1>4, <1>5

LEMMA AddMoves ==
  ASSUME TypeInv, NEW t \in Thread
  PROVE  /\ AddEnter(t) => Moves(t, {"addNum", "idle"})
         /\ AddNum(t) => Moves(t, {"addLock"})
         /\ AddRead(t) => Moves(t, {"netCheck", "idle"})
         /\ AddWrite(t) => Moves(t, {"idle"})
<1>0. {"addNum", "addLock", "netCheck"} \subseteq Label
  BY DEF Label, Section
<1>1. /\ AddEnter(t) => Moves(t, {"addNum"}) \/ Moves(t, {"idle"})
      /\ AddNum(t) => Moves(t, {"addLock"})
  BY <1>0, StayMoves, TakeNumMoves, ReturnMoves DEF AddEnter, AddNum
<1>2. ASSUME AddRead(t) PROVE Moves(t, {"netCheck"}) \/ Moves(t, {"idle"})
  <2>1. CASE return(t)
    BY <2>1, ReturnMoves
  <2>2. CASE loc' = [loc EXCEPT ![t].ret = "addLock2"] /\ goto(t, "netCheck")
    <3>1. loc' \in [Thread -> Locals] /\ \A u \in Thread \ {t} : loc'[u] = loc[u]
      BY <2>2 DEF TypeInv, TypeOK, Locals
    <3> QED
      BY <1>0, <2>2, <3>1, GotoMoves
  <2> QED
    BY <1>2, <2>1, <2>2 DEF AddRead
<1>3. AddWrite(t) => Moves(t, {"idle"})
  BY ReturnMoves DEF AddWrite
<1> QED
  BY <1>1, <1>2, <1>3 DEF Moves

LEMMA NetMoves ==
  ASSUME TypeInv, NEW t \in Thread
  PROVE  /\ NetCheck(t) => Moves(t, {"netFlag", "idle"})
         /\ NetFlag(t) => Moves(t, {"netAton", "idle"})
         /\ NetAton(t) => Moves(t, {"netSocket"})
         /\ NetSocket(t) => Moves(t, {"netAddr", "idle"})
         /\ NetAddr(t) => Moves(t, {"idle", "addLock2", "chgLock2"})
<1>0. {"idle", "addLock2", "chgLock2", "netFlag", "netAton", "netSocket", "netAddr"}
        \subseteq Label
  BY DEF Label, Section
<1>1. /\ NetCheck(t) => Moves(t, {"netFlag"}) \/ Moves(t, {"idle"})
      /\ NetFlag(t) => Moves(t, {"netAton"}) \/ Moves(t, {"idle"})
      /\ NetSocket(t) => Moves(t, {"netAddr"}) \/ Moves(t, {"idle"})
  BY <1>0, StayMoves, ReturnMoves DEF NetCheck, NetFlag, NetSocket
<1>2. ASSUME NetAton(t) PROVE Moves(t, {"netSocket"})
  <2>1. loc' \in [Thread -> Locals] /\ \A u \in Thread \ {t} : loc'[u] = loc[u]
    BY <1>2 DEF NetAton, TypeInv, TypeOK, Locals, isValidIp
  <2> QED
    BY <1>0, <1>2, <2>1, GotoMoves DEF NetAton
<1>3. loc[t].ret \in {"idle", "addLock2", "chgLock2"}
  BY DEF TypeInv, TypeOK
<1>4. NetAddr(t) => Moves(t, {loc[t].ret})
  BY <1>0, <1>3, StayMoves DEF NetAddr
<1> QED
  BY <1>1, <1>2, <1>3, <1>4 DEF Moves

LEMMA DelMoves ==
  ASSUME TypeInv, NEW t \in Thread
  PROVE  /\ DelEnter(t) => Moves(t, {"delCheck"})
         /\ DelCheck(t) => Moves(t, {"delLock", "idle"})
         /\ DelRead(t) => Moves(t, {"delLock2", "idle"})
         /\ ClearFlag(t) => Moves(t, {"clearSocket"})
         /\ ClearSocket(t) => Moves(t, {"clearAddr"})
         /\ ClearAddr(t) => Moves(t, {"idle"})
<1>0. {"delCheck", "delLock", "delLock2", "clearSocket", "clearAddr"} \subseteq Label
  BY DEF Label, Section, Critical
<1>1. /\ DelEnter(t) => Moves(t, {"delCheck"})
      /\ DelCheck(t) => Moves(t, {"delLock"}) \/ Moves(t, {"idle"})
  BY <1>0, StayMoves, TakeNumMoves, ReturnMoves DEF DelEnter, DelCheck
<1>2. DelRead(t) => Moves(t, {"delLock2"}) \/ Moves(t, {"idle"})
  BY <1>0, StayMoves, ReturnMoves DEF DelRead
<1>3. ClearFlag(t) => Moves(t, {"clearSocket"})
  BY <1>0, StayMoves DEF ClearFlag
<1>4. ClearSocket(t) => Moves(t, {"clearAddr"})
  BY <1>0, StayMoves DEF ClearSocket
<1>5. ClearAddr(t) => Moves(t, {"idle"})
  BY ReturnMoves DEF ClearAddr
<1> QED
  BY <1>1, <1>2, <1>3, <1>4, <1>5 DEF Moves

LEMMA ChgMoves ==
  ASSUME TypeInv, NEW t \in Thread
  PROVE  /\ ChgEnter(t) => Moves(t, {"chgNum", "idle"})
         /\ ChgNum(t) => Moves(t, {"chgLock"})
         /\ ChgRead(t) => Moves(t, {"netCheck", "idle"})
         /\ ChgWrite(t) => Moves(t, {"idle"})
<1>0. {"chgNum", "chgLock", "netCheck"} \subseteq Label
  BY DEF Label, Section
<1>1. /\ ChgEnter(t) => Moves(t, {"chgNum"}) \/ Moves(t, {"idle"})
      /\ ChgNum(t) => Moves(t, {"chgLock"})
  BY <1>0, StayMoves, TakeNumMoves, ReturnMoves DEF ChgEnter, ChgNum
<1>2. ASSUME ChgRead(t) PROVE Moves(t, {"netCheck"}) \/ Moves(t, {"idle"})
  <2>1. CASE return(t)
    BY <2>1, ReturnMoves
  <2>2. CASE loc' = [loc EXCEPT ![t].ret = "chgLock2"] /\ goto(t, "netCheck")
    <3>1. loc' \in [Thread -> Locals] /\ \A u \in Thread \ {t} : loc'[u] = loc[u]
      BY <2>2 DEF TypeInv, TypeOK, Locals
    <3> QED
      BY <1>0, <2>2, <3>1, GotoMoves
  <2> QED
    BY <1>2, <2>1, <2>2 DEF ChgRead
<1>3. ChgWrite(t) => Moves(t, {"idle"})
  BY ReturnMoves DEF ChgWrite
<1> QED
  BY <1>1, <1>2, <1>3 DEF Moves

(* The loop of showClient stays in the table. *)
LEMMA ShowMoves ==
  ASSUME TypeInv, NEW t \in Thread
  PROVE  /\ ShowEnter(t) => Moves(t, {"showLock"}) /\ loc'[t].num \in Client
         /\ ShowRead(t) => /\ Moves(t, {"showLock", "idle"})
                           /\ pc'[t] = "showLock" => loc'[t].num \in Client
<1>0. "showLock" \in Label
  BY DEF Label, Section
<1>1. ASSUME ShowEnter(t) PROVE Moves(t, {"showLock"}) /\ loc'[t].num \in Client
  <2>1. /\ loc' \in [Thread -> Locals] /\ \A u \in Thread \ {t} : loc'[u] = loc[u]
        /\ loc'[t].num \in Client
    BY <1>1, NumberFacts DEF ShowEnter, TypeInv, TypeOK, Locals
  <2> QED
    BY <1>0, <1>1, <2>1, GotoMoves DEF ShowEnter
<1>2. ASSUME ShowRead(t)
      PROVE  /\ Moves(t, {"showLock"}) /\ loc'[t].num \in Client
             \/ Moves(t, {"idle"})
  <2>1. CASE return(t)
    BY <2>1, ReturnMoves
  <2>2. CASE /\ loc[t].num < MAX_CLIENT - 1
             /\ loc' = [loc EXCEPT ![t].num = @ + 1]
             /\ goto(t, "showLock")
    <3>1. loc[t].num \in Client /\ loc[t].num + 1 \in Client
      BY <1>2, <2>2, NetworkAssumption
      DEF ShowRead, TypeInv, NumberChecked, Client, MIN_CLIENT
    <3>2. /\ loc' \in [Thread -> Locals] /\ \A u \in Thread \ {t} : loc'[u] = loc[u]
          /\ loc'[t].num \in Client
      BY <2>2, <3>1, NumberFacts DEF TypeInv, TypeOK, Locals
    <3> QED
      BY <1>0, <2>2, <3>2, GotoMoves
  <2> QED
    BY <1>2, <2>1, <2>2 DEF ShowRead
<1> QED
  BY <1>1, <1>2 DEF Moves

LEMMA SuspendMoves ==
  ASSUME TypeInv, NEW n \in Suspended, SuspendLog(n)
  PROVE  Moves(Rec, {"supLock"})
<1>1. Rec \in Thread /\ "supLock" \in Label /\ n \in Number
  BY ThreadAssumption DEF Thread, Label, Section
<1>2. loc' \in [Thread -> Locals] /\ \A u \in Thread \ {Rec} : loc'[u] = loc[u]
  BY <1>1 DEF SuspendLog, TypeInv, TypeOK, Locals
<1> QED
  BY <1>1, <1>2, GotoMoves DEF SuspendLog

LEMMA SenderMoves ==
  ASSUME TypeInv
  PROVE  /\ \A n \in Number : SndReceive(n) => Moves(Snd, {"sndLock"})
         /\ SndRead => Moves(Snd, {"sndSend", "idle"})
         /\ SndSend => Moves(Snd, {"idle"})
<1>0. Snd \in Thread /\ {"sndLock", "sndSend"} \subseteq Label
  BY DEF Thread, Label, Section
<1>1. ASSUME NEW n \in Number, SndReceive(n) PROVE Moves(Snd, {"sndLock"})
  <2>1. loc' \in [Thread -> Locals] /\ \A u \in Thread \ {Snd} : loc'[u] = loc[u]
    BY <1>1 DEF SndReceive, TypeInv, TypeOK, Locals
  <2> QED
    BY <1>0, <1>1, <2>1, GotoMoves DEF SndReceive
<1>2. ASSUME SndRead PROVE Moves(Snd, {"sndSend"}) \/ Moves(Snd, {"idle"})
  <2>1. CASE return(Snd)
    BY <1>0, <2>1, ReturnMoves
  <2>2. CASE /\ getClientFlag(loc[Snd].num) # UNUSED
             /\ loc' = [loc EXCEPT ![Snd].fd = getSocket(loc[Snd].num),
                                   ![Snd].addr = getClientSockAddr(loc[Snd].num)]
             /\ goto(Snd, "sndSend")
    <3>1. /\ getSocket(loc[Snd].num) \in Fd \cup {ERROR, FAILED}
          /\ getClientSockAddr(loc[Snd].num) \in Ip \cup {NoIp}
      BY DEF getSocket, getClientSockAddr, TypeInv, TypeOK, NetworkTypeOK
    <3>2. loc' \in [Thread -> Locals] /\ \A u \in Thread \ {Snd} : loc'[u] = loc[u]
      BY <1>0, <2>2, <3>1 DEF TypeInv, TypeOK, Locals
    <3> QED
      BY <1>0, <2>2, <3>2, GotoMoves
  <2> QED
    BY <1>2, <2>1, <2>2 DEF SndRead
<1>3. SndSend => Moves(Snd, {"idle"})
  BY <1>0, ReturnMoves DEF SndSend
<1> QED
  BY <1>1, <1>2, <1>3 DEF Moves

(* start, stop and the end of a script move two threads at most, and only  *)
(* to "idle" or "dead".                                                    *)
LEMMA StartStopMoves ==
  ASSUME TypeInv, NEW k \in Thread, NEW t \in Thread,
         Start(k, t) \/ Stop(k, t) \/ ScriptEnds(t)
  PROVE  /\ pc' \in [Thread -> Label] /\ loc' \in [Thread -> Locals]
         /\ \A u \in Thread : \/ pc'[u] = pc[u] /\ loc'[u] = loc[u]
                              \/ pc'[u] \in {"idle", "dead"}
<1>0. {"idle", "dead"} \subseteq Label
  BY DEF Label
<1>1. CASE Start(k, t)
  BY <1>0, <1>1 DEF Start, TypeInv, TypeOK, Locals
<1>2. CASE Stop(k, t)
  BY <1>0, <1>2, NoLocalsType DEF Stop, TypeInv, TypeOK, Locals
<1>3. CASE ScriptEnds(t)
  BY <1>0, <1>3 DEF ScriptEnds, goto, TypeInv, TypeOK, Locals
<1> QED
  BY <1>1, <1>2, <1>3

-----------------------------------------------------------------------------
(* A step of t that moves t only keeps TypeInv if it keeps the type of the *)
(* data and, for t, what NumberChecked says.                               *)
LEMMA TypeInvStep ==
  ASSUME TypeInv, NEW t \in Thread, NEW L, Moves(t, L),
         NetworkTypeOK', gMutex' \in Thread \cup {Free, Orphan},
         gCmdParam' \in CommandLine,
         pc'[t] \in {"netFlag", "netAton", "netSocket", "showLock", "showRead"} =>
           loc'[t].num \in Client
  PROVE  TypeInv'
BY DEF TypeInv, TypeOK, Locals, NumberChecked, Moves

LEMMA NextTypeInv == TypeInv /\ [Next]_vars => TypeInv'
<1> SUFFICES ASSUME TypeInv, [Next]_vars PROVE TypeInv'
  OBVIOUS
<1> DEFINE Checked == {"netFlag", "netAton", "netSocket", "showLock", "showRead"}
<1>0. /\ NetworkTypeOK /\ gMutex \in Thread \cup {Free, Orphan}
      /\ gCmdParam \in CommandLine /\ loc \in [Thread -> Locals]
  BY DEF TypeInv, TypeOK, Locals
<1>t. CmdThread \subseteq Thread /\ Script \subseteq Thread /\ {Rec, Snd} \subseteq Thread
  BY DEF Thread, CmdThread
<1>n. UNCHANGED tables => NetworkTypeOK'
  BY <1>0 DEF tables, NetworkTypeOK
<1>1. ASSUME NEW t \in Thread, Lock(t) PROVE TypeInv'
  <2>1. pc'[t] \in Checked => pc[t] = "showLock" /\ loc'[t] = loc[t]
    BY <1>1, LockMoves, SectionFacts DEF Moves, Lock
  <2>2. pc'[t] \in Checked => loc'[t].num \in Client
    BY <2>1 DEF TypeInv, NumberChecked
  <2> QED
    BY <1>0, <1>n, <1>1, <2>2, LockMoves, TypeInvStep DEF Lock
<1>2. ASSUME NEW t \in CmdThread, Issue(t) PROVE TypeInv'
  <2>1. gCmdParam' \in CommandLine
    BY <1>2, ThreadAssumption DEF Issue
  <2> QED
    BY <1>0, <1>t, <1>n, <1>2, <2>1, DispatchMoves, TypeInvStep DEF Issue, Moves
<1>3. ASSUME NEW t \in CmdThread, Dispatch(t) PROVE TypeInv'
  <2>1. Moves(t, Command) /\ pc'[t] \notin Checked
    BY <1>t, <1>3, DispatchMoves DEF Moves, Command
  <2> QED
    BY <1>0, <1>t, <1>n, <1>3, <2>1, TypeInvStep DEF Dispatch
<1>4. ASSUME NEW t \in CmdThread, OtherCommand(t) \/ StartStopNothing(t) PROVE TypeInv'
  <2>1. Moves(t, {"idle"}) /\ pc'[t] \notin Checked
    BY <1>t, <1>4, DispatchMoves DEF Moves
  <2>2. gCmdParam' \in CommandLine
    BY <1>0, <1>4 DEF OtherCommand, StartStopNothing, CommandLine, Command
  <2> QED
    BY <1>0, <1>t, <1>n, <1>4, <2>1, <2>2, TypeInvStep DEF OtherCommand, StartStopNothing
<1>5. ASSUME NEW t \in CmdThread, AddEnter(t) \/ AddNum(t) \/ AddRead(t) PROVE TypeInv'
  <2>1. PICK L \in SUBSET Label : Moves(t, L) /\ pc'[t] \notin Checked
    BY <1>t, <1>5, AddMoves DEF Moves, Label, Section
  <2> QED
    BY <1>0, <1>t, <1>n, <1>5, <2>1, TypeInvStep
    DEF AddEnter, AddNum, AddRead, Unlock
<1>6. ASSUME NEW t \in CmdThread, AddWrite(t) PROVE TypeInv'
  <2>1. Moves(t, {"idle"}) /\ pc'[t] \notin Checked
    BY <1>t, <1>6, AddMoves DEF Moves
  <2>2. NetworkTypeOK'
    BY <1>0, <1>6 DEF AddWrite, setClientFlag, setClientIpAddr, NetworkTypeOK, CommandLine
  <2> QED
    BY <1>0, <1>t, <1>6, <2>1, <2>2, TypeInvStep DEF AddWrite, Unlock
<1>7. ASSUME NEW t \in CmdThread, NetCheck(t) \/ NetFlag(t) \/ NetAton(t) PROVE TypeInv'
  <2>1. PICK L \in SUBSET Label : Moves(t, L)
    BY <1>t, <1>7, NetMoves DEF Moves, Label, Section
  <2>2. pc'[t] \in Checked => loc'[t].num \in Client
    <3>1. CASE NetCheck(t)
      BY <1>t, <3>1, NetMoves, ReturnMoves DEF NetCheck, netConfigAccepts, Moves
    <3>2. CASE NetFlag(t)
      BY <1>t, <3>2, NetMoves, ReturnMoves DEF NetFlag, Moves, TypeInv, NumberChecked
    <3>3. CASE NetAton(t)
      <4>1. loc'[t].num = loc[t].num
        BY <1>0, <1>t, <3>3 DEF NetAton, Locals
      <4> QED
        BY <1>t, <3>3, <4>1 DEF NetAton, TypeInv, NumberChecked
    <3> QED
      BY <1>7, <3>1, <3>2, <3>3
  <2> QED
    BY <1>0, <1>t, <1>n, <1>7, <2>1, <2>2, TypeInvStep DEF NetCheck, NetFlag, NetAton
<1>8. ASSUME NEW t \in CmdThread, NetSocket(t) PROVE TypeInv'
  <2>1. Moves(t, {"netAddr", "idle"}) /\ pc'[t] \notin Checked
    BY <1>t, <1>8, NetMoves DEF Moves
  <2>2. loc[t].num \in Client
    BY <1>t, <1>8 DEF NetSocket, TypeInv, NumberChecked
  <2>3. NetworkTypeOK'
    BY <1>0, <1>8, <2>2 DEF NetSocket, netConfigSocket, netConfigNoSocket, NetworkTypeOK
  <2> QED
    BY <1>0, <1>t, <1>8, <2>1, <2>3, TypeInvStep DEF NetSocket
<1>9. ASSUME NEW t \in CmdThread, NetAddr(t) PROVE TypeInv'
  <2>1. Moves(t, {"idle", "addLock2", "chgLock2"}) /\ pc'[t] \notin Checked
    BY <1>t, <1>9, NetMoves DEF Moves
  <2>2. loc[t].addr \in Ip \cup {NoIp}
    BY <1>0, <1>t DEF Locals
  <2>3. NetworkTypeOK'
    BY <1>0, <1>9, <2>2 DEF NetAddr, setClientSockAddr, NetworkTypeOK
  <2> QED
    BY <1>0, <1>t, <1>9, <2>1, <2>3, TypeInvStep DEF NetAddr
<1>10. ASSUME NEW t \in CmdThread, DelEnter(t) \/ DelCheck(t) \/ DelRead(t) PROVE TypeInv'
  <2>1. PICK L \in SUBSET Label : Moves(t, L) /\ pc'[t] \notin Checked
    BY <1>t, <1>10, DelMoves DEF Moves, Label, Section
  <2> QED
    BY <1>0, <1>t, <1>n, <1>10, <2>1, TypeInvStep
    DEF DelEnter, DelCheck, DelRead, Unlock
<1>11. ASSUME NEW t \in Thread, ClearFlag(t) PROVE TypeInv'
  <2>1. Moves(t, {"clearSocket"}) /\ pc'[t] \notin Checked
    BY <1>11, DelMoves DEF Moves
  <2>2. NetworkTypeOK'
    BY <1>0, <1>11 DEF ClearFlag, setClientFlag, setClientIpAddr, NetworkTypeOK
  <2> QED
    BY <1>0, <1>11, <2>1, <2>2, TypeInvStep DEF ClearFlag
<1>12. ASSUME NEW t \in Thread, ClearSocket(t) PROVE TypeInv'
  <2>1. Moves(t, {"clearAddr"}) /\ pc'[t] \notin Checked
    BY <1>12, DelMoves DEF Moves
  <2>2. NetworkTypeOK'
    BY <1>0, <1>12 DEF ClearSocket, closeSocket, NetworkTypeOK
  <2> QED
    BY <1>0, <1>12, <2>1, <2>2, TypeInvStep DEF ClearSocket
<1>13. ASSUME NEW t \in Thread, ClearAddr(t) PROVE TypeInv'
  <2>1. Moves(t, {"idle"}) /\ pc'[t] \notin Checked
    BY <1>13, DelMoves DEF Moves
  <2>2. NetworkTypeOK'
    BY <1>0, <1>13 DEF ClearAddr, delClientSockAddr, setClientSockAddr, NetworkTypeOK
  <2> QED
    BY <1>0, <1>13, <2>1, <2>2, TypeInvStep DEF ClearAddr, Unlock
<1>14. ASSUME NEW t \in CmdThread, ChgEnter(t) \/ ChgNum(t) \/ ChgRead(t) PROVE TypeInv'
  <2>1. PICK L \in SUBSET Label : Moves(t, L) /\ pc'[t] \notin Checked
    BY <1>t, <1>14, ChgMoves DEF Moves, Label, Section
  <2> QED
    BY <1>0, <1>t, <1>n, <1>14, <2>1, TypeInvStep
    DEF ChgEnter, ChgNum, ChgRead, Unlock
<1>15. ASSUME NEW t \in CmdThread, ChgWrite(t) PROVE TypeInv'
  <2>1. Moves(t, {"idle"}) /\ pc'[t] \notin Checked
    BY <1>t, <1>15, ChgMoves DEF Moves
  <2>2. NetworkTypeOK'
    BY <1>0, <1>15 DEF ChgWrite, setClientIpAddr, NetworkTypeOK, CommandLine
  <2> QED
    BY <1>0, <1>t, <1>15, <2>1, <2>2, TypeInvStep DEF ChgWrite, Unlock
<1>16. ASSUME NEW t \in CmdThread, ShowEnter(t) PROVE TypeInv'
  BY <1>0, <1>t, <1>n, <1>16, ShowMoves, TypeInvStep DEF ShowEnter
<1>17. ASSUME NEW t \in CmdThread, ShowRead(t) PROVE TypeInv'
  <2>1. Moves(t, {"showLock", "idle"}) /\ (pc'[t] \in Checked => loc'[t].num \in Client)
    BY <1>t, <1>17, ShowMoves DEF Moves
  <2> QED
    BY <1>0, <1>t, <1>n, <1>17, <2>1, TypeInvStep DEF ShowRead, Unlock
<1>18. ASSUME NEW k \in Thread, NEW t \in Thread,
              Start(k, t) \/ Stop(k, t) \/ ScriptEnds(t)
       PROVE  TypeInv'
  <2>1. UNCHANGED tables /\ UNCHANGED gCmdParam /\ gMutex' \in Thread \cup {Free, Orphan}
    BY <1>0, <1>18 DEF Start, Stop, ScriptEnds
  <2> QED
    BY <1>0, <1>n, <1>18, <2>1, StartStopMoves DEF TypeInv, TypeOK, Locals, NumberChecked
<1>19. ASSUME NEW n \in Suspended, SuspendLog(n) PROVE TypeInv'
  BY <1>0, <1>t, <1>n, <1>19, SuspendMoves, TypeInvStep DEF SuspendLog, Moves
<1>20. ASSUME NEW n \in Number, SndReceive(n) PROVE TypeInv'
  BY <1>0, <1>t, <1>n, <1>20, SenderMoves, TypeInvStep DEF SndReceive, Moves
<1>21. ASSUME SndRead \/ SndSend PROVE TypeInv'
  <2>1. PICK L \in SUBSET Label : Moves(Snd, L) /\ pc'[Snd] \notin Checked
    BY <1>21, SenderMoves DEF Moves, Label
  <2> QED
    BY <1>0, <1>t, <1>n, <1>21, <2>1, TypeInvStep DEF SndRead, SndSend, Unlock
<1>22. CASE UNCHANGED vars
  BY <1>0, <1>n, <1>22 DEF vars, TypeInv, TypeOK, Locals, NumberChecked
<1>23. Stoppable \subseteq Thread
  BY ThreadAssumption DEF Thread, CmdThread
<1> QED
  BY <1>t, <1>1, <1>2, <1>3, <1>4, <1>5, <1>6, <1>7, <1>8, <1>9, <1>10, <1>11, <1>12,
     <1>13, <1>14, <1>15, <1>16, <1>17, <1>18, <1>19, <1>20, <1>21, <1>22, <1>23
  DEF Next, Handler, Clear, Receiver, Sender

(* No command, log or message makes a variable leave its type, whichever   *)
(* threads interleave: in particular nothing is ever written outside the   *)
(* client tables (the range checks of at_network.c, DelEnter and           *)
(* syslogProcess, the loop of showClient).                                 *)
THEOREM TypeCorrect == Spec => []TypeOK
<1>1. TypeInv => TypeOK
  BY DEF TypeInv
<1> QED
  BY <1>1, InitTypeInv, NextTypeInv, PTL DEF Spec

-----------------------------------------------------------------------------
(* gMutex.  A step of t outside critical sections, one that stays inside   *)
(* its section, and one that leaves it by unlocking keep MutexOwned.       *)
LEMMA MutexOutside ==
  ASSUME MutexOwned, NEW t \in Thread, NEW L, Moves(t, L), gMutex' = gMutex,
         pc[t] \in Critical <=> pc'[t] \in Critical
  PROVE  MutexOwned'
BY DEF MutexOwned, Moves

LEMMA MutexUnlock ==
  ASSUME MutexOwned, NEW t \in Thread, NEW L, Moves(t, L), Unlock(t),
         pc'[t] \notin Critical
  PROVE  MutexOwned'
BY ThreadAssumption DEF MutexOwned, Moves, Unlock

LEMMA InitMutexOwned == Init => MutexOwned
BY ThreadAssumption DEF Init, MutexOwned, Critical, Thread

LEMMA NextMutexOwned == TypeInv /\ MutexOwned /\ [Next]_vars => MutexOwned'
<1> SUFFICES ASSUME TypeInv, MutexOwned, [Next]_vars PROVE MutexOwned'
  OBVIOUS
<1>t. CmdThread \subseteq Thread /\ {Rec, Snd} \subseteq Thread /\ Stoppable \subseteq Thread
      /\ Script \subseteq Thread
  BY ThreadAssumption DEF Thread, CmdThread
<1>1. ASSUME NEW t \in Thread, Lock(t) PROVE MutexOwned'
  BY <1>1, LockMoves, SectionFacts, ThreadAssumption DEF Lock, MutexOwned, Moves
<1>2. ASSUME NEW t \in CmdThread, Issue(t) PROVE MutexOwned'
  BY <1>t, <1>2, DispatchMoves, MutexOutside DEF Issue, Moves, Critical
<1>3. ASSUME NEW t \in CmdThread, Dispatch(t) PROVE MutexOwned'
  BY <1>t, <1>3, DispatchMoves, MutexOutside DEF Dispatch, Moves, Critical, Command
<1>4. ASSUME NEW t \in CmdThread, OtherCommand(t) \/ StartStopNothing(t) PROVE MutexOwned'
  BY <1>t, <1>4, DispatchMoves, MutexOutside
  DEF OtherCommand, StartStopNothing, Moves, Critical
<1>5. ASSUME NEW t \in CmdThread,
             \/ AddEnter(t) \/ ChgEnter(t) \/ DelEnter(t)
             \/ AddNum(t) \/ ChgNum(t) \/ DelCheck(t)
      PROVE  MutexOwned'
  <2>1. /\ pc[t] \notin Critical /\ UNCHANGED gMutex
        /\ \E L : Moves(t, L) /\ pc'[t] \notin Critical
    BY <1>t, <1>5, AddMoves, ChgMoves, DelMoves
    DEF AddEnter, ChgEnter, DelEnter, AddNum, ChgNum, DelCheck, Moves, Critical
  <2> QED
    BY <1>t, <2>1, MutexOutside
<1>6. ASSUME NEW t \in CmdThread, AddRead(t) \/ ChgRead(t) \/ DelRead(t) PROVE MutexOwned'
  BY <1>t, <1>6, AddMoves, ChgMoves, DelMoves, MutexUnlock
  DEF AddRead, ChgRead, DelRead, Moves, Critical
<1>7. ASSUME NEW t \in CmdThread, AddWrite(t) \/ ChgWrite(t) PROVE MutexOwned'
  BY <1>t, <1>7, AddMoves, ChgMoves, MutexUnlock DEF AddWrite, ChgWrite, Moves, Critical
<1>8. ASSUME NEW t \in CmdThread,
             NetCheck(t) \/ NetFlag(t) \/ NetAton(t) \/ NetSocket(t) \/ NetAddr(t)
      PROVE  MutexOwned'
  <2>1. /\ pc[t] \notin Critical /\ UNCHANGED gMutex
        /\ \E L : Moves(t, L) /\ pc'[t] \notin Critical
    BY <1>t, <1>8, NetMoves
    DEF NetCheck, NetFlag, NetAton, NetSocket, NetAddr, Moves, Critical
  <2> QED
    BY <1>t, <2>1, MutexOutside
<1>9. ASSUME NEW t \in Thread, ClearFlag(t) \/ ClearSocket(t) PROVE MutexOwned'
  BY <1>9, DelMoves, MutexOutside DEF ClearFlag, ClearSocket, Moves, Critical
<1>10. ASSUME NEW t \in Thread, ClearAddr(t) PROVE MutexOwned'
  BY <1>10, DelMoves, MutexUnlock DEF ClearAddr, Moves, Critical
<1>11. ASSUME NEW t \in CmdThread, ShowEnter(t) PROVE MutexOwned'
  BY <1>t, <1>11, ShowMoves, MutexOutside DEF ShowEnter, Moves, Critical
<1>12. ASSUME NEW t \in CmdThread, ShowRead(t) PROVE MutexOwned'
  BY <1>t, <1>12, ShowMoves, MutexUnlock DEF ShowRead, Moves, Critical
<1>13. ASSUME NEW k \in Thread, NEW t \in Thread, Start(k, t) PROVE MutexOwned'
  BY <1>13 DEF Start, MutexOwned, Critical, TypeInv, TypeOK
<1>14. ASSUME NEW k \in Thread, NEW t \in Thread, Stop(k, t) PROVE MutexOwned'
  BY <1>14, ThreadAssumption DEF Stop, MutexOwned, Critical, TypeInv, TypeOK
<1>15. ASSUME NEW t \in Thread, ScriptEnds(t) PROVE MutexOwned'
  BY <1>15 DEF ScriptEnds, goto, MutexOwned, Critical, TypeInv, TypeOK
<1>16. ASSUME NEW n \in Suspended, SuspendLog(n) PROVE MutexOwned'
  BY <1>t, <1>16, SuspendMoves, MutexOutside DEF SuspendLog, Moves, Critical
<1>17. ASSUME NEW n \in Number, SndReceive(n) PROVE MutexOwned'
  BY <1>t, <1>17, SenderMoves, MutexOutside DEF SndReceive, Moves, Critical
<1>18. ASSUME SndRead PROVE MutexOwned'
  BY <1>t, <1>18, SenderMoves, MutexUnlock DEF SndRead, Moves, Critical
<1>19. ASSUME SndSend PROVE MutexOwned'
  BY <1>t, <1>19, SenderMoves, MutexOutside DEF SndSend, Moves, Critical
<1>20. CASE UNCHANGED vars
  BY <1>20 DEF vars, MutexOwned
<1> QED
  BY <1>t, <1>1, <1>2, <1>3, <1>4, <1>5, <1>6, <1>7, <1>8, <1>9, <1>10, <1>11, <1>12,
     <1>13, <1>14, <1>15, <1>16, <1>17, <1>18, <1>19, <1>20
  DEF Next, Handler, Clear, Receiver, Sender

(* gMutex is held exactly while its holder is in a critical section, also  *)
(* when stop ends threads in the middle of one: it is then nobody's, and   *)
(* nobody enters a section any more.                                       *)
THEOREM MutualExclusion == Spec => []MutexOwned
  BY InitTypeInv, NextTypeInv, InitMutexOwned, NextMutexOwned, PTL DEF Spec

-----------------------------------------------------------------------------
(* The operator alone: no scripts run and no phone reports a suspended     *)
(* task.  Receiver and sender may still be started and stopped at any      *)
(* time.  What the main thread has checked stays true until it acts on it, *)
(* because nobody else writes to the tables or to gCmdParam.               *)

OwnsSocket(c) == gSockets[c] \in Fd /\ fdOwner[gSockets[c]] = c

OthersQuiet ==
  /\ pc[Rec] \in {"idle", "dead"}
  /\ pc[Snd] \in {"idle", "dead", "sndLock", "sndRead", "sndSend"}

(* What the main thread knows of the client it works on, by where it is.   *)
MainKnows ==
  LET n == loc[Main].num
      p == pc[Main]
  IN  /\ p \notin {"dead", "chgLock2", "chgWrite", "supLock", "sndLock", "sndRead", "sndSend"}
      /\ p = "netCheck" => \/ loc[Main].ret = "addLock2"
                           \/ n \in Client /\ gClientFlag[n] = USED
      /\ p = "netFlag" => /\ loc[Main].ret = "addLock2" \/ gClientFlag[n] = USED
                          /\ n \in Client /\ gCmdParam.ip \in Ip
      /\ p \in {"netAton", "netSocket", "netAddr"} => loc[Main].ret = "addLock2"
      /\ p \in {"netAton", "netSocket", "netAddr", "addLock2", "addWrite"} =>
           n \in Client /\ gClientFlag[n] = UNUSED /\ gCmdParam.ip \in Ip
      /\ p \in {"netAddr", "addLock2", "addWrite", "clearSocket"} => OwnsSocket(n)
      /\ p \in {"netSocket", "netAddr"} => loc[Main].addr = gCmdParam.ip
      /\ p \in {"addLock2", "addWrite"} => clientSockAddr[n] = gCmdParam.ip
      /\ p \in {"delLock2", "clear"} => n \in Client /\ gClientFlag[n] = USED
      /\ p \in {"clearSocket", "clearAddr"} => n \in Client /\ gClientFlag[n] = UNUSED

(* NoFdLeak with the thread named that may be in between. *)
OpenIsNamed ==
  \A f \in Fd : fdOwner[f] # Closed =>
    /\ gSockets[fdOwner[f]] = f
    /\ \/ gClientFlag[fdOwner[f]] = USED
       \/ /\ loc[Main].num = fdOwner[f]
          /\ pc[Main] \in {"netAddr", "addLock2", "addWrite", "clearSocket"}

OperatorInv ==
  OthersQuiet /\ MainKnows /\ ClientsConsistent /\ OpenIsNamed

LEMMA InitOperatorInv == Init => OperatorInv
<1> SUFFICES ASSUME Init PROVE OperatorInv
  OBVIOUS
<1>1. pc[Main] = "idle" /\ pc[Rec] = "dead" /\ pc[Snd] = "dead"
  BY ThreadAssumption DEF Init, Thread, CmdThread
<1>2. \A c \in Client : gClientFlag[c] # USED
  BY DEF Init, NetworkInit, USED, UNUSED
<1>3. \A f \in Fd : fdOwner[f] = Closed
  BY DEF Init, NetworkInit
<1> QED
  BY <1>1, <1>2, <1>3
  DEF OperatorInv, OthersQuiet, MainKnows, ClientsConsistent, OpenIsNamed

(* What a step of the main thread leaves alone. *)
LEMMA MainStep ==
  ASSUME OthersQuiet, NEW L, Moves(Main, L)
  PROVE  OthersQuiet'
<1>1. Main # Rec /\ Main # Snd /\ {Rec, Snd} \subseteq Thread
  BY ThreadAssumption DEF CmdThread, Thread
<1> QED
  BY <1>1 DEF OthersQuiet, Moves

(* A step of the main thread outside the tables: the knowledge it needs at *)
(* its new label must be there, and no socket may be in its hands.         *)
LEMMA MainStepNoTables ==
  ASSUME OperatorInv, NEW L, Moves(Main, L), UNCHANGED tables,
         pc[Main] \notin {"netAddr", "addLock2", "addWrite", "clearSocket"},
         MainKnows'
  PROVE  OperatorInv'
<1>1. OthersQuiet'
  BY MainStep DEF OperatorInv
<1>2. ClientsConsistent' /\ OpenIsNamed'
  BY DEF OperatorInv, ClientsConsistent, OpenIsNamed, tables
<1> QED
  BY <1>1, <1>2 DEF OperatorInv

LEMMA NextOperatorInv ==
  ASSUME Script = {}, Suspended = {}, TypeInv, OperatorInv, [Next]_vars
  PROVE  OperatorInv'
<1>t. CmdThread = {Main} /\ Thread = {Main, Rec, Snd} /\ Main # Rec /\ Main # Snd /\ Rec # Snd
  BY ThreadAssumption DEF CmdThread, Thread
<1> USE <1>t
<1>1. ASSUME Lock(Main) PROVE OperatorInv'
  <2>1. Moves(Main, {Section[pc[Main]]}) /\ UNCHANGED <<tables, gCmdParam, loc>>
    BY <1>1, LockMoves DEF Lock
  <2>2. \/ pc[Main] = "addLock"  /\ pc'[Main] = "addRead"
        \/ pc[Main] = "addLock2" /\ pc'[Main] = "addWrite"
        \/ pc[Main] = "delLock"  /\ pc'[Main] = "delRead"
        \/ pc[Main] = "delLock2" /\ pc'[Main] = "clear"
        \/ pc[Main] = "chgLock"  /\ pc'[Main] = "chgRead"
        \/ pc[Main] = "showLock" /\ pc'[Main] = "showRead"
    BY <1>1, <2>1 DEF Lock, Section, Moves, OperatorInv, MainKnows
  <2>3. MainKnows'
    BY <2>1, <2>2 DEF OperatorInv, MainKnows, OwnsSocket, tables
  <2>4. ClientsConsistent' /\ OpenIsNamed'
    BY <2>1, <2>2 DEF OperatorInv, ClientsConsistent, OpenIsNamed, tables
  <2> QED
    BY <2>1, <2>3, <2>4, MainStep DEF OperatorInv
<1>2. ASSUME Issue(Main) PROVE OperatorInv'
  <2>1. Moves(Main, {"dispatch"})
    BY <1>2, DispatchMoves
  <2>2. MainKnows'
    BY <2>1 DEF MainKnows, Moves
  <2> QED
    BY <1>2, <2>1, <2>2, MainStepNoTables DEF Issue
<1>3. ASSUME Dispatch(Main) PROVE OperatorInv'
  <2>1. Moves(Main, Command)
    BY <1>3, DispatchMoves
  <2>2. MainKnows'
    BY <2>1 DEF MainKnows, Moves, Command
  <2> QED
    BY <1>3, <2>1, <2>2, MainStepNoTables DEF Dispatch
<1>4. ASSUME OtherCommand(Main) \/ StartStopNothing(Main) PROVE OperatorInv'
  <2>1. Moves(Main, {"idle"})
    BY <1>4, DispatchMoves
  <2>2. MainKnows'
    BY <2>1 DEF MainKnows, Moves
  <2> QED
    BY <1>4, <2>1, <2>2, MainStepNoTables DEF OtherCommand, StartStopNothing
<1>5. ASSUME \/ AddEnter(Main) \/ DelEnter(Main) \/ ChgEnter(Main)
             \/ AddNum(Main) \/ DelCheck(Main) \/ ChgNum(Main)
      PROVE  OperatorInv'
  <2>1. Moves(Main, {"addNum", "delCheck", "chgNum", "addLock", "delLock", "chgLock", "idle"})
    BY <1>5, AddMoves, DelMoves, ChgMoves DEF Moves
  <2>2. MainKnows'
    BY <2>1 DEF MainKnows, Moves
  <2> QED
    BY <1>5, <2>1, <2>2, MainStepNoTables
    DEF AddEnter, DelEnter, ChgEnter, AddNum, DelCheck, ChgNum
<1>6. ASSUME AddRead(Main) PROVE OperatorInv'
  <2>1. Moves(Main, {"netCheck", "idle"})
    BY <1>6, AddMoves
  <2>2. pc'[Main] = "netCheck" => loc'[Main].ret = "addLock2"
    BY <1>6 DEF AddRead, return, goto, TypeInv, TypeOK
  <2>3. MainKnows'
    BY <2>1, <2>2 DEF MainKnows, Moves
  <2> QED
    BY <1>6, <2>1, <2>3, MainStepNoTables DEF AddRead
<1>7. ASSUME AddWrite(Main) PROVE OperatorInv'
  <2>1. Moves(Main, {"idle"})
    BY <1>7, AddMoves
  <2>2. MainKnows'
    BY <2>1 DEF MainKnows, Moves
  <2>3. ClientsConsistent'
    BY <1>7 DEF AddWrite, setClientFlag, setClientIpAddr, OperatorInv, MainKnows,
                OwnsSocket, ClientsConsistent
  <2>4. OpenIsNamed'
    BY <1>7 DEF AddWrite, setClientFlag, OperatorInv, MainKnows, OwnsSocket, OpenIsNamed,
                TypeInv, TypeOK, NetworkTypeOK
  <2> QED
    BY <2>1, <2>2, <2>3, <2>4, MainStep DEF OperatorInv
<1>8. ASSUME NetCheck(Main) \/ NetFlag(Main) \/ NetAton(Main) PROVE OperatorInv'
  <2>1. CASE NetCheck(Main)
    <3>1. Moves(Main, {"netFlag", "idle"})
      BY <2>1, NetMoves
    <3>2. ASSUME pc'[Main] = "netFlag"
          PROVE  /\ loc' = loc /\ gCmdParam' = gCmdParam /\ gClientFlag' = gClientFlag
                 /\ loc[Main].num \in Client /\ gCmdParam.ip \in Ip
                 /\ loc[Main].ret = "addLock2" \/ gClientFlag[loc[Main].num] = USED
      BY <2>1, <3>2 DEF NetCheck, netConfigAccepts, isValidIp, return, goto, tables,
                        OperatorInv, MainKnows, TypeInv, TypeOK
    <3>3. MainKnows'
      BY <3>1, <3>2 DEF MainKnows, Moves
    <3> QED
      BY <2>1, <3>1, <3>3, MainStepNoTables DEF NetCheck
  <2>2. CASE NetFlag(Main)
    <3>1. Moves(Main, {"netAton", "idle"})
      BY <2>2, NetMoves
    <3>2. ASSUME pc'[Main] = "netAton"
          PROVE  /\ loc' = loc /\ gCmdParam' = gCmdParam
                 /\ loc[Main].ret = "addLock2"
                 /\ loc[Main].num \in Client /\ gClientFlag'[loc[Main].num] = UNUSED
                 /\ gCmdParam.ip \in Ip
      BY <2>2, <3>2 DEF NetFlag, netConfigFree, getClientFlag, return, goto, tables,
                        OperatorInv, MainKnows, TypeInv, TypeOK, NetworkTypeOK
    <3>3. MainKnows'
      BY <3>1, <3>2 DEF MainKnows, Moves
    <3> QED
      BY <2>2, <3>1, <3>3, MainStepNoTables DEF NetFlag
  <2>3. CASE NetAton(Main)
    <3>1. Moves(Main, {"netSocket"})
      BY <2>3, NetMoves
    <3>2. /\ loc'[Main].num = loc[Main].num /\ loc'[Main].ret = "addLock2"
          /\ loc'[Main].addr = gCmdParam.ip /\ gCmdParam' = gCmdParam
          /\ loc[Main].num \in Client /\ gClientFlag'[loc[Main].num] = UNUSED
          /\ gCmdParam.ip \in Ip
      BY <2>3 DEF NetAton, isValidIp, tables, OperatorInv, MainKnows, TypeInv, TypeOK
    <3>3. MainKnows'
      BY <3>1, <3>2 DEF MainKnows, Moves
    <3> QED
      BY <2>3, <3>1, <3>3, MainStepNoTables DEF NetAton
  <2> QED
    BY <1>8, <2>1, <2>2, <2>3
<1>9. ASSUME NetSocket(Main) PROVE OperatorInv'
  <2> DEFINE n == loc[Main].num
  <2>1. Moves(Main, {"netAddr", "idle"}) /\ UNCHANGED <<gClientIpAddr, clientSockAddr,
           gClientFlag, gMutex, gCmdParam>>
    BY <1>9, NetMoves DEF NetSocket
  <2>2. /\ n \in Client /\ gClientFlag[n] = UNUSED /\ gCmdParam.ip \in Ip
        /\ loc[Main].ret = "addLock2" /\ gClientFlag[n] # USED
        /\ loc[Main].addr = gCmdParam.ip
    BY <1>9 DEF NetSocket, OperatorInv, MainKnows, USED, UNUSED
  <2>3. CASE /\ \E f \in Fd : netConfigSocket(n, f)
             /\ goto(Main, "netAddr") /\ UNCHANGED loc
    <3>1. PICK f \in Fd : netConfigSocket(n, f)
      BY <2>3
    <3>2. /\ loc'[Main].num = n /\ loc'[Main].ret = "addLock2"
          /\ loc'[Main].addr = gCmdParam.ip /\ pc'[Main] = "netAddr"
      BY <2>2, <2>3 DEF goto, TypeInv, TypeOK
    <3>3. gSockets'[n] = f /\ fdOwner'[f] = n /\ fdOwner[f] = Closed
      BY <2>2, <3>1 DEF netConfigSocket, TypeInv, TypeOK, NetworkTypeOK
    <3>4. /\ \A c \in Client \ {n} : gSockets'[c] = gSockets[c]
          /\ \A g \in Fd \ {f} : fdOwner'[g] = fdOwner[g]
      BY <3>1 DEF netConfigSocket, TypeInv, TypeOK, NetworkTypeOK
    <3>5. Closed \notin Client
      BY DEF Closed, Client, MIN_CLIENT
    <3>6. MainKnows'
      BY <2>1, <2>2, <3>2, <3>3 DEF MainKnows, OwnsSocket
    <3>7. ClientsConsistent'
      BY <2>1, <2>2, <3>3, <3>4, <3>5 DEF OperatorInv, ClientsConsistent
    <3>8. OpenIsNamed'
      <4>1. ASSUME NEW g \in Fd \ {f}, fdOwner[g] # Closed
            PROVE  /\ fdOwner[g] \in Client /\ fdOwner[g] # n
                   /\ gSockets[fdOwner[g]] = g /\ gClientFlag[fdOwner[g]] = USED
        BY <1>9, <2>2, <4>1 DEF NetSocket, OperatorInv, OpenIsNamed, TypeInv, TypeOK, NetworkTypeOK
      <4> QED
        BY <2>1, <3>2, <3>3, <3>4, <4>1 DEF OpenIsNamed
    <3> QED
      BY <2>1, <3>6, <3>7, <3>8, MainStep DEF OperatorInv
  <2>4. CASE netConfigNoSocket(n) /\ return(Main)
    <3>1. MainKnows'
      BY <2>4 DEF return, goto, MainKnows, TypeInv, TypeOK
    <3>2. fdOwner' = fdOwner /\ \A c \in Client \ {n} : gSockets'[c] = gSockets[c]
      BY <2>4 DEF netConfigNoSocket, TypeInv, TypeOK, NetworkTypeOK
    <3>3. ClientsConsistent'
      BY <2>1, <2>2, <3>2 DEF OperatorInv, ClientsConsistent
    <3>4. OpenIsNamed'
      <4>1. ASSUME NEW g \in Fd, fdOwner[g] # Closed
            PROVE  /\ fdOwner[g] \in Client /\ fdOwner[g] # n
                   /\ gSockets[fdOwner[g]] = g /\ gClientFlag[fdOwner[g]] = USED
        BY <1>9, <2>2, <4>1 DEF NetSocket, OperatorInv, OpenIsNamed, TypeInv, TypeOK, NetworkTypeOK
      <4> QED
        BY <2>1, <3>2, <4>1 DEF OpenIsNamed
    <3> QED
      BY <2>1, <3>1, <3>3, <3>4, MainStep DEF OperatorInv
  <2> QED
    BY <1>9, <2>3, <2>4 DEF NetSocket
<1>10. ASSUME NetAddr(Main) PROVE OperatorInv'
  <2>1. /\ Moves(Main, {"idle", "addLock2", "chgLock2"}) /\ pc'[Main] = "addLock2"
        /\ loc[Main].num \in Client /\ gClientFlag[loc[Main].num] # USED
    BY <1>10, NetMoves DEF NetAddr, goto, OperatorInv, MainKnows, TypeInv, TypeOK, USED, UNUSED
  <2>2. MainKnows'
    BY <1>10, <2>1 DEF NetAddr, setClientSockAddr, OperatorInv, MainKnows, OwnsSocket
  <2>3. ClientsConsistent' /\ OpenIsNamed'
    BY <1>10, <2>1 DEF NetAddr, setClientSockAddr, OperatorInv, ClientsConsistent, OpenIsNamed
  <2> QED
    BY <2>1, <2>2, <2>3, MainStep DEF OperatorInv
<1>11. ASSUME DelRead(Main) PROVE OperatorInv'
  <2>1. Moves(Main, {"delLock2", "idle"})
    BY <1>11, DelMoves
  <2>2. pc'[Main] = "delLock2" =>
          /\ loc' = loc /\ loc[Main].num \in Client /\ gClientFlag'[loc[Main].num] = USED
    BY <1>11 DEF DelRead, return, goto, getClientFlag, tables, ERROR, UNUSED,
                 TypeInv, TypeOK, NetworkTypeOK
  <2>3. MainKnows'
    BY <2>1, <2>2 DEF MainKnows, Moves
  <2> QED
    BY <1>11, <2>1, <2>3, MainStepNoTables DEF DelRead
<1>12. ASSUME ClearFlag(Main) PROVE OperatorInv'
  <2>1. /\ Moves(Main, {"clearSocket"}) /\ loc[Main].num \in Client
        /\ OwnsSocket(loc[Main].num)
    BY <1>12, DelMoves DEF ClearFlag, OperatorInv, MainKnows, ClientsConsistent, OwnsSocket
  <2>2. MainKnows'
    BY <1>12, <2>1 DEF ClearFlag, setClientFlag, MainKnows, OwnsSocket, Moves
  <2>3. ClientsConsistent'
    BY <1>12, <2>1 DEF ClearFlag, setClientFlag, setClientIpAddr, OperatorInv,
                       ClientsConsistent, USED, UNUSED
  <2>4. OpenIsNamed'
    BY <1>12, <2>1 DEF ClearFlag, setClientFlag, OperatorInv, OpenIsNamed, Moves,
                       TypeInv, TypeOK, NetworkTypeOK
  <2> QED
    BY <2>1, <2>2, <2>3, <2>4, MainStep DEF OperatorInv
<1>13. ASSUME ClearSocket(Main) PROVE OperatorInv'
  <2> DEFINE n == loc[Main].num
  <2>1. /\ Moves(Main, {"clearAddr"}) /\ n \in Client /\ OwnsSocket(n)
        /\ gClientFlag[n] = UNUSED /\ gClientFlag[n] # USED
    BY <1>13, DelMoves DEF ClearSocket, OperatorInv, MainKnows, USED, UNUSED
  <2>2. MainKnows'
    BY <1>13, <2>1 DEF ClearSocket, MainKnows, Moves
  <2>3. ClientsConsistent'
    BY <1>13, <2>1 DEF ClearSocket, closeSocket, OperatorInv, ClientsConsistent, OwnsSocket
  <2>4. OpenIsNamed'
    BY <1>13, <2>1 DEF ClearSocket, closeSocket, OperatorInv, OpenIsNamed, OwnsSocket,
                       TypeInv, TypeOK, NetworkTypeOK
  <2> QED
    BY <2>1, <2>2, <2>3, <2>4, MainStep DEF OperatorInv
<1>14. ASSUME ClearAddr(Main) PROVE OperatorInv'
  <2>1. /\ Moves(Main, {"idle"}) /\ gClientFlag[loc[Main].num] # USED
    BY <1>14, DelMoves DEF ClearAddr, OperatorInv, MainKnows, USED, UNUSED
  <2>2. MainKnows'
    BY <2>1 DEF MainKnows, Moves
  <2>3. ClientsConsistent' /\ OpenIsNamed'
    BY <1>14, <2>1 DEF ClearAddr, delClientSockAddr, setClientSockAddr, OperatorInv,
                       ClientsConsistent, OpenIsNamed
  <2> QED
    BY <2>1, <2>2, <2>3, MainStep DEF OperatorInv
<1>15. ASSUME ChgRead(Main) PROVE OperatorInv'
  <2>1. Moves(Main, {"netCheck", "idle"})
    BY <1>15, ChgMoves
  <2>2. pc'[Main] = "netCheck" =>
          /\ loc'[Main].num = loc[Main].num
          /\ loc[Main].num \in Client /\ gClientFlag'[loc[Main].num] = USED
    BY <1>15 DEF ChgRead, return, goto, getClientFlag, tables, ERROR, UNUSED,
                 TypeInv, TypeOK, NetworkTypeOK
  <2>3. MainKnows'
    BY <2>1, <2>2 DEF MainKnows, Moves
  <2> QED
    BY <1>15, <2>1, <2>3, MainStepNoTables DEF ChgRead
<1>16. ~ChgWrite(Main)
  BY DEF ChgWrite, OperatorInv, MainKnows
<1>17. ASSUME ShowEnter(Main) \/ ShowRead(Main) PROVE OperatorInv'
  <2>1. Moves(Main, {"showLock", "idle"})
    BY <1>17, ShowMoves DEF Moves
  <2>2. MainKnows'
    BY <2>1 DEF MainKnows, Moves
  <2> QED
    BY <1>17, <2>1, <2>2, MainStepNoTables DEF ShowEnter, ShowRead
<1>18. ASSUME NEW u \in Thread, Start(Main, u) \/ (u \in Stoppable /\ Stop(Main, u))
       PROVE  OperatorInv'
  <2>1. u # Main
    BY <1>18, ThreadAssumption DEF Start, CmdThread
  <2>2. /\ UNCHANGED <<tables, gCmdParam>>
        /\ pc'[Main] = "idle" /\ pc'[u] \in {"idle", "dead"}
        /\ \A v \in Thread \ {Main, u} : pc'[v] = pc[v] /\ loc'[v] = loc[v]
    BY <1>18, <2>1 DEF Start, Stop, TypeInv, TypeOK
  <2>3. pc[Main] \in {"start", "stop"}
    BY <1>18 DEF Start, Stop
  <2>4. MainKnows'
    BY <2>2 DEF MainKnows
  <2>5. OthersQuiet'
    BY <2>1, <2>2 DEF OperatorInv, OthersQuiet
  <2>6. ClientsConsistent' /\ OpenIsNamed'
    BY <2>2, <2>3 DEF OperatorInv, ClientsConsistent, OpenIsNamed, tables
  <2> QED
    BY <2>4, <2>5, <2>6 DEF OperatorInv
<1>19. ~Lock(Rec) /\ ~Clear(Rec)
  BY DEF Lock, Section, Clear, ClearFlag, ClearSocket, ClearAddr, OperatorInv, OthersQuiet
<1>20. ASSUME Lock(Snd) \/ (\E n \in Number : SndReceive(n)) \/ SndRead \/ SndSend
       PROVE  OperatorInv'
  <2>1. UNCHANGED <<tables, gCmdParam>>
    BY <1>20 DEF Lock, SndReceive, SndRead, SndSend
  <2>2. /\ \A v \in {Main, Rec} : pc'[v] = pc[v] /\ loc'[v] = loc[v]
        /\ pc'[Snd] \in {"idle", "sndLock", "sndRead", "sndSend"}
    <3>1. CASE Lock(Snd)
      BY <3>1, LockMoves DEF Lock, Section, Moves, OperatorInv, OthersQuiet
    <3>2. CASE \E n \in Number : SndReceive(n)
      BY <3>2, SenderMoves DEF Moves
    <3>3. CASE SndRead \/ SndSend
      BY <3>3, SenderMoves DEF Moves
    <3> QED
      BY <1>20, <3>1, <3>2, <3>3
  <2>4. OthersQuiet' /\ MainKnows'
    BY <2>1, <2>2 DEF OperatorInv, OthersQuiet, MainKnows, OwnsSocket, tables
  <2>5. ClientsConsistent' /\ OpenIsNamed'
    BY <2>1, <2>2 DEF OperatorInv, ClientsConsistent, OpenIsNamed, tables
  <2> QED
    BY <2>4, <2>5 DEF OperatorInv
<1>21. CASE UNCHANGED vars
  BY <1>21 DEF vars, tables, OperatorInv, OthersQuiet, MainKnows, OwnsSocket,
               ClientsConsistent, OpenIsNamed
<1>22. ASSUME Handler(Main) PROVE OperatorInv'
  <2>1. ASSUME NEW u \in Thread, Start(Main, u) PROVE OperatorInv'
    BY <2>1, <1>18
  <2>2. ASSUME NEW u \in Stoppable, Stop(Main, u) PROVE OperatorInv'
    <3>1. u \in Thread
      BY ThreadAssumption DEF Thread, CmdThread
    <3> QED
      BY <2>2, <3>1, <1>18
  <2> QED
    BY <1>22, <2>1, <2>2, <1>1, <1>3, <1>4, <1>5, <1>6, <1>7, <1>8, <1>9, <1>10,
       <1>11, <1>15, <1>16, <1>17 DEF Handler
<1>23. ASSUME Clear(Main) PROVE OperatorInv'
  BY <1>23, <1>12, <1>13, <1>14 DEF Clear
<1>24. Next => \/ Issue(Main) \/ Handler(Main) \/ Clear(Main)
               \/ Lock(Snd) \/ (\E n \in Number : SndReceive(n)) \/ SndRead \/ SndSend
  BY <1>19 DEF Next, Receiver, Sender
<1> QED
  BY <1>2, <1>20, <1>21, <1>22, <1>23, <1>24

LEMMA OperatorInvariant ==
  ASSUME Script = {}, Suspended = {}
  PROVE  Spec => []OperatorInv
<1>1. TypeInv /\ OperatorInv /\ [Next]_vars => OperatorInv'
  BY NextOperatorInv
<1> QED
  BY <1>1, InitTypeInv, NextTypeInv, InitOperatorInv, PTL DEF Spec

(* As long as nobody but the operator touches the tables, a client that is *)
(* USED owns the open socket and the address the operator gave it          *)
(* (addClient, network_config, delClient).                                 *)
THEOREM OperatorKeepsClients ==
  ASSUME Script = {}, Suspended = {}
  PROVE  Spec => []ClientsConsistent
<1>1. OperatorInv => ClientsConsistent
  BY DEF OperatorInv
<1> QED
  BY <1>1, OperatorInvariant, PTL

(* Under the same condition no sequence of add, del and changeIp leaks a   *)
(* socket, whatever the outcome of socket() and of the checks.             *)
THEOREM OperatorLeaksNothing ==
  ASSUME Script = {}, Suspended = {}
  PROVE  Spec => []NoFdLeak
<1>1. OperatorInv => NoFdLeak
  BY DEF OperatorInv, OpenIsNamed, NoFdLeak, Thread, CmdThread
<1> QED
  BY <1>1, OperatorInvariant, PTL

(* What the main thread does between the sender's look at its client and   *)
(* its sendto: it works on other clients, or deletes this one.             *)
LEMMA MainLeavesSender ==
  ASSUME Script = {}, Suspended = {}, TypeInv, OperatorInv, SenderHasClient,
         Issue(Main) \/ Handler(Main) \/ Clear(Main), pc'[Snd] = "sndSend"
  PROVE  SenderHasClient' \/ gClientFlag'[loc[Snd].num] = UNUSED
<1> DEFINE n == loc[Snd].num
           m == loc[Main].num
<1>t. CmdThread = {Main} /\ Thread = {Main, Rec, Snd} /\ Main # Rec /\ Main # Snd /\ Rec # Snd
  BY ThreadAssumption DEF CmdThread, Thread
<1>1. loc'[Snd] = loc[Snd]
  <2>1. CASE \E u \in Thread : Start(Main, u)
    BY <2>1 DEF Start
  <2>2. CASE \E u \in Stoppable : Stop(Main, u)
    BY <1>t, <2>2, ThreadAssumption DEF Stop, TypeInv, TypeOK
  <2>3. CASE \E L : Moves(Main, L)
    BY <1>t, <2>3 DEF Moves
  <2>4. CASE Clear(Main)
    BY <1>t, <2>3, <2>4, DelMoves DEF Clear
  <2>5. CASE \/ Issue(Main) \/ Dispatch(Main) \/ OtherCommand(Main) \/ StartStopNothing(Main)
             \/ Lock(Main) \/ ShowEnter(Main) \/ ShowRead(Main)
    BY <1>t, <2>3, <2>5, DispatchMoves, LockMoves, ShowMoves
  <2>6. CASE \/ AddEnter(Main) \/ AddNum(Main) \/ AddRead(Main) \/ AddWrite(Main)
             \/ DelEnter(Main) \/ DelCheck(Main) \/ DelRead(Main)
    BY <1>t, <2>3, <2>6, AddMoves, DelMoves
  <2>7. CASE \/ ChgEnter(Main) \/ ChgNum(Main) \/ ChgRead(Main) \/ ChgWrite(Main)
    BY <1>t, <2>3, <2>7, ChgMoves
  <2>8. CASE \/ NetCheck(Main) \/ NetFlag(Main) \/ NetAton(Main) \/ NetSocket(Main)
             \/ NetAddr(Main)
    BY <1>t, <2>3, <2>8, NetMoves
  <2> QED
    BY <2>1, <2>2, <2>4, <2>5, <2>6, <2>7, <2>8 DEF Handler
<1>2. n \in Client /\ gClientFlag[n] = USED /\ OwnsSocket(n)
  BY DEF SenderHasClient, OwnsSocket
<1>3. CASE UNCHANGED tables
  BY <1>1, <1>3 DEF SenderHasClient, tables
<1>4. CASE AddWrite(Main)
  <2>1. UNCHANGED <<gSockets, clientSockAddr, fdOwner>> /\ gClientFlag'[n] = USED
    BY <1>2, <1>4 DEF AddWrite, setClientFlag
  <2> QED
    BY <1>1, <2>1 DEF SenderHasClient
<1>5. CASE NetSocket(Main)
  <2>1. m # n /\ UNCHANGED <<clientSockAddr, gClientFlag>>
    BY <1>2, <1>5 DEF NetSocket, OperatorInv, MainKnows, USED, UNUSED
  <2>2. gSockets'[n] = gSockets[n]
    BY <1>2, <1>5, <2>1 DEF NetSocket, netConfigSocket, netConfigNoSocket,
                            TypeInv, TypeOK, NetworkTypeOK
  <2>3. fdOwner'[gSockets[n]] = n
    BY <1>2, <1>5 DEF NetSocket, netConfigSocket, netConfigNoSocket, OwnsSocket,
                      Client, Closed, MIN_CLIENT, TypeInv, TypeOK, NetworkTypeOK
  <2> QED
    BY <1>1, <2>1, <2>2, <2>3 DEF SenderHasClient
<1>6. CASE NetAddr(Main)
  <2>1. m # n /\ UNCHANGED <<gSockets, gClientFlag, fdOwner>>
    BY <1>2, <1>6 DEF NetAddr, OperatorInv, MainKnows, USED, UNUSED
  <2>2. clientSockAddr'[n] = clientSockAddr[n]
    BY <1>2, <1>6, <2>1 DEF NetAddr, setClientSockAddr
  <2> QED
    BY <1>1, <2>1, <2>2 DEF SenderHasClient
<1>7. CASE ClearFlag(Main)
  <2>1. gClientFlag'[n] \in {gClientFlag[n], UNUSED}
    BY <1>2, <1>7 DEF ClearFlag, setClientFlag
  <2>2. UNCHANGED <<gSockets, clientSockAddr, fdOwner>>
    BY <1>7 DEF ClearFlag
  <2> QED
    BY <1>1, <2>1, <2>2 DEF SenderHasClient
<1>8. CASE ClearSocket(Main)
  <2>1. m # n /\ OwnsSocket(m) /\ UNCHANGED <<gSockets, clientSockAddr, gClientFlag>>
    BY <1>2, <1>8 DEF ClearSocket, OperatorInv, MainKnows, USED, UNUSED
  <2>2. fdOwner'[gSockets[n]] = n
    BY <1>2, <1>8, <2>1 DEF ClearSocket, closeSocket, OwnsSocket
  <2> QED
    BY <1>1, <2>1, <2>2 DEF SenderHasClient
<1>9. CASE ClearAddr(Main)
  <2>1. m # n /\ UNCHANGED <<gSockets, gClientFlag, fdOwner>>
    BY <1>2, <1>9 DEF ClearAddr, OperatorInv, MainKnows, USED, UNUSED
  <2>2. clientSockAddr'[n] = clientSockAddr[n]
    BY <1>2, <1>9, <2>1 DEF ClearAddr, delClientSockAddr, setClientSockAddr
  <2> QED
    BY <1>1, <2>1, <2>2 DEF SenderHasClient
<1>10. ~ChgWrite(Main)
  BY DEF ChgWrite, OperatorInv, MainKnows
<1>11. \/ UNCHANGED tables \/ AddWrite(Main) \/ NetSocket(Main) \/ NetAddr(Main) \/ Clear(Main)
  BY <1>10
  DEF Handler, Issue, Dispatch, OtherCommand, Lock, AddEnter, AddNum, AddRead, NetCheck, NetFlag,
      NetAton, DelEnter, DelCheck, DelRead, ChgEnter, ChgNum, ChgRead, ShowEnter, ShowRead,
      Start, Stop, StartStopNothing
<1> QED
  BY <1>3, <1>4, <1>5, <1>6, <1>7, <1>8, <1>9, <1>11 DEF Clear

LEMMA NextAddressed ==
  ASSUME Script = {}, Suspended = {}, TypeInv, OperatorInv, [Next]_vars, pc'[Snd] = "sndSend"
  PROVE  \/ SenderHasClient'
         \/ /\ pc[Snd] = "sndSend"
            /\ SenderHasClient => gClientFlag'[loc[Snd].num] = UNUSED
<1>t. CmdThread = {Main} /\ Thread = {Main, Rec, Snd} /\ Main # Rec /\ Main # Snd /\ Rec # Snd
  BY ThreadAssumption DEF CmdThread, Thread
<1>1. CASE SndRead
  <2>1. /\ loc[Snd].num \in Client /\ gClientFlag[loc[Snd].num] = USED
        /\ loc'[Snd].num = loc[Snd].num
        /\ loc'[Snd].fd = gSockets[loc[Snd].num]
        /\ loc'[Snd].addr = clientSockAddr[loc[Snd].num]
        /\ UNCHANGED tables
    BY <1>t, <1>1 DEF SndRead, return, goto, getClientFlag, getSocket, getClientSockAddr,
                      ERROR, UNUSED, TypeInv, TypeOK, NetworkTypeOK
  <2> QED
    BY <2>1 DEF SenderHasClient, OperatorInv, ClientsConsistent, tables
<1>2. CASE SndSend \/ Lock(Snd) \/ \E n \in Number : SndReceive(n)
  BY <1>t, <1>2, SenderMoves, LockMoves DEF Moves, Lock, Section, OperatorInv, OthersQuiet
<1>3. CASE Issue(Main) \/ Handler(Main) \/ Clear(Main)
  <2>1. pc[Snd] = "sndSend"
    <3>1. CASE \E u \in Thread : Start(Main, u)
      BY <1>t, <3>1 DEF Start, TypeInv, TypeOK
    <3>2. CASE \E u \in Stoppable : Stop(Main, u)
      BY <1>t, <3>2 DEF Stop, TypeInv, TypeOK
    <3>3. CASE \E l \in Label : goto(Main, l)
      BY <1>t, <3>3 DEF goto, TypeInv, TypeOK
    <3>4. CASE \E L : Moves(Main, L)
      BY <1>t, <3>4 DEF Moves
    <3>5. CASE \/ Issue(Main) \/ Dispatch(Main) \/ OtherCommand(Main) \/ StartStopNothing(Main)
               \/ Lock(Main) \/ ShowEnter(Main) \/ ShowRead(Main)
      BY <1>t, <3>4, <3>5, DispatchMoves, LockMoves, ShowMoves
    <3>6. CASE \/ AddEnter(Main) \/ AddNum(Main) \/ AddRead(Main) \/ AddWrite(Main)
               \/ DelEnter(Main) \/ DelCheck(Main) \/ DelRead(Main) \/ Clear(Main)
      BY <1>t, <3>4, <3>6, AddMoves, DelMoves DEF Clear
    <3>7. CASE \/ ChgEnter(Main) \/ ChgNum(Main) \/ ChgRead(Main) \/ ChgWrite(Main)
      BY <1>t, <3>4, <3>7, ChgMoves
    <3>8. CASE \/ NetCheck(Main) \/ NetFlag(Main) \/ NetAton(Main) \/ NetSocket(Main)
               \/ NetAddr(Main)
      BY <1>t, <3>4, <3>8, NetMoves
    <3> QED
      BY <1>3, <3>1, <3>2, <3>5, <3>6, <3>7, <3>8 DEF Handler
  <2> QED
    BY <1>3, <2>1, MainLeavesSender
<1>4. CASE UNCHANGED vars
  BY <1>4 DEF vars, tables, SenderHasClient
<1>5. ~Lock(Rec) /\ ~Clear(Rec)
  BY DEF Lock, Section, Clear, ClearFlag, ClearSocket, ClearAddr, OperatorInv, OthersQuiet
<1> QED
  BY <1>t, <1>1, <1>2, <1>3, <1>4, <1>5 DEF Next, Receiver, Sender

(* Under the same condition cmd_send sends every command from its client's *)
(* own open socket to its client's address, although it has given gMutex   *)
(* back by then; only if that client has been deleted since the look at    *)
(* the tables nothing is claimed.                                          *)
THEOREM SenderIsAddressed ==
  ASSUME Script = {}, Suspended = {}
  PROVE  Spec => AddressedSend
<1>1. TypeInv /\ OperatorInv /\ [Next]_vars =>
        [pc'[Snd] = "sndSend" =>
           \/ SenderHasClient'
           \/ /\ pc[Snd] = "sndSend"
              /\ SenderHasClient => gClientFlag'[loc[Snd].num] = UNUSED]_vars
  BY NextAddressed
<1>2. Spec => []TypeInv
  BY InitTypeInv, NextTypeInv, PTL DEF Spec
<1> QED
  BY <1>1, <1>2, OperatorInvariant, PTL DEF Spec, AddressedSend
-----------------------------------------------------------------------------
(* What survives "suspended" logs: while the operator adds and deletes     *)
(* clients and the receiver drops them at any time, what show prints is    *)
(* what cmd_send goes by.  For any number of clients, logs and stops of    *)
(* receiver and sender; scripts and changeIp are not used.                 *)
NoChangeIp == \A line \in Line[Main] : line.cmd # "changeIp"

(* Where the threads can be, and what main has to rely on inside add: no   *)
(* other thread writes gCmdParam.                                          *)
Places ==
  /\ pc[Rec] \in {"dead", "idle", "supLock", "clear", "clearSocket", "clearAddr"}
  /\ pc[Snd] \in {"dead", "idle", "sndLock", "sndRead", "sndSend"}
  /\ pc[Main] \notin {"dead", "changeIp", "chgNum", "chgLock", "chgRead", "chgLock2", "chgWrite",
                      "supLock", "sndLock", "sndRead", "sndSend"}
  /\ gCmdParam.cmd # "changeIp"
  /\ pc[Main] \in {"netCheck", "netFlag", "netAton", "netSocket", "netAddr"} =>
       loc[Main].ret = "addLock2"
  /\ pc[Main] \in {"netFlag", "netAton", "netSocket", "netAddr", "addLock2", "addWrite"} =>
       gCmdParam.ip \in Ip

(* A thread that has set an address of client c it has still to publish,   *)
(* or has still to take away.                                              *)
AtWork(t, c) ==
  loc[t].num = c /\ pc[t] \in {"addLock2", "addWrite", "clearSocket", "clearAddr"}

TextsAgree == \A c \in Client : gClientFlag[c] = USED <=> gClientIpAddr[c] \in Ip

AddressesAgree ==
  gMutex # Orphan =>
    \A c \in Client : gClientFlag[c] = UNUSED /\ clientSockAddr[c] # NoIp =>
      \E t \in Thread : AtWork(t, c)

LogInv == Places /\ TextsAgree /\ AddressesAgree

LEMMA ThreeThreads ==
  ASSUME Script = {}
  PROVE  /\ CmdThread = {Main} /\ Thread = {Main, Rec, Snd}
         /\ Main # Rec /\ Main # Snd /\ Rec # Snd /\ Main \notin Stoppable
         /\ Stoppable \subseteq {Rec, Snd}
         /\ Free # Orphan /\ Free \notin Thread /\ Orphan \notin Thread
BY ThreadAssumption DEF CmdThread, Thread

LEMMA InitLogInv ==
  ASSUME Script = {}
  PROVE  Init => LogInv
<1> SUFFICES ASSUME Init PROVE LogInv
  OBVIOUS
<1>1. pc[Main] = "idle" /\ pc[Rec] = "dead" /\ pc[Snd] = "dead" /\ gCmdParam.cmd = "show"
  BY ThreeThreads DEF Init
<1>2. Places
  BY <1>1 DEF Places
<1>3. TextsAgree /\ AddressesAgree
  BY NetworkAssumption DEF Init, NetworkInit, TextsAgree, AddressesAgree, USED, UNUSED
<1> QED
  BY <1>2, <1>3 DEF LogInv

(* A step outside the tables that leaves no client half added or cleared.  *)
LEMMA QuietStep ==
  ASSUME LogInv, NEW t \in Thread, NEW L, Moves(t, L),
         UNCHANGED <<gClientIpAddr, clientSockAddr, gClientFlag>>,
         gMutex' # Orphan => gMutex # Orphan,
         \A c \in Client : AtWork(t, c) => AtWork(t, c)'
  PROVE  TextsAgree' /\ AddressesAgree'
<1>1. TextsAgree'
  BY DEF LogInv, TextsAgree
<1>2. \A u \in Thread, c \in Client : AtWork(u, c) => AtWork(u, c)'
  BY DEF AtWork, Moves
<1> QED
  BY <1>1, <1>2 DEF LogInv, AddressesAgree

LEMMA PlacesOfMain ==
  ASSUME Script = {}, LogInv, NEW L, Moves(Main, L),
         L \subseteq Label \ {"dead", "changeIp", "chgNum", "chgLock", "chgRead", "chgLock2", "chgWrite",
                              "supLock", "sndLock", "sndRead", "sndSend"},
         gCmdParam'.cmd # "changeIp",
         pc'[Main] \in {"netCheck", "netFlag", "netAton", "netSocket", "netAddr"} =>
           loc'[Main].ret = "addLock2",
         pc'[Main] \in {"netFlag", "netAton", "netSocket", "netAddr", "addLock2", "addWrite"} =>
           gCmdParam'.ip \in Ip
  PROVE  Places'
BY ThreeThreads DEF LogInv, Places, Moves

LEMMA PlacesOfOthers ==
  ASSUME Script = {}, LogInv, NEW t \in {Rec, Snd}, NEW L, Moves(t, L), UNCHANGED gCmdParam,
         t = Rec => L \subseteq {"dead", "idle", "supLock", "clear", "clearSocket", "clearAddr"},
         t = Snd => L \subseteq {"dead", "idle", "sndLock", "sndRead", "sndSend"}
  PROVE  Places'
BY ThreeThreads DEF LogInv, Places, Moves

LEMMA OrphanStays ==
  ASSUME Script = {}, NEW t \in Thread, Lock(t) \/ Unlock(t) \/ UNCHANGED gMutex
  PROVE  gMutex' # Orphan => gMutex # Orphan
BY ThreeThreads DEF Lock, Unlock

-----------------------------------------------------------------------------
(* The main thread *)

LEMMA MainTalks ==
  ASSUME Script = {}, NoChangeIp, TypeInv, LogInv,
         \/ Issue(Main) \/ Dispatch(Main) \/ OtherCommand(Main) \/ StartStopNothing(Main)
         \/ AddEnter(Main) \/ DelEnter(Main) \/ ShowEnter(Main)
         \/ AddNum(Main) \/ DelCheck(Main)
  PROVE  LogInv'
<1> USE ThreeThreads
<1> DEFINE L == {"dispatch", "add", "del", "show", "ioevt", "start", "stop", "idle", "addNum",
                 "addLock", "delCheck", "delLock", "showLock"}
<1>1. Moves(Main, L)
  <2>1. CASE Issue(Main) \/ OtherCommand(Main) \/ StartStopNothing(Main)
    BY <2>1, DispatchMoves DEF Moves
  <2>2. CASE Dispatch(Main)
    <3>1. Moves(Main, Command) /\ pc'[Main] = gCmdParam.cmd /\ gCmdParam.cmd # "changeIp"
      BY <2>2, DispatchMoves DEF Dispatch, goto, TypeInv, TypeOK, LogInv, Places
    <3> QED
      BY <3>1 DEF Moves, Command
  <2>3. CASE AddEnter(Main) \/ AddNum(Main)
    BY <2>3, AddMoves DEF Moves
  <2>4. CASE DelEnter(Main) \/ DelCheck(Main)
    BY <2>4, DelMoves DEF Moves
  <2>5. CASE ShowEnter(Main)
    BY <2>5, ShowMoves DEF Moves
  <2> QED
    BY <2>1, <2>2, <2>3, <2>4, <2>5
<1>2. /\ UNCHANGED <<tables, gMutex>>
      /\ pc[Main] \in {"idle", "dispatch", "ioevt", "start", "stop", "add", "del", "show",
                       "addNum", "delCheck"}
  BY DEF Issue, Dispatch, OtherCommand, StartStopNothing, AddEnter, AddNum, DelEnter, DelCheck,
         ShowEnter
<1>3. gCmdParam'.cmd # "changeIp"
  BY DEF Issue, Dispatch, OtherCommand, StartStopNothing, AddEnter, AddNum, DelEnter, DelCheck,
         ShowEnter, NoChangeIp, LogInv, Places
<1>4. Places'
  BY <1>1, <1>3, PlacesOfMain DEF Label, Section, Critical, Command, Moves
<1>5. TextsAgree' /\ AddressesAgree'
  BY <1>1, <1>2, QuietStep DEF AtWork, tables
<1> QED
  BY <1>4, <1>5 DEF LogInv

LEMMA MainLocks ==
  ASSUME Script = {}, TypeInv, LogInv, Lock(Main)
  PROVE  LogInv'
<1> USE ThreeThreads
<1>1. Moves(Main, {Section[pc[Main]]}) /\ UNCHANGED <<tables, gCmdParam, loc>>
  BY LockMoves DEF Lock
<1>2. \/ pc[Main] = "addLock"  /\ pc'[Main] = "addRead"
      \/ pc[Main] = "addLock2" /\ pc'[Main] = "addWrite"
      \/ pc[Main] = "delLock"  /\ pc'[Main] = "delRead"
      \/ pc[Main] = "delLock2" /\ pc'[Main] = "clear"
      \/ pc[Main] = "showLock" /\ pc'[Main] = "showRead"
  BY <1>1 DEF Lock, Section, Moves, LogInv, Places
<1>3. Places'
  BY <1>1, <1>2 DEF LogInv, Places, Moves
<1>4. TextsAgree' /\ AddressesAgree'
  BY <1>1, <1>2, OrphanStays, QuietStep DEF AtWork, tables
<1> QED
  BY <1>3, <1>4 DEF LogInv

LEMMA MainReads ==
  ASSUME Script = {}, TypeInv, LogInv,
         \/ AddRead(Main) \/ DelRead(Main) \/ ShowRead(Main)
         \/ NetCheck(Main) \/ NetFlag(Main) \/ NetAton(Main) \/ NetSocket(Main)
  PROVE  LogInv'
<1> USE ThreeThreads
<1> DEFINE L == {"netCheck", "netFlag", "netAton", "netSocket", "netAddr", "delLock2", "showLock",
                 "idle"}
<1>1. Moves(Main, L)
  BY AddMoves, DelMoves, ShowMoves, NetMoves DEF Moves
<1>2. /\ UNCHANGED <<gClientIpAddr, clientSockAddr, gClientFlag, gCmdParam>>
      /\ pc[Main] \in {"addRead", "delRead", "showRead", "netCheck", "netFlag", "netAton", "netSocket"}
  BY DEF AddRead, DelRead, ShowRead, NetCheck, NetFlag, NetAton, NetSocket, tables
<1>3. gMutex' # Orphan => gMutex # Orphan
  BY OrphanStays DEF AddRead, DelRead, ShowRead, NetCheck, NetFlag, NetAton, NetSocket
<1>4. pc'[Main] \in {"netCheck", "netFlag", "netAton", "netSocket", "netAddr"} =>
        loc'[Main].ret = "addLock2"
  BY DEF AddRead, DelRead, ShowRead, NetCheck, NetFlag, NetAton, NetSocket, goto, return,
         TypeInv, TypeOK, LogInv, Places
<1>5. pc'[Main] \in {"netFlag", "netAton", "netSocket", "netAddr"} => gCmdParam.ip \in Ip
  BY <1>1 DEF AddRead, DelRead, ShowRead, NetCheck, NetFlag, NetAton, NetSocket, goto, return,
         TypeInv, TypeOK, LogInv, Places, netConfigAccepts, isValidIp
<1>6. Places'
  BY <1>1, <1>2, <1>4, <1>5, PlacesOfMain DEF Label, Section, Critical, Command, Moves, LogInv, Places
<1>7. TextsAgree' /\ AddressesAgree'
  BY <1>1, <1>2, <1>3, QuietStep DEF AtWork
<1> QED
  BY <1>6, <1>7 DEF LogInv

(* The address is set before the flag: meanwhile the client is main's. *)
LEMMA MainSetsAddress ==
  ASSUME Script = {}, TypeInv, LogInv, NetAddr(Main)
  PROVE  LogInv'
<1> USE ThreeThreads
<1>1. /\ Moves(Main, {"addLock2"}) /\ UNCHANGED <<gClientIpAddr, gClientFlag, gMutex, gCmdParam, loc>>
      /\ pc[Main] = "netAddr"
  BY NetMoves DEF NetAddr, goto, TypeInv, TypeOK, Moves, LogInv, Places
<1>2. Places'
  BY <1>1, PlacesOfMain DEF Label, Section, Critical, Command, Moves, LogInv, Places
<1>3. \A c \in Client : c # loc[Main].num => clientSockAddr'[c] = clientSockAddr[c]
  BY DEF NetAddr, setClientSockAddr
<1>4. \A u \in Thread, c \in Client : AtWork(u, c) => AtWork(u, c)'
  BY <1>1 DEF AtWork, Moves
<1>5. AtWork(Main, loc[Main].num)'
  BY <1>1 DEF AtWork, Moves
<1>6. AddressesAgree'
  BY <1>1, <1>3, <1>4, <1>5 DEF LogInv, AddressesAgree
<1> QED
  BY <1>1, <1>2, <1>6 DEF LogInv, TextsAgree

LEMMA MainPublishes ==
  ASSUME Script = {}, TypeInv, LogInv, AddWrite(Main)
  PROVE  LogInv'
<1> USE ThreeThreads
<1>1. Moves(Main, {"idle"}) /\ UNCHANGED <<clientSockAddr, gCmdParam>> /\ pc[Main] = "addWrite"
  BY AddMoves DEF AddWrite
<1>2. Places'
  BY <1>1, PlacesOfMain DEF Label, Section, Critical, Command, Moves, LogInv, Places
<1>3. TextsAgree'
  BY <1>1 DEF AddWrite, setClientFlag, setClientIpAddr, LogInv, Places, TextsAgree
<1>4. gMutex' # Orphan => gMutex # Orphan
  BY OrphanStays DEF AddWrite
<1>5. \A c \in Client : gClientFlag'[c] = UNUSED => c # loc[Main].num /\ gClientFlag[c] = UNUSED
  BY DEF AddWrite, setClientFlag, USED, UNUSED
<1>6. \A u \in Thread, c \in Client : c # loc[Main].num /\ AtWork(u, c) => AtWork(u, c)'
  BY <1>1 DEF AtWork, Moves
<1>7. AddressesAgree'
  BY <1>1, <1>4, <1>5, <1>6 DEF LogInv, AddressesAgree
<1> QED
  BY <1>2, <1>3, <1>7 DEF LogInv

-----------------------------------------------------------------------------
(* Clearing a client, by main or by the receiver *)

LEMMA ClearKeeps ==
  ASSUME Script = {}, TypeInv, LogInv, NEW t \in {Main, Rec}, Clear(t)
  PROVE  LogInv'
<1> USE ThreeThreads
<1>1. /\ Moves(t, {"clearSocket", "clearAddr", "idle"}) /\ UNCHANGED gCmdParam
      /\ pc[t] \in {"clear", "clearSocket", "clearAddr"}
  BY DelMoves DEF Clear, ClearFlag, ClearSocket, ClearAddr, Moves
<1>2. Places'
  <2>1. CASE t = Main
    BY <1>1, <2>1, PlacesOfMain DEF Label, Section, Critical, Command, Moves, LogInv, Places
  <2>2. CASE t = Rec
    BY <1>1, <2>2, PlacesOfOthers
  <2> QED
    BY <2>1, <2>2
<1>3. gMutex' # Orphan => gMutex # Orphan
  BY OrphanStays DEF Clear, ClearFlag, ClearSocket, ClearAddr
<1>4. CASE ClearFlag(t)
  <2>1. Moves(t, {"clearSocket"}) /\ UNCHANGED <<clientSockAddr, loc>>
    BY <1>4, DelMoves DEF ClearFlag
  <2>2. TextsAgree'
    BY <1>4, NetworkAssumption
    DEF ClearFlag, setClientFlag, setClientIpAddr, LogInv, TextsAgree, USED, UNUSED
  <2>3. \A u \in Thread, c \in Client : AtWork(u, c) => AtWork(u, c)'
    BY <1>4, <2>1 DEF AtWork, Moves
  <2>4. AtWork(t, loc[t].num)'
    BY <2>1 DEF AtWork, Moves
  <2>5. \A c \in Client : c # loc[t].num => gClientFlag'[c] = gClientFlag[c]
    BY <1>4 DEF ClearFlag, setClientFlag
  <2>6. AddressesAgree'
    BY <1>3, <2>1, <2>3, <2>4, <2>5 DEF LogInv, AddressesAgree
  <2> QED
    BY <1>2, <2>2, <2>6 DEF LogInv
<1>5. CASE ClearSocket(t)
  <2>1. Moves(t, {"clearAddr"}) /\ UNCHANGED <<gClientIpAddr, clientSockAddr, gClientFlag, loc>>
    BY <1>5, DelMoves DEF ClearSocket
  <2>2. TextsAgree' /\ AddressesAgree'
    BY <1>3, <2>1, QuietStep DEF AtWork, Moves
  <2> QED
    BY <1>2, <2>2 DEF LogInv
<1>6. CASE ClearAddr(t)
  <2>1. Moves(t, {"idle"}) /\ UNCHANGED <<gClientIpAddr, gClientFlag>>
    BY <1>6, DelMoves DEF ClearAddr
  <2>2. \A c \in Client : clientSockAddr'[c] # NoIp =>
          c # loc[t].num /\ clientSockAddr'[c] = clientSockAddr[c]
    BY <1>6 DEF ClearAddr, delClientSockAddr, setClientSockAddr
  <2>3. \A u \in Thread, c \in Client : c # loc[t].num /\ AtWork(u, c) => AtWork(u, c)'
    BY <2>1 DEF AtWork, Moves
  <2>4. AddressesAgree'
    BY <1>3, <2>1, <2>2, <2>3 DEF LogInv, AddressesAgree
  <2> QED
    BY <1>2, <2>1, <2>4 DEF LogInv, TextsAgree
<1> QED
  BY <1>4, <1>5, <1>6 DEF Clear

-----------------------------------------------------------------------------
(* Receiver and sender, and how they come and go *)

LEMMA OthersKeep ==
  ASSUME Script = {}, TypeInv, LogInv,
         \/ Lock(Rec) \/ \E n \in Suspended : SuspendLog(n)
         \/ \E n \in Number : SndReceive(n)
         \/ Sender
  PROVE  LogInv'
<1> USE ThreeThreads
<1>1. ASSUME NEW t \in {Rec, Snd}, NEW L, Moves(t, L), UNCHANGED <<tables, gCmdParam>>,
             gMutex' # Orphan => gMutex # Orphan, pc[t] \notin {"clearSocket", "clearAddr"},
             t = Rec => L \subseteq {"dead", "idle", "supLock", "clear", "clearSocket", "clearAddr"},
             t = Snd => L \subseteq {"dead", "idle", "sndLock", "sndRead", "sndSend"}
      PROVE  LogInv'
  <2>1. Places'
    BY <1>1, PlacesOfOthers
  <2>2. \A c \in Client : ~ AtWork(t, c)
    BY <1>1 DEF AtWork, LogInv, Places
  <2>3. TextsAgree' /\ AddressesAgree'
    BY <1>1, <2>2, QuietStep DEF tables
  <2> QED
    BY <2>1, <2>3 DEF LogInv
<1>2. CASE Lock(Rec)
  <2>1. Moves(Rec, {Section[pc[Rec]]}) /\ pc[Rec] = "supLock" /\ UNCHANGED <<tables, gCmdParam>>
    BY <1>2, LockMoves DEF Lock, Section, LogInv, Places
  <2>2. Moves(Rec, {"clear"})
    BY <2>1 DEF Section
  <2> QED
    BY <1>1, <1>2, <2>1, <2>2, OrphanStays
<1>3. ASSUME NEW n \in Suspended, SuspendLog(n) PROVE LogInv'
  <2>1. Moves(Rec, {"supLock"}) /\ pc[Rec] = "idle" /\ UNCHANGED <<tables, gMutex, gCmdParam>>
    BY <1>3, SuspendMoves DEF SuspendLog
  <2> QED
    BY <1>1, <2>1
<1>4. ASSUME NEW n \in Number, SndReceive(n) PROVE LogInv'
  <2>1. Moves(Snd, {"sndLock"}) /\ pc[Snd] = "idle" /\ UNCHANGED <<tables, gMutex, gCmdParam>>
    BY <1>4, SenderMoves DEF SndReceive
  <2> QED
    BY <1>1, <2>1
<1>5. CASE Lock(Snd)
  <2>1. Moves(Snd, {Section[pc[Snd]]}) /\ pc[Snd] = "sndLock" /\ UNCHANGED <<tables, gCmdParam>>
    BY <1>5, LockMoves DEF Lock, Section, LogInv, Places
  <2>2. Moves(Snd, {"sndRead"})
    BY <2>1 DEF Section
  <2> QED
    BY <1>1, <1>5, <2>1, <2>2, OrphanStays
<1>6. CASE SndRead \/ SndSend
  <2>1. /\ Moves(Snd, {"sndSend", "idle"}) /\ pc[Snd] \in {"sndRead", "sndSend"}
        /\ UNCHANGED <<tables, gCmdParam>> /\ (Unlock(Snd) \/ UNCHANGED gMutex)
    BY <1>6, SenderMoves DEF SndRead, SndSend, Moves
  <2> QED
    BY <1>1, <2>1, OrphanStays
<1> QED
  BY <1>2, <1>3, <1>4, <1>5, <1>6 DEF Sender

(* A thread that is stopped half way through clearing leaves gMutex to     *)
(* nobody.                                                                 *)
LEMMA StartStopKeeps ==
  ASSUME Script = {}, TypeInv, MutexOwned, LogInv, NEW u \in Thread,
         Start(Main, u) \/ (u \in Stoppable /\ Stop(Main, u))
  PROVE  LogInv'
<1> USE ThreeThreads
<1>1. \A v \in Thread : \/ pc'[v] = pc[v] /\ loc'[v] = loc[v]
                        \/ pc'[v] \in {"idle", "dead"} /\ v \in {Main, u}
  BY DEF Start, Stop, TypeInv, TypeOK
<1>2. pc[Main] \in {"start", "stop"} /\ pc'[Main] = "idle" /\ UNCHANGED <<tables, gCmdParam>>
  BY DEF Start, Stop, TypeInv, TypeOK
<1>3. Places'
  BY <1>1, <1>2 DEF LogInv, Places
<1>4. ASSUME gMutex' # Orphan, NEW v \in Thread, NEW c \in Client, AtWork(v, c)
      PROVE  gMutex # Orphan /\ AtWork(v, c)'
  <2>1. gMutex # Orphan
    BY <1>4 DEF Start, Stop
  <2>2. v # Main
    BY <1>2, <1>4 DEF AtWork
  <2>3. pc[v] \in Critical /\ gMutex = v
    BY <1>4, <2>2 DEF AtWork, LogInv, Places, Critical, MutexOwned
  <2>4. pc'[v] = pc[v] /\ loc'[v] = loc[v]
    BY <1>1, <1>4, <2>2, <2>3 DEF Start, Stop, AtWork, TypeInv, TypeOK
  <2> QED
    BY <1>4, <2>1, <2>4 DEF AtWork
<1>5. gMutex' # Orphan => gMutex # Orphan
  BY DEF Start, Stop
<1>6. TextsAgree' /\ AddressesAgree'
  BY <1>2, <1>4, <1>5 DEF LogInv, TextsAgree, AddressesAgree, tables
<1> QED
  BY <1>3, <1>6 DEF LogInv

LEMMA NextLogInv ==
  ASSUME Script = {}, NoChangeIp, TypeInv, MutexOwned, LogInv, [Next]_vars
  PROVE  LogInv'
<1> USE ThreeThreads
<1>1. CASE Issue(Main) \/ Handler(Main)
  <2>1. ~ (ChgEnter(Main) \/ ChgNum(Main) \/ ChgRead(Main) \/ ChgWrite(Main))
    BY DEF ChgEnter, ChgNum, ChgRead, ChgWrite, LogInv, Places
  <2>2. \A u \in Stoppable : u \in Thread
    OBVIOUS
  <2> QED
    BY <1>1, <2>1, <2>2, MainTalks, MainLocks, MainReads, MainSetsAddress, MainPublishes,
       StartStopKeeps DEF Handler
<1>2. CASE Clear(Main) \/ Clear(Rec)
  BY <1>2, ClearKeeps
<1>3. CASE \/ Lock(Rec) \/ \E n \in Suspended : SuspendLog(n)
           \/ \E n \in Number : SndReceive(n)
           \/ Sender
  BY <1>3, OthersKeep
<1>4. CASE UNCHANGED vars
  BY <1>4 DEF LogInv, Places, TextsAgree, AddressesAgree, AtWork, vars, tables
<1>5. ASSUME Next PROVE LogInv'
  <2>1. CASE \E t \in CmdThread : Issue(t) \/ Handler(t) \/ Clear(t)
    <3>1. Issue(Main) \/ Handler(Main) \/ Clear(Main)
      BY <2>1
    <3> QED
      BY <1>1, <1>2, <3>1
  <2>2. CASE Receiver
    BY <1>2, <1>3, <2>2 DEF Receiver
  <2>3. ~ \E t \in Script : ScriptEnds(t)
    OBVIOUS
  <2> QED
    BY <1>3, <1>5, <2>1, <2>2, <2>3 DEF Next
<1> QED
  BY <1>4, <1>5

LEMMA LogInvShows ==
  ASSUME Script = {}, MutexOwned, LogInv
  PROVE  FlagTellsAddress
<1> SUFFICES ASSUME gMutex = Free, NEW c \in Client, gClientFlag[c] = UNUSED, clientSockAddr[c] # NoIp
             PROVE  \E t \in CmdThread : loc[t].num = c /\ pc[t] = "addLock2"
  BY DEF FlagTellsAddress, LogInv, TextsAgree
<1>1. PICK t \in Thread : AtWork(t, c)
  BY ThreeThreads DEF LogInv, AddressesAgree
<1>2. pc[t] \notin Critical
  BY ThreeThreads DEF MutexOwned
<1>3. pc[t] = "addLock2" /\ loc[t].num = c
  BY <1>1, <1>2 DEF AtWork, Critical
<1>4. t \in CmdThread
  BY <1>3, ThreeThreads DEF LogInv, Places
<1> QED
  BY <1>3, <1>4

(* However many "suspended" logs arrive, whichever clients they name and   *)
(* wherever receiver and sender are stopped: while gMutex is free, a       *)
(* client has an address text exactly if commands are sent to it, and only *)
(* one that is being added an address without being in use (syslogProcess, *)
(* delClient, addClient).                                                  *)
THEOREM ShowTellsWhoIsUsed ==
  ASSUME Script = {}, NoChangeIp
  PROVE  Spec => []FlagTellsAddress
<1>1. TypeInv /\ MutexOwned /\ LogInv /\ [Next]_vars => LogInv'
  BY NextLogInv
<1>2. MutexOwned /\ LogInv => FlagTellsAddress
  BY LogInvShows
<1>3. Init => LogInv
  BY InitLogInv
<1> QED
  BY <1>1, <1>2, <1>3, InitTypeInv, NextTypeInv, InitMutexOwned, NextMutexOwned, PTL DEF Spec
=============================================================================
