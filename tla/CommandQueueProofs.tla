-------------------------- MODULE CommandQueueProofs --------------------------
(***************************************************************************)
(* Theorems about CommandQueue, for any set of script threads, any size of *)
(* the queue and any number of senders, messages and program runs.         *)
(***************************************************************************)
EXTENDS CommandQueue, FiniteSetTheorems, SequenceTheorems, TLAPS

Message == 1 .. MaxMsg
Label   == {"idle", "msgsnd", "create", "created", "stopKill", "stopJoin",
            "stopSet", "quitKill", "quitJoin", "quit"}

(* TypeOK is not inductive: that the last message is not exceeded is due   *)
(* to the threads that wait in msgsnd having been counted before.          *)
Waiting == {u \in CmdThread : pc[u] = "msgsnd"}

RoomLeft == IsFiniteSet(Waiting) /\ submitted + Cardinality(Waiting) <= MaxMsg

(* And that only messages are sent: a sender in its loop body has one.     *)
Carrying == \A i \in SenderId : held[i] # None <=> sender[i] = "hold"

TypeInv == TypeOK /\ RoomLeft /\ Carrying

LEMMA MainIsCmdThread == Main \in CmdThread /\ Script \subseteq CmdThread
BY DEF CmdThread

LEMMA NoneIsNoSender == None \notin SenderId /\ None \notin Message
BY DEF None, SenderId, Message

LEMMA BoundFacts ==
  /\ QueueCap \in Nat /\ MaxLaunch \in Nat /\ MaxMsg \in Nat
  /\ QueueCap >= 1 /\ MaxLaunch >= 1 /\ MaxMsg >= 1
  /\ None \in 0 .. MaxMsg
BY QueueAssumption DEF None

LEMMA FreshTypes ==
  /\ NoSender \in [SenderId -> {"none", "new", "poll", "hold", "dead"}]
  /\ NoMessage \in [SenderId -> 0 .. MaxMsg]
  /\ AllIdle \in [CmdThread -> Label]
  /\ NoTid \in [CmdThread -> SenderId \cup {None}]
BY BoundFacts DEF NoSender, NoMessage, AllIdle, NoTid, Label

(* A step after which nobody new waits in msgsnd keeps room for the rest.  *)
LEMMA RoomKept ==
  ASSUME TypeInv, Waiting' \subseteq Waiting, submitted' = submitted
  PROVE  RoomLeft'
<1>1. IsFiniteSet(Waiting') /\ Cardinality(Waiting') <= Cardinality(Waiting)
  BY FS_Subset DEF TypeInv, RoomLeft
<1>2. Cardinality(Waiting) \in Nat /\ Cardinality(Waiting') \in Nat
  BY <1>1, FS_CardinalityType DEF TypeInv, RoomLeft
<1>3. submitted \in Int /\ MaxMsg \in Int
  BY QueueAssumption DEF TypeInv, TypeOK
<1> QED
  BY <1>1, <1>2, <1>3 DEF TypeInv, RoomLeft

LEMMA GotoRoom ==
  ASSUME TypeInv, NEW t \in CmdThread, NEW l \in Label \ {"msgsnd"}, goto(t, l),
         submitted' = submitted
  PROVE  RoomLeft'
<1>1. Waiting' \subseteq Waiting
  BY DEF Waiting, goto, TypeInv, TypeOK, Label
<1> QED
  BY <1>1, RoomKept

LEMMA StillRoom ==
  ASSUME TypeInv, UNCHANGED <<pc, submitted>>
  PROVE  RoomLeft'
BY RoomKept DEF Waiting

LEMMA InitTypeInv == Init => TypeInv
<1> SUFFICES ASSUME Init PROVE TypeInv
  OBVIOUS
<1> USE DEF Init
<1>0. queue \in Seq(1 .. MaxMsg) /\ delivered \in Seq(1 .. MaxMsg) /\ Len(queue) = 0
  BY EmptySeq
<1>1. TypeOK
  <2>1. launches \in 1 .. MaxLaunch /\ submitted \in 0 .. MaxMsg /\ Len(queue) <= QueueCap
    BY <1>0, BoundFacts
  <2> QED
    BY <1>0, <2>1, FreshTypes DEF TypeOK, Label
<1>2. Waiting = {}
  BY DEF Waiting, AllIdle
<1>3. RoomLeft
  BY <1>2, FS_EmptySet, QueueAssumption DEF RoomLeft
<1>4. Carrying
  BY DEF Carrying, NoSender, NoMessage
<1> QED
  BY <1>1, <1>3, <1>4 DEF TypeInv

-----------------------------------------------------------------------------
(* Type correctness, action by action.                                     *)

LEMMA CommandTypes ==
  ASSUME TypeInv, NEW t \in CmdThread, Command(t)
  PROVE  TypeInv'
<1> USE DEF Command, goto, senders, channel
<1>1. TypeOK'
  BY DEF TypeInv, TypeOK
<1>2. Waiting' = Waiting \cup {t} /\ t \notin Waiting
  BY DEF Waiting, TypeInv, TypeOK
<1>3. IsFiniteSet(Waiting') /\ Cardinality(Waiting') = Cardinality(Waiting) + 1
  BY <1>2, FS_AddElement DEF TypeInv, RoomLeft
<1>4. Cardinality(Waiting) \in Nat /\ submitted \in Nat /\ MaxMsg \in Nat
  BY FS_CardinalityType, QueueAssumption DEF TypeInv, RoomLeft, TypeOK
<1>5. submitted + Cardinality(Waiting) < MaxMsg
  BY DEF Waiting
<1>6. RoomLeft'
  BY <1>3, <1>4, <1>5 DEF RoomLeft
<1>7. Carrying'
  BY DEF Carrying, TypeInv
<1> QED
  BY <1>1, <1>6, <1>7 DEF TypeInv

LEMMA MsgsndTypes ==
  ASSUME TypeInv, NEW t \in CmdThread, Msgsnd(t)
  PROVE  TypeInv'
<1> USE DEF Msgsnd, goto, senders
<1>1. t \in Waiting /\ Waiting' = Waiting \ {t}
  BY DEF Waiting, TypeInv, TypeOK
<1>2. IsFiniteSet(Waiting') /\ Cardinality(Waiting') = Cardinality(Waiting) - 1
  BY <1>1, FS_RemoveElement DEF TypeInv, RoomLeft
<1>3. /\ Cardinality(Waiting) \in Nat /\ Cardinality(Waiting') \in Nat
      /\ submitted \in Nat /\ MaxMsg \in Nat
  BY <1>2, FS_CardinalityType, QueueAssumption DEF TypeInv, RoomLeft, TypeOK
<1>4. submitted + Cardinality(Waiting) <= MaxMsg
  BY DEF TypeInv, RoomLeft
<1>5. submitted + 1 \in 1 .. MaxMsg
  BY <1>2, <1>3, <1>4
<1>6. /\ queue \in Seq(1 .. MaxMsg) /\ Len(queue) < QueueCap
      /\ queue' = Append(queue, submitted + 1)
  BY DEF TypeInv, TypeOK
<1>7. queue' \in Seq(1 .. MaxMsg) /\ Len(queue') = Len(queue) + 1
  BY <1>5, <1>6
<1>8. Len(queue') <= QueueCap
  BY <1>6, <1>7, QueueAssumption
<1>9. TypeOK'
  BY <1>5, <1>7, <1>8 DEF TypeInv, TypeOK, threads
<1>10. RoomLeft'
  BY <1>2, <1>3, <1>4 DEF RoomLeft
<1>11. Carrying'
  BY DEF Carrying, TypeInv
<1> QED
  BY <1>9, <1>10, <1>11 DEF TypeInv

(* The steps of a command thread inside start, stop and quit.              *)
LEMMA OperatorTypes ==
  ASSUME TypeInv,
         \/ StartRead \/ \E i \in SenderId : StartCreate(i)
         \/ StartFail \/ StartSet
         \/ StopRead \/ \E text \in QuitText : QuitRead(text)
         \/ StopSet \/ PthreadJoin
         \/ \E t \in Script : StopScript(t)
  PROVE  TypeInv'
<1> USE MainIsCmdThread DEF goto, senders, channel
<1>1. ASSUME NEW t \in CmdThread, NEW l \in Label \ {"msgsnd"}, goto(t, l),
             UNCHANGED submitted
      PROVE  RoomLeft'
  BY <1>1, GotoRoom
<1>2. CASE StartRead
  <2>1. TypeOK'
    BY <1>2 DEF StartRead, TypeInv, TypeOK
  <2>2. RoomLeft'
    BY <1>2, <1>1 DEF StartRead, Label
  <2> QED
    BY <1>2, <2>1, <2>2 DEF StartRead, TypeInv, Carrying
<1>3. ASSUME NEW i \in SenderId, StartCreate(i) PROVE TypeInv'
  <2>1. TypeOK'
    BY <1>3 DEF StartCreate, TypeInv, TypeOK
  <2>2. RoomLeft'
    BY <1>3, <1>1 DEF StartCreate, Label
  <2>3. Carrying'
    BY <1>3 DEF StartCreate, TypeInv, TypeOK, Carrying
  <2> QED
    BY <2>1, <2>2, <2>3 DEF TypeInv
<1>4. CASE StartFail
  <2>1. TypeOK'
    BY <1>4 DEF StartFail, TypeInv, TypeOK
  <2>2. RoomLeft'
    BY <1>4, <1>1 DEF StartFail, Label
  <2> QED
    BY <1>4, <2>1, <2>2 DEF StartFail, TypeInv, Carrying
<1>5. CASE StartSet
  <2>1. TypeOK'
    BY <1>5 DEF StartSet, TypeInv, TypeOK
  <2>2. RoomLeft'
    BY <1>5, <1>1 DEF StartSet, Label
  <2> QED
    BY <1>5, <2>1, <2>2 DEF StartSet, TypeInv, Carrying
<1>6. CASE StopRead
  <2>1. TypeOK'
    BY <1>6 DEF StopRead, TypeInv, TypeOK
  <2>2. RoomLeft'
    BY <1>6, <1>1 DEF StopRead, Label
  <2> QED
    BY <1>6, <2>1, <2>2 DEF StopRead, TypeInv, Carrying
<1>7. ASSUME NEW text \in QuitText, QuitRead(text) PROVE TypeInv'
  <2>1. TypeOK'
    BY <1>7, QueueAssumption DEF QuitRead, TypeInv, TypeOK
  <2>2. RoomLeft'
    BY <1>7, <1>1 DEF QuitRead, Label
  <2> QED
    BY <1>7, <2>1, <2>2 DEF QuitRead, TypeInv, Carrying
<1>8. CASE StopSet
  <2>1. TypeOK'
    BY <1>8 DEF StopSet, TypeInv, TypeOK
  <2>2. RoomLeft'
    BY <1>8, <1>1 DEF StopSet, Label
  <2> QED
    BY <1>8, <2>1, <2>2 DEF StopSet, TypeInv, Carrying
<1>9. CASE PthreadJoin
  <2>1. AfterJoin[pc[Main]] \in {"stopSet", "quit"}
    BY <1>9 DEF PthreadJoin, AfterJoin
  <2>2. TypeOK'
    BY <1>9, <2>1 DEF PthreadJoin, TypeInv, TypeOK
  <2>3. RoomLeft'
    BY <1>9, <1>1, <2>1 DEF PthreadJoin, Label
  <2> QED
    BY <1>9, <2>2, <2>3 DEF PthreadJoin, TypeInv, Carrying
<1>10. ASSUME NEW t \in Script, StopScript(t) PROVE TypeInv'
  <2>1. TypeOK'
    BY <1>10 DEF StopScript, TypeInv, TypeOK
  <2>2. RoomLeft'
    BY <1>10, <1>1 DEF StopScript, Label
  <2> QED
    BY <1>10, <2>1, <2>2 DEF StopScript, TypeInv, Carrying
<1> QED
  BY <1>2, <1>3, <1>4, <1>5, <1>6, <1>7, <1>8, <1>9, <1>10

LEMMA SenderTypes ==
  ASSUME TypeInv, NEW i \in SenderId, Sender(i) \/ SenderQuits(i)
  PROVE  TypeInv'
<1> USE DEF threads
<1>1. UNCHANGED <<pc, submitted>>
  BY DEF Sender, SenderArms, Msgrcv, Sendto, SenderQuits, channel
<1>2. RoomLeft'
  BY <1>1, StillRoom
<1>3. CASE SenderArms(i)
  <2>1. TypeOK'
    BY <1>3 DEF SenderArms, channel, TypeInv, TypeOK
  <2>2. Carrying'
    BY <1>3 DEF SenderArms, TypeInv, TypeOK, Carrying
  <2> QED
    BY <1>2, <2>1, <2>2 DEF TypeInv
<1>4. CASE Msgrcv(i)
  <2>1. queue \in Seq(Message) /\ queue # <<>> /\ Len(queue) <= QueueCap
    BY <1>4 DEF Msgrcv, TypeInv, TypeOK, Message
  <2>2. Head(queue) \in Message /\ Tail(queue) \in Seq(Message) /\ Len(Tail(queue)) = Len(queue) - 1
    BY <2>1, HeadTailProperties
  <2>3. Len(Tail(queue)) <= QueueCap
    BY <2>1, <2>2, QueueAssumption, LenProperties
  <2>4. Head(queue) \in 0 .. MaxMsg /\ Head(queue) # None /\ Tail(queue) \in Seq(1 .. MaxMsg)
    BY <2>2, QueueAssumption DEF Message, None
  <2>5. TypeOK'
    BY <1>4, <2>3, <2>4 DEF Msgrcv, TypeInv, TypeOK
  <2>6. Carrying'
    BY <1>4, <2>4 DEF Msgrcv, TypeInv, TypeOK, Carrying
  <2> QED
    BY <1>2, <2>5, <2>6 DEF TypeInv
<1>5. CASE Sendto(i)
  <2>1. held[i] \in 1 .. MaxMsg
    BY <1>5, QueueAssumption DEF Sendto, TypeInv, TypeOK, Carrying, None
  <2>2. delivered' \in Seq(1 .. MaxMsg)
    <3>1. delivered \in Seq(1 .. MaxMsg)
      BY DEF TypeInv, TypeOK
    <3>2. Append(delivered, held[i]) \in Seq(1 .. MaxMsg)
      BY <2>1, <3>1, AppendProperties
    <3> QED
      BY <1>5, <3>1, <3>2 DEF Sendto
  <2>4. TypeOK'
    BY <1>5, <2>2, BoundFacts DEF Sendto, TypeInv, TypeOK
  <2>5. Carrying'
    BY <1>5 DEF Sendto, TypeInv, TypeOK, Carrying
  <2> QED
    BY <1>2, <2>4, <2>5 DEF TypeInv
<1>6. CASE SenderQuits(i)
  <2>2. TypeOK'
    BY <1>6, BoundFacts DEF SenderQuits, channel, TypeInv, TypeOK
  <2>3. Carrying'
    BY <1>6 DEF SenderQuits, TypeInv, TypeOK, Carrying
  <2> QED
    BY <1>2, <2>2, <2>3 DEF TypeInv
<1> QED
  BY <1>3, <1>4, <1>5, <1>6 DEF Sender

LEMMA EndTypes ==
  ASSUME TypeInv, ProcessEnds
  PROVE  TypeInv'
<1> USE DEF ProcessEnds, channel
<1>1. TypeOK'
  BY FreshTypes DEF TypeInv, TypeOK, Label
<1>2. Waiting' = {}
  BY DEF Waiting, AllIdle
<1>3. RoomLeft'
  BY <1>2, RoomKept
<1>4. Carrying'
  BY DEF Carrying, NoSender, NoMessage
<1> QED
  BY <1>1, <1>3, <1>4 DEF TypeInv

LEMMA PthreadKillTypes ==
  ASSUME TypeInv, PthreadKill, tid[Main] \in SenderId
  PROVE  TypeInv'
<1>1. CASE ProcessEnds
  BY <1>1, EndTypes
<1>2. CASE /\ sigquit' = IF Live(tid[Main]) THEN sigquit \cup {tid[Main]} ELSE sigquit
           /\ goto(Main, AfterKill[pc[Main]])
           /\ UNCHANGED <<proc, launches, sigHandler, sendId, sender, held, channel, tid, input>>
  <2>1. AfterKill[pc[Main]] \in {"stopJoin", "quitJoin"}
    BY DEF PthreadKill, AfterKill
  <2>2. TypeOK'
    BY <1>2, <2>1, MainIsCmdThread DEF goto, channel, TypeInv, TypeOK
  <2>3. RoomLeft'
    BY <1>2, <2>1, GotoRoom, MainIsCmdThread DEF Label, channel
  <2> QED
    BY <1>2, <2>2, <2>3 DEF TypeInv, Carrying
<1> QED
  BY <1>1, <1>2 DEF PthreadKill

-----------------------------------------------------------------------------
(* What start, stop and quit know of the sender at each of their steps.    *)
(* SendIdNamesSender alone is not inductive: while an id is on its way     *)
(* from pthread_create to sendId, or from sendId to pthread_join, it is in *)
(* a local variable of the main thread.                                    *)

Ending == {"stopKill", "stopJoin", "stopSet", "quitKill", "quitJoin"}

IdIsPassedOn ==
  /\ pc[Main] \in {"create", "created"} => sendId = None
  /\ pc[Main] = "created" => tid[Main] \in SenderId /\ Live(tid[Main])
  /\ pc[Main] \in Ending => tid[Main] = sendId /\ sendId # None
  /\ pc[Main] \in {"stopSet", "quit"} => \A i \in SenderId : ~Live(i)

(* The only senders that are signalled are waited for. *)
SignalledIsAwaited ==
  \A i \in sigquit : Live(i) /\ pc[Main] \in {"stopJoin", "quitJoin"} /\ i = tid[Main]

SenderInv == SendIdNamesSender /\ IdIsPassedOn /\ SignalledIsAwaited

Inv == TypeInv /\ SenderInv

LEMMA InitSenderInv == Init => SenderInv
BY MainIsCmdThread
DEF Init, SenderInv, SendIdNamesSender, IdIsPassedOn, SignalledIsAwaited, Live,
    NoSender, AllIdle, Ending

(* A step that leaves the main thread and the senders alone. *)
LEMMA SenderInvKept ==
  ASSUME Inv, pc'[Main] = pc[Main], UNCHANGED <<sendId, sender, sigquit, tid, input>>
  PROVE  SenderInv'
BY DEF Inv, SenderInv, SendIdNamesSender, IdIsPassedOn, SignalledIsAwaited, Live

LEMMA QueueingSenderInv ==
  ASSUME Inv,
         \/ \E t \in CmdThread : Command(t) \/ Msgsnd(t)
         \/ \E t \in Script : StopScript(t)
  PROVE  SenderInv'
<1> USE MainIsCmdThread, QueueAssumption
<1>1. \/ pc'[Main] = pc[Main]
      \/ pc[Main] = "idle" /\ pc'[Main] = "msgsnd"
      \/ pc[Main] = "msgsnd" /\ pc'[Main] = "idle"
  BY DEF Command, Msgsnd, StopScript, goto, Inv, TypeInv, TypeOK
<1>2. UNCHANGED <<sendId, sender, sigquit, tid, input>>
  BY DEF Command, Msgsnd, StopScript, senders, threads
<1>3. CASE pc'[Main] = pc[Main]
  BY <1>2, <1>3, SenderInvKept
<1>4. CASE pc[Main] \in {"idle", "msgsnd"} /\ pc'[Main] \in {"idle", "msgsnd"}
  BY <1>2, <1>4
  DEF Inv, SenderInv, SendIdNamesSender, IdIsPassedOn, SignalledIsAwaited, Live, Ending
<1> QED
  BY <1>1, <1>3, <1>4

LEMMA StartSenderInv ==
  ASSUME Inv, StartRead \/ (\E i \in SenderId : StartCreate(i)) \/ StartFail \/ StartSet
  PROVE  SenderInv'
<1> USE MainIsCmdThread, NoneIsNoSender
    DEF goto, senders, Inv, SenderInv, SendIdNamesSender, IdIsPassedOn,
        SignalledIsAwaited, Live, Ending, TypeInv, TypeOK
<1>1. CASE StartRead
  BY <1>1 DEF StartRead
<1>2. ASSUME NEW i \in SenderId, StartCreate(i) PROVE SenderInv'
  <2>1. /\ pc'[Main] = "created" /\ tid'[Main] = i /\ sendId' = None /\ sigquit' = {}
        /\ \A j \in SenderId : sender'[j] = IF j = i THEN "new" ELSE sender[j]
    BY <1>2 DEF StartCreate
  <2>2. \A j \in SenderId : ~Live(j)
    BY <1>2 DEF StartCreate
  <2> QED
    BY <2>1, <2>2
<1>3. CASE StartFail
  BY <1>3 DEF StartFail
<1>4. CASE StartSet
  <2>1. /\ pc'[Main] = "idle" /\ sendId' = tid[Main] /\ sigquit' = {}
        /\ tid[Main] \in SenderId /\ Live(tid[Main]) /\ UNCHANGED <<sender, tid, input>>
    BY <1>4 DEF StartSet
  <2>2. \A j \in SenderId : Live(j) => j = tid[Main]
    BY <1>4 DEF StartSet
  <2> QED
    BY <2>1, <2>2
<1> QED
  BY <1>1, <1>2, <1>3, <1>4

LEMMA SenderStepSenderInv ==
  ASSUME Inv, NEW i \in SenderId, Sender(i) \/ SenderQuits(i)
  PROVE  SenderInv'
<1> USE DEF threads, Inv, SenderInv, SendIdNamesSender, IdIsPassedOn,
            SignalledIsAwaited, Live, Ending, TypeInv, TypeOK
<1>1. CASE Sender(i)
  <2>1. /\ UNCHANGED <<sendId, sigquit, tid, pc, input>>
        /\ \A j \in SenderId : Live(j)' <=> Live(j)
    BY <1>1 DEF Sender, SenderArms, Msgrcv, Sendto
  <2> QED
    BY <2>1
<1>2. CASE SenderQuits(i)
  <2>1. /\ UNCHANGED <<sendId, tid, pc, input>> /\ sigquit' = {}
        /\ \A j \in SenderId : ~Live(j)'
        /\ pc[Main] \in {"stopJoin", "quitJoin"}
    BY <1>2 DEF SenderQuits
  <2> QED
    BY <2>1
<1> QED
  BY <1>1, <1>2

LEMMA StopSenderInv ==
  ASSUME Inv, StopRead \/ (\E text \in QuitText : QuitRead(text)) \/ PthreadJoin \/ StopSet
  PROVE  SenderInv'
<1> USE MainIsCmdThread, NoneIsNoSender
    DEF goto, senders, Inv, SenderInv, SendIdNamesSender, IdIsPassedOn,
        SignalledIsAwaited, Live, Ending, TypeInv, TypeOK
<1>1. CASE StopRead
  BY <1>1 DEF StopRead
<1>2. ASSUME NEW text \in QuitText, QuitRead(text) PROVE SenderInv'
  <2>1. /\ pc[Main] = "idle" /\ sigquit' = {} /\ UNCHANGED <<sendId, sender>>
        /\ tid'[Main] = sendId
    BY <1>2 DEF QuitRead
  <2>2. CASE sendId # None /\ pc'[Main] = "quitKill"
    BY <2>1, <2>2
  <2>3. CASE sendId = None /\ pc'[Main] = "quit"
    BY <2>1, <2>3
  <2> QED
    BY <1>2, <2>2, <2>3 DEF QuitRead
<1>3. CASE PthreadJoin
  BY <1>3 DEF PthreadJoin, AfterJoin
<1>4. CASE StopSet
  BY <1>4 DEF StopSet
<1> QED
  BY <1>1, <1>2, <1>3, <1>4

LEMMA EndSenderInv ==
  ASSUME Inv, ProcessEnds
  PROVE  SenderInv'
BY MainIsCmdThread
DEF ProcessEnds, SenderInv, SendIdNamesSender, IdIsPassedOn, SignalledIsAwaited, Live,
    NoSender, AllIdle, Ending

LEMMA PthreadKillSenderInv ==
  ASSUME Inv, PthreadKill
  PROVE  SenderInv' /\ tid[Main] \in SenderId
<1>1. pc[Main] \in {"stopKill", "quitKill"}
  BY DEF PthreadKill, AfterKill
<1>2. tid[Main] = sendId /\ tid[Main] \in SenderId /\ sigquit = {}
  BY <1>1 DEF Inv, SenderInv, IdIsPassedOn, SignalledIsAwaited, Ending, TypeInv, TypeOK
<1>3. CASE ProcessEnds
  BY <1>2, <1>3, EndSenderInv
<1>4. CASE /\ sigquit' = IF Live(tid[Main]) THEN sigquit \cup {tid[Main]} ELSE sigquit
           /\ goto(Main, AfterKill[pc[Main]])
           /\ UNCHANGED <<sendId, sender, tid, input>>
  <2>1. pc'[Main] \in {"stopJoin", "quitJoin"}
    BY <1>1, <1>4, MainIsCmdThread DEF goto, AfterKill, Inv, TypeInv, TypeOK
  <2>2. sigquit' \subseteq {sendId} /\ (sigquit' # {} => Live(sendId))
    BY <1>2, <1>4
  <2>3. \A i \in SenderId : Live(i) => sendId = i
    BY <1>1 DEF Inv, SenderInv, SendIdNamesSender
  <2>4. SendIdNamesSender'
    BY <1>4, <2>1, <2>3 DEF SendIdNamesSender, Live
  <2>5. IdIsPassedOn'
    BY <1>1, <1>2, <1>4, <2>1 DEF Inv, SenderInv, IdIsPassedOn, Ending
  <2>6. SignalledIsAwaited'
    BY <1>2, <1>4, <2>1, <2>2 DEF SignalledIsAwaited, Live
  <2> QED
    BY <1>2, <2>4, <2>5, <2>6 DEF SenderInv
<1> QED
  BY <1>2, <1>3, <1>4 DEF PthreadKill

LEMMA QuitReturnsSenderInv ==
  ASSUME Inv, QuitReturns
  PROVE  SenderInv' /\ TypeInv'
<1>1. CASE ProcessEnds
  BY <1>1, EndSenderInv, EndTypes DEF Inv
<1>2. CASE input # "quit" /\ goto(Main, "idle")
           /\ UNCHANGED <<proc, launches, senders, channel, tid, input>>
  <2>1. input = "q" /\ pc[Main] = "quit" /\ pc'[Main] = "idle"
    BY <1>2, MainIsCmdThread DEF QuitReturns, goto, Inv, TypeInv, TypeOK
  <2>2. SenderInv'
    BY <1>2, <2>1
    DEF senders, Inv, SenderInv, SendIdNamesSender, IdIsPassedOn, SignalledIsAwaited,
        Live, Ending
  <2>3. TypeOK'
    BY <1>2, MainIsCmdThread DEF goto, senders, channel, Inv, TypeInv, TypeOK
  <2>4. RoomLeft'
    BY <1>2, GotoRoom, MainIsCmdThread DEF channel, Label, Inv
  <2> QED
    BY <1>2, <2>2, <2>3, <2>4 DEF senders, Inv, TypeInv, Carrying
<1> QED
  BY <1>1, <1>2 DEF QuitReturns

LEMMA LaunchInv ==
  ASSUME Inv, Launch
  PROVE  Inv'
<1>1. UNCHANGED <<senders, channel, threads>>
  BY DEF Launch
<1>2. TypeOK'
  BY <1>1, BoundFacts DEF Launch, senders, channel, threads, Inv, TypeInv, TypeOK
<1>3. RoomLeft'
  BY <1>1, StillRoom DEF channel, threads, Inv
<1>4. Carrying' /\ SenderInv'
  BY <1>1, SenderInvKept DEF senders, threads, Inv, TypeInv, Carrying
<1> QED
  BY <1>2, <1>3, <1>4 DEF Inv, TypeInv

LEMMA NextInv ==
  ASSUME Inv, [Next]_vars
  PROVE  Inv'
<1> USE MainIsCmdThread DEF Inv
<1>1. ASSUME NEW t \in CmdThread, Command(t) \/ Msgsnd(t) PROVE Inv'
  BY <1>1, CommandTypes, MsgsndTypes, QueueingSenderInv
<1>2. ASSUME NEW t \in Script, StopScript(t) PROVE Inv'
  BY <1>2, OperatorTypes, QueueingSenderInv
<1>3. CASE StartRead \/ (\E i \in SenderId : StartCreate(i)) \/ StartFail \/ StartSet
  BY <1>3, OperatorTypes, StartSenderInv
<1>4. CASE StopRead \/ (\E text \in QuitText : QuitRead(text)) \/ PthreadJoin \/ StopSet
  BY <1>4, OperatorTypes, StopSenderInv
<1>5. CASE PthreadKill
  BY <1>5, PthreadKillTypes, PthreadKillSenderInv
<1>6. CASE QuitReturns
  BY <1>6, QuitReturnsSenderInv
<1>7. ASSUME NEW i \in SenderId, Sender(i) \/ SenderQuits(i) PROVE Inv'
  BY <1>7, SenderTypes, SenderStepSenderInv
<1>8. CASE Killed
  BY <1>8, EndTypes, EndSenderInv DEF Killed
<1>9. CASE Launch
  BY <1>9, LaunchInv
<1>10. CASE UNCHANGED vars
  <2>1. UNCHANGED <<proc, launches, sigHandler, sendId, sender, held, sigquit, queue,
                    submitted, delivered, pc, tid, input>>
    BY <1>10 DEF vars, senders, channel, threads
  <2>2. TypeOK' /\ Carrying' /\ RoomLeft'
    BY <2>1, StillRoom DEF TypeInv, TypeOK, Carrying
  <2> QED
    BY <2>1, <2>2, SenderInvKept DEF TypeInv
<1> QED
  BY <1>1, <1>2, <1>3, <1>4, <1>5, <1>6, <1>7, <1>8, <1>9, <1>10 DEF Next, Operator

LEMMA InvariantHolds == Spec => []Inv
<1>1. Init => Inv
  BY InitTypeInv, InitSenderInv DEF Inv
<1>2. Inv /\ [Next]_vars => Inv'
  BY NextInv
<1> QED
  BY <1>1, <1>2, PTL DEF Spec

(* For any number of scripts, messages, senders and program runs, whatever *)
(* is typed and however quit is spelled, ids and messages keep their types *)
(* and the queue its size.                                                 *)
THEOREM QueueTypeCorrect == Spec => []TypeOK
<1>1. Inv => TypeOK
  BY DEF Inv, TypeInv
<1> QED
  BY <1>1, InvariantHolds, PTL

(* Under the same generality there is never a second sender, and sendId    *)
(* names the one there is (start, stop, quit).                             *)
THEOREM OneSender == Spec => []SendIdNamesSender
<1>1. Inv => SendIdNamesSender
  BY DEF Inv, SenderInv
<1> QED
  BY <1>1, InvariantHolds, PTL

-----------------------------------------------------------------------------
(* The refinement.  inTransit is what the sender holds followed by what is *)
(* queued, and since there is one sender there is one message it holds.    *)

LEMMA OneHolds ==
  ASSUME Inv, NEW i \in SenderId, held[i] # None
  PROVE  Live(i) /\ Holding = {i} /\ inTransit = <<held[i]>> \o queue
<1>1. \A j \in Holding : sender[j] = "hold" /\ Live(j)
  BY DEF Holding, Inv, TypeInv, Carrying, Live
<1>2. i \in Holding
  BY DEF Holding
<1>3. \A j \in Holding : j = i
  BY <1>1, <1>2, NoneIsNoSender
  DEF Inv, SenderInv, SendIdNamesSender, IdIsPassedOn, Holding
<1>4. Holding = {i}
  BY <1>2, <1>3
<1> QED
  BY <1>1, <1>2, <1>4 DEF inTransit

LEMMA NoneHolds ==
  ASSUME \A i \in SenderId : held[i] = None
  PROVE  inTransit = queue
BY DEF Holding, inTransit

(* In the next state, too. *)
LEMMA StillHeld ==
  ASSUME UNCHANGED <<held, queue>>
  PROVE  inTransit' = inTransit
<1>1. Holding' = Holding
  BY DEF Holding
<1> QED
  BY <1>1 DEF inTransit

LEMMA PendingHeadTail ==
  ASSUME NEW S, NEW x \in S, NEW s \in Seq(S)
  PROVE  /\ <<x>> \o s # <<>> /\ Head(<<x>> \o s) = x /\ Tail(<<x>> \o s) = s
         /\ \A y \in S : <<x>> \o Append(s, y) = Append(<<x>> \o s, y)
OBVIOUS

LEMMA HeadThenTail ==
  ASSUME NEW S, NEW s \in Seq(S), s # <<>>
  PROVE  <<Head(s)>> \o Tail(s) = s
OBVIOUS

(* A message that is held leaves: inTransit loses its head.                *)
LEMMA HeldLeaves ==
  ASSUME Inv, NEW i \in SenderId, held[i] # None, \A j \in SenderId : held'[j] = None,
         queue' = queue
  PROVE  inTransit # <<>> /\ Head(inTransit) = held[i] /\ inTransit' = Tail(inTransit)
<1>1. held[i] \in 1 .. MaxMsg /\ queue \in Seq(1 .. MaxMsg)
  BY BoundFacts DEF Inv, TypeInv, TypeOK, None
<1>2. inTransit = <<held[i]>> \o queue
  BY OneHolds
<1>3. inTransit' = queue
  BY NoneHolds DEF Holding, inTransit
<1> QED
  BY <1>1, <1>2, <1>3, PendingHeadTail

LEMMA LossIsLose ==
  ASSUME Inv, \A j \in SenderId : held'[j] = None, UNCHANGED channel
  PROVE  [Channel!Next]_Channel!vars
<1>1. CASE \A i \in SenderId : held[i] = None
  <2>1. inTransit = queue /\ inTransit' = queue'
    BY <1>1, NoneHolds DEF Holding, inTransit
  <2> QED
    BY <2>1 DEF channel, Channel!vars
<1>2. ASSUME NEW i \in SenderId, held[i] # None PROVE Channel!Lose
  BY <1>2, HeldLeaves DEF channel, Channel!Lose
<1> QED
  BY <1>1, <1>2 DEF Channel!Next

LEMMA StepRefines ==
  ASSUME Inv, [Next]_vars
  PROVE  [Channel!Next]_Channel!vars
<1> USE MainIsCmdThread
<1>1. ASSUME UNCHANGED <<held, queue, submitted, delivered>>
      PROVE  UNCHANGED Channel!vars
  BY <1>1, StillHeld DEF Channel!vars
<1>2. ASSUME NEW t \in CmdThread, Msgsnd(t) PROVE Channel!Submit
  <2>1. /\ queue' = Append(queue, submitted + 1) /\ submitted' = submitted + 1
        /\ UNCHANGED <<held, delivered>>
    BY <1>2 DEF Msgsnd, senders
  <2>2. Holding' = Holding
    BY <2>1 DEF Holding
  <2>3. CASE \A i \in SenderId : held[i] = None
    <3>1. inTransit = queue /\ inTransit' = queue'
      BY <2>1, <2>3, NoneHolds DEF Holding, inTransit
    <3> QED
      BY <2>1, <3>1 DEF Channel!Submit
  <2>4. ASSUME NEW i \in SenderId, held[i] # None PROVE Channel!Submit
    <3>1. inTransit = <<held[i]>> \o queue /\ Holding = {i}
      BY <2>4, OneHolds
    <3>2. inTransit' = <<held[i]>> \o Append(queue, submitted + 1)
      BY <2>1, <2>2, <3>1 DEF inTransit
    <3>3. held[i] \in Nat /\ queue \in Seq(Nat) /\ submitted + 1 \in Nat
      <4>1. queue \in Seq(1 .. MaxMsg) /\ 1 .. MaxMsg \subseteq Nat
        BY DEF Inv, TypeInv, TypeOK
      <4>2. queue \in Seq(Nat)
        BY <4>1, SeqMonotonic
      <4> QED
        BY <4>2 DEF Inv, TypeInv, TypeOK
    <3>4. <<held[i]>> \o Append(queue, submitted + 1) = Append(<<held[i]>> \o queue, submitted + 1)
      BY <3>3, PendingHeadTail
    <3>5. inTransit' = Append(inTransit, submitted + 1)
      BY <3>1, <3>2, <3>4
    <3> QED
      BY <2>1, <3>5 DEF Channel!Submit
  <2> QED
    BY <2>3, <2>4
<1>3. ASSUME NEW i \in SenderId, Msgrcv(i) PROVE UNCHANGED Channel!vars
  <2>1. /\ queue # <<>> /\ queue' = Tail(queue) /\ held' = [held EXCEPT ![i] = Head(queue)]
        /\ UNCHANGED <<submitted, delivered>> /\ sender[i] = "poll" /\ sender'[i] = "hold"
    BY <1>3 DEF Msgrcv, Inv, TypeInv, TypeOK
  <2>2. queue \in Seq(1 .. MaxMsg) /\ held'[i] = Head(queue)
    BY <2>1 DEF Inv, TypeInv, TypeOK
  <2>3. \A j \in SenderId : held[j] = None
    <3>1. held[i] = None /\ Live(i)
      BY <2>1 DEF Inv, TypeInv, Carrying, Live
    <3>2. ASSUME NEW j \in SenderId, held[j] # None PROVE Live(j)
      BY <3>2, OneHolds
    <3>3. \A j \in SenderId : Live(j) => j = i
      BY <3>1, NoneIsNoSender DEF Inv, SenderInv, SendIdNamesSender, IdIsPassedOn
    <3> QED
      BY <3>1, <3>2, <3>3
  <2>4. Head(queue) # None
    <3>1. Head(queue) \in 1 .. MaxMsg
      BY <2>1, <2>2, HeadTailProperties
    <3> QED
      BY <3>1 DEF None
  <2>5. Holding' = {i}
    BY <2>1, <2>2, <2>3, <2>4 DEF Holding, Inv, TypeInv, TypeOK
  <2>6. inTransit' = <<Head(queue)>> \o Tail(queue)
    BY <2>1, <2>2, <2>5 DEF inTransit
  <2>7. inTransit' = inTransit
    BY <2>1, <2>2, <2>3, <2>6, NoneHolds, HeadThenTail
  <2> QED
    BY <2>1, <2>7 DEF Channel!vars
<1>4. ASSUME NEW i \in SenderId, Sendto(i) PROVE Channel!Deliver \/ Channel!Lose
  <2>1. held[i] # None /\ UNCHANGED <<queue, submitted>>
    BY <1>4 DEF Sendto, Inv, TypeInv, Carrying
  <2>2. \A j \in SenderId : held'[j] = None
    BY <1>4, <2>1, OneHolds DEF Sendto, Holding, Inv, TypeInv, TypeOK
  <2>3. inTransit # <<>> /\ Head(inTransit) = held[i] /\ inTransit' = Tail(inTransit)
    BY <2>1, <2>2, HeldLeaves
  <2> QED
    BY <1>4, <2>1, <2>3 DEF Sendto, Channel!Deliver, Channel!Lose
<1>5. ASSUME NEW i \in SenderId, SenderQuits(i) PROVE [Channel!Next]_Channel!vars
  <2>1. \A j \in SenderId : held'[j] = None
    <3>1. held' = [held EXCEPT ![i] = None] /\ Live(i)
      BY <1>5 DEF SenderQuits
    <3>2. \A j \in SenderId \ {i} : held[j] = None
      BY <3>1, OneHolds, NoneIsNoSender
      DEF Inv, SenderInv, SendIdNamesSender, IdIsPassedOn, TypeInv
    <3> QED
      BY <3>1, <3>2 DEF Inv, TypeInv, TypeOK
  <2> QED
    BY <1>5, <2>1, LossIsLose DEF SenderQuits
<1>6. ASSUME ProcessEnds PROVE [Channel!Next]_Channel!vars
  BY <1>6, LossIsLose DEF ProcessEnds, NoMessage
<1>7. CASE \/ \E t \in CmdThread : Command(t)
           \/ \E t \in Script : StopScript(t)
           \/ StartRead \/ (\E i \in SenderId : StartCreate(i)) \/ StartFail \/ StartSet
           \/ StopRead \/ (\E text \in QuitText : QuitRead(text)) \/ PthreadJoin \/ StopSet
           \/ (\E i \in SenderId : SenderArms(i)) \/ Launch \/ UNCHANGED vars
  <2>1. UNCHANGED <<held, queue, submitted, delivered>>
    BY <1>7
    DEF Command, StopScript, StartRead, StartCreate, StartFail, StartSet, StopRead, QuitRead,
        PthreadJoin, StopSet, SenderArms, Launch, vars, senders, channel
  <2> QED
    BY <1>1, <2>1
<1>8. CASE PthreadKill \/ QuitReturns
  <2>1. ProcessEnds \/ UNCHANGED <<held, queue, submitted, delivered>>
    BY <1>8 DEF PthreadKill, QuitReturns, senders, channel
  <2> QED
    BY <1>1, <1>6, <2>1
<1>9. CASE Killed
  BY <1>6, <1>9 DEF Killed
<1> QED
  BY <1>2, <1>3, <1>4, <1>5, <1>7, <1>8, <1>9 DEF Next, Operator, Sender, Channel!Next

(* CommandQueue implements CommandChannel for any number of senders one    *)
(* after the other, program runs, scripts and messages, and any size of    *)
(* the queue: commands leave in order, and each at most once.              *)
THEOREM QueueRefinesChannel == Spec => Implements
<1>1. Init => Channel!Init
  BY NoneHolds DEF Init, NoMessage, Channel!Init
<1>2. Inv /\ [Next]_vars => [Channel!Next]_Channel!vars
  BY StepRefines
<1> QED
  BY <1>1, <1>2, InvariantHolds, PTL DEF Spec, Implements, Channel!Spec

(* So what CommandChannel promises holds of the program: messages are      *)
(* handed to sendto in the order of their msgsnd, none of them twice,      *)
(* whatever is stopped, restarted or lost in between.                      *)
InChannel == INSTANCE CommandChannelProofs WITH pending <- inTransit

THEOREM MessagesInOrder == Spec => []Channel!InOrder
<1>1. InChannel!Spec => []InChannel!InOrder
  BY InChannel!ChannelInOrder
<1>2. InChannel!InOrder <=> Channel!InOrder
  BY DEF InChannel!InOrder, Channel!InOrder
<1>3. InChannel!Init <=> Channel!Init
  BY DEF InChannel!Init, Channel!Init
<1>4. [Channel!Next]_Channel!vars <=> [InChannel!Next]_InChannel!vars
  BY DEF InChannel!Next, InChannel!Submit, InChannel!Deliver, InChannel!Lose, InChannel!vars,
         Channel!Next, Channel!Submit, Channel!Deliver, Channel!Lose, Channel!vars
<1> QED
  BY <1>1, <1>2, <1>3, <1>4, QueueRefinesChannel, PTL DEF Implements, Channel!Spec, InChannel!Spec
=============================================================================
