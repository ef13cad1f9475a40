----------------------------- MODULE CommandQueue -----------------------------
(***************************************************************************)
(* The way of a command to a phone, and test mode: ioevt, call, syslog and *)
(* hideFeature put a message into a System V queue (at_cmdProc.c), the     *)
(* sender thread takes it out and sends it (cmd_send, autoTest.c); start,  *)
(* stop and quit create and end the sender.  The queue belongs to the      *)
(* kernel and outlives the program; everything else is lost with it.       *)
(***************************************************************************)
EXTENDS Integers, Sequences, FiniteSets

CONSTANTS
  Main,       (* the thread that reads the terminal                        *)
  Script,     (* script threads, which queue commands as well              *)
  QuitText,   (* ways to spell quit the operator uses: "quit", "q"         *)
  QueueCap,   (* messages the queue takes before msgsnd blocks             *)
  MaxSender,  (* bound: senders one process starts                         *)
  MaxLaunch,  (* bound: times the program is started                       *)
  MaxMsg      (* bound: commands queued                                    *)

CmdThread == {Main} \cup Script
SenderId  == 1 .. MaxSender
None      == 0

ASSUME QueueAssumption ==
  /\ Main \notin Script
  /\ QuitText \subseteq {"quit", "q"}
  /\ {QueueCap, MaxSender, MaxLaunch, MaxMsg} \subseteq Nat \ {0}

VARIABLES
  proc,        (* "running" or "gone"                                      *)
  launches,    (* times the program was started                            *)
  sigHandler,  (* signal(SIGQUIT, sig_handler) has been called             *)
  sendId,      (* thr_cmdSend_id, None when 0                              *)
  sender,      (* state of each sender thread                              *)
  held,        (* the message a sender has received and not yet sent       *)
  sigquit,     (* senders with a SIGQUIT on the way                        *)
  queue,       (* the kernel's message queue                               *)
  submitted,   (* number of messages queued so far                         *)
  delivered,   (* messages handed to sendto, in order                      *)
  pc,          (* where each command thread is                             *)
  tid,         (* its local sendId                                         *)
  input        (* how the operator spelled quit                            *)

senders == <<sigHandler, sendId, sender, held, sigquit>>
channel == <<queue, submitted, delivered>>
threads == <<pc, tid, input>>
vars    == <<proc, launches, senders, channel, threads>>

goto(t, l) == pc' = [pc EXCEPT ![t] = l]

Live(i) == sender[i] \in {"new", "poll", "hold"}

NoSender  == [i \in SenderId |-> "none"]
NoMessage == [i \in SenderId |-> None]
AllIdle   == [t \in CmdThread |-> "idle"]
NoTid     == [t \in CmdThread |-> None]

Init ==
  /\ proc = "running" /\ launches = 1
  /\ sigHandler = FALSE /\ sendId = None
  /\ sender = NoSender /\ held = NoMessage /\ sigquit = {}
  /\ pc = AllIdle /\ tid = NoTid /\ input = "quit"
  /\ queue = <<>> /\ submitted = 0 /\ delivered = <<>>

-----------------------------------------------------------------------------
(* Queueing: ioevt, call, syslogConf and hideFeatureProc refuse unless     *)
(* sendId is set, and then block in msgsnd while the queue is full.  A     *)
(* script thread has installed the signal handler before its first command.*)

(* Mutant: commands are queued whether or not there is a sender. *)
CommandAlways(t) ==
  /\ proc = "running" /\ pc[t] = "idle"
  /\ submitted + Cardinality({u \in CmdThread : pc[u] = "msgsnd"}) < MaxMsg
  /\ sigHandler' = (sigHandler \/ t \in Script)
  /\ goto(t, "msgsnd")
  /\ UNCHANGED <<proc, launches, sendId, sender, held, sigquit, channel, tid, input>>

Command(t) ==
  /\ proc = "running" /\ pc[t] = "idle"
  /\ sendId # None
  /\ submitted + Cardinality({u \in CmdThread : pc[u] = "msgsnd"}) < MaxMsg
  /\ sigHandler' = (sigHandler \/ t \in Script)
  /\ goto(t, "msgsnd")
  /\ UNCHANGED <<proc, launches, sendId, sender, held, sigquit, channel, tid, input>>

Msgsnd(t) ==
  /\ pc[t] = "msgsnd"
  /\ Len(queue) < QueueCap
  /\ queue' = Append(queue, submitted + 1)
  /\ submitted' = submitted + 1
  /\ goto(t, "idle")
  /\ UNCHANGED <<proc, launches, senders, delivered, tid, input>>

(* stop n script: the SIGQUIT interrupts msgsnd. *)
StopScript(t) ==
  /\ proc = "running" /\ pc[Main] = "idle"
  /\ pc[t] = "msgsnd"
  /\ goto(t, "idle")
  /\ UNCHANGED <<proc, launches, senders, channel, tid, input>>

-----------------------------------------------------------------------------
(* start test / start all *)

(* Mutant: start does not ask whether test mode is on. *)
StartReadAlways ==
  /\ proc = "running" /\ pc[Main] = "idle"
  /\ goto(Main, "create")
  /\ UNCHANGED <<proc, launches, senders, channel, tid, input>>

StartRead ==
  /\ proc = "running" /\ pc[Main] = "idle"
  /\ sendId = None
  /\ goto(Main, "create")
  /\ UNCHANGED <<proc, launches, senders, channel, tid, input>>

StartCreate(i) ==
  /\ pc[Main] = "create"
  /\ sender[i] = "none"
  /\ sender' = [sender EXCEPT ![i] = "new"]
  /\ tid' = [tid EXCEPT ![Main] = i]
  /\ goto(Main, "created")
  /\ UNCHANGED <<proc, launches, sigHandler, sendId, held, sigquit, channel, input>>

(* pthread_create fails. *)
StartFail ==
  /\ pc[Main] = "create"
  /\ goto(Main, "idle")
  /\ UNCHANGED <<proc, launches, senders, channel, tid, input>>

StartSet ==
  /\ pc[Main] = "created"
  /\ sendId' = tid[Main]
  /\ goto(Main, "idle")
  /\ UNCHANGED <<proc, launches, sigHandler, sender, held, sigquit, channel, tid, input>>

-----------------------------------------------------------------------------
(* The sender *)

(* signal(SIGQUIT, sig_handler) is its first statement. *)
SenderArms(i) ==
  /\ sender[i] = "new"
  /\ sender' = [sender EXCEPT ![i] = "poll"]
  /\ sigHandler' = TRUE
  /\ UNCHANGED <<proc, launches, sendId, held, sigquit, channel, threads>>

(* Mutant: what msgrcv returns is not looked at, an empty queue yields an  *)
(* empty message.                                                          *)
MsgrcvUnchecked(i) ==
  /\ sender[i] = "poll"
  /\ held' = [held EXCEPT ![i] = IF queue = <<>> THEN None ELSE Head(queue)]
  /\ queue' = IF queue = <<>> THEN <<>> ELSE Tail(queue)
  /\ sender' = [sender EXCEPT ![i] = "hold"]
  /\ UNCHANGED <<proc, launches, sigHandler, sendId, sigquit, submitted, delivered, threads>>

Msgrcv(i) ==
  /\ sender[i] = "poll"
  /\ queue # <<>>
  /\ held' = [held EXCEPT ![i] = Head(queue)]
  /\ queue' = Tail(queue)
  /\ sender' = [sender EXCEPT ![i] = "hold"]
  /\ UNCHANGED <<proc, launches, sigHandler, sendId, sigquit, submitted, delivered, threads>>

(* Mutant: the sender leaves its loop when sendto fails. *)
SendtoBreaks(i) ==
  /\ sender[i] = "hold"
  /\ held' = [held EXCEPT ![i] = None]
  /\ \/ delivered' = Append(delivered, held[i]) /\ sender' = [sender EXCEPT ![i] = "poll"]
     \/ delivered' = delivered /\ sender' = [sender EXCEPT ![i] = "dead"]
  /\ UNCHANGED <<proc, launches, sigHandler, sendId, sigquit, queue, submitted, threads>>

(* sendto, or nothing when the client is UNUSED. *)
Sendto(i) ==
  /\ sender[i] = "hold"
  /\ delivered' \in {delivered, Append(delivered, held[i])}
  /\ held' = [held EXCEPT ![i] = None]
  /\ sender' = [sender EXCEPT ![i] = "poll"]
  /\ UNCHANGED <<proc, launches, sigHandler, sendId, sigquit, queue, submitted, threads>>

(* sig_handler: pthread_exit, wherever the sender is. *)
SenderQuits(i) ==
  /\ i \in sigquit /\ Live(i)
  /\ sender' = [sender EXCEPT ![i] = "dead"]
  /\ held' = [held EXCEPT ![i] = None]
  /\ sigquit' = sigquit \ {i}
  /\ UNCHANGED <<proc, launches, sigHandler, sendId, channel, threads>>

-----------------------------------------------------------------------------
(* The program ends, and may be started again. *)

ProcessEnds ==
  /\ proc' = "gone"
  /\ sigHandler' = FALSE /\ sendId' = None
  /\ sender' = NoSender /\ held' = NoMessage /\ sigquit' = {}
  /\ pc' = AllIdle /\ tid' = NoTid /\ input' = "quit"
  /\ UNCHANGED <<launches, channel>>

(* End of input on the terminal, or killed from outside. *)
Killed == proc = "running" /\ launches < MaxLaunch /\ ProcessEnds

Launch ==
  /\ proc = "gone" /\ launches < MaxLaunch
  /\ proc' = "running"
  /\ launches' = launches + 1
  /\ UNCHANGED <<senders, channel, threads>>

-----------------------------------------------------------------------------
(* stop test / stop all, and quit *)

StopRead ==
  /\ proc = "running" /\ pc[Main] = "idle"
  /\ sendId # None
  /\ tid' = [tid EXCEPT ![Main] = sendId]
  /\ goto(Main, "stopKill")
  /\ UNCHANGED <<proc, launches, senders, channel, input>>

QuitRead(text) ==
  /\ proc = "running" /\ pc[Main] = "idle"
  /\ input' = text
  /\ tid' = [tid EXCEPT ![Main] = sendId]
  /\ goto(Main, IF sendId # None THEN "quitKill" ELSE "quit")
  /\ UNCHANGED <<proc, launches, senders, channel>>

AfterKill == [stopKill |-> "stopJoin", quitKill |-> "quitJoin"]
AfterJoin == [stopJoin |-> "stopSet", quitJoin |-> "quit"]

(* Mutant: the signal is never sent. *)
PthreadKillNot ==
  /\ pc[Main] \in DOMAIN AfterKill
  /\ goto(Main, AfterKill[pc[Main]])
  /\ UNCHANGED <<proc, launches, senders, channel, tid, input>>

(* pthread_kill(sendId, SIGQUIT).  Without the handler SIGQUIT ends the    *)
(* process.  An id that was joined before is undefined behaviour: nothing  *)
(* may happen, or the process may crash.                                   *)
PthreadKill ==
  /\ pc[Main] \in DOMAIN AfterKill
  /\ \/ /\ Live(tid[Main]) => sigHandler
        /\ sigquit' = IF Live(tid[Main]) THEN sigquit \cup {tid[Main]} ELSE sigquit
        /\ goto(Main, AfterKill[pc[Main]])
        /\ UNCHANGED <<proc, launches, sigHandler, sendId, sender, held, channel, tid, input>>
     \/ Live(tid[Main]) /\ ~sigHandler /\ ProcessEnds
     \/ ~Live(tid[Main]) /\ ProcessEnds

(* Mutant: stop does not wait for the sender to end. *)
PthreadJoinNot ==
  /\ pc[Main] \in DOMAIN AfterJoin
  /\ goto(Main, AfterJoin[pc[Main]])
  /\ UNCHANGED <<proc, launches, senders, channel, tid, input>>

PthreadJoin ==
  /\ pc[Main] \in DOMAIN AfterJoin
  /\ ~Live(tid[Main])
  /\ goto(Main, AfterJoin[pc[Main]])
  /\ UNCHANGED <<proc, launches, senders, channel, tid, input>>

StopSet ==
  /\ pc[Main] = "stopSet"
  /\ sendId' = None
  /\ goto(Main, "idle")
  /\ UNCHANGED <<proc, launches, sigHandler, sender, held, sigquit, channel, tid, input>>

(* quit() leaves the ids set and returns; main() exits when the line       *)
(* begins with "quit" and reads the next line otherwise, unless the file   *)
(* for quit's note could not be opened: it is written to all the same, and *)
(* the process ends.                                                       *)
QuitReturns ==
  /\ pc[Main] = "quit"
  /\ \/ ProcessEnds
     \/ /\ input # "quit"
        /\ goto(Main, "idle")
        /\ UNCHANGED <<proc, launches, senders, channel, tid, input>>

-----------------------------------------------------------------------------
Sender(i) == SenderArms(i) \/ Msgrcv(i) \/ Sendto(i)

(* The steps of a command thread inside a handler. *)
Operator ==
  \/ \E i \in SenderId : StartCreate(i)
  \/ StartFail \/ StartSet
  \/ PthreadKill \/ PthreadJoin \/ StopSet \/ QuitReturns
  \/ Msgsnd(Main)

Next ==
  \/ \E t \in CmdThread : Command(t)
  \/ \E t \in Script : Msgsnd(t) \/ StopScript(t)
  \/ StartRead \/ StopRead
  \/ \E text \in QuitText : QuitRead(text)
  \/ Operator
  \/ \E i \in SenderId : Sender(i) \/ SenderQuits(i)
  \/ Killed \/ Launch

Spec == Init /\ [][Next]_vars

(* Threads that can run do run, and signals arrive.  Nothing makes the     *)
(* operator type, or restart the program.                                  *)
FairSpec ==
  /\ Spec
  /\ WF_vars(Operator)
  /\ \A t \in Script : WF_vars(Msgsnd(t))
  /\ \A i \in SenderId : WF_vars(Sender(i)) /\ WF_vars(SenderQuits(i))
-----------------------------------------------------------------------------
(* Properties *)

(* Every variable keeps its type: thr_cmdSend_id only ever names a sender  *)
(* that was created, and the queue holds no more than it has room for.     *)
TypeOK ==
  /\ proc \in {"running", "gone"} /\ launches \in 1 .. MaxLaunch
  /\ sigHandler \in BOOLEAN
  /\ sendId \in SenderId \cup {None}
  /\ sender \in [SenderId -> {"none", "new", "poll", "hold", "dead"}]
  /\ held \in [SenderId -> 0 .. MaxMsg]
  /\ sigquit \subseteq SenderId
  /\ queue \in Seq(1 .. MaxMsg) /\ Len(queue) <= QueueCap
  /\ submitted \in 0 .. MaxMsg
  /\ delivered \in Seq(1 .. MaxMsg)
  /\ pc \in [CmdThread -> {"idle", "msgsnd", "create", "created", "stopKill", "stopJoin",
                           "stopSet", "quitKill", "quitJoin", "quit"}]
  /\ tid \in [CmdThread -> SenderId \cup {None}]
  /\ input \in {"quit", "q"}

(* Two senders never run at once, and sendId names the one that runs: test *)
(* mode is on exactly when there is a thread to empty the queue, except    *)
(* while start, stop or quit is at work.  After q, which leaves the id of  *)
(* the sender behind, only the first half holds.                           *)
SendIdNamesSender ==
  /\ \A i \in SenderId :
       Live(i) => sendId = i \/ (pc[Main] = "created" /\ tid[Main] = i)
  /\ sendId # None =>
       \/ Live(sendId)
       \/ pc[Main] \in {"stopJoin", "stopSet", "quitKill", "quitJoin", "quit"}
       \/ input = "q"

(* Commands reach the network in the order they were queued and at most    *)
(* once, over any number of senders and restarts of the program.           *)
Holding == {i \in SenderId : held[i] # None}

inTransit ==
  IF Holding = {} THEN queue
  ELSE <<held[CHOOSE i \in Holding : TRUE]>> \o queue

Channel == INSTANCE CommandChannel WITH pending <- inTransit

Implements == Channel!Spec

(* stop and quit return: the sender they wait for does end.                *)
StopReturns == pc[Main] \in {"stopJoin", "quitJoin"} ~> pc[Main] \in {"idle", "quit"}

(* The operator is never stuck in msgsnd: a command accepted because test  *)
(* mode is on finds a place in the queue sooner or later, as long as no q  *)
(* has left the id of a dead sender behind.                                *)
OperatorNotStuck == pc[Main] = "msgsnd" ~> (pc[Main] = "idle" \/ input = "q")

(* A queued command does not stay in the queue while test mode stays on,   *)
(* with the same exception.                                                *)
QueueDrains ==
  \A m \in 1 .. MaxMsg :
    (\E k \in 1 .. Len(queue) : queue[k] = m)
      ~> (\/ \A k \in 1 .. Len(queue) : queue[k] # m
          \/ sendId = None \/ input = "q")

(* "stop test" (at_cmdProc.c:132, ReadMe.txt:124) ends test mode, not the  *)
(* program.                                                                *)
StopKeepsProgram == [][pc[Main] = "stopKill" => proc' = "running"]_vars
=============================================================================
