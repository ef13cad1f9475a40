----------------------------- MODULE ClientTable -----------------------------
(***************************************************************************)
(* The threads that share the client tables: the main thread and the       *)
(* script threads execute add, del, changeIp and show (at_cmdProc.c), the  *)
(* receiver drops a client whose phone logs "suspended", the sender looks  *)
(* a client up for every queued message (autoTest.c).                      *)
(*                                                                         *)
(* One action is one stretch of code between two points where another      *)
(* thread can interfere: taking gMutex is a step of its own, so is each    *)
(* unlocked access to a table, and so is each use of gCmdParam, the parsed *)
(* command line all command threads share.                                 *)
(***************************************************************************)
EXTENDS Network

CONSTANTS
  Main,       (* the thread that reads the terminal                        *)
  Script,     (* script threads                                            *)
  Rec, Snd,   (* receiver and sender                                       *)
  Free,       (* gMutex when nobody holds it                               *)
  Orphan,     (* gMutex when the thread that held it has exited            *)
  Number,     (* client numbers commands, messages and logs may carry      *)
  Line,       (* Line[t]: the command lines thread t may issue             *)
  Suspended,  (* client numbers "suspended" logs may name                  *)
  Stoppable   (* threads a stop command may name                           *)

CmdThread == {Main} \cup Script
Thread    == CmdThread \cup {Rec, Snd}

(* "ioevt" stands for every command that leaves the tables alone, "stop"   *)
(* for stop test/rec/script, "start" for start test/rec and runScript.     *)
Command     == {"add", "del", "changeIp", "show", "ioevt", "start", "stop"}
CommandLine == [cmd : Command, num : Number, ip : Ip \cup {BadIp}]

(* gParamNum after a line has been parsed. *)
ParamNum == [show |-> 0, del |-> 1, start |-> 1, stop |-> 1, add |-> 2,
             changeIp |-> 2, ioevt |-> 3]

ASSUME ThreadAssumption ==
  /\ Client \subseteq Number /\ Number \subseteq Int
  /\ Main \notin Script /\ Rec \notin CmdThread /\ Snd \notin CmdThread
  /\ Rec # Snd
  /\ Free # Orphan /\ {Free, Orphan} \cap Thread = {}
  /\ Line \in [CmdThread -> SUBSET CommandLine]
  /\ Suspended \subseteq Number
  /\ Stoppable \subseteq Script \cup {Rec, Snd}

VARIABLES
  gMutex,     (* Free, Orphan or the thread that holds it                  *)
  gCmdParam,  (* the last line parsed, by whichever thread                 *)
  pc,         (* where each thread is                                      *)
  loc         (* each thread's locals: num is clientNum, ret the statement *)
              (* that follows network_config, fd and addr the socketFd and *)
              (* clientAddr of network_config and cmd_send                 *)

vars == <<tables, gMutex, gCmdParam, pc, loc>>

NoLocals == [num |-> MIN_CLIENT, ret |-> "idle", fd |-> ERROR, addr |-> NoIp]

(* Where each pthread_mutex_lock leads. *)
Section == [addLock  |-> "addRead",  addLock2 |-> "addWrite",
            delLock  |-> "delRead",  delLock2 |-> "clear",
            chgLock  |-> "chgRead",  chgLock2 |-> "chgWrite",
            showLock |-> "showRead", supLock  |-> "clear",
            sndLock  |-> "sndRead"]

Critical == {"addRead", "addWrite", "delRead", "clear", "clearSocket",
             "clearAddr", "chgRead", "chgWrite", "showRead", "sndRead"}

Label == Command \cup DOMAIN Section \cup Critical
         \cup {"dead", "idle", "dispatch", "addNum", "delCheck", "chgNum",
               "netCheck", "netFlag", "netAton", "netSocket", "netAddr", "sndSend"}

goto(t, l) == pc' = [pc EXCEPT ![t] = l]

(* A function returns: its locals are gone. *)
return(t) ==
  /\ goto(t, "idle")
  /\ loc' = [loc EXCEPT ![t] = NoLocals]

Init ==
  /\ NetworkInit
  /\ gMutex = Free
  /\ gCmdParam = [cmd |-> "show", num |-> MIN_CLIENT, ip |-> BadIp]
  /\ pc  = [t \in Thread |-> IF t = Main THEN "idle" ELSE "dead"]
  /\ loc = [t \in Thread |-> NoLocals]

-----------------------------------------------------------------------------
(* gMutex *)

Lock(t) ==
  /\ pc[t] \in DOMAIN Section
  /\ gMutex = Free
  /\ gMutex' = t
  /\ goto(t, Section[pc[t]])
  /\ UNCHANGED <<tables, gCmdParam, loc>>

(* pthread_mutex_unlock at the end of a critical section. *)
Unlock(t) == gMutex = t /\ gMutex' = Free

-----------------------------------------------------------------------------
(* cmd_proc: getTokens replaces gCmdParam, getCmdCode then picks the       *)
(* handler by whatever gCmdParam[0] holds by that time.                    *)

Issue(t) ==
  /\ pc[t] = "idle"
  /\ gCmdParam' \in Line[t]
  /\ goto(t, "dispatch")
  /\ UNCHANGED <<tables, gMutex, loc>>

Dispatch(t) ==
  /\ pc[t] = "dispatch"
  /\ goto(t, gCmdParam.cmd)
  /\ UNCHANGED <<tables, gMutex, gCmdParam, loc>>

(* A handler that does not touch the tables returns; ioevt's list of keys  *)
(* has overwritten the line (getTokens), so no address is left in it.      *)
OtherCommand(t) ==
  /\ pc[t] = "ioevt"
  /\ gCmdParam' \in {gCmdParam} \cup [cmd : {"ioevt"}, num : Number, ip : {BadIp}]
  /\ return(t)
  /\ UNCHANGED <<tables, gMutex>>

(* A handler checks gParamNum, and takes clientNum = atoi(gCmdParam[1]).   *)
(* Each belongs to the last line parsed by then, which need not be the     *)
(* thread's own.                                                           *)
enoughParams(n) == ParamNum[gCmdParam.cmd] >= n

takeNum(t, l) ==
  /\ loc' = [loc EXCEPT ![t].num = gCmdParam.num]
  /\ goto(t, l)

-----------------------------------------------------------------------------
(* addClient *)

AddEnter(t) ==
  /\ pc[t] = "add"
  /\ \/ enoughParams(2) /\ goto(t, "addNum") /\ UNCHANGED loc
     \/ ~enoughParams(2) /\ return(t)
  /\ UNCHANGED <<tables, gMutex, gCmdParam>>

AddNum(t) ==
  /\ pc[t] = "addNum"
  /\ takeNum(t, "addLock")
  /\ UNCHANGED <<tables, gMutex, gCmdParam>>

(* Mutant: the return for a client in use forgets to unlock. *)
AddReadKeepsLock(t) ==
  /\ pc[t] = "addRead"
  /\ \/ getClientFlag(loc[t].num) = USED /\ return(t) /\ UNCHANGED gMutex
     \/ /\ getClientFlag(loc[t].num) # USED
        /\ Unlock(t)
        /\ loc' = [loc EXCEPT ![t].ret = "addLock2"]
        /\ goto(t, "netCheck")
  /\ UNCHANGED <<tables, gCmdParam>>

AddRead(t) ==
  /\ pc[t] = "addRead"
  /\ Unlock(t)
  /\ \/ getClientFlag(loc[t].num) = USED /\ return(t)
     \/ /\ getClientFlag(loc[t].num) # USED
        /\ loc' = [loc EXCEPT ![t].ret = "addLock2"]
        /\ goto(t, "netCheck")
  /\ UNCHANGED <<tables, gCmdParam>>

(* ipAddr still points into the shared line when it is copied. *)
AddWrite(t) ==
  /\ pc[t] = "addWrite"
  /\ Unlock(t)
  /\ setClientFlag(loc[t].num, USED)
  /\ setClientIpAddr(loc[t].num, gCmdParam.ip)
  /\ return(t)
  /\ UNCHANGED <<gSockets, clientSockAddr, fdOwner, gCmdParam>>

-----------------------------------------------------------------------------
(* network_config, called without gMutex by addClient and, through         *)
(* changeClientAddr, by changeClientIpAddr                                 *)

NetCheck(t) ==
  /\ pc[t] = "netCheck"
  /\ \/ /\ netConfigAccepts(loc[t].num, gCmdParam.ip)
        /\ goto(t, "netFlag")
        /\ UNCHANGED loc
     \/ ~netConfigAccepts(loc[t].num, gCmdParam.ip) /\ return(t)
  /\ UNCHANGED <<tables, gMutex, gCmdParam>>

NetFlag(t) ==
  /\ pc[t] = "netFlag"
  /\ \/ netConfigFree(loc[t].num) /\ goto(t, "netAton") /\ UNCHANGED loc
     \/ ~netConfigFree(loc[t].num) /\ return(t)
  /\ UNCHANGED <<tables, gMutex, gCmdParam>>

(* inet_aton leaves the address zero when the text is no longer valid; its *)
(* answer is never below 0, so nothing is refused here.                    *)
NetAton(t) ==
  /\ pc[t] = "netAton"
  /\ loc' = [loc EXCEPT ![t].addr =
               IF isValidIp(gCmdParam.ip) THEN gCmdParam.ip ELSE NoIp]
  /\ goto(t, "netSocket")
  /\ UNCHANGED <<tables, gMutex, gCmdParam>>

NetSocket(t) ==
  /\ pc[t] = "netSocket"
  /\ \/ /\ \E f \in Fd : netConfigSocket(loc[t].num, f)
        /\ goto(t, "netAddr")
        /\ UNCHANGED loc
     \/ netConfigNoSocket(loc[t].num) /\ return(t)
  /\ UNCHANGED <<gClientIpAddr, clientSockAddr, gClientFlag, gMutex, gCmdParam>>

NetAddr(t) ==
  /\ pc[t] = "netAddr"
  /\ setClientSockAddr(loc[t].num, loc[t].addr)
  /\ goto(t, loc[t].ret)
  /\ UNCHANGED <<gSockets, gClientIpAddr, gClientFlag, fdOwner, gMutex,
                 gCmdParam, loc>>

-----------------------------------------------------------------------------
(* delClient, and the critical section it shares with syslogProcess *)

DelEnter(t) ==
  /\ pc[t] = "del"
  /\ takeNum(t, "delCheck")
  /\ UNCHANGED <<tables, gMutex, gCmdParam>>

(* The range check lets MAX_CLIENT through; its flag reads as UNUSED. *)
delAccepts(n) == enoughParams(1) /\ n \in MIN_CLIENT .. MAX_CLIENT

DelCheck(t) ==
  /\ pc[t] = "delCheck"
  /\ \/ delAccepts(loc[t].num) /\ goto(t, "delLock") /\ UNCHANGED loc
     \/ ~delAccepts(loc[t].num) /\ return(t)
  /\ UNCHANGED <<tables, gMutex, gCmdParam>>

DelRead(t) ==
  /\ pc[t] = "delRead"
  /\ Unlock(t)
  /\ \/ getClientFlag(loc[t].num) = UNUSED /\ return(t)
     \/ /\ getClientFlag(loc[t].num) # UNUSED
        /\ goto(t, "delLock2")
        /\ UNCHANGED loc
  /\ UNCHANGED <<tables, gCmdParam>>

(* Mutant: the address text goes, the flag stays. *)
ClearFlagNot(t) ==
  /\ pc[t] = "clear"
  /\ setClientIpAddr(loc[t].num, NoIp)
  /\ goto(t, "clearSocket")
  /\ UNCHANGED <<gSockets, clientSockAddr, gClientFlag, fdOwner, gMutex, gCmdParam, loc>>

ClearFlag(t) ==
  /\ pc[t] = "clear"
  /\ setClientFlag(loc[t].num, UNUSED)
  /\ setClientIpAddr(loc[t].num, NoIp)
  /\ goto(t, "clearSocket")
  /\ UNCHANGED <<gSockets, clientSockAddr, fdOwner, gMutex, gCmdParam, loc>>

ClearSocket(t) ==
  /\ pc[t] = "clearSocket"
  /\ closeSocket(loc[t].num)
  /\ goto(t, "clearAddr")
  /\ UNCHANGED <<gSockets, gClientIpAddr, clientSockAddr, gClientFlag, gMutex,
                 gCmdParam, loc>>

ClearAddr(t) ==
  /\ pc[t] = "clearAddr"
  /\ Unlock(t)
  /\ delClientSockAddr(loc[t].num)
  /\ return(t)
  /\ UNCHANGED <<gSockets, gClientIpAddr, gClientFlag, fdOwner, gCmdParam>>

-----------------------------------------------------------------------------
(* changeClientIpAddr *)

ChgEnter(t) ==
  /\ pc[t] = "changeIp"
  /\ \/ enoughParams(2) /\ goto(t, "chgNum") /\ UNCHANGED loc
     \/ ~enoughParams(2) /\ return(t)
  /\ UNCHANGED <<tables, gMutex, gCmdParam>>

ChgNum(t) ==
  /\ pc[t] = "chgNum"
  /\ takeNum(t, "chgLock")
  /\ UNCHANGED <<tables, gMutex, gCmdParam>>

ChgRead(t) ==
  /\ pc[t] = "chgRead"
  /\ Unlock(t)
  /\ \/ getClientFlag(loc[t].num) = UNUSED /\ return(t)
     \/ /\ getClientFlag(loc[t].num) # UNUSED
        /\ loc' = [loc EXCEPT ![t].ret = "chgLock2"]
        /\ goto(t, "netCheck")
  /\ UNCHANGED <<tables, gCmdParam>>

ChgWrite(t) ==
  /\ pc[t] = "chgWrite"
  /\ Unlock(t)
  /\ setClientIpAddr(loc[t].num, gCmdParam.ip)
  /\ return(t)
  /\ UNCHANGED <<gSockets, clientSockAddr, gClientFlag, fdOwner, gCmdParam>>

-----------------------------------------------------------------------------
(* showClient: one lock and unlock per slot, num being the loop index *)

ShowEnter(t) ==
  /\ pc[t] = "show"
  /\ loc' = [loc EXCEPT ![t].num = MIN_CLIENT]
  /\ goto(t, "showLock")
  /\ UNCHANGED <<tables, gMutex, gCmdParam>>

(* Mutant: the loop is left with the lock of its last slot. *)
ShowReadKeepsLock(t) ==
  /\ pc[t] = "showRead"
  /\ \/ /\ loc[t].num < MAX_CLIENT - 1
        /\ Unlock(t)
        /\ loc' = [loc EXCEPT ![t].num = @ + 1]
        /\ goto(t, "showLock")
     \/ loc[t].num = MAX_CLIENT - 1 /\ return(t) /\ UNCHANGED gMutex
  /\ UNCHANGED <<tables, gCmdParam>>

ShowRead(t) ==
  /\ pc[t] = "showRead"
  /\ Unlock(t)
  /\ \/ /\ loc[t].num < MAX_CLIENT - 1
        /\ loc' = [loc EXCEPT ![t].num = @ + 1]
        /\ goto(t, "showLock")
     \/ loc[t].num = MAX_CLIENT - 1 /\ return(t)
  /\ UNCHANGED <<tables, gCmdParam>>

-----------------------------------------------------------------------------
(* syslogProcess: a "suspended" log that names client n.  Client 0 fails   *)
(* the range check although it is a valid client.                          *)

SuspendLog(n) ==
  /\ pc[Rec] = "idle"
  /\ n > MIN_CLIENT /\ n < MAX_CLIENT
  /\ loc' = [loc EXCEPT ![Rec].num = n]
  /\ goto(Rec, "supLock")
  /\ UNCHANGED <<tables, gMutex, gCmdParam>>

-----------------------------------------------------------------------------
(* cmd_send: a message for client n has been received from the queue; look *)
(* the client up under gMutex, then send without it.                       *)

SndReceive(n) ==
  /\ pc[Snd] = "idle"
  /\ loc' = [loc EXCEPT ![Snd].num = n]
  /\ goto(Snd, "sndLock")
  /\ UNCHANGED <<tables, gMutex, gCmdParam>>

SndRead ==
  /\ pc[Snd] = "sndRead"
  /\ Unlock(Snd)
  /\ \/ getClientFlag(loc[Snd].num) = UNUSED /\ return(Snd)
     \/ /\ getClientFlag(loc[Snd].num) # UNUSED
        /\ loc' = [loc EXCEPT ![Snd].fd = getSocket(loc[Snd].num),
                              ![Snd].addr = getClientSockAddr(loc[Snd].num)]
        /\ goto(Snd, "sndSend")
  /\ UNCHANGED <<tables, gCmdParam>>

(* sendto: the tables play no part any more. *)
SndSend ==
  /\ pc[Snd] = "sndSend"
  /\ return(Snd)
  /\ UNCHANGED <<tables, gMutex, gCmdParam>>

-----------------------------------------------------------------------------
(* start and stop.  stop sends SIGQUIT and joins; sig_handler leaves       *)
(* through pthread_exit wherever the thread happens to be, so a mutex it   *)
(* holds stays locked with nobody left to unlock it.                       *)

(* runScript wants the sender to be there. *)
Start(k, t) ==
  /\ pc[k] = "start"
  /\ pc[t] = "dead"
  /\ t \in Script => pc[Snd] # "dead"
  /\ pc' = [pc EXCEPT ![k] = "idle", ![t] = "idle"]
  /\ UNCHANGED <<tables, gMutex, gCmdParam, loc>>

Stop(k, t) ==
  /\ pc[k] = "stop"
  /\ pc[t] # "dead"
  /\ pc' = [u \in Thread |-> IF u = t THEN "dead" ELSE IF u = k THEN "idle" ELSE pc[u]]
  /\ gMutex' = IF gMutex = t THEN Orphan ELSE gMutex
  /\ loc' = [loc EXCEPT ![t] = NoLocals]
  /\ UNCHANGED <<tables, gCmdParam>>

(* scriptCmdProcess reaches the end of its script. *)
ScriptEnds(t) ==
  /\ pc[t] = "idle"
  /\ goto(t, "dead")
  /\ UNCHANGED <<tables, gMutex, gCmdParam, loc>>

(* There was nothing to start or to stop. *)
StartStopNothing(k) ==
  /\ pc[k] \in {"start", "stop"}
  /\ return(k)
  /\ UNCHANGED <<tables, gMutex, gCmdParam>>

-----------------------------------------------------------------------------
(* What a command thread does between two commands it is given. *)
Handler(t) ==
  \/ Dispatch(t) \/ OtherCommand(t) \/ Lock(t)
  \/ AddEnter(t) \/ AddNum(t) \/ AddRead(t) \/ AddWrite(t)
  \/ NetCheck(t) \/ NetFlag(t) \/ NetAton(t) \/ NetSocket(t) \/ NetAddr(t)
  \/ DelEnter(t) \/ DelCheck(t) \/ DelRead(t)
  \/ ChgEnter(t) \/ ChgNum(t) \/ ChgRead(t) \/ ChgWrite(t)
  \/ ShowEnter(t) \/ ShowRead(t)
  \/ \E u \in Thread : Start(t, u)
  \/ \E u \in Stoppable : Stop(t, u)
  \/ StartStopNothing(t)

Clear(t) == ClearFlag(t) \/ ClearSocket(t) \/ ClearAddr(t)

Receiver == Lock(Rec) \/ Clear(Rec)

Sender == Lock(Snd) \/ SndRead \/ SndSend

Next ==
  \/ \E t \in CmdThread : Issue(t) \/ Handler(t) \/ Clear(t)
  \/ \E t \in Script : ScriptEnds(t)
  \/ \E n \in Suspended : SuspendLog(n)
  \/ \E n \in Number : SndReceive(n)
  \/ Receiver
  \/ Sender

Spec == Init /\ [][Next]_vars

(* A thread that is inside a handler keeps running; nothing makes a new    *)
(* command, log or message arrive.                                         *)
FairSpec ==
  /\ Spec
  /\ \A t \in CmdThread : WF_vars(Handler(t) \/ Clear(t))
  /\ WF_vars(Receiver)
  /\ WF_vars(Sender)
-----------------------------------------------------------------------------
(* Properties *)

(* Every variable keeps its type: in particular no command, log or message *)
(* with a number outside the table ever writes to one of the arrays.       *)
TypeOK ==
  /\ NetworkTypeOK
  /\ gMutex \in Thread \cup {Free, Orphan}
  /\ gCmdParam \in CommandLine
  /\ pc \in [Thread -> Label]
  /\ loc \in [Thread -> [num  : Number,
                         ret  : {"idle", "addLock2", "chgLock2"},
                         fd   : Fd \cup {ERROR, FAILED},
                         addr : Ip \cup {NoIp}]]

(* gMutex is held exactly while its holder is in a critical section: no    *)
(* two threads are in one together, and every path out of one unlocks.     *)
MutexOwned == \A t \in Thread : gMutex = t <=> pc[t] \in Critical

(* A client the tables call USED is shown under the address its datagrams  *)
(* go to, and owns the open socket they leave from (addClient, delClient,  *)
(* cmd_send).                                                              *)
ClientsConsistent ==
  \A c \in Client : gClientFlag[c] = USED =>
    /\ gClientIpAddr[c] \in Ip
    /\ clientSockAddr[c] = gClientIpAddr[c]
    /\ gSockets[c] \in Fd
    /\ fdOwner[gSockets[c]] = c

(* An open client socket is named by its own slot, and that slot is in use *)
(* or some thread is between opening and publishing it, or between         *)
(* withdrawing and closing it: no descriptor is leaked by any sequence of  *)
(* add and del (network_config, closeSocket).                              *)
NoFdLeak ==
  \A f \in Fd : fdOwner[f] # Closed =>
    /\ gSockets[fdOwner[f]] = f
    /\ \/ gClientFlag[fdOwner[f]] = USED
       \/ \E t \in Thread : /\ loc[t].num = fdOwner[f]
                            /\ pc[t] \in {"netAddr", "addLock2", "addWrite",
                                          "clearSocket"}

(* cmd_send has in its hands the open socket and the address of the client *)
(* the message is for, and that client is in use.                          *)
SenderHasClient ==
  LET n == loc[Snd].num
  IN  /\ n \in Client /\ gClientFlag[n] = USED
      /\ loc[Snd].fd = gSockets[n] /\ loc[Snd].fd \in Fd
      /\ fdOwner[loc[Snd].fd] = n
      /\ loc[Snd].addr = clientSockAddr[n] /\ loc[Snd].addr \in Ip

(* When cmd_send comes out of its critical section to send, it has the     *)
(* socket and the address of the client it looked up, and it keeps them    *)
(* until sendto, with gMutex free and whatever is added, deleted or        *)
(* changed in between: the only thing that takes them away is that this    *)
(* very client is deleted (delClient).                                     *)
AddressedSend ==
  [][pc'[Snd] = "sndSend" =>
       \/ SenderHasClient'
       \/ /\ pc[Snd] = "sndSend"
          /\ SenderHasClient => gClientFlag'[loc[Snd].num] = UNUSED]_vars

(* What show prints is what cmd_send goes by, while nobody is inside a     *)
(* critical section: a client has an address text exactly while its flag   *)
(* lets commands through, also while "suspended" logs remove clients       *)
(* behind the operator's back; and only a client some thread is adding can *)
(* have a socket address and be UNUSED (delClient, syslogProcess).         *)
FlagTellsAddress ==
  gMutex = Free =>
    \A c \in Client :
      /\ gClientFlag[c] = USED <=> gClientIpAddr[c] \in Ip
      /\ gClientFlag[c] = UNUSED /\ clientSockAddr[c] # NoIp =>
           \E t \in CmdThread : loc[t].num = c /\ pc[t] = "addLock2"

(* Whoever takes gMutex gives it back: as long as threads inside handlers  *)
(* keep running, no path through a handler leaves it locked.               *)
LockReleased == (gMutex # Free) ~> (gMutex = Free)

(* "add client OK!" (at_cmdProc.c:378) and "use command add ... to add a   *)
(* connection between phone and PC" (ReadMe.txt:36-37): a USED client has  *)
(* an open socket of its own.                                              *)
AddedClientIsConnected ==
  \A c \in Client : gClientFlag[c] = USED =>
    gSockets[c] \in Fd /\ fdOwner[gSockets[c]] = c

(* "we can't use gMutex signal to lock this code.cause it may never        *)
(* unlock" (at_cmdProc.c:528): gMutex is not left to a thread that has     *)
(* exited.                                                                 *)
MutexNotOrphaned == gMutex # Orphan
=============================================================================
