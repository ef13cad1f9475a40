----------------------------- MODULE SyslogServer -----------------------------
(***************************************************************************)
(* Receive mode: start rec creates a thread that opens the syslog socket   *)
(* and turns the phones' logs into dropped clients and counted calls       *)
(* (ret_receive, syslogServerInit, syslogProcess in autoTest.c); syslog    *)
(* tells a phone the port to send its logs to (syslogConf, at_cmdProc.c).  *)
(* stop rec ends the thread and leaves its socket open.  What happens      *)
(* inside the critical section of syslogProcess is in ClientTable.         *)
(***************************************************************************)
EXTENDS Integers, SequencesExt

CONSTANTS
  MAX_CLIENT,  (* number of client slots                                   *)
  Phone,       (* clients with a phone that sends logs                     *)
  Named,       (* TRUE: a log carries "client n"; FALSE: it was cut off,   *)
               (* a log is read into a buffer of 150 characters            *)
  LogDir,      (* TRUE: the log file can be opened; FALSE: it can not      *)
  TRIES,       (* ports syslogServerInit tries to bind                     *)
  Foreign,     (* ports other programs have bound                          *)
  MaxFd,       (* bound: sockets opened                                    *)
  MaxLog,      (* bound: logs one phone sends                              *)
  MaxTold      (* bound: syslog messages on their way at a time            *)

MIN_CLIENT  == 0
UNUSED      == 0
USED        == 1
FAILED      == -1
AT_ERROR    == 2
SYSLOG_PORT == 5001
None        == 0

Client == MIN_CLIENT .. MAX_CLIENT - 1
Issue  == {"suspended", "doubleTalk", "trebleTalk", "other"}
Talk   == {"doubleTalk", "trebleTalk"}
Log    == [from : Phone, issue : Issue, named : BOOLEAN]

(* portnumber += i, for i from 0 on. *)
portAt(i) == SYSLOG_PORT + (i * (i + 1)) \div 2
Port      == {portAt(i) : i \in 0 .. TRIES - 1}

ASSUME SyslogAssumption ==
  /\ MAX_CLIENT \in Nat \ {0} /\ Phone \subseteq Client
  /\ Named \subseteq BOOLEAN /\ LogDir \subseteq BOOLEAN
  /\ TRIES \in Nat \ {0} /\ Foreign \subseteq Port
  /\ MaxFd \in Nat /\ MaxLog \in Nat /\ MaxTold \in Nat

VARIABLES
  recId,         (* thr_retReceive_id is set                               *)
  rec,           (* state of the receiver                                  *)
  log,           (* the log it is working on                               *)
  syslogSockFd,  (* the socket it reads                                    *)
  opened,        (* sockets opened so far, the n-th one is called n        *)
  boundTo,       (* kernel: the socket bound to each port, or None         *)
  inbox,         (* kernel: logs that wait at each port                    *)
  gSyslogPort,   (* the port syslog tells the phones                       *)
  told,          (* syslog messages on their way, as CommandChannel has it *)
  phonePort,     (* the port each phone has been told                      *)
  gClientFlag,
  gSuccessCall,  (* calls counted                                          *)
  sent,          (* logs each phone has sent                               *)
  skipped        (* phones a "suspended" log of which was not written      *)

thread  == <<recId, rec, log>>
sockets == <<syslogSockFd, opened, boundTo, gSyslogPort>>
phones  == <<told, phonePort, sent, skipped>>
clients == <<gClientFlag, gSuccessCall>>
vars    == <<thread, sockets, inbox, phones, clients>>

NoLog == <<>>

Init ==
  /\ recId = FALSE /\ rec = "dead" /\ log = NoLog
  /\ syslogSockFd = None /\ opened = 0 /\ gSyslogPort = None
  /\ boundTo = [p \in Port |-> None]
  /\ inbox = [p \in Port |-> <<>>]
  /\ told = <<>> /\ phonePort = [c \in Phone |-> None]
  /\ gClientFlag = [c \in Client |-> UNUSED]
  /\ gSuccessCall = [t \in Talk |-> [c \in Client |-> 0]]
  /\ sent = [c \in Phone |-> [k \in Issue |-> 0]]
  /\ skipped = {}

-----------------------------------------------------------------------------
(* start rec, stop rec *)

StartRec ==
  /\ ~recId
  /\ recId' = TRUE
  /\ rec' = "new"
  /\ UNCHANGED <<log, sockets, inbox, phones, clients>>

(* The thread exits wherever it is; nobody closes its socket. *)
StopRec ==
  /\ recId
  /\ recId' = FALSE
  /\ rec' = "dead" /\ log' = NoLog
  /\ UNCHANGED <<sockets, inbox, phones, clients>>

-----------------------------------------------------------------------------
(* syslogServerInit.  It answers OK when socket() has failed, since that   *)
(* is -1 and not AT_ERROR, and when no port could be bound.                *)

SocketFails ==
  /\ rec = "new"
  /\ syslogSockFd' = FAILED
  /\ rec' = "recv"
  /\ UNCHANGED <<recId, log, opened, boundTo, gSyslogPort, inbox, phones, clients>>

(* Mutant: one port more is tried. *)
FreePortsBeyond ==
  {p \in {portAt(i) : i \in 0 .. TRIES} \ Foreign : p \in Port => boundTo[p] = None}

FreePorts == {p \in Port \ Foreign : boundTo[p] = None}

(* Mutant: the port of the first start is kept. *)
ServerInitOldPort ==
  /\ rec = "new" /\ opened < MaxFd
  /\ opened' = opened + 1
  /\ syslogSockFd' = opened'
  /\ \/ /\ FreePorts # {}
        /\ boundTo' = [boundTo EXCEPT ![Min(FreePorts)] = opened']
        /\ gSyslogPort' = IF gSyslogPort = None THEN Min(FreePorts) ELSE gSyslogPort
     \/ FreePorts = {} /\ UNCHANGED <<boundTo, gSyslogPort>>
  /\ rec' = "recv"
  /\ UNCHANGED <<recId, log, inbox, phones, clients>>

ServerInit ==
  /\ rec = "new" /\ opened < MaxFd
  /\ opened' = opened + 1
  /\ syslogSockFd' = opened'
  /\ \/ /\ FreePorts # {}
        /\ gSyslogPort' = Min(FreePorts)
        /\ boundTo' = [boundTo EXCEPT ![gSyslogPort'] = opened']
     \/ FreePorts = {} /\ UNCHANGED <<boundTo, gSyslogPort>>
  /\ rec' = "recv"
  /\ UNCHANGED <<recId, log, inbox, phones, clients>>

-----------------------------------------------------------------------------
(* Operator and phones.  A client no phone answers for plays no part. *)

AddClient(c) ==
  /\ gClientFlag[c] = UNUSED
  /\ gClientFlag' = [gClientFlag EXCEPT ![c] = USED]
  /\ UNCHANGED <<thread, sockets, inbox, phones, gSuccessCall>>

(* syslog n enable: the port is put into the message when it is queued.    *)
SyslogConf(c) ==
  /\ Len(told) < MaxTold
  /\ told' = Append(told, [to |-> c, port |-> gSyslogPort])
  /\ UNCHANGED <<thread, sockets, inbox, phonePort, sent, skipped, clients>>

(* Mutant: the message queued last is received first. *)
ToldLatest ==
  /\ told # <<>>
  /\ told' = Front(told)
  /\ \/ phonePort' = [phonePort EXCEPT ![Last(told).to] = Last(told).port]
     \/ UNCHANGED phonePort
  /\ UNCHANGED <<thread, sockets, inbox, sent, skipped, clients>>

(* The sender takes the messages out in order; each reaches its phone or   *)
(* gets lost.                                                              *)
Told ==
  /\ told # <<>>
  /\ told' = Tail(told)
  /\ \/ phonePort' = [phonePort EXCEPT ![Head(told).to] = Head(told).port]
     \/ UNCHANGED phonePort
  /\ UNCHANGED <<thread, sockets, inbox, sent, skipped, clients>>

(* A datagram: it waits at a port somebody has bound, or is lost. *)
PhoneLogs(c, issue, named) ==
  /\ phonePort[c] # None
  /\ SumFunction(sent[c]) < MaxLog
  /\ sent' = [sent EXCEPT ![c][issue] = @ + 1]
  /\ \/ UNCHANGED inbox
     \/ /\ boundTo[phonePort[c]] # None
        /\ inbox' = [inbox EXCEPT ![phonePort[c]] =
                       Append(@, [from |-> c, issue |-> issue, named |-> named])]
  /\ UNCHANGED <<thread, sockets, told, phonePort, skipped, clients>>

-----------------------------------------------------------------------------
(* ret_receive *)

(* Mutant: the datagram stays in the socket. *)
ReceivePeeks ==
  /\ rec = "recv"
  /\ \E p \in Port :
       /\ boundTo[p] = syslogSockFd /\ inbox[p] # <<>>
       /\ log' = Head(inbox[p])
  /\ rec' = "log"
  /\ UNCHANGED <<recId, sockets, inbox, phones, clients>>

Receive ==
  /\ rec = "recv"
  /\ \E p \in Port :
       /\ boundTo[p] = syslogSockFd /\ inbox[p] # <<>>
       /\ log' = Head(inbox[p])
       /\ inbox' = [inbox EXCEPT ![p] = Tail(@)]
  /\ rec' = "log"
  /\ UNCHANGED <<recId, sockets, phones, clients>>

(* The file cannot be opened: continue, past syslogProcess. *)
WriteFails ==
  /\ rec = "log" /\ FALSE \in LogDir
  /\ rec' = "recv" /\ log' = NoLog
  /\ skipped' = IF log.issue = "suspended" THEN skipped \cup {log.from} ELSE skipped
  /\ UNCHANGED <<recId, sockets, inbox, told, phonePort, sent, clients>>

(* A log that names no client yields AT_ERROR, which is 2.  How the number *)
(* is cut out of a log that names one is left out: phones are taken to     *)
(* write "client", one or two digits and a blank.                          *)
getLogClientNum == IF log.named THEN log.from ELSE AT_ERROR

inRange(n) == n > MIN_CLIENT /\ n < MAX_CLIENT

counted(n) ==
  IF log.issue \in Talk /\ inRange(n)
  THEN [gSuccessCall EXCEPT ![log.issue][n] = @ + 1] ELSE gSuccessCall

dropped(n) ==
  IF log.issue = "suspended" /\ inRange(n)
  THEN [gClientFlag EXCEPT ![n] = UNUSED] ELSE gClientFlag

(* Mutant: the last client is out of range. *)
syslogProcessShort ==
  /\ rec = "log" /\ TRUE \in LogDir
  /\ gSuccessCall' = counted(getLogClientNum)
  /\ gClientFlag' = IF getLogClientNum < MAX_CLIENT - 1
                    THEN dropped(getLogClientNum) ELSE gClientFlag
  /\ rec' = "recv" /\ log' = NoLog
  /\ UNCHANGED <<recId, sockets, inbox, phones>>

syslogProcess ==
  /\ rec = "log" /\ TRUE \in LogDir
  /\ gSuccessCall' = counted(getLogClientNum)
  /\ gClientFlag' = dropped(getLogClientNum)
  /\ rec' = "recv" /\ log' = NoLog
  /\ UNCHANGED <<recId, sockets, inbox, phones>>

-----------------------------------------------------------------------------
Receiver == SocketFails \/ ServerInit \/ Receive \/ WriteFails \/ syslogProcess

Next ==
  \/ StartRec \/ StopRec
  \/ \E c \in Phone : AddClient(c) \/ SyslogConf(c)
  \/ Told
  \/ \E c \in Phone, issue \in Issue, named \in Named : PhoneLogs(c, issue, named)
  \/ Receiver

(* The receiver runs in a loop of its own and waits for nothing but gMutex *)
(* in syslogProcess, which others give back (LockReleased in ClientTable)  *)
(* unless a stop has left it to nobody (MutexNotOrphaned there): no thread *)
(* is stopped inside a critical section here.                              *)
Spec == Init /\ [][Next]_vars /\ WF_vars(Receiver)
-----------------------------------------------------------------------------
(* Properties *)

(* Every variable keeps its type: the receiver only ever gets a port that  *)
(* syslogServerInit may try, and only logs of the phones.                  *)
TypeOK ==
  /\ recId \in BOOLEAN /\ rec \in {"dead", "new", "recv", "log"}
  /\ log \in Log \cup {NoLog}
  /\ syslogSockFd \in {FAILED} \cup 0 .. MaxFd /\ opened \in 0 .. MaxFd
  /\ boundTo \in [Port -> 0 .. MaxFd]
  /\ inbox \in [Port -> Seq(Log)]
  /\ gSyslogPort \in Port \cup {None}
  /\ told \in Seq([to : Phone, port : Port \cup {None}])
  /\ phonePort \in [Phone -> Port \cup {None}]
  /\ gClientFlag \in [Client -> {UNUSED, USED}]
  /\ gSuccessCall \in [Talk -> [Client -> Nat]]
  /\ sent \in [Phone -> [Issue -> Nat]] /\ skipped \subseteq Phone

(* The port syslog tells the phones is the one the receiver reads, if it   *)
(* could bind any, also after receive mode was stopped and started again.  *)
AdvertisedIsRead ==
  rec \in {"recv", "log"} /\ (\E p \in Port : boundTo[p] = syslogSockFd)
    => gSyslogPort # None /\ boundTo[gSyslogPort] = syslogSockFd

(* A phone that was told a newer port is never told an older one again,    *)
(* although the port is chosen when syslog is typed, the message waits in  *)
(* the queue and receive mode may be restarted in between: ports of        *)
(* earlier receivers are not given back, so they only go up                *)
(* (syslogServerInit, syslogConf).                                         *)
PortsNeverGoBack == [][\A c \in Phone : phonePort'[c] >= phonePort[c]]_vars

(* What look and quit report: no call is counted that a phone of that      *)
(* client did not log, and none twice, over any number of receivers.  Only *)
(* client 2 is also given the calls of logs that name no client.           *)
sentBy(c, t) == IF c \in Phone THEN sent[c][t] ELSE 0

sentTo(c, t) ==
  IF c = AT_ERROR /\ FALSE \in Named
  THEN SumFunction([p \in Phone |-> sent[p][t]]) ELSE sentBy(c, t)

CountsTalksOnce == \A t \in Talk, c \in Client : gSuccessCall[t][c] <= sentTo(c, t)

(* The test of a client does stop when its phone says so: a "suspended"    *)
(* log of client c that waits where the receiver reads takes c out of the  *)
(* test, unless receive mode is stopped first or the log cannot be written *)
(* (syslogProcess).                                                        *)
SuspendReaches ==
  \A c \in Phone \ {MIN_CLIENT} :
    (/\ rec = "recv"
     /\ \E p \in Port : /\ boundTo[p] = syslogSockFd
                        /\ \E k \in DOMAIN inbox[p] :
                             inbox[p][k] = [from |-> c, issue |-> "suspended", named |-> TRUE])
      ~> (gClientFlag[c] = UNUSED \/ ~recId \/ c \in skipped)
=============================================================================
