--------------------------- MODULE SyslogServerProofs ---------------------------
(***************************************************************************)
(* Theorems about SyslogServer, for any number of phones, sockets, calls   *)
(* and logs.  Sections: types, ports and sockets, selecting and starting,  *)
(* and last the counters: every log on its way may still be counted once,  *)
(* and none twice.                                                         *)
(***************************************************************************)
EXTENDS SyslogServer, DataLemmas

LEMMA PortsAreNumbers == Port \subseteq Nat \ {0} /\ None \notin Port
<1>1. ASSUME NEW i \in Nat PROVE portAt(i) \in Nat \ {0}
  <2>1. i * (i + 1) \in Nat
    OBVIOUS
  <2>2. (i * (i + 1)) \div 2 \in Nat
    BY <2>1
  <2> QED
    BY <2>2 DEF portAt, SYSLOG_PORT
<1> QED
  BY <1>1, SyslogAssumption DEF Port, None
-----------------------------------------------------------------------------
(* What a step needs to know of the variables it uses. *)
TypeInv == TypeOK /\ (rec = "log" => log \in Log)

LEMMA Constants ==
  /\ Phone \subseteq Client /\ Client \subseteq Int /\ MAX_CLIENT \in Nat
  /\ MaxFd \in Nat /\ MaxTold \in Nat
  /\ None = 0 /\ FAILED = -1 /\ UNUSED = 0 /\ USED = 1 /\ MIN_CLIENT = 0
  /\ Talk \subseteq Issue /\ NoLog \notin Log
BY SyslogAssumption, PortsAreNumbers DEF Client, MIN_CLIENT, None, FAILED, UNUSED, USED, Talk,
   Issue, NoLog, Log

LEMMA FreePortFacts ==
  ASSUME FreePorts # {}
  PROVE  /\ Min(FreePorts) \in Port \ Foreign /\ boundTo[Min(FreePorts)] = None
         /\ \A p \in Port \ Foreign : p < Min(FreePorts) => boundTo[p] # None
<1>1. FreePorts \in SUBSET Nat
  BY PortsAreNumbers DEF FreePorts
<1>2. Min(FreePorts) \in FreePorts /\ \A p \in FreePorts : Min(FreePorts) <= p
  BY <1>1, LeastExists
<1>3. ASSUME NEW p \in Port \ Foreign, p < Min(FreePorts), boundTo[p] = None PROVE FALSE
  <2>1. p \in FreePorts
    BY <1>3 DEF FreePorts
  <2>2. Min(FreePorts) <= p /\ p \in Nat /\ Min(FreePorts) \in Nat
    BY <1>1, <1>2, <2>1
  <2> QED
    BY <1>3, <2>2
<1> QED
  BY <1>2, <1>3 DEF FreePorts

LEMMA InitTypeInv == Init => TypeInv
<1> SUFFICES ASSUME Init PROVE TypeInv
  OBVIOUS
<1>1. /\ boundTo \in [Port -> 0 .. MaxFd] /\ inbox \in [Port -> Seq(Log)]
      /\ phonePort \in [Phone -> Port \cup {None}]
  BY Constants DEF Init
<1>2. /\ gClientFlag \in [Client -> {UNUSED, USED}]
      /\ gSuccessCall \in [Talk -> [Client -> Nat]] /\ sent \in [Phone -> [Issue -> Nat]]
  BY DEF Init
<1>3. told \in Seq([to : Phone, port : Port \cup {None}])
  BY DEF Init
<1>4. /\ recId \in BOOLEAN /\ rec = "dead" /\ log \in Log \cup {NoLog}
      /\ syslogSockFd \in {FAILED} \cup 0 .. MaxFd /\ opened \in 0 .. MaxFd
      /\ gSyslogPort \in Port \cup {None} /\ skipped \subseteq Phone
  <2>1. recId \in BOOLEAN
    BY DEF Init
  <2>2. log \in Log \cup {NoLog} /\ skipped \subseteq Phone /\ rec = "dead"
    BY DEF Init
  <2>3. syslogSockFd \in {FAILED} \cup 0 .. MaxFd /\ opened \in 0 .. MaxFd
    BY Constants DEF Init
  <2> QED
    BY <2>1, <2>2, <2>3 DEF Init
<1> QED
  BY <1>1, <1>2, <1>3, <1>4 DEF TypeInv, TypeOK

LEMMA StepTypeInv ==
  ASSUME TypeInv, Next
  PROVE  TypeInv'
<1> USE Constants DEF TypeInv, TypeOK, sockets, phones, clients, thread
<1>1. CASE StartRec \/ StopRec \/ SocketFails
  BY <1>1 DEF StartRec, StopRec, SocketFails
<1>2. CASE ServerInit
  <2>1. opened' \in 0 .. MaxFd /\ syslogSockFd' = opened' /\ rec' = "recv"
    BY <1>2 DEF ServerInit
  <2>2. boundTo' \in [Port -> 0 .. MaxFd] /\ gSyslogPort' \in Port \cup {None}
    <3>1. CASE FreePorts # {}
      BY <1>2, <2>1, <3>1, FreePortFacts DEF ServerInit
    <3>2. CASE FreePorts = {}
      BY <1>2, <3>2 DEF ServerInit
    <3> QED
      BY <3>1, <3>2
  <2> QED
    BY <1>2, <2>1, <2>2 DEF ServerInit
<1>3. ASSUME NEW c \in Phone, AddClient(c) PROVE TypeInv'
  BY <1>3 DEF AddClient
<1>4. ASSUME NEW c \in Phone, SyslogConf(c) PROVE TypeInv'
  <2>1. told' \in Seq([to : Phone, port : Port \cup {None}])
    BY <1>4 DEF SyslogConf
  <2> QED
    BY <1>4, <2>1 DEF SyslogConf
<1>5. CASE Told
  <2> DEFINE M == [to : Phone, port : Port \cup {None}]
  <2>1. Head(told) \in M /\ Tail(told) \in Seq(M)
    <3>1. told \in Seq(M) /\ told # <<>>
      BY <1>5 DEF Told
    <3> HIDE DEF M
    <3> QED
      BY <3>1
  <2>2. told' \in Seq([to : Phone, port : Port \cup {None}])
    BY <1>5, <2>1 DEF Told
  <2>3. phonePort' \in [Phone -> Port \cup {None}]
    BY <1>5, <2>1 DEF Told
  <2> QED
    BY <1>5, <2>2, <2>3 DEF Told
<1>6. ASSUME NEW c \in Phone, NEW issue \in Issue, NEW named \in Named, PhoneLogs(c, issue, named)
      PROVE  TypeInv'
  <2>1. [from |-> c, issue |-> issue, named |-> named] \in Log
    BY SyslogAssumption DEF Log
  <2> DEFINE m == [from |-> c, issue |-> issue, named |-> named]
  <2>a. m \in Log
    BY <2>1
  <2>b. inbox' = inbox \/ inbox' = [inbox EXCEPT ![phonePort[c]] = Append(@, m)]
    BY <1>6 DEF PhoneLogs
  <2> HIDE DEF m
  <2>2. inbox' \in [Port -> Seq(Log)]
    <3>1. inbox \in [Port -> Seq(Log)]
      OBVIOUS
    <3>2. ASSUME NEW p \in Port, inbox' = [inbox EXCEPT ![p] = Append(@, m)]
          PROVE  inbox' \in [Port -> Seq(Log)]
      BY <2>a, <3>1, <3>2
    <3>3. inbox' = [inbox EXCEPT ![phonePort[c]] = Append(@, m)] => phonePort[c] \in Port
      BY <1>6 DEF PhoneLogs
    <3> QED
      BY <2>b, <3>1, <3>2, <3>3
  <2>c. sent' = [sent EXCEPT ![c][issue] = @ + 1]
    BY <1>6 DEF PhoneLogs
  <2>3. sent' \in [Phone -> [Issue -> Nat]]
    BY <2>c
  <2> QED
    BY <1>6, <2>2, <2>3 DEF PhoneLogs
<1>7. CASE Receive
  <2>1. PICK p \in Port : /\ inbox[p] # <<>> /\ log' = Head(inbox[p])
                          /\ inbox' = [inbox EXCEPT ![p] = Tail(@)]
    BY <1>7 DEF Receive
  <2>2. Head(inbox[p]) \in Log /\ Tail(inbox[p]) \in Seq(Log)
    BY <2>1
  <2> QED
    BY <1>7, <2>1, <2>2 DEF Receive
<1>8. CASE WriteFails
  BY <1>8 DEF WriteFails, Log
<1>9. CASE syslogProcess
  <2>1. \A n \in Int : inRange(n) => n \in Client
    BY DEF inRange, Client
  <2>2. getLogClientNum \in Int
    <3>1. log.from \in Int
      BY <1>9 DEF syslogProcess, Log
    <3> QED
      BY <3>1 DEF getLogClientNum, AT_ERROR
  <2>3. gSuccessCall' \in [Talk -> [Client -> Nat]]
    BY <1>9, <2>1, <2>2 DEF syslogProcess, counted
  <2>4. gClientFlag' \in [Client -> {UNUSED, USED}]
    BY <1>9, <2>1, <2>2 DEF syslogProcess, dropped
  <2> QED
    BY <1>9, <2>3, <2>4 DEF syslogProcess
<1> QED
  BY <1>1, <1>2, <1>3, <1>4, <1>5, <1>6, <1>7, <1>8, <1>9 DEF Next, Receiver

LEMMA StutterTypeInv == TypeInv /\ UNCHANGED vars => TypeInv'
BY DEF TypeInv, TypeOK, vars, thread, sockets, phones, clients

(* The receiver only ever gets a port syslogServerInit may try, and works  *)
(* on logs of the phones only, over any number of restarts (autoTest.c).   *)
THEOREM ReceiverTypeCorrect == Spec => []TypeOK
<1>1. TypeInv => TypeOK
  BY DEF TypeInv
<1> QED
  BY <1>1, InitTypeInv, StepTypeInv, StutterTypeInv, PTL DEF Spec

-----------------------------------------------------------------------------
(* The ports of the receivers, in the order they are bound and told.       *)

(* Every port below the one syslog tells was bound by a receiver or by     *)
(* another program, and a receiver only binds with a socket it has opened. *)
PortsInv ==
  /\ \A p \in Port : boundTo[p] <= opened
  /\ \A p \in Port \ Foreign : p < gSyslogPort => boundTo[p] # None
  /\ gSyslogPort # None => boundTo[gSyslogPort] # None
  /\ AdvertisedIsRead

(* What is on its way to the phones is in order, too. *)
ToldInv ==
  /\ \A c \in Phone : phonePort[c] <= gSyslogPort
  /\ \A k \in 1 .. Len(told) : /\ told[k].port <= gSyslogPort
                               /\ \A c \in Phone : phonePort[c] <= told[k].port
  /\ \A j, k \in 1 .. Len(told) : j < k => told[j].port <= told[k].port

ReceiverInv == TypeInv /\ PortsInv /\ ToldInv

LEMMA PortTypes ==
  ASSUME TypeInv
  PROVE  /\ gSyslogPort \in Nat /\ opened \in Nat /\ \A p \in Port : boundTo[p] \in Nat
         /\ \A c \in Phone : phonePort[c] \in Nat
         /\ \A k \in 1 .. Len(told) : told[k].port \in Nat /\ told[k].to \in Phone
         /\ Len(told) \in Nat
<1>1. Port \cup {None} \subseteq Nat
  BY PortsAreNumbers DEF None
<1>2. \A k \in 1 .. Len(told) : told[k] \in [to : Phone, port : Port \cup {None}]
  <2> DEFINE M == [to : Phone, port : Port \cup {None}]
  <2>1. told \in Seq(M)
    BY DEF TypeInv, TypeOK
  <2> HIDE DEF M
  <2>2. \A k \in 1 .. Len(told) : told[k] \in M
    BY <2>1
  <2> QED
    BY <2>2 DEF M
<1>3. \A k \in 1 .. Len(told) : told[k].port \in Nat /\ told[k].to \in Phone
  BY <1>1, <1>2
<1>4. Len(told) \in Nat
  BY DEF TypeInv, TypeOK
<1>5. gSyslogPort \in Port \cup {None} /\ \A c \in Phone : phonePort[c] \in Port \cup {None}
  BY DEF TypeInv, TypeOK
<1>6. opened \in Nat /\ \A p \in Port : boundTo[p] \in Nat
  <2>1. opened \in 0 .. MaxFd /\ \A p \in Port : boundTo[p] \in 0 .. MaxFd
    BY DEF TypeInv, TypeOK
  <2> QED
    BY <2>1
<1> QED
  BY <1>1, <1>3, <1>4, <1>5, <1>6

LEMMA InitReceiverInv == Init => ReceiverInv
<1> SUFFICES ASSUME Init PROVE ReceiverInv
  OBVIOUS
<1>1. TypeInv
  BY InitTypeInv
<1>2. PortsInv
  BY PortsAreNumbers DEF Init, PortsInv, AdvertisedIsRead, None
<1>3. ToldInv
  BY DEF Init, ToldInv, None
<1> QED
  BY <1>1, <1>2, <1>3 DEF ReceiverInv

(* A start of receive mode goes up, and to a port it reads.                *)
LEMMA ServerInitGoesUp ==
  ASSUME ReceiverInv, ServerInit
  PROVE  PortsInv' /\ gSyslogPort' >= gSyslogPort
<1> USE PortTypes, Constants DEF ReceiverInv
<1>1. /\ opened' = opened + 1 /\ syslogSockFd' = opened + 1 /\ \A p \in Port : boundTo[p] <= opened
  BY DEF ServerInit, PortsInv
<1>2. CASE FreePorts # {}
  <2> DEFINE q == Min(FreePorts)
  <2>1. /\ q \in Port \ Foreign /\ boundTo[q] = None
        /\ \A p \in Port \ Foreign : p < q => boundTo[p] # None
    BY <1>2, FreePortFacts
  <2>2. gSyslogPort' = q /\ boundTo' = [boundTo EXCEPT ![q] = opened + 1]
    BY <1>1, <1>2 DEF ServerInit
  <2> HIDE DEF q
  <2>3. q \in Nat \ {0} /\ boundTo \in [Port -> 0 .. MaxFd]
    BY <2>1, PortsAreNumbers DEF TypeInv, TypeOK
  <2>4. boundTo'[q] = opened + 1 /\ \A p \in Port \ {q} : boundTo'[p] = boundTo[p]
    BY <2>1, <2>2, <2>3
  <2>5. gSyslogPort' >= gSyslogPort
    BY <2>1, <2>2, <2>3 DEF PortsInv
  <2>6. PortsInv'
    BY <1>1, <2>1, <2>2, <2>3, <2>4, PortsAreNumbers DEF PortsInv, AdvertisedIsRead
  <2> QED
    BY <2>5, <2>6
<1>3. CASE FreePorts = {}
  <2>1. boundTo' = boundTo /\ gSyslogPort' = gSyslogPort
    BY <1>3 DEF ServerInit
  <2> QED
    BY <1>1, <2>1 DEF PortsInv, AdvertisedIsRead
<1> QED
  BY <1>2, <1>3

(* The sender takes the oldest message: its port is not above the others'. *)
LEMMA ToldGoesUp ==
  ASSUME ReceiverInv, Told
  PROVE  /\ ToldInv' /\ gSyslogPort' = gSyslogPort
         /\ \A c \in Phone : phonePort'[c] >= phonePort[c]
<1> USE PortTypes, Constants DEF ReceiverInv
<1>1. /\ Len(told) \in Nat \ {0} /\ Head(told) = told[1] /\ Len(told') = Len(told) - 1
      /\ \A k \in 1 .. Len(told') : told'[k] = told[k + 1]
  BY DEF Told, TypeInv, TypeOK
<1>2. gSyslogPort' = gSyslogPort /\ 1 \in 1 .. Len(told)
  BY <1>1 DEF Told, sockets
<1>3. \A k \in 1 .. Len(told') : k + 1 \in 1 .. Len(told)
  BY <1>1
<1>4. \A c \in Phone : phonePort'[c] = phonePort[c] \/ phonePort'[c] = told[1].port
  BY <1>1 DEF Told, TypeInv, TypeOK
<1>5. \A c \in Phone : phonePort'[c] \in Nat /\ phonePort'[c] >= phonePort[c] /\ phonePort'[c] <= gSyslogPort
  BY <1>2, <1>4 DEF ToldInv
<1>6. ASSUME NEW k \in 1 .. Len(told')
      PROVE  told'[k].port <= gSyslogPort /\ \A c \in Phone : phonePort'[c] <= told'[k].port
  <2>1. k + 1 \in 1 .. Len(told) /\ told'[k] = told[k + 1] /\ 1 < k + 1
    BY <1>1, <1>3
  <2>2. told[1].port <= told[k + 1].port
    BY <1>2, <2>1 DEF ToldInv
  <2> QED
    BY <1>4, <2>1, <2>2 DEF ToldInv
<1>7. ASSUME NEW j \in 1 .. Len(told'), NEW k \in 1 .. Len(told'), j < k
      PROVE  told'[j].port <= told'[k].port
  <2>1. j + 1 \in 1 .. Len(told) /\ k + 1 \in 1 .. Len(told) /\ j + 1 < k + 1
    BY <1>3, <1>7
  <2>2. told[j + 1].port <= told[k + 1].port
    BY <2>1 DEF ToldInv
  <2> QED
    BY <1>1, <2>2
<1> QED
  BY <1>2, <1>5, <1>6, <1>7 DEF ToldInv

LEMMA SyslogConfKeepsOrder ==
  ASSUME ReceiverInv, NEW c \in Phone, SyslogConf(c)
  PROVE  ToldInv'
<1> USE PortTypes, Constants DEF ReceiverInv
<1> DEFINE m == [to |-> c, port |-> gSyslogPort]
<1>1. told' = Append(told, m) /\ m.port = gSyslogPort
  BY DEF SyslogConf
<1>2. phonePort' = phonePort /\ gSyslogPort' = gSyslogPort
  BY DEF SyslogConf, sockets
<1> HIDE DEF m
<1>3. /\ Len(told') = Len(told) + 1 /\ told'[Len(told) + 1] = m
      /\ \A k \in 1 .. Len(told) : told'[k] = told[k]
  BY <1>1 DEF TypeInv, TypeOK
<1>4. \A k \in 1 .. Len(told') : k \in 1 .. Len(told) \/ k = Len(told) + 1
  BY <1>3
<1>5. \A k \in 1 .. Len(told') : told'[k].port \in Nat /\ told'[k].port <= gSyslogPort
  BY <1>1, <1>3, <1>4 DEF ToldInv
<1>6. \A k \in 1 .. Len(told') : \A d \in Phone : phonePort[d] <= told'[k].port
  BY <1>1, <1>3, <1>4 DEF ToldInv
<1>7. ASSUME NEW j \in 1 .. Len(told'), NEW k \in 1 .. Len(told'), j < k
      PROVE  told'[j].port <= told'[k].port
  <2>1. j \in 1 .. Len(told)
    BY <1>3, <1>7
  <2>2. CASE k \in 1 .. Len(told)
    BY <1>3, <1>7, <2>1, <2>2 DEF ToldInv
  <2>3. CASE k = Len(told) + 1
    BY <1>1, <1>3, <2>1, <2>3 DEF ToldInv
  <2> QED
    BY <1>4, <2>2, <2>3
<1> QED
  BY <1>2, <1>5, <1>6, <1>7 DEF ToldInv

LEMMA StepReceiverInv ==
  ASSUME ReceiverInv, Next
  PROVE  ReceiverInv' /\ \A c \in Phone : phonePort'[c] >= phonePort[c]
<1>1. TypeInv'
  BY StepTypeInv DEF ReceiverInv
<1>2. CASE ServerInit
  <2>1. PortsInv' /\ gSyslogPort' >= gSyslogPort /\ UNCHANGED <<told, phonePort>>
    BY <1>2, ServerInitGoesUp DEF ServerInit, phones
  <2>2. ToldInv'
    <3>1. gSyslogPort' \in Nat
      BY <1>1, PortsAreNumbers DEF TypeInv, TypeOK, None
    <3> QED
      BY <2>1, <3>1, PortTypes DEF ReceiverInv, ToldInv
  <2> QED
    BY <1>1, <2>1, <2>2, PortTypes DEF ReceiverInv
<1>3. CASE Told
  <2>1. PortsInv'
    BY <1>3 DEF Told, ReceiverInv, PortsInv, AdvertisedIsRead, thread, sockets
  <2> QED
    BY <1>1, <1>3, <2>1, ToldGoesUp DEF ReceiverInv
<1>4. ASSUME NEW d \in Phone, SyslogConf(d) PROVE ReceiverInv' /\ UNCHANGED phonePort
  <2>1. PortsInv' /\ UNCHANGED phonePort
    BY <1>4 DEF SyslogConf, ReceiverInv, PortsInv, AdvertisedIsRead, thread, sockets
  <2> QED
    BY <1>1, <1>4, <2>1, SyslogConfKeepsOrder DEF ReceiverInv
<1>5. ASSUME UNCHANGED <<opened, boundTo, gSyslogPort, told, phonePort>>,
             \/ rec' \notin {"recv", "log"}
             \/ syslogSockFd' = FAILED
             \/ rec \in {"recv", "log"} /\ UNCHANGED syslogSockFd
             \/ UNCHANGED <<rec, syslogSockFd>>
      PROVE  ReceiverInv' /\ UNCHANGED phonePort
  <2>1. AdvertisedIsRead'
    BY <1>5, PortTypes DEF ReceiverInv, PortsInv, AdvertisedIsRead, FAILED
  <2>2. PortsInv' /\ ToldInv'
    BY <1>5, <2>1 DEF ReceiverInv, PortsInv, ToldInv
  <2> QED
    BY <1>1, <1>5, <2>2 DEF ReceiverInv
<1>6. CASE StartRec \/ StopRec \/ SocketFails \/ \E c \in Phone : AddClient(c)
  BY <1>5, <1>6, PortTypes DEF ReceiverInv, StartRec, StopRec, SocketFails, AddClient, thread,
     sockets, phones
<1>7. CASE \E c \in Phone, issue \in Issue, named \in Named : PhoneLogs(c, issue, named)
  <2>1. UNCHANGED <<rec, syslogSockFd, opened, boundTo, gSyslogPort, told, phonePort>>
    BY <1>7 DEF PhoneLogs, thread, sockets
  <2>2. ReceiverInv' /\ UNCHANGED phonePort
    BY <1>5, <2>1
  <2> QED
    BY <2>2, PortTypes DEF ReceiverInv
<1>8. CASE Receive \/ WriteFails \/ syslogProcess
  <2>1. /\ UNCHANGED <<syslogSockFd, opened, boundTo, gSyslogPort, told, phonePort>>
        /\ rec \in {"recv", "log"}
    BY <1>8 DEF Receive, WriteFails, syslogProcess, sockets, phones
  <2>2. ReceiverInv' /\ UNCHANGED phonePort
    BY <1>5, <2>1
  <2> QED
    BY <2>2, PortTypes DEF ReceiverInv
<1> QED
  BY <1>2, <1>3, <1>4, <1>6, <1>7, <1>8, PortTypes DEF ReceiverInv, Next, Receiver

LEMMA StutterReceiverInv ==
  ReceiverInv /\ UNCHANGED vars => ReceiverInv' /\ \A c \in Phone : phonePort'[c] >= phonePort[c]
<1> SUFFICES ASSUME ReceiverInv, UNCHANGED vars
             PROVE  ReceiverInv' /\ \A c \in Phone : phonePort'[c] >= phonePort[c]
  OBVIOUS
<1>1. TypeInv'
  BY StutterTypeInv DEF ReceiverInv
<1> QED
  BY <1>1, PortTypes DEF ReceiverInv, PortsInv, AdvertisedIsRead, ToldInv, vars, thread, sockets, phones

(* Over any number of starts and stops, and whichever ports others have:   *)
(* the port syslog tells the phones is the one the receiver reads, if it   *)
(* has one (syslogServerInit).                                             *)
THEOREM ReceiverReadsAdvertised == Spec => []AdvertisedIsRead
<1>1. ReceiverInv => AdvertisedIsRead
  BY DEF ReceiverInv, PortsInv
<1>2. ReceiverInv /\ [Next]_vars => ReceiverInv'
  BY StepReceiverInv, StutterReceiverInv
<1> QED
  BY <1>1, <1>2, InitReceiverInv, PTL DEF Spec

(* However long a syslog message waits in the queue, and however often     *)
(* receive mode is restarted meanwhile, no phone is sent back to a port it *)
(* was told before a newer one (syslogConf, syslogServerInit).             *)
THEOREM PhonesAreToldUpwards == Spec => PortsNeverGoBack
<1>1. ReceiverInv /\ [Next]_vars
        => ReceiverInv' /\ [\A c \in Phone : phonePort'[c] >= phonePort[c]]_vars
  BY StepReceiverInv, StutterReceiverInv
<1> QED
  BY <1>1, InitReceiverInv, PTL DEF Spec, PortsNeverGoBack


-----------------------------------------------------------------------------
(* Logs with an issue that wait in a socket, of one of the phones C, by    *)
(* port and place in its queue.                                            *)
Waiting(inb, C, t) ==
  {w \in Port \X (Nat \ {0}) :
     /\ w[2] <= Len(inb[w[1]])
     /\ inb[w[1]][w[2]].from \in C /\ inb[w[1]][w[2]].issue = t}

Matches(m, C, t) == IF m.from \in C /\ m.issue = t THEN 1 ELSE 0

(* The phones whose logs are counted for client c. *)
Givers(c) == IF c = AT_ERROR /\ FALSE \in Named THEN Phone ELSE {c}

Held(c, t) == IF rec = "log" THEN Matches(log, Givers(c), t) ELSE 0

(* CountsTalksOnce is not inductive: every log that waits or is worked on  *)
(* may still be counted.                                                   *)
CountsPending ==
  \A t \in Talk, c \in Client :
    /\ IsFiniteSet(Waiting(inbox, Givers(c), t))
    /\ gSuccessCall[t][c] + Cardinality(Waiting(inbox, Givers(c), t)) + Held(c, t) <= sentTo(c, t)

OnlyNamed ==
  /\ \A p \in Port : \A k \in 1 .. Len(inbox[p]) : inbox[p][k].named \in Named
  /\ rec = "log" => log.named \in Named

CountInv == TypeInv /\ OnlyNamed /\ CountsPending

\* One log more waits at port p, as sendto leaves it there.
LongerBy(new, inb, p, m) == new = [inb EXCEPT ![p] = Append(@, m)]

LEMMA WaitingAppend ==
  ASSUME NEW inb \in [Port -> Seq(Log)], NEW p \in Port, NEW m \in Log, NEW C, NEW t,
         IsFiniteSet(Waiting(inb, C, t)),
         NEW new, LongerBy(new, inb, p, m)
  PROVE  /\ IsFiniteSet(Waiting(new, C, t))
         /\ Cardinality(Waiting(new, C, t)) = Cardinality(Waiting(inb, C, t)) + Matches(m, C, t)
<1> DEFINE n   == Len(inb[p])
           x   == <<p, n + 1>>
           W   == Waiting(inb, C, t)
           V   == Waiting(new, C, t)
<1>1. /\ n \in Nat /\ new[p] = Append(inb[p], m) /\ inb[p] \in Seq(Log)
      /\ \A q \in Port : q # p => new[q] = inb[q]
      /\ \A q \in Port : Len(inb[q]) \in Nat
  <2> HIDE DEF Log
  <2> QED
    BY LenProperties DEF LongerBy
<1>2. Len(new[p]) = n + 1 /\ new[p][n + 1] = m /\ \A k \in 1 .. n : new[p][k] = inb[p][k]
  <2> HIDE DEF Log
  <2> QED
    BY <1>1
<1> HIDE DEF n
<1>3. ASSUME NEW q \in Port, NEW k \in Nat \ {0}, <<q, k>> # x
      PROVE  k <= Len(new[q]) <=> k <= Len(inb[q])
  <2>1. CASE q # p
    BY <1>1, <2>1
  <2>2. CASE q = p
    <3>1. k # n + 1
      BY <1>3, <2>2
    <3> QED
      BY <1>1, <1>2, <2>2, <3>1 DEF n
  <2> QED
    BY <2>1, <2>2
<1>4. ASSUME NEW q \in Port, NEW k \in Nat \ {0}, k <= Len(inb[q])
      PROVE  new[q][k] = inb[q][k]
  BY <1>1, <1>2, <1>4 DEF n
<1>5. ASSUME NEW q \in Port, NEW k \in Nat \ {0}, <<q, k>> # x
      PROVE  <<q, k>> \in V <=> <<q, k>> \in W
  BY <1>3, <1>4, <1>5 DEF Waiting
<1>6. x \in Port \X (Nat \ {0}) /\ x \notin W
  BY <1>1 DEF Waiting, n
<1>7. x \in V <=> m.from \in C /\ m.issue = t
  BY <1>1, <1>2, <1>6 DEF Waiting
<1>8. W \subseteq Port \X (Nat \ {0}) /\ V \subseteq Port \X (Nat \ {0})
  BY DEF Waiting
<1> HIDE DEF x, W, V
<1>9. \A w \in Port \X (Nat \ {0}) : w # x => (w \in V <=> w \in W)
  <2> SUFFICES ASSUME NEW w \in Port \X (Nat \ {0}), w # x PROVE w \in V <=> w \in W
    OBVIOUS
  <2>1. w = <<w[1], w[2]>> /\ w[1] \in Port /\ w[2] \in Nat \ {0}
    OBVIOUS
  <2> QED
    BY <1>5, <2>1
<1>10. IsFiniteSet(W) /\ Cardinality(W) \in Nat
  BY FS_CardinalityType DEF W
<1>11. CASE m.from \in C /\ m.issue = t
  <2>1. V = W \cup {x}
    BY <1>6, <1>7, <1>8, <1>9, <1>11
  <2>2. IsFiniteSet(V) /\ Cardinality(V) = Cardinality(W) + 1
    BY <1>6, <1>10, <2>1, FS_AddElement
  <2> QED
    BY <1>11, <2>2 DEF Matches, V, W
<1>12. CASE ~ (m.from \in C /\ m.issue = t)
  <2>1. V = W
    <3>1. x \notin V /\ x \notin W
      BY <1>6, <1>7, <1>12
    <3>2. ASSUME NEW w PROVE w \in V <=> w \in W
      BY <1>8, <1>9, <3>1
    <3> QED
      BY <3>2, Zenon
  <2>2. Matches(m, C, t) = 0
    BY <1>12 DEF Matches
  <2>3. IsFiniteSet(V) /\ Cardinality(V) = Cardinality(W) + 0
    BY <1>10, <2>1
  <2> QED
    BY <2>2, <2>3 DEF V, W
<1> QED
  BY <1>11, <1>12

LEMMA WaitingTail ==
  ASSUME NEW inb \in [Port -> Seq(Log)], NEW p \in Port, inb[p] # <<>>, NEW C, NEW t,
         IsFiniteSet(Waiting(inb, C, t))
  PROVE  LET new == [inb EXCEPT ![p] = Tail(@)]
         IN  /\ IsFiniteSet(Waiting(new, C, t))
             /\ Cardinality(Waiting(new, C, t)) + Matches(Head(inb[p]), C, t)
                  <= Cardinality(Waiting(inb, C, t))
<1> DEFINE new == [inb EXCEPT ![p] = Tail(@)]
           n   == Len(inb[p])
           x   == <<p, 1>>
           W   == Waiting(inb, C, t)
           V   == Waiting(new, C, t)
           R   == W \ {x}
           h   == [w \in R |-> IF w[1] = p THEN <<p, w[2] - 1>> ELSE w]
<1>1. /\ n \in Nat /\ n > 0 /\ new[p] = Tail(inb[p]) /\ inb[p] \in Seq(Log)
      /\ \A q \in Port : q # p => new[q] = inb[q]
  <2>1. inb[p] \in Seq(Log) /\ new[p] = Tail(inb[p]) /\ \A q \in Port : q # p => new[q] = inb[q]
    <3> HIDE DEF Log
    <3> QED
      OBVIOUS
  <2>2. n \in Nat /\ n > 0
    <3> HIDE DEF Log
    <3> QED
      BY <2>1, LenProperties, EmptySeq
  <2> QED
    BY <2>1, <2>2
<1>2. Len(new[p]) = n - 1 /\ Head(inb[p]) = inb[p][1] /\ \A k \in 1 .. n - 1 : new[p][k] = inb[p][k + 1]
  <2>1. inb[p] \in Seq(Log) /\ inb[p] # <<>>
    BY <1>1
  <2> DEFINE s == inb[p]
  <2> HIDE DEF Log, new, s
  <2>2. s \in Seq(Log) /\ s # <<>>
    BY <2>1 DEF s
  <2>3. Len(Tail(s)) = Len(s) - 1 /\ Head(s) = s[1] /\ \A k \in 1 .. Len(s) - 1 : Tail(s)[k] = s[k + 1]
    BY <2>2, HeadTailProperties
  <2> QED
    BY <1>1, <2>3 DEF s, n
<1> HIDE DEF new, n
<1>3. ASSUME NEW w \in R
      PROVE  h[w] \in V
  <2>1. /\ w \in Port \X (Nat \ {0}) /\ w[1] \in Port /\ w[2] \in Nat \ {0} /\ w = <<w[1], w[2]>>
        /\ w[2] <= Len(inb[w[1]]) /\ inb[w[1]][w[2]].from \in C /\ inb[w[1]][w[2]].issue = t
        /\ w # x
    BY DEF Waiting
  <2>2. CASE w[1] # p
    <3>1. h[w] = w /\ new[w[1]] = inb[w[1]]
      BY <1>1, <2>1, <2>2
    <3> QED
      BY <2>1, <3>1 DEF Waiting
  <2>3. CASE w[1] = p
    <3>1. w[2] # 1
      BY <2>1, <2>3
    <3>2. w[2] - 1 \in 1 .. n - 1 /\ (w[2] - 1) + 1 = w[2]
      BY <1>1, <2>1, <2>3, <3>1 DEF n
    <3>3. new[p][w[2] - 1] = inb[p][w[2]] /\ w[2] - 1 <= Len(new[p]) /\ w[2] - 1 \in Nat \ {0}
      BY <1>1, <1>2, <3>2
    <3>4. h[w] = <<p, w[2] - 1>>
      BY <2>3
    <3>5. <<p, w[2] - 1>> \in V
      BY <2>1, <2>3, <3>3 DEF Waiting
    <3> QED
      BY <3>4, <3>5
  <2> QED
    BY <2>2, <2>3
<1>4. ASSUME NEW v \in V
      PROVE  \E w \in R : h[w] = v
  <2>1. /\ v[1] \in Port /\ v[2] \in Nat \ {0} /\ v = <<v[1], v[2]>>
        /\ v[2] <= Len(new[v[1]]) /\ new[v[1]][v[2]].from \in C /\ new[v[1]][v[2]].issue = t
    BY DEF Waiting
  <2>2. CASE v[1] # p
    <3>1. new[v[1]] = inb[v[1]]
      BY <1>1, <2>1, <2>2
    <3>2. v \in W /\ v # x
      BY <2>1, <2>2, <3>1 DEF Waiting
    <3>3. v \in R /\ h[v] = v
      BY <2>2, <3>2
    <3> QED
      BY <3>3
  <2>3. CASE v[1] = p
    <3>1. v[2] \in 1 .. n - 1
      BY <1>1, <1>2, <2>1, <2>3
    <3>2. new[p][v[2]] = inb[p][v[2] + 1] /\ v[2] + 1 <= n /\ v[2] + 1 \in Nat \ {0} /\ v[2] + 1 # 1
          /\ (v[2] + 1) - 1 = v[2]
      BY <1>1, <1>2, <3>1
    <3> DEFINE w == <<p, v[2] + 1>>
    <3>3. w \in W /\ w # x /\ w[1] = p /\ w[2] = v[2] + 1
      BY <2>1, <2>3, <3>2 DEF Waiting, n
    <3>4. w \in R
      BY <3>3
    <3>5. h[w] = <<p, w[2] - 1>>
      BY <3>3, <3>4
    <3>6. h[w] = v
      BY <2>1, <2>3, <3>2, <3>3, <3>5
    <3> QED
      BY <3>4, <3>6
  <2> QED
    BY <2>2, <2>3
<1>5. x \in W <=> Head(inb[p]).from \in C /\ Head(inb[p]).issue = t
  BY <1>1, <1>2 DEF Waiting, n
<1>6. IsFiniteSet(W) /\ Cardinality(W) \in Nat
  BY FS_CardinalityType
<1>7. h \in [R -> V]
  BY <1>3
<1> HIDE DEF h, V, W, x
<1>8. IsFiniteSet(R) /\ Cardinality(R) = IF x \in W THEN Cardinality(W) - 1 ELSE Cardinality(W)
  BY <1>6, FS_RemoveElement
<1>9. h \in Surjection(R, V)
  BY <1>4, <1>7 DEF Surjection
<1>10. IsFiniteSet(V) /\ Cardinality(V) <= Cardinality(R)
  <2> HIDE DEF R
  <2> QED
    BY <1>8, <1>9, FS_Surjection
<1>11. Cardinality(V) \in Nat
  BY <1>10, FS_CardinalityType
<1>12. Matches(Head(inb[p]), C, t) = IF x \in W THEN 1 ELSE 0
  BY <1>5 DEF Matches
<1>13. Cardinality(V) + Matches(Head(inb[p]), C, t) <= Cardinality(W)
  BY <1>6, <1>8, <1>10, <1>11, <1>12
<1> QED
  BY <1>10, <1>13 DEF V, W, new


LEMMA PhonesAreFinite == IsFiniteSet(Phone)
<1>1. MIN_CLIENT \in Int /\ MAX_CLIENT - 1 \in Int /\ Phone \in SUBSET (MIN_CLIENT .. MAX_CLIENT - 1)
  BY SyslogAssumption DEF Client, MIN_CLIENT
<1>2. IsFiniteSet(MIN_CLIENT .. MAX_CLIENT - 1)
  BY <1>1, FS_Interval
<1> QED
  BY <1>1, <1>2, FS_Subset

LEMMA SentType ==
  ASSUME TypeInv, NEW c \in Client, NEW t \in Talk
  PROVE  sentTo(c, t) \in Nat
<1>1. t \in Issue /\ sent \in [Phone -> [Issue -> Nat]]
  BY Constants DEF TypeInv, TypeOK
<1>2. CASE c = AT_ERROR /\ FALSE \in Named /\ Phone # {}
  <2> DEFINE f == [p \in Phone |-> sent[p][t]]
  <2>1. f \in [Phone -> Nat]
    BY <1>1
  <2>2. PICK p \in Phone : TRUE
    BY <1>2
  <2> HIDE DEF f
  <2>3. SumFunction(f) \in Nat
    BY <2>1, <2>2, PhonesAreFinite, SumGrows
  <2> QED
    BY <1>2, <2>3 DEF sentTo, f
<1>3. CASE c = AT_ERROR /\ FALSE \in Named /\ Phone = {}
  <2>1. [p \in Phone |-> sent[p][t]] = [p \in {} |-> 0]
    BY <1>3
  <2>2. SumFunction([p \in {} |-> 0]) \in Nat
    BY SumOfNothing
  <2> QED
    BY <1>3, <2>1, <2>2 DEF sentTo
<1>4. CASE ~ (c = AT_ERROR /\ FALSE \in Named)
  BY <1>1, <1>4 DEF sentTo, sentBy
<1> QED
  BY <1>2, <1>3, <1>4

(* A log more is one a client may be given a call for. *)
LEMMA SentMore ==
  ASSUME TypeInv, NEW p \in Phone, NEW issue \in Issue,
         sent' = [sent EXCEPT ![p][issue] = @ + 1], NEW c \in Client, NEW t \in Talk
  PROVE  sentTo(c, t)' = sentTo(c, t) + IF p \in Givers(c) /\ issue = t THEN 1 ELSE 0
<1>1. t \in Issue /\ sent \in [Phone -> [Issue -> Nat]]
  BY Constants DEF TypeInv, TypeOK
<1>2. ASSUME NEW q \in Phone
      PROVE  sent'[q][t] = sent[q][t] + IF q = p /\ issue = t THEN 1 ELSE 0
  BY <1>1
<1>3. CASE c = AT_ERROR /\ FALSE \in Named
  <2> DEFINE f == [q \in Phone |-> sent[q][t]]
             g == [q \in Phone |-> sent'[q][t]]
  <2>1. f \in [Phone -> Nat] /\ sentTo(c, t) = SumFunction(f) /\ sentTo(c, t)' = SumFunction(g)
    BY <1>1, <1>3 DEF sentTo
  <2>2. p \in Givers(c)
    BY <1>3 DEF Givers
  <2>3. CASE issue = t
    <3>1. g = [f EXCEPT ![p] = @ + 1]
      BY <1>1, <1>2, <2>3
    <3> HIDE DEF f, g
    <3>2. SumFunction([f EXCEPT ![p] = @ + 1]) = SumFunction(f) + 1
      BY <2>1, PhonesAreFinite, SumGrows
    <3> QED
      BY <2>1, <2>2, <2>3, <3>1, <3>2
  <2>4. CASE issue # t
    <3>1. g = f
      BY <1>1, <1>2, <2>4
    <3>2. SumFunction(f) \in Nat
      BY <2>1, SentType
    <3> HIDE DEF f, g
    <3> QED
      BY <2>1, <2>4, <3>1, <3>2
  <2> QED
    BY <2>3, <2>4
<1>4. CASE ~ (c = AT_ERROR /\ FALSE \in Named)
  <2>1. sentTo(c, t) = sentBy(c, t) /\ sentTo(c, t)' = sentBy(c, t)' /\ (p \in Givers(c) <=> p = c)
    BY <1>4 DEF sentTo, Givers
  <2>2. sentBy(c, t)' = sentBy(c, t) + IF p = c /\ issue = t THEN 1 ELSE 0
    BY <1>1, <1>2 DEF sentBy
  <2> QED
    BY <2>1, <2>2
<1> QED
  BY <1>3, <1>4

LEMMA PendingTypes ==
  ASSUME CountInv, NEW t \in Talk, NEW c \in Client
  PROVE  /\ gSuccessCall[t][c] \in Nat /\ sentTo(c, t) \in Nat
         /\ IsFiniteSet(Waiting(inbox, Givers(c), t))
         /\ Cardinality(Waiting(inbox, Givers(c), t)) \in Nat /\ Held(c, t) \in {0, 1}
         /\ gSuccessCall[t][c] + Cardinality(Waiting(inbox, Givers(c), t)) + Held(c, t) <= sentTo(c, t)
<1>1. gSuccessCall[t][c] \in Nat
  BY DEF CountInv, TypeInv, TypeOK
<1>2. sentTo(c, t) \in Nat
  BY SentType DEF CountInv
<1>3. IsFiniteSet(Waiting(inbox, Givers(c), t))
  BY DEF CountInv, CountsPending
<1>4. Cardinality(Waiting(inbox, Givers(c), t)) \in Nat
  BY <1>3, FS_CardinalityType
<1> QED
  BY <1>1, <1>2, <1>3, <1>4 DEF CountInv, CountsPending, Held, Matches


(* No log comes to be counted, unless a phone sends one. *)
LEMMA NothingNew ==
  ASSUME CountInv, inbox' = inbox, gSuccessCall' = gSuccessCall, sent' = sent, TypeInv',
         rec' = "log" => rec = "log" /\ log' = log
  PROVE  CountInv'
<1>1. OnlyNamed'
  BY DEF CountInv, OnlyNamed
<1>2. ASSUME NEW t \in Talk, NEW c \in Client
      PROVE  /\ IsFiniteSet(Waiting(inbox', Givers(c), t))
             /\ gSuccessCall'[t][c] + Cardinality(Waiting(inbox', Givers(c), t)) + Held(c, t)'
                  <= sentTo(c, t)'
  <2>1. Held(c, t)' = 0 \/ Held(c, t)' = Held(c, t)
    BY DEF Held
  <2>2. sentTo(c, t)' = sentTo(c, t)
    BY DEF sentTo, sentBy
  <2> DEFINE n == Cardinality(Waiting(inbox, Givers(c), t))
  <2>3. /\ gSuccessCall[t][c] \in Nat /\ sentTo(c, t) \in Nat /\ n \in Nat /\ Held(c, t) \in {0, 1}
        /\ gSuccessCall[t][c] + n + Held(c, t) <= sentTo(c, t)
        /\ IsFiniteSet(Waiting(inbox, Givers(c), t))
    BY PendingTypes
  <2>4. Cardinality(Waiting(inbox', Givers(c), t)) = n /\ gSuccessCall'[t][c] = gSuccessCall[t][c]
    OBVIOUS
  <2> HIDE DEF n
  <2> QED
    BY <2>1, <2>2, <2>3, <2>4
<1> QED
  BY <1>1, <1>2 DEF CountInv, CountsPending

LEMMA PhoneLogsCount ==
  ASSUME CountInv, NEW p \in Phone, NEW issue \in Issue, NEW named \in Named,
         PhoneLogs(p, issue, named), TypeInv'
  PROVE  CountInv'
<1> DEFINE m == [from |-> p, issue |-> issue, named |-> named]
<1>1. /\ sent' = [sent EXCEPT ![p][issue] = @ + 1]
      /\ \/ inbox' = inbox
         \/ phonePort[p] \in Port /\ inbox' = [inbox EXCEPT ![phonePort[p]] = Append(@, m)]
      /\ gSuccessCall' = gSuccessCall /\ rec' = rec /\ log' = log
  BY DEF PhoneLogs, thread, clients, CountInv, TypeInv, TypeOK
<1>2. m \in Log /\ m.from = p /\ m.issue = issue /\ m.named = named
  BY SyslogAssumption DEF Log
<1>3. inbox \in [Port -> Seq(Log)] /\ inbox' \in [Port -> Seq(Log)]
  BY DEF CountInv, TypeInv, TypeOK
<1> HIDE DEF m
<1>4. OnlyNamed'
  <2>1. ASSUME NEW q \in Port, NEW k \in 1 .. Len(inbox'[q]) PROVE inbox'[q][k].named \in Named
    <3>1. CASE inbox'[q] = inbox[q]
      BY <2>1, <3>1 DEF CountInv, OnlyNamed
    <3>2. CASE inbox'[q] = Append(inbox[q], m)
      <4> DEFINE s == inbox[q]
      <4>1. s \in Seq(Log)
        BY <1>3
      <4>2. \A j \in 1 .. Len(s) : s[j].named \in Named
        BY DEF CountInv, OnlyNamed
      <4>3. k \in 1 .. Len(Append(s, m)) /\ inbox'[q][k] = Append(s, m)[k]
        BY <2>1, <3>2
      <4> HIDE DEF s, Log
      <4>4. /\ Len(s) \in Nat /\ Len(Append(s, m)) = Len(s) + 1 /\ Append(s, m)[Len(s) + 1] = m
            /\ \A j \in 1 .. Len(s) : Append(s, m)[j] = s[j]
        BY <1>2, <4>1, AppendProperties, LenProperties
      <4>5. k = Len(s) + 1 \/ k \in 1 .. Len(s)
        BY <4>3, <4>4
      <4> QED
        BY <1>2, <4>2, <4>3, <4>4, <4>5
    <3> QED
      BY <1>1, <1>3, <3>1, <3>2
  <2> QED
    BY <1>1, <2>1 DEF CountInv, OnlyNamed
<1>5. ASSUME NEW t \in Talk, NEW c \in Client
      PROVE  /\ IsFiniteSet(Waiting(inbox', Givers(c), t))
             /\ gSuccessCall'[t][c] + Cardinality(Waiting(inbox', Givers(c), t)) + Held(c, t)'
                  <= sentTo(c, t)'
  <2> DEFINE n  == Cardinality(Waiting(inbox, Givers(c), t))
             n1 == Cardinality(Waiting(inbox', Givers(c), t))
             d  == IF p \in Givers(c) /\ issue = t THEN 1 ELSE 0
  <2>1. Held(c, t)' = Held(c, t)
    BY <1>1 DEF Held
  <2>2. sentTo(c, t)' = sentTo(c, t) + d
    BY <1>1, SentMore DEF CountInv
  <2>3. /\ gSuccessCall[t][c] \in Nat /\ sentTo(c, t) \in Nat /\ n \in Nat /\ Held(c, t) \in {0, 1}
        /\ gSuccessCall[t][c] + n + Held(c, t) <= sentTo(c, t)
        /\ IsFiniteSet(Waiting(inbox, Givers(c), t))
    BY PendingTypes
  <2>4. IsFiniteSet(Waiting(inbox', Givers(c), t)) /\ (n1 = n \/ n1 = n + d)
    <3>1. CASE inbox' = inbox
      BY <2>3, <3>1
    <3>2. CASE phonePort[p] \in Port /\ inbox' = [inbox EXCEPT ![phonePort[p]] = Append(@, m)]
      <4>1. Matches(m, Givers(c), t) = d
        BY <1>2 DEF Matches
      <4>2. /\ IsFiniteSet(Waiting(inbox', Givers(c), t))
            /\ n1 = n + Matches(m, Givers(c), t)
        <5> DEFINE C == Givers(c)
                   q == phonePort[p]
        <5>1. q \in Port /\ m \in Log /\ inbox \in [Port -> Seq(Log)]
              /\ IsFiniteSet(Waiting(inbox, C, t)) /\ LongerBy(inbox', inbox, q, m)
          BY <1>2, <1>3, <2>3, <3>2 DEF LongerBy
        <5> HIDE DEF C, q, Log
        <5>2. /\ IsFiniteSet(Waiting(inbox', C, t))
              /\ Cardinality(Waiting(inbox', C, t))
                   = Cardinality(Waiting(inbox, C, t)) + Matches(m, C, t)
          BY <5>1, WaitingAppend
        <5> QED
          BY <5>2 DEF C
      <4> QED
        BY <4>1, <4>2
    <3> QED
      BY <1>1, <3>1, <3>2
  <2>5. d \in {0, 1} /\ gSuccessCall'[t][c] = gSuccessCall[t][c]
    BY <1>1
  <2> HIDE DEF n, n1, d
  <2>6. gSuccessCall'[t][c] + n1 + Held(c, t)' <= sentTo(c, t)'
    BY <2>1, <2>2, <2>3, <2>4, <2>5
  <2> QED
    BY <2>4, <2>6 DEF n1
<1> QED
  BY <1>4, <1>5 DEF CountInv, CountsPending

LEMMA ReceiveCount ==
  ASSUME CountInv, Receive, TypeInv'
  PROVE  CountInv'
<1>1. PICK p \in Port : /\ inbox[p] # <<>> /\ log' = Head(inbox[p])
                        /\ inbox' = [inbox EXCEPT ![p] = Tail(@)]
  BY DEF Receive
<1>2. rec = "recv" /\ rec' = "log" /\ gSuccessCall' = gSuccessCall /\ sent' = sent
  BY DEF Receive, phones, clients
<1>3. inbox \in [Port -> Seq(Log)] /\ inbox' \in [Port -> Seq(Log)]
  BY DEF CountInv, TypeInv, TypeOK
<1>4. OnlyNamed'
  <2> DEFINE s == inbox[p]
  <2>1. s \in Seq(Log) /\ s # <<>> /\ \A k \in 1 .. Len(s) : s[k].named \in Named
    BY <1>1, <1>3 DEF CountInv, OnlyNamed
  <2> HIDE DEF s, Log
  <2>2. /\ Len(s) \in Nat /\ Len(Tail(s)) = Len(s) - 1 /\ Head(s) = s[1]
        /\ \A k \in 1 .. Len(s) - 1 : Tail(s)[k] = s[k + 1]
    BY <2>1, HeadTailProperties, LenProperties
  <2>3. Len(s) # 0
    BY <2>1, EmptySeq
  <2>4. Head(s).named \in Named /\ \A k \in 1 .. Len(Tail(s)) : Tail(s)[k].named \in Named
    <3>1. 1 \in 1 .. Len(s) /\ \A k \in 1 .. Len(Tail(s)) : k + 1 \in 1 .. Len(s) /\ k \in 1 .. Len(s) - 1
      BY <2>2, <2>3
    <3> QED
      BY <2>1, <2>2, <3>1
  <2>5. \A q \in Port : inbox'[q] = IF q = p THEN Tail(s) ELSE inbox[q]
    BY <1>1, <1>3 DEF s
  <2> QED
    BY <1>1, <2>4, <2>5 DEF CountInv, OnlyNamed, s
<1>5. ASSUME NEW t \in Talk, NEW c \in Client
      PROVE  /\ IsFiniteSet(Waiting(inbox', Givers(c), t))
             /\ gSuccessCall'[t][c] + Cardinality(Waiting(inbox', Givers(c), t)) + Held(c, t)'
                  <= sentTo(c, t)'
  <2> DEFINE n  == Cardinality(Waiting(inbox, Givers(c), t))
             n1 == Cardinality(Waiting(inbox', Givers(c), t))
  <2>1. Held(c, t) = 0 /\ Held(c, t)' = Matches(Head(inbox[p]), Givers(c), t)
    BY <1>1, <1>2 DEF Held, Givers, Matches
  <2>2. sentTo(c, t)' = sentTo(c, t) /\ gSuccessCall'[t][c] = gSuccessCall[t][c]
    BY <1>2 DEF sentTo, sentBy
  <2>3. /\ gSuccessCall[t][c] \in Nat /\ sentTo(c, t) \in Nat /\ n \in Nat
        /\ gSuccessCall[t][c] + n + Held(c, t) <= sentTo(c, t)
        /\ IsFiniteSet(Waiting(inbox, Givers(c), t))
    BY PendingTypes
  <2>4. /\ IsFiniteSet(Waiting(inbox', Givers(c), t))
        /\ n1 + Matches(Head(inbox[p]), Givers(c), t) <= n
    BY <1>1, <1>3, <2>3, WaitingTail
  <2>5. n1 \in Nat /\ Matches(Head(inbox[p]), Givers(c), t) \in {0, 1}
    BY <2>4, FS_CardinalityType DEF Matches
  <2> HIDE DEF n, n1
  <2>6. gSuccessCall'[t][c] + n1 + Held(c, t)' <= sentTo(c, t)'
    BY <2>1, <2>2, <2>3, <2>4, <2>5
  <2> QED
    BY <2>4, <2>6 DEF n1
<1> QED
  BY <1>4, <1>5 DEF CountInv, CountsPending

LEMMA ProcessCount ==
  ASSUME CountInv, syslogProcess, TypeInv'
  PROVE  CountInv'
<1>1. /\ rec = "log" /\ rec' = "recv" /\ inbox' = inbox /\ sent' = sent
      /\ gSuccessCall' = counted(getLogClientNum) /\ log \in Log /\ log.named \in Named
  BY DEF syslogProcess, phones, CountInv, OnlyNamed, TypeInv
<1>2. gSuccessCall \in [Talk -> [Client -> Nat]] /\ log.from \in Phone /\ log.named \in BOOLEAN
  BY <1>1 DEF CountInv, TypeInv, TypeOK, Log
<1>3. OnlyNamed'
  BY <1>1 DEF CountInv, OnlyNamed
<1>4. ASSUME NEW t \in Talk, NEW c \in Client
      PROVE  /\ IsFiniteSet(Waiting(inbox', Givers(c), t))
             /\ gSuccessCall'[t][c] + Cardinality(Waiting(inbox', Givers(c), t)) + Held(c, t)'
                  <= sentTo(c, t)'
  <2> DEFINE n == Cardinality(Waiting(inbox, Givers(c), t))
  <2>1. Held(c, t)' = 0 /\ Held(c, t) = Matches(log, Givers(c), t)
    BY <1>1 DEF Held
  <2>2. sentTo(c, t)' = sentTo(c, t)
    BY <1>1 DEF sentTo, sentBy
  <2>3. /\ gSuccessCall[t][c] \in Nat /\ sentTo(c, t) \in Nat /\ n \in Nat /\ Held(c, t) \in {0, 1}
        /\ gSuccessCall[t][c] + n + Held(c, t) <= sentTo(c, t)
        /\ IsFiniteSet(Waiting(inbox, Givers(c), t))
    BY PendingTypes
  <2>4. \/ gSuccessCall'[t][c] = gSuccessCall[t][c]
        \/ gSuccessCall'[t][c] = gSuccessCall[t][c] + 1 /\ Held(c, t) = 1
    <3>1. CASE log.issue = t /\ getLogClientNum = c
      <4>1. log.from \in Givers(c)
        BY <1>1, <1>2, <3>1 DEF getLogClientNum, Givers
      <4>2. Held(c, t) = 1
        BY <2>1, <3>1, <4>1 DEF Matches
      <4>3. gSuccessCall'[t][c] \in {gSuccessCall[t][c], gSuccessCall[t][c] + 1}
        BY <1>1, <1>2, <3>1 DEF counted
      <4> QED
        BY <4>2, <4>3
    <3>2. CASE ~ (log.issue = t /\ getLogClientNum = c)
      BY <1>1, <1>2, <3>2 DEF counted
    <3> QED
      BY <3>1, <3>2
  <2>5. Cardinality(Waiting(inbox', Givers(c), t)) = n /\ IsFiniteSet(Waiting(inbox', Givers(c), t))
    BY <1>1, <2>3
  <2> HIDE DEF n
  <2> QED
    BY <2>1, <2>2, <2>3, <2>4, <2>5
<1> QED
  BY <1>3, <1>4 DEF CountInv, CountsPending

LEMMA InitCountInv == Init => CountInv
<1> SUFFICES ASSUME Init PROVE CountInv
  OBVIOUS
<1>1. TypeInv
  BY InitTypeInv
<1>2. Len(<<>>) = 0 /\ \A p \in Port : inbox[p] = <<>>
  BY EmptySeq DEF Init
<1>3. rec = "dead" /\ \A t \in Talk, c \in Client : gSuccessCall[t][c] = 0
  BY DEF Init
<1>4. ASSUME NEW t \in Talk, NEW c \in Client
      PROVE  /\ IsFiniteSet(Waiting(inbox, Givers(c), t))
             /\ gSuccessCall[t][c] + Cardinality(Waiting(inbox, Givers(c), t)) + Held(c, t) <= sentTo(c, t)
  <2>1. Waiting(inbox, Givers(c), t) = {}
    BY <1>2 DEF Waiting
  <2>2. sentTo(c, t) \in Nat /\ Held(c, t) = 0
    BY <1>1, <1>3, SentType DEF Held
  <2> QED
    BY <1>3, <2>1, <2>2, FS_EmptySet
<1>5. OnlyNamed
  BY <1>2, <1>3 DEF OnlyNamed
<1> QED
  BY <1>1, <1>4, <1>5 DEF CountInv, CountsPending

LEMMA StepCountInv == CountInv /\ [Next]_vars => CountInv'
<1> SUFFICES ASSUME CountInv, [Next]_vars PROVE CountInv'
  OBVIOUS
<1>1. TypeInv'
  BY StepTypeInv, StutterTypeInv DEF CountInv
<1> USE DEF thread, sockets, phones, clients
<1>2. CASE StartRec \/ StopRec \/ SocketFails \/ ServerInit \/ Told \/ WriteFails
  BY <1>1, <1>2, NothingNew DEF StartRec, StopRec, SocketFails, ServerInit, Told, WriteFails
<1>3. ASSUME NEW c \in Phone, AddClient(c) \/ SyslogConf(c) PROVE CountInv'
  BY <1>1, <1>3, NothingNew DEF AddClient, SyslogConf
<1>4. CASE UNCHANGED vars
  BY <1>1, <1>4, NothingNew DEF vars
<1> QED
  BY <1>1, <1>2, <1>3, <1>4, PhoneLogsCount, ReceiveCount, ProcessCount DEF Next, Receiver

(* Over any number of phones, ports, logs and receivers: no call is        *)
(* counted for a client that its phone did not log, and none is counted    *)
(* twice (syslogProcess).                                                  *)
THEOREM TalksAreCountedOnce == Spec => []CountsTalksOnce
<1>1. CountInv => CountsTalksOnce
  <2> SUFFICES ASSUME CountInv, NEW t \in Talk, NEW c \in Client
               PROVE  gSuccessCall[t][c] <= sentTo(c, t)
    BY DEF CountsTalksOnce
  <2> DEFINE n == Cardinality(Waiting(inbox, Givers(c), t))
  <2>1. /\ gSuccessCall[t][c] \in Nat /\ sentTo(c, t) \in Nat /\ n \in Nat /\ Held(c, t) \in {0, 1}
        /\ gSuccessCall[t][c] + n + Held(c, t) <= sentTo(c, t)
    BY PendingTypes
  <2> HIDE DEF n
  <2> QED
    BY <2>1
<1> QED
  BY <1>1, InitCountInv, StepCountInv, PTL DEF Spec
=============================================================================
