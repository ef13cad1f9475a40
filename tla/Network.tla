------------------------------- MODULE Network -------------------------------
(***************************************************************************)
(* The client tables of core/src/at_network.c and the kernel descriptors   *)
(* they refer to.  The getters and setters range-check the client number   *)
(* and answer ERROR (or do nothing) outside MIN_CLIENT..MAX_CLIENT-1; none *)
(* of them takes gMutex, that is left to their callers.                    *)
(***************************************************************************)
EXTENDS Integers

CONSTANTS
  MAX_CLIENT,  (* number of client slots                                   *)
  Ip,          (* address texts that inet_pton accepts                     *)
  BadIp,       (* any text it refuses                                      *)
  NoIp,        (* the empty string, and the zeroed sockaddr_in             *)
  Fd           (* descriptors socket() may return to network_config        *)

MIN_CLIENT == 0
UNUSED     == 0
USED       == 1
ERROR      == 0
FAILED     == -1

Client == MIN_CLIENT .. MAX_CLIENT - 1

ASSUME NetworkAssumption ==
  /\ MAX_CLIENT \in Nat \ {0}
  /\ Fd \subseteq Nat \ {0}
  /\ BadIp \notin Ip
  /\ NoIp \notin Ip

VARIABLES
  gSockets,        (* descriptor of each client's socket                   *)
  gClientIpAddr,   (* address text shown to the operator                   *)
  clientSockAddr,  (* address datagrams are sent to                        *)
  gClientFlag,     (* USED or UNUSED                                       *)
  fdOwner          (* kernel: the client number a descriptor was opened    *)
                   (* for, Closed when the descriptor is not open          *)

tables == <<gSockets, gClientIpAddr, clientSockAddr, gClientFlag, fdOwner>>

Closed == -1

NetworkInit ==
  /\ gSockets       = [c \in Client |-> ERROR]
  /\ gClientIpAddr  = [c \in Client |-> NoIp]
  /\ clientSockAddr = [c \in Client |-> NoIp]
  /\ gClientFlag    = [c \in Client |-> UNUSED]
  /\ fdOwner        = [f \in Fd |-> Closed]

NetworkTypeOK ==
  /\ gSockets       \in [Client -> Fd \cup {ERROR, FAILED}]
  /\ gClientIpAddr  \in [Client -> Ip \cup {NoIp, BadIp}]
  /\ clientSockAddr \in [Client -> Ip \cup {NoIp}]
  /\ gClientFlag    \in [Client -> {UNUSED, USED}]
  /\ fdOwner        \in [Fd -> Client \cup {Closed}]

-----------------------------------------------------------------------------
(* Getters *)

getClientFlag(n) == IF n \in Client THEN gClientFlag[n] ELSE ERROR

getSocket(n) ==
  IF n \in Client /\ gClientFlag[n] # UNUSED THEN gSockets[n] ELSE ERROR

(* Out of range the C function returns no value; the only caller then      *)
(* finds the flag UNUSED and does not look at the address.                 *)
getClientSockAddr(n) == IF n \in Client THEN clientSockAddr[n] ELSE NoIp

-----------------------------------------------------------------------------
(* Setters: each assigns the one table it names *)

setClientFlag(n, flag) ==
  gClientFlag' = [c \in Client |-> IF c = n THEN flag ELSE gClientFlag[c]]

setClientIpAddr(n, text) ==
  gClientIpAddr' = [c \in Client |-> IF c = n THEN text ELSE gClientIpAddr[c]]

setClientSockAddr(n, dest) ==
  clientSockAddr' = [c \in Client |-> IF c = n THEN dest ELSE clientSockAddr[c]]

delClientSockAddr(n) == setClientSockAddr(n, NoIp)

(* Mutant: shutdown without close leaves the descriptor open. *)
closeSocketShutdownOnly(n) == UNCHANGED fdOwner

(* shutdown and close of whatever descriptor the slot still names.  The    *)
(* slot itself keeps the number: it is never reset to ERROR.  Closing a    *)
(* descriptor that is not open fails without effect.                       *)
closeSocket(n) ==
  fdOwner' = [f \in Fd |-> IF f = gSockets[n] THEN Closed ELSE fdOwner[f]]

-----------------------------------------------------------------------------
(* network_config, in the pieces other threads can come between *)

isValidIp(text) == text \in Ip

(* Mutant: the range check is off by one. *)
netConfigAcceptsMax(n, text) == n \in MIN_CLIENT .. MAX_CLIENT /\ isValidIp(text)

(* Lines 108-115: refuses a bad number and a bad address.                  *)
netConfigAccepts(n, text) == n \in Client /\ isValidIp(text)

(* Mutant: a slot in use may be configured again. *)
netConfigFreeAny(n) == n \in Client

(* Line 116: refuses a slot in use.  The number is in range by now, so the *)
(* getter answers what the array holds.                                    *)
netConfigFree(n) == getClientFlag(n) # USED

(* Lines 131-135: socket() hands out a descriptor that is free.            *)
netConfigSocket(n, f) ==
  /\ fdOwner[f] = Closed
  /\ gSockets' = [gSockets EXCEPT ![n] = f]
  /\ fdOwner'  = [fdOwner EXCEPT ![f] = n]

(* socket() fails: the slot holds -1. *)
netConfigNoSocket(n) ==
  /\ gSockets' = [gSockets EXCEPT ![n] = FAILED]
  /\ UNCHANGED fdOwner
=============================================================================
