---------------------------- MODULE CommandChannel ----------------------------
(***************************************************************************)
(* What the path from a command to a phone promises, whatever threads and  *)
(* processes come and go in between: commands leave in the order in which  *)
(* they were queued, none leaves twice, none leaves that was not queued.   *)
(* A command may be lost, but only when its turn has come.                 *)
(***************************************************************************)
EXTENDS Integers, Sequences

VARIABLES
  submitted,  (* number of commands queued so far; the n-th one is called n *)
  pending,    (* commands queued and neither sent nor lost                  *)
  delivered   (* commands handed to the network                             *)

vars == <<submitted, pending, delivered>>

Init == submitted = 0 /\ pending = <<>> /\ delivered = <<>>

Submit ==
  /\ submitted' = submitted + 1
  /\ pending' = Append(pending, submitted + 1)
  /\ UNCHANGED delivered

Deliver ==
  /\ pending # <<>>
  /\ delivered' = Append(delivered, Head(pending))
  /\ pending' = Tail(pending)
  /\ UNCHANGED submitted

Lose ==
  /\ pending # <<>>
  /\ pending' = Tail(pending)
  /\ UNCHANGED <<submitted, delivered>>

Next == Submit \/ Deliver \/ Lose

Spec == Init /\ [][Next]_vars
-----------------------------------------------------------------------------
(* What the phones see of it: the commands they get were queued, and none  *)
(* comes again or after a later one.                                       *)
InOrder ==
  /\ \A a \in 1 .. Len(delivered) : delivered[a] \in 1 .. submitted
  /\ \A a, b \in 1 .. Len(delivered) : a < b => delivered[a] < delivered[b]
=============================================================================
