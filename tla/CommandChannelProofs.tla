------------------------- MODULE CommandChannelProofs -------------------------
(* What CommandChannel, and with it CommandQueue, promises. *)
EXTENDS CommandChannel, TLAPS

(* InOrder is inductive only together with what is still on its way: the   *)
(* pending commands are later ones than those delivered, in order too.     *)
ChannelInv ==
  /\ submitted \in Nat /\ pending \in Seq(Nat) /\ delivered \in Seq(Nat)
  /\ \A a \in 1 .. Len(pending) : pending[a] \in 1 .. submitted
  /\ \A a, b \in 1 .. Len(pending) : a < b => pending[a] < pending[b]
  /\ \A a \in 1 .. Len(delivered), b \in 1 .. Len(pending) : delivered[a] < pending[b]
  /\ InOrder

(* For any number of commands, however many of them are lost, the others   *)
(* are delivered in the order they were queued and at most once.           *)
THEOREM ChannelInOrder == Spec => []InOrder
<1>1. Init => ChannelInv
  BY DEF Init, ChannelInv, InOrder
<1>2. ASSUME ChannelInv, Submit PROVE ChannelInv'
  BY <1>2 DEF ChannelInv, InOrder, Submit
<1>3. ASSUME ChannelInv, pending # <<>>, pending' = Tail(pending), submitted' = submitted
      PROVE  /\ pending' \in Seq(Nat) /\ Head(pending) \in 1 .. submitted
             /\ \A a \in 1 .. Len(pending') : /\ pending'[a] \in 1 .. submitted
                                              /\ Head(pending) < pending'[a]
             /\ \A a, b \in 1 .. Len(pending') : a < b => pending'[a] < pending'[b]
             /\ \A a \in 1 .. Len(delivered) : /\ delivered[a] < Head(pending)
                                               /\ \A b \in 1 .. Len(pending') :
                                                    delivered[a] < pending'[b]
  BY <1>3 DEF ChannelInv
<1>4. ASSUME ChannelInv, Lose PROVE ChannelInv'
  BY <1>3, <1>4 DEF ChannelInv, InOrder, Lose
<1>5. ASSUME ChannelInv, Deliver PROVE ChannelInv'
  BY <1>3, <1>5 DEF ChannelInv, InOrder, Deliver
<1>6. ASSUME ChannelInv, UNCHANGED vars PROVE ChannelInv'
  BY <1>6 DEF ChannelInv, InOrder, vars
<1>7. ChannelInv => InOrder
  BY DEF ChannelInv
<1> QED
  BY <1>1, <1>2, <1>4, <1>5, <1>6, <1>7, PTL DEF Spec, Next
=============================================================================
