-------------------------- MODULE WaitQueueProofs --------------------------
(***************************************************************************)
(* What holds of WaitQueue for every set of receivers and senders and for  *)
(* every value of the bounds.  NoLostWakeup is not inductive: a receiver   *)
(* between Block and its entry in the vector is neither asleep nor known   *)
(* to notify().  GuardCovers says why that does no harm.                   *)
(***************************************************************************)
EXTENDS WaitQueue, SequenceTheorems, TLAPS

\* A receiver on its way into the vector of waiters holds the queue's mutex,
\* so the queue is still as empty as it found it.
GuardCovers ==
  \A r \in Receivers : pc[r] = "push" => guard = {r} /\ inner = <<>>

Inv == TypeOK /\ GuardCovers /\ NoLostWakeup

\* The elements a send adds are a sequence of valid elements.
LEMMA SentElements ==
  ASSUME NEW n \in Nat, NEW k \in Nat, n + k <= MaxSends
  PROVE  [i \in 1..k |-> n + i] \in Seq(1..MaxSends)
<1>1. \A i \in 1..k : n + i \in 1..MaxSends
  BY QueueAssumption
<1> QED  BY <1>1, IsASeq

\* What a receive of k elements takes out and what it leaves are sequences of
\* elements that make up the queue.
LEMMA DrainSplits ==
  ASSUME NEW s \in Seq(1..MaxSends), NEW k \in 0..Len(s)
  PROVE  /\ SubSeq(s, 1, k) \in Seq(1..MaxSends)
         /\ SubSeq(s, k + 1, Len(s)) \in Seq(1..MaxSends)
         /\ SubSeq(s, 1, k) \o SubSeq(s, k + 1, Len(s)) = s
<1>1. Len(s) \in Nat /\ \A i \in 1..Len(s) : s[i] \in 1..MaxSends
  BY LenProperties, ElementOfSeq
<1>2. SubSeq(s, 1, k) \in Seq(1..MaxSends)
  BY <1>1, SubSeqProperties
<1>3. SubSeq(s, k + 1, Len(s)) \in Seq(1..MaxSends)
  BY <1>1, SubSeqProperties
<1>4. SubSeq(s, 1, k) \o SubSeq(s, k + 1, Len(s)) = SubSeq(s, 1, Len(s))
  <2>1. 1 \in 1..(Len(s) + 1) /\ k \in (1 - 1)..Len(s) /\ Len(s) \in k..Len(s)
    BY <1>1
  <2> QED  BY <2>1, ConcatAdjacentSubSeq
<1> QED  BY <1>2, <1>3, <1>4, SubSeqFull

\* Concatenation of element sequences is associative.
LEMMA Associates ==
  \A a, b, c \in Seq(1..MaxSends) : (a \o b) \o c = a \o (b \o c)
<1> DEFINE S == 1..MaxSends
<1> HIDE DEF S
<1>1. ASSUME NEW a \in Seq(S), NEW b \in Seq(S), NEW c \in Seq(S)
      PROVE  (a \o b) \o c = a \o (b \o c)
  BY ConcatAssociative
<1> QED  BY <1>1 DEF S

LEMMA TypeStep == TypeOK /\ [Next]_vars => TypeOK'
<1> SUFFICES ASSUME TypeOK, [Next]_vars PROVE TypeOK'
  OBVIOUS
<1> USE QueueAssumption
<1>1. ASSUME NEW r \in Receivers, NEW n \in 0..MaxBuf, Receive(r, n) PROVE TypeOK'
  <2> DEFINE k == IF n < Len(inner) THEN n ELSE Len(inner)
  <2>1. k \in 0..Len(inner)
    BY DEF TypeOK
  <2>2. /\ SubSeq(inner, 1, k) \in Seq(1..MaxSends)
        /\ SubSeq(inner, k + 1, Len(inner)) \in Seq(1..MaxSends)
    BY <2>1, DrainSplits DEF TypeOK
  <2>3. inner' \in Seq(1..MaxSends) /\ got' \in Seq(1..MaxSends)
    BY <1>1, <2>2, ConcatProperties DEF Receive, TypeOK
  <2> QED  BY <1>1, <2>3 DEF Receive, TypeOK, Goto
<1>2. ASSUME NEW r \in Receivers, ReceiveWait(r) PROVE TypeOK'
  BY <1>2 DEF ReceiveWait, Block, TypeOK, Goto
<1>3. ASSUME NEW r \in Receivers, EnterWaiters(r) PROVE TypeOK'
  BY <1>3 DEF EnterWaiters, WaitPush, TypeOK, Goto
<1>4. ASSUME NEW r \in Receivers, Resume(r) PROVE TypeOK'
  BY <1>4 DEF Resume, WaitReturn, TypeOK, Goto
<1>5. ASSUME NEW r \in Receivers, UpdateRunnable(r) PROVE TypeOK'
  BY <1>5 DEF UpdateRunnable, Unblock, Unblocked, TypeOK
<1>6. ASSUME NEW r \in Receivers, RunSignalHandler(r) PROVE TypeOK'
  BY <1>6 DEF RunSignalHandler, TypeOK
<1>7. ASSUME NEW r \in Receivers, DieOfSignal(r) PROVE TypeOK'
  BY <1>7 DEF DieOfSignal, TypeOK, Goto
<1>8. ASSUME NEW r \in Receivers, Kill(r) PROVE TypeOK'
  BY <1>8 DEF Kill, TypeOK
<1>9. ASSUME NEW s \in Senders, NEW k \in 1..MaxBuf, Send(s, k) PROVE TypeOK'
  <2>1. nsent + k <= MaxSends /\ nsent \in Nat /\ k \in Nat
    BY <1>9 DEF Send, TypeOK
  <2>2. [i \in 1..k |-> nsent + i] \in Seq(1..MaxSends)
    BY <2>1, SentElements
  <2>3. inner' \in Seq(1..MaxSends)
    BY <1>9, <2>2, ConcatProperties DEF Send, TypeOK
  <2> QED  BY <1>9, <2>1, <2>3 DEF Send, TypeOK, Goto
<1>10. ASSUME NEW s \in Senders, SendNotify(s) PROVE TypeOK'
  BY <1>10 DEF SendNotify, Notify, Unblock, Unblocked, TypeOK, Goto
<1>11. CASE UNCHANGED vars
  BY <1>11 DEF vars, TypeOK
<1> QED
  BY <1>1, <1>2, <1>3, <1>4, <1>5, <1>6, <1>7, <1>8, <1>9, <1>10, <1>11
  DEF Next, ReceiverStep

\* The receivers stay on the paths of receive_into_user and the queue elements
\* stay valid, for any number of receivers and senders.
THEOREM TypeCorrect == Spec => []TypeOK
<1>1. Init => TypeOK
  BY QueueAssumption, EmptySeq DEF Init, TypeOK
<1> QED  BY <1>1, TypeStep, PTL DEF Spec

LEMMA InvStep == Inv /\ [Next]_vars => Inv'
<1> SUFFICES ASSUME Inv, [Next]_vars PROVE GuardCovers' /\ NoLostWakeup'
  BY TypeStep DEF Inv
<1> USE QueueAssumption
<1>1. ASSUME NEW r \in Receivers, NEW n \in 0..MaxBuf, Receive(r, n)
      PROVE  GuardCovers' /\ NoLostWakeup'
  <2>1. inner # <<>>
    BY <1>1 DEF Receive
  <2>2. \A s \in Senders : pc'[s] = pc[s]
    BY <1>1 DEF Receive, Goto, Inv, TypeOK
  <2>3. GuardCovers'
    BY <1>1, <2>1 DEF Receive, Goto, Inv, TypeOK, GuardCovers
  <2>4. NoLostWakeup'
    BY <1>1, <2>1, <2>2 DEF Receive, Goto, Inv, TypeOK, NoLostWakeup
  <2> QED  BY <2>3, <2>4
<1>2. ASSUME NEW r \in Receivers, ReceiveWait(r) PROVE GuardCovers' /\ NoLostWakeup'
  BY <1>2 DEF ReceiveWait, Block, Goto, Inv, TypeOK, GuardCovers, NoLostWakeup
<1>3. ASSUME NEW r \in Receivers, EnterWaiters(r) PROVE GuardCovers' /\ NoLostWakeup'
  BY <1>3 DEF EnterWaiters, WaitPush, Goto, Inv, TypeOK, GuardCovers, NoLostWakeup
<1>4. ASSUME NEW r \in Receivers, Resume(r) PROVE GuardCovers' /\ NoLostWakeup'
  BY <1>4 DEF Resume, WaitReturn, Goto, Inv, TypeOK, GuardCovers, NoLostWakeup
<1>5. ASSUME NEW r \in Receivers, UpdateRunnable(r) PROVE GuardCovers' /\ NoLostWakeup'
  BY <1>5 DEF UpdateRunnable, Unblock, Unblocked, Inv, TypeOK, GuardCovers, NoLostWakeup
<1>6. ASSUME NEW r \in Receivers, RunSignalHandler(r) PROVE GuardCovers' /\ NoLostWakeup'
  BY <1>6 DEF RunSignalHandler, Inv, TypeOK, GuardCovers, NoLostWakeup
<1>7. ASSUME NEW r \in Receivers, DieOfSignal(r) PROVE GuardCovers' /\ NoLostWakeup'
  BY <1>7 DEF DieOfSignal, Goto, Inv, TypeOK, GuardCovers, NoLostWakeup
<1>8. ASSUME NEW r \in Receivers, Kill(r) PROVE GuardCovers' /\ NoLostWakeup'
  BY <1>8 DEF Kill, Inv, TypeOK, GuardCovers, NoLostWakeup
<1>9. ASSUME NEW s \in Senders, NEW k \in 1..MaxBuf, Send(s, k)
      PROVE  GuardCovers' /\ NoLostWakeup'
  <2>1. pc'[s] = "notify" /\ \A r \in Receivers : pc'[r] = pc[r]
    BY <1>9 DEF Send, Goto, Inv, TypeOK
  <2>2. \A r \in Receivers : pc[r] # "push"
    BY <1>9 DEF Send, Inv, GuardCovers
  <2>3. waiters' = waiters /\ status' = status
    BY <1>9 DEF Send
  <2>4. GuardCovers'
    BY <2>1, <2>2 DEF GuardCovers
  <2>5. NoLostWakeup'
    BY <2>1, <2>3 DEF Inv, NoLostWakeup
  <2> QED  BY <2>4, <2>5
<1>10. ASSUME NEW s \in Senders, SendNotify(s) PROVE GuardCovers' /\ NoLostWakeup'
  <2>1. \A r \in Receivers : pc'[r] = pc[r]
    BY <1>10 DEF SendNotify, Goto, Inv, TypeOK
  <2>2. GuardCovers'
    BY <1>10, <2>1 DEF SendNotify, Inv, GuardCovers
  <2>3. \A r \in Receivers : ~(pc'[r] = "parked" /\ status'[r] = "Blocked")
    BY <1>10, <2>1 DEF SendNotify, Notify, Unblock, Unblocked, Inv, TypeOK, NoLostWakeup
  <2> QED  BY <2>2, <2>3 DEF NoLostWakeup
<1>11. CASE UNCHANGED vars
  BY <1>11 DEF vars, Inv, GuardCovers, NoLostWakeup
<1> QED
  BY <1>1, <1>2, <1>3, <1>4, <1>5, <1>6, <1>7, <1>8, <1>9, <1>10, <1>11
  DEF Next, ReceiverStep

\* However many receivers sleep, are signalled or die, and however many senders
\* race with them, no sleeping receiver misses the elements of a send.
THEOREM WakeupsAreKept == Spec => []NoLostWakeup
<1>1. Init => Inv
  BY QueueAssumption, EmptySeq DEF Init, Inv, TypeOK, GuardCovers, NoLostWakeup
<1>2. Inv => NoLostWakeup
  BY DEF Inv
<1> QED  BY <1>1, <1>2, InvStep, PTL DEF Spec

\* One step keeps the elements drained and queued equal to the elements sent.
LEMMA FifoStep == TypeOK /\ FifoExactlyOnce /\ [Next]_vars => FifoExactlyOnce'
<1> SUFFICES ASSUME TypeOK, FifoExactlyOnce, [Next]_vars PROVE FifoExactlyOnce'
  OBVIOUS
<1> USE QueueAssumption
<1>1. ASSUME NEW r \in Receivers, NEW n \in 0..MaxBuf, Receive(r, n)
      PROVE  FifoExactlyOnce'
  <2> DEFINE k == IF n < Len(inner) THEN n ELSE Len(inner)
             out == SubSeq(inner, 1, k)
             rest == SubSeq(inner, k + 1, Len(inner))
  <2>1. k \in 0..Len(inner)
    BY DEF TypeOK
  <2>2. out \in Seq(1..MaxSends) /\ rest \in Seq(1..MaxSends)
    BY <2>1, DrainSplits DEF TypeOK
  <2>3. out \o rest = inner
    BY <2>1, DrainSplits DEF TypeOK
  <2>4. got' = got \o out /\ inner' = rest /\ nsent' = nsent
    BY <1>1 DEF Receive
  <2>5. got \in Seq(1..MaxSends)
    BY DEF TypeOK
  <2> HIDE DEF k, out, rest
  <2>6. (got \o out) \o rest = got \o (out \o rest)
    BY <2>2, <2>5, Associates, Zenon
  <2> QED  BY <2>3, <2>4, <2>6 DEF FifoExactlyOnce
<1>2. ASSUME NEW s \in Senders, NEW k \in 1..MaxBuf, Send(s, k)
      PROVE  FifoExactlyOnce'
  <2> DEFINE new == [i \in 1..k |-> nsent + i]
             old == [i \in 1..nsent |-> i]
             all == [i \in 1..(nsent + k) |-> i]
  <2>1. nsent + k <= MaxSends /\ nsent \in Nat /\ k \in Nat
    BY <1>2 DEF Send, TypeOK
  <2>2. new \in Seq(1..MaxSends)
    BY <2>1, SentElements
  <2>3. got \o (inner \o new) = (got \o inner) \o new
    <3>1. got \in Seq(1..MaxSends) /\ inner \in Seq(1..MaxSends)
      BY DEF TypeOK
    <3> HIDE DEF new
    <3> QED  BY <2>2, <3>1, Associates, Zenon
  <2>4. old \in Seq(1..MaxSends) /\ all \in Seq(1..MaxSends)
    BY <2>1, IsASeq
  <2>5. Len(old) = nsent /\ Len(new) = k /\ Len(all) = nsent + k
    BY <2>1, <2>2, <2>4, LenProperties
  <2>6. old \o new \in Seq(1..MaxSends) /\ Len(old \o new) = nsent + k
    <3> HIDE DEF old, new
    <3>1. old \o new \in Seq(1..MaxSends) /\ Len(old \o new) = Len(old) + Len(new)
      BY <2>2, <2>4, ConcatProperties, Zenon
    <3> QED  BY <2>5, <3>1
  <2>7. ASSUME NEW i \in 1..(nsent + k) PROVE (old \o new)[i] = all[i]
    <3>1. (old \o new)[i] = IF i <= Len(old) THEN old[i] ELSE new[i - Len(old)]
      BY <2>1, <2>2, <2>4, <2>5, ConcatProperties
    <3> QED  BY <2>1, <2>5, <3>1
  <2>8. old \o new = all
    BY <2>4, <2>5, <2>6, <2>7, SeqEqual
  <2> QED  BY <1>2, <2>3, <2>8 DEF Send, FifoExactlyOnce
<1>3. CASE UNCHANGED <<got, inner, nsent>>
  BY <1>3 DEF FifoExactlyOnce
<1> QED
  BY <1>1, <1>2, <1>3
  DEF Next, ReceiverStep, ReceiveWait, EnterWaiters, Resume, UpdateRunnable,
      RunSignalHandler, DieOfSignal, Kill, SendNotify, vars

\* For every number of receivers, senders and batch sizes, each element sent is
\* drained exactly once and in the order of the sends.
THEOREM ElementsAreKept == Spec => []FifoExactlyOnce
<1>1. Init => TypeOK /\ FifoExactlyOnce
  <2>1. Init => TypeOK
    BY QueueAssumption, EmptySeq DEF Init, TypeOK
  <2>2. Init => FifoExactlyOnce
    <3>1. <<>> \o <<>> = <<>>
      BY EmptySeq, ConcatEmptySeq
    <3>2. [i \in 1..0 |-> i] = <<>>
      BY SMT
    <3> QED  BY <3>1, <3>2 DEF Init, FifoExactlyOnce
  <2> QED  BY <2>1, <2>2
<1> QED  BY <1>1, TypeStep, FifoStep, PTL DEF Spec
=============================================================================
