---------------------------- MODULE StreamProofs ----------------------------
(***************************************************************************)
(* What the contract of a stream means to the application, for every       *)
(* capacity: events come in the order of the ring and none comes twice.    *)
(* Delivery implements the contract, see DeliveryProofs.                   *)
(***************************************************************************)
EXTENDS Stream, SequenceTheorems, TLAPS

Typed == /\ offered \in Nat /\ got \in Nat
         /\ buf \in Seq(Nat)

(* What is received or dropped is the oldest of what waits, and what is     *)
(* added is newer than all of it.                                           *)
LEMMA StepOrdered ==
    ASSUME Typed, Ordered, [Next]_streamVars
    PROVE  Typed' /\ Ordered'
  <1> USE DEF Typed
  <1>1. CASE Pass
    BY <1>1 DEF Pass, Ordered
  <1>2. CASE Send
    <2> DEFINE n == Len(buf)
    <2>1. /\ buf' \in Seq(Nat) /\ n \in Nat /\ Len(buf') = n + 1
          /\ \A i \in 1 .. n : buf'[i] = buf[i]
          /\ buf'[n + 1] = offered + 1
          /\ offered' = offered + 1 /\ got' = got
      BY <1>2, AppendProperties, LenProperties DEF Send
    <2>2. \A i \in 1 .. n : buf[i] \in Nat /\ got < buf[i] /\ buf[i] <= offered
      BY ElementOfSeq DEF Ordered
    <2> HIDE DEF n
    <2>3. \A i \in 1 .. Len(buf') : i \in 1 .. n \/ i = n + 1
      BY <2>1
    <2>4. ASSUME NEW i \in 1 .. Len(buf'), NEW j \in 1 .. Len(buf'), i < j
          PROVE  buf'[i] < buf'[j]
      <3>1. i \in 1 .. n
        BY <2>1, <2>4
      <3>2. CASE j \in 1 .. n
        <4>1. buf[i] < buf[j]
          BY <2>4, <3>1, <3>2 DEF Ordered, n
        <4> QED
          BY <2>1, <3>1, <3>2, <4>1
      <3>3. CASE j = n + 1
        <4>1. buf'[i] = buf[i] /\ buf'[j] = offered + 1
          BY <2>1, <3>1, <3>3
        <4>2. buf[i] \in Nat /\ buf[i] <= offered
          BY <2>2, <3>1
        <4> QED
          BY <4>1, <4>2
      <3> QED
        BY <2>3, <3>2, <3>3
    <2>5. ASSUME NEW i \in 1 .. Len(buf')
          PROVE  got' < buf'[i] /\ buf'[i] <= offered'
      <3>1. CASE i \in 1 .. n
        BY <2>1, <2>2, <3>1
      <3>2. CASE i = n + 1
        <4>1. got < offered + 1
          BY DEF Ordered
        <4> QED
          BY <2>1, <3>2, <4>1
      <3> QED
        BY <2>3, <3>1, <3>2
    <2>6. got' <= offered'
      BY <2>1 DEF Ordered
    <2> QED
      BY <2>1, <2>4, <2>5, <2>6 DEF Ordered
  <1>3. CASE Receive
    <2>1. /\ buf' \in Seq(Nat) /\ got' = buf[1] /\ offered' = offered
          /\ \A i \in 1 .. Len(buf') :
                i + 1 \in 1 .. Len(buf) /\ buf'[i] = buf[i + 1]
          /\ 1 \in 1 .. Len(buf)
      BY <1>3, HeadTailProperties, LenProperties, EmptySeq DEF Receive
    <2>2. got' \in Nat /\ got' <= offered
      BY <2>1, ElementOfSeq DEF Ordered
    <2>3. ASSUME NEW i \in 1 .. Len(buf')
          PROVE  got' < buf'[i] /\ buf'[i] <= offered
      <3>1. i + 1 \in 1 .. Len(buf) /\ 1 < i + 1
        BY <2>1
      <3> QED
        BY <2>1, <3>1 DEF Ordered
    <2>4. ASSUME NEW i \in 1 .. Len(buf'), NEW j \in 1 .. Len(buf'), i < j
          PROVE  buf'[i] < buf'[j]
      BY <2>1, <2>4 DEF Ordered
    <2> QED
      BY <2>1, <2>2, <2>3, <2>4 DEF Ordered
  <1>4. CASE Drop
    BY <1>4, EmptySeq DEF Drop, Ordered
  <1>5. CASE Arrive \/ Stop \/ End \/ UNCHANGED streamVars
    BY <1>5 DEF Arrive, Stop, End, streamVars, Ordered
  <1> QED
    BY <1>1, <1>2, <1>3, <1>4, <1>5 DEF Next

(* The contract of PollNetwork, PollProcess, PollFile and PollMem gives     *)
(* their users the events in ring order, each at most once.                 *)
THEOREM ContractIsOrdered == Spec => []Ordered
  <1>1. Init => Typed /\ Ordered
    BY EmptySeq DEF Init, Typed, Ordered
  <1> QED
    BY <1>1, StepOrdered, PTL DEF Spec
=============================================================================
