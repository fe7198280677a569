--------------------------- MODULE IpcQueueProofs ---------------------------
(***************************************************************************)
(* Theorems about IpcQueue, for any number of threads and buffers.         *)
(*                                                                         *)
(* The inductive invariant adds to the properties of IpcQueue that every   *)
(* number in a list, in the doorbell or in the firmware was given out      *)
(* (Numbered), and that reset epochs only grow while the list the worker   *)
(* emptied holds nothing older than the reset it works on (Epochs).        *)
(*                                                                         *)
(* With it every step of the queue is a step of IpcChannel, whose queue is *)
(* the message the doorbell shows followed by those that wait.             *)
(***************************************************************************)
EXTENDS IpcQueue, SequenceTheorems, TLAPS

(***************************************************************************)
(* Append and Tail, element by element.                                    *)
(***************************************************************************)
LEMMA AppendElements ==
    ASSUME NEW S, NEW s \in Seq(S), NEW e \in S
    PROVE  /\ Append(s, e) \in Seq(S)
           /\ Len(Append(s, e)) = Len(s) + 1
           /\ DOMAIN s = 1 .. Len(s)
           /\ DOMAIN Append(s, e) = 1 .. (Len(s) + 1)
           /\ \A i \in 1 .. Len(s) : Append(s, e)[i] = s[i]
           /\ Append(s, e)[Len(s) + 1] = e
BY SMT

LEMMA TailElements ==
    ASSUME NEW S, NEW s \in Seq(S), s # <<>>
    PROVE  /\ Tail(s) \in Seq(S)
           /\ Len(s) \in Nat \ {0}
           /\ Head(s) = s[1]
           /\ DOMAIN s = 1 .. Len(s)
           /\ DOMAIN Tail(s) = 1 .. (Len(s) - 1)
           /\ \A i \in 1 .. (Len(s) - 1) : Tail(s)[i] = s[i + 1]
BY EmptySeq, SMT

Numbered ==
    /\ \A i \in DOMAIN processing : Waiting[i] \in 1 .. Len(accepted)
    /\ doorbell \in 0 .. Len(accepted)
    /\ lastRead \in 0 .. Len(accepted)

Epochs ==
    /\ \A m \in 1 .. Len(accepted) : accepted[m] <= epoch
    /\ resetId <= epoch
    /\ pc[Worker] \in {"handler", "wait", "ack"} =>
          \A i \in DOMAIN processing : EpochOf(Waiting[i]) >= resetId

IInv == /\ TypeOK
        /\ BuffersConserved
        /\ Numbered
        /\ InOrder
        /\ NoLostWakeup
        /\ Epochs
        /\ NoStaleAtAck

\* What the list invariants speak of.
listVars == <<free, processing, content, doorbell, lastRead, accepted>>
ListInv == BuffersConserved /\ Numbered /\ InOrder
-----------------------------------------------------------------------------
(***************************************************************************)
(* The initial state is well typed.                                        *)
(***************************************************************************)
LEMMA InitType == Init => TypeOK
<1> SUFFICES ASSUME Init PROVE TypeOK
  OBVIOUS
<1>1. processing \in Seq(Buffers) /\ accepted \in Seq(Nat)
  BY EmptySeq DEF Init
<1>2. pc \in [Procs -> Labels]
  BY DEF Init, Labels
<1>3. content \in [Buffers -> Nat]
  BY DEF Init
<1>4. /\ free \in SUBSET Buffers
      /\ doorbell \in Nat /\ rxCmpl \in Nat /\ resetId \in Nat
      /\ epoch \in Nat /\ lastRead \in Nat
      /\ notify \in BOOLEAN /\ resetWork \in BOOLEAN
      /\ disabled \in BOOLEAN /\ ackLost \in BOOLEAN
  BY DEF Init
<1>5. QED
  BY <1>1, <1>2, <1>3, <1>4 DEF TypeOK

(***************************************************************************)
(* The types of the variables hold in every reachable state.               *)
(***************************************************************************)
THEOREM TypeCorrect == Spec => []TypeOK
<1>1. Init => TypeOK
  BY InitType
<1>2. TypeOK /\ [Next]_vars => TypeOK'
  <2> SUFFICES ASSUME TypeOK, [Next]_vars PROVE TypeOK'
    OBVIOUS
  <2> USE DEF TypeOK, Labels, hostVars, fwVars, Goto, Procs
  <2>0. ASSUME NEW p \in Procs, Enqueue(p)
        PROVE  /\ free' \in SUBSET Buffers /\ processing' \in Seq(Buffers)
               /\ accepted' \in Seq(Nat) /\ content' \in [Buffers -> Nat]
               /\ pc' \in [Procs -> Labels]
    BY <2>0 DEF Enqueue
  <2>1. ASSUME NEW t \in Threads, Send(t) PROVE TypeOK'
    BY <2>1, <2>0 DEF Send
  <2>2. ASSUME NEW p \in Procs, DrainStart(p) PROVE TypeOK'
    BY <2>2 DEF DrainStart
  <2>3. ASSUME NEW p \in Procs, DrainNothing(p) PROVE TypeOK'
    BY <2>3 DEF DrainNothing
  <2>4. ASSUME NEW p \in Procs, DrainWrite(p) PROVE TypeOK'
    BY <2>4, TailElements DEF DrainWrite
  <2>5. CASE FwRead
    BY <2>5 DEF FwRead
  <2>6. CASE FwReset
    BY <2>6 DEF FwReset
  <2>7. CASE IrqRxCmpl
    BY <2>7 DEF IrqRxCmpl
  <2>8. CASE IrqResetNotify
    BY <2>8 DEF IrqResetNotify
  <2>9. CASE ResetStart
    BY <2>9 DEF ResetStart
  <2>10. CASE ResetSplice
    BY <2>10 DEF ResetSplice
  <2>11. CASE ResetHandler
    BY <2>11 DEF ResetHandler
  <2>12. CASE ResetInputReady
    BY <2>12 DEF ResetInputReady
  <2>13. CASE ResetAck
    BY <2>13, <2>0 DEF ResetAck
  <2>14. CASE Disable
    BY <2>14 DEF Disable
  <2>15. CASE UNCHANGED vars
    BY <2>15 DEF vars
  <2>16. QED
    BY <2>1, <2>2, <2>3, <2>4, <2>5, <2>6, <2>7, <2>8, <2>9, <2>10, <2>11,
       <2>12, <2>13, <2>14, <2>15 DEF Next, Drain, Reset
<1>3. QED
  BY <1>1, <1>2, PTL DEF Spec

(***************************************************************************)
(* The list invariants are kept when a message is accepted.                *)
(***************************************************************************)
LEMMA EnqueueKeepsLists ==
    ASSUME TypeOK, ListInv, NEW p \in Procs, Enqueue(p),
           UNCHANGED <<doorbell, lastRead>>
    PROVE  /\ ListInv'
           /\ \A i \in DOMAIN processing : Waiting'[i] = Waiting[i]
           /\ DOMAIN processing' = DOMAIN processing \cup {Len(processing) + 1}
           /\ Waiting'[Len(processing) + 1] = Len(accepted) + 1
<1>1. PICK b \in free :
          /\ free' = free \ {b}
          /\ processing' = Append(processing, b)
          /\ accepted' = Append(accepted, epoch)
          /\ content' = [content EXCEPT ![b] = Len(accepted')]
  BY DEF Enqueue
<1> DEFINE n == Len(processing)
           a == Len(accepted)
<1>2. /\ n \in Nat
      /\ a \in Nat
      /\ b \in Buffers
      /\ DOMAIN processing = 1 .. n
      /\ \A i \in 1 .. n : processing[i] \in Buffers
  BY <1>1, LenProperties DEF TypeOK
<1>3. /\ DOMAIN processing' = 1 .. (n + 1)
      /\ \A i \in 1 .. n : processing'[i] = processing[i]
      /\ processing'[n + 1] = b
      /\ Len(accepted') = a + 1
  BY <1>1, AppendElements DEF TypeOK
<1>4. \A i \in 1 .. n : processing[i] # b
  BY <1>1, <1>2 DEF ListInv, BuffersConserved
<1>5. /\ content'[b] = a + 1
      /\ \A i \in 1 .. n : content'[processing[i]] = content[processing[i]]
  BY <1>1, <1>2, <1>3, <1>4 DEF TypeOK
<1>6. /\ Waiting'[n + 1] = a + 1
      /\ \A i \in 1 .. n : Waiting'[i] = Waiting[i]
  BY <1>2, <1>3, <1>5 DEF Waiting
<1>7. BuffersConserved'
  <2>1. {processing'[i] : i \in DOMAIN processing'}
           = {processing[i] : i \in DOMAIN processing} \cup {b}
    BY <1>2, <1>3
  <2>2. free' = Buffers \ {processing'[i] : i \in DOMAIN processing'}
    BY <2>1, <1>1 DEF ListInv, BuffersConserved
  <2>3. ASSUME NEW i \in DOMAIN processing', NEW j \in DOMAIN processing',
               processing'[i] = processing'[j]
        PROVE  i = j
    BY <2>3, <1>2, <1>3, <1>4 DEF ListInv, BuffersConserved
  <2>4. QED
    BY <2>2, <2>3 DEF BuffersConserved
<1>8. Numbered'
  BY <1>2, <1>3, <1>6 DEF ListInv, Numbered
<1>9. InOrder'
  <2>1. ASSUME NEW i \in 1 .. (n + 1), NEW j \in 1 .. (n + 1), i < j
        PROVE  Waiting'[i] < Waiting'[j]
    <3>1. i \in 1 .. n
      BY <1>2, <2>1
    <3>2. Waiting[i] \in 1 .. a
      BY <3>1, <1>2 DEF ListInv, Numbered
    <3>3. CASE j = n + 1
      BY <3>1, <3>2, <3>3, <1>2, <1>6
    <3>4. CASE j \in 1 .. n
      BY <3>1, <3>4, <2>1, <1>2, <1>6 DEF ListInv, InOrder
    <3>5. QED
      BY <3>3, <3>4, <1>2
  <2>2. ASSUME NEW i \in 1 .. (n + 1)
        PROVE  Waiting'[i] > lastRead /\ Waiting'[i] > doorbell
    <3>1. CASE i = n + 1
      BY <3>1, <1>2, <1>6 DEF ListInv, Numbered
    <3>2. CASE i \in 1 .. n
      BY <3>2, <1>2, <1>6 DEF ListInv, InOrder
    <3>3. QED
      BY <3>1, <3>2, <1>2
  <2>3. QED
    BY <2>1, <2>2, <1>3 DEF ListInv, InOrder
<1>10. QED
  BY <1>2, <1>3, <1>6, <1>7, <1>8, <1>9 DEF ListInv

(***************************************************************************)
(* The list invariants are kept when the first message of the list goes to *)
(* the doorbell, which the guard has seen clear.                           *)
(***************************************************************************)
LEMMA WriteKeepsLists ==
    ASSUME TypeOK, ListInv, NEW p \in Procs, DrainWrite(p)
    PROVE  /\ ListInv'
           /\ doorbell' = Waiting[1] /\ doorbell' > 0
           /\ 1 \in DOMAIN processing
           /\ \A i \in DOMAIN processing' :
                   i + 1 \in DOMAIN processing /\ Waiting'[i] = Waiting[i + 1]
<1> DEFINE n == Len(processing)
           b == Head(processing)
<1>1. /\ n \in Nat \ {0}
      /\ b = processing[1]
      /\ DOMAIN processing = 1 .. n
      /\ \A i \in 1 .. n : processing[i] \in Buffers
      /\ DOMAIN processing' = 1 .. (n - 1)
      /\ \A i \in 1 .. (n - 1) : processing'[i] = processing[i + 1]
  BY TailElements, LenProperties DEF TypeOK, DrainWrite
<1>2. /\ free' = free \cup {b}
      /\ doorbell = 0
      /\ doorbell' = content[b]
      /\ UNCHANGED <<content, accepted, lastRead>>
  BY DEF DrainWrite, fwVars
<1>3. /\ doorbell' = Waiting[1]
      /\ \A i \in 1 .. (n - 1) : Waiting'[i] = Waiting[i + 1]
  BY <1>1, <1>2 DEF Waiting
<1>4. \A i \in 1 .. n : Waiting[i] \in 1 .. Len(accepted) /\ Len(accepted) \in Nat
  BY <1>1, LenProperties DEF ListInv, Numbered, TypeOK
<1>5. BuffersConserved'
  <2> DEFINE R == {processing[i] : i \in DOMAIN processing}
             T == {processing'[i] : i \in DOMAIN processing'}
  <2>1. R = T \cup {b}
    <3>1. ASSUME NEW i \in 1 .. n
          PROVE  processing[i] = b \/ \E j \in 1 .. (n - 1) : processing'[j] = processing[i]
      <4>1. CASE i = 1
        BY <4>1, <1>1
      <4>2. CASE i # 1
        <5>1. i - 1 \in 1 .. (n - 1) /\ (i - 1) + 1 = i
          BY <4>2, <1>1
        <5>2. QED
          BY <5>1, <1>1
      <4>3. QED
        BY <4>1, <4>2
    <3>2. ASSUME NEW j \in 1 .. (n - 1)
          PROVE  \E i \in 1 .. n : processing'[j] = processing[i]
      BY <1>1
    <3>3. \E i \in 1 .. n : processing[i] = b
      BY <1>1
    <3>4. ASSUME NEW x \in R PROVE x \in T \cup {b}
      <4>1. PICK i \in 1 .. n : x = processing[i]
        BY <1>1
      <4>2. QED
        BY <4>1, <3>1, <1>1
    <3>5. T \cup {b} \subseteq R
      BY <3>2, <3>3, <1>1
    <3>6. QED
      BY <3>4, <3>5
  <2>2. b \notin T
    <3>1. \A i \in 1 .. (n - 1) : i + 1 \in 1 .. n /\ i + 1 # 1
      BY <1>1
    <3>2. QED
      BY <3>1, <1>1 DEF ListInv, BuffersConserved
  <2>3. free' = Buffers \ T
    <3>1. free = Buffers \ R /\ b \in Buffers
      BY <1>1 DEF ListInv, BuffersConserved
    <3>2. QED
      <4> HIDE DEF R, T, b
      <4> QED
        BY <3>1, <2>1, <2>2, <1>2
  <2>4. ASSUME NEW i \in DOMAIN processing', NEW j \in DOMAIN processing',
               processing'[i] = processing'[j]
        PROVE  i = j
    <3>1. i + 1 \in 1 .. n /\ j + 1 \in 1 .. n
      BY <1>1
    <3>2. i + 1 = j + 1
      BY <3>1, <2>4, <1>1 DEF ListInv, BuffersConserved
    <3>3. QED
      BY <3>2, <1>1
  <2>5. QED
    BY <2>3, <2>4 DEF BuffersConserved
<1>6. Numbered'
  BY <1>1, <1>2, <1>3, <1>4 DEF ListInv, Numbered
<1>7. InOrder'
  <2>1. ASSUME NEW i \in 1 .. (n - 1), NEW j \in 1 .. (n - 1), i < j
        PROVE  Waiting'[i] < Waiting'[j]
    <3>1. i + 1 \in 1 .. n /\ j + 1 \in 1 .. n /\ i + 1 < j + 1
      BY <2>1, <1>1
    <3>2. QED
      BY <3>1, <1>1, <1>3 DEF ListInv, InOrder
  <2>2. ASSUME NEW i \in 1 .. (n - 1)
        PROVE  Waiting'[i] > lastRead /\ Waiting'[i] > doorbell'
    <3>1. i + 1 \in 1 .. n /\ 1 < i + 1 /\ 1 \in 1 .. n
      BY <1>1
    <3>2. QED
      BY <3>1, <1>1, <1>3 DEF ListInv, InOrder
  <2>3. doorbell' > lastRead
    BY <1>1, <1>3 DEF ListInv, InOrder
  <2>4. QED
    BY <2>1, <2>2, <2>3, <1>1, <1>2 DEF InOrder
<1>8. \A i \in 1 .. (n - 1) : i + 1 \in 1 .. n
  BY <1>1
<1>9. QED
  BY <1>1, <1>3, <1>4, <1>5, <1>6, <1>7, <1>8 DEF ListInv

(***************************************************************************)
(* The list invariants are kept by the firmware and by the reset splice.   *)
(***************************************************************************)
LEMMA FwKeepsLists ==
    ASSUME TypeOK, ListInv, FwRead \/ FwReset
    PROVE  ListInv' /\ Waiting' = Waiting
<1>1. UNCHANGED <<free, processing, content, accepted>>
  BY DEF FwRead, FwReset, hostVars
<1>2. Waiting' = Waiting
  BY <1>1 DEF Waiting
<1>3. CASE FwRead
  BY <1>1, <1>2, <1>3 DEF FwRead, ListInv, BuffersConserved, Numbered, InOrder, TypeOK
<1>4. CASE FwReset
  BY <1>1, <1>2, <1>4 DEF FwReset, ListInv, BuffersConserved, Numbered, InOrder, TypeOK
<1>5. QED
  BY <1>2, <1>3, <1>4

LEMMA SpliceKeepsLists ==
    ASSUME TypeOK, ListInv, ResetSplice
    PROVE  ListInv' /\ DOMAIN processing' = {}
<1>1. DOMAIN processing' = {}
  BY DEF ResetSplice
<1>2. BuffersConserved'
  BY <1>1 DEF ResetSplice, ListInv, BuffersConserved, TypeOK
<1>3. Numbered' /\ InOrder'
  BY <1>1 DEF ResetSplice, fwVars, ListInv, Numbered, InOrder
<1>4. QED
  BY <1>1, <1>2, <1>3 DEF ListInv

\* Steps that touch none of the variables the list invariants speak of.
LEMMA OthersKeepLists ==
    ASSUME ListInv, UNCHANGED listVars
    PROVE  ListInv' /\ Waiting' = Waiting
BY DEF ListInv, BuffersConserved, Numbered, InOrder, Waiting, listVars

-----------------------------------------------------------------------------
(***************************************************************************)
(* The three parts of a step: the lists, the wakeups, the epochs.          *)
(***************************************************************************)
LEMMA ListsKept ==
    ASSUME IInv, [Next]_vars
    PROVE  ListInv'
<1> USE DEF IInv
<1>0. ListInv
  BY DEF ListInv
<1>1. ASSUME NEW t \in Threads, Send(t) PROVE ListInv'
  BY <1>0, <1>1, EnqueueKeepsLists DEF Send, Procs
<1>2. ASSUME NEW p \in Procs, DrainStart(p) \/ DrainNothing(p) PROVE ListInv'
  BY <1>0, <1>2, OthersKeepLists DEF DrainStart, DrainNothing, listVars, hostVars, fwVars
<1>3. ASSUME NEW p \in Procs, DrainWrite(p) PROVE ListInv'
  BY <1>0, <1>3, WriteKeepsLists
<1>4. CASE FwRead \/ FwReset
  BY <1>0, <1>4, FwKeepsLists
<1>5. CASE IrqRxCmpl \/ IrqResetNotify
  BY <1>0, <1>5, OthersKeepLists DEF IrqRxCmpl, IrqResetNotify, listVars, hostVars
<1>6. CASE ResetSplice
  BY <1>0, <1>6, SpliceKeepsLists
<1>7. CASE ResetStart \/ ResetHandler \/ ResetInputReady
  BY <1>0, <1>7, OthersKeepLists DEF ResetStart, ResetHandler, ResetInputReady,
     listVars, hostVars, fwVars
<1>8. CASE ResetAck
  <2>1. CASE Enqueue(Worker)
    BY <1>0, <1>8, <2>1, EnqueueKeepsLists DEF ResetAck, Procs, fwVars
  <2>2. CASE UNCHANGED <<hostVars, accepted>>
    BY <1>0, <1>8, <2>2, OthersKeepLists DEF ResetAck, listVars, hostVars, fwVars
  <2>3. QED
    BY <1>8, <2>1, <2>2 DEF ResetAck
<1>9. CASE Disable \/ UNCHANGED vars
  BY <1>0, <1>9, OthersKeepLists DEF Disable, listVars, hostVars, fwVars, vars
<1>10. QED
  BY <1>1, <1>2, <1>3, <1>4, <1>5, <1>6, <1>7, <1>8, <1>9 DEF Next, Drain, Reset

LEMMA WakeupKept ==
    ASSUME IInv, [Next]_vars
    PROVE  NoLostWakeup'
<1> USE DEF NoLostWakeup, SomeoneDrains, Goto, Procs
<1>0. NoLostWakeup /\ TypeOK /\ ListInv
  BY DEF IInv, ListInv
<1>1. ASSUME NEW p \in Procs, Enqueue(p) PROVE NoLostWakeup'
  BY <1>0, <1>1 DEF Enqueue, TypeOK
<1>2. ASSUME NEW p \in Procs, DrainStart(p) PROVE NoLostWakeup'
  BY <1>0, <1>2 DEF DrainStart, hostVars, fwVars, TypeOK
<1>3. ASSUME NEW p \in Procs, DrainNothing(p) PROVE NoLostWakeup'
  BY <1>0, <1>3 DEF DrainNothing, hostVars, fwVars, TypeOK
<1>4. ASSUME NEW p \in Procs, DrainWrite(p) PROVE NoLostWakeup'
  BY <1>0, <1>4, WriteKeepsLists
<1>5. CASE FwRead
  BY <1>0, <1>5 DEF FwRead, TypeOK
<1>6. CASE FwReset
  BY <1>6 DEF FwReset
<1>7. CASE IrqRxCmpl
  BY <1>0, <1>7 DEF IrqRxCmpl, TypeOK
<1>8. CASE IrqResetNotify
  BY <1>8 DEF IrqResetNotify
<1>9. CASE ResetStart \/ ResetHandler
  BY <1>0, <1>9, ProcsAssumption DEF ResetStart, ResetHandler, TypeOK
<1>10. CASE ResetSplice
  BY <1>10 DEF ResetSplice
<1>11. CASE ResetInputReady
  BY <1>0, <1>11 DEF ResetInputReady, TypeOK, hostVars, fwVars
<1>12. CASE ResetAck
  BY <1>1, <1>12 DEF ResetAck
<1>13. CASE Disable
  BY <1>13 DEF Disable
<1>14. CASE UNCHANGED vars
  BY <1>0, <1>14 DEF vars
<1>15. ASSUME NEW t \in Threads, Send(t) PROVE NoLostWakeup'
  BY <1>1, <1>15 DEF Send
<1>16. QED
  BY <1>2, <1>3, <1>4, <1>5, <1>6, <1>7, <1>8, <1>9, <1>10, <1>11, <1>12,
     <1>13, <1>14, <1>15 DEF Next, Drain, Reset

LEMMA EpochsKept ==
    ASSUME IInv, [Next]_vars
    PROVE  Epochs' /\ NoStaleAtAck'
<1> USE DEF Epochs, NoStaleAtAck, EpochOf
<1>0. TypeOK /\ ListInv /\ Epochs /\ NoStaleAtAck
  BY DEF IInv, ListInv
<1> DEFINE a == Len(accepted)
<1>a. /\ a \in Nat
      /\ \A m \in 1 .. a : accepted[m] \in Nat
      /\ \A i \in DOMAIN processing : Waiting[i] \in 1 .. a
      /\ doorbell \in 0 .. a
      /\ epoch \in Nat /\ resetId \in Nat
      /\ DOMAIN processing = 1 .. Len(processing) /\ Len(processing) \in Nat
  BY <1>0, LenProperties DEF TypeOK, ListInv, Numbered
<1>1. ASSUME NEW p \in Procs, Enqueue(p), UNCHANGED <<doorbell, lastRead, epoch, resetId>>
      PROVE  Epochs' /\ NoStaleAtAck'
  <2>1. /\ \A i \in DOMAIN processing : Waiting'[i] = Waiting[i]
        /\ DOMAIN processing' = DOMAIN processing \cup {Len(processing) + 1}
        /\ Waiting'[Len(processing) + 1] = a + 1
    BY <1>0, <1>1, EnqueueKeepsLists
  <2>2. /\ Len(accepted') = a + 1
        /\ \A m \in 1 .. a : accepted'[m] = accepted[m]
        /\ accepted'[a + 1] = epoch
    BY <1>0, <1>1, AppendElements DEF Enqueue, TypeOK
  <2>3. \A m \in 1 .. (a + 1) : accepted'[m] <= epoch
    BY <2>2, <1>0, <1>a
  <2>4. pc[Worker] \in {"handler", "wait", "ack"} =>
           \A i \in DOMAIN processing' : accepted'[Waiting'[i]] >= resetId
    BY <2>1, <2>2, <1>0, <1>a
  <2>5. pc'[Worker] \in {"handler", "wait", "ack"} => pc'[Worker] = pc[Worker]
    BY <1>0, <1>1 DEF Enqueue, Goto, TypeOK
  <2>6. doorbell # 0 => accepted'[doorbell] = accepted[doorbell]
    BY <2>2, <1>a
  <2>7. QED
    BY <2>2, <2>3, <2>4, <2>5, <2>6, <1>0, <1>1
<1>2. ASSUME NEW t \in Threads, Send(t) PROVE Epochs' /\ NoStaleAtAck'
  BY <1>1, <1>2 DEF Send, Procs
<1>3. ASSUME NEW p \in Procs, DrainWrite(p) PROVE Epochs' /\ NoStaleAtAck'
  <2>1. /\ doorbell' = Waiting[1] /\ 1 \in DOMAIN processing
        /\ \A i \in DOMAIN processing' :
               i + 1 \in DOMAIN processing /\ Waiting'[i] = Waiting[i + 1]
    BY <1>0, <1>3, WriteKeepsLists
  <2>2. pc'[Worker] \in {"handler", "wait", "ack"} => pc'[Worker] = pc[Worker]
    BY <1>0, <1>3 DEF DrainWrite, Goto, TypeOK
  <2>3. UNCHANGED <<accepted, epoch, resetId>>
    BY <1>3 DEF DrainWrite, fwVars
  <2>4. QED
    BY <2>1, <2>2, <2>3, <1>0
<1>4. ASSUME UNCHANGED <<listVars, epoch, resetId>>,
             pc'[Worker] \in {"handler", "wait", "ack"} =>
                pc'[Worker] = pc[Worker] \/ (pc'[Worker] = "wait" /\ pc[Worker] = "handler")
      PROVE  Epochs' /\ NoStaleAtAck'
  <2>1. Waiting' = Waiting
    BY <1>4 DEF Waiting, listVars
  <2>2. QED
    BY <2>1, <1>0, <1>4 DEF listVars
<1>5. ASSUME NEW p \in Procs, DrainStart(p) \/ DrainNothing(p)
      PROVE  Epochs' /\ NoStaleAtAck'
  <2>1. pc'[Worker] \in {"handler", "wait", "ack"} => pc'[Worker] = pc[Worker]
    <3>1. pc' = [pc EXCEPT ![p] = "idle"] \/ pc' = [pc EXCEPT ![p] = "lock"]
      BY <1>5 DEF DrainStart, DrainNothing, Goto
    <3>2. Worker \in Procs /\ pc \in [Procs -> Labels]
      BY <1>0 DEF Procs, TypeOK
    <3>3. pc'[Worker] = pc[Worker] \/ pc'[Worker] \in {"idle", "lock"}
      BY <3>1, <3>2
    <3>4. QED
      BY <3>3
  <2>2. QED
    BY <1>4, <1>5, <2>1 DEF DrainStart, DrainNothing, listVars, hostVars, fwVars
<1>6. CASE FwRead \/ FwReset
  <2>1. UNCHANGED <<accepted, pc, resetId>> /\ epoch' >= epoch /\ epoch' \in Nat
    BY <1>6, <1>a DEF FwRead, FwReset
  <2>2. Waiting' = Waiting /\ UNCHANGED processing /\ (doorbell' = doorbell \/ doorbell' = 0)
    BY <1>0, <1>6, FwKeepsLists DEF FwRead, FwReset, hostVars
  <2>3. QED
    BY <2>1, <2>2, <1>0, <1>a
<1>7. CASE IrqRxCmpl \/ IrqResetNotify
  <2>1. pc'[Worker] = pc[Worker]
    BY <1>0, <1>7, ProcsAssumption DEF IrqRxCmpl, IrqResetNotify, Goto, TypeOK, Procs
  <2>2. QED
    BY <1>4, <1>7, <2>1 DEF IrqRxCmpl, IrqResetNotify, listVars, hostVars
<1>8. CASE ResetStart
  <2>1. pc'[Worker] = "splice" /\ resetId' = epoch /\ UNCHANGED <<accepted, epoch>>
    BY <1>0, <1>8 DEF ResetStart, Goto, TypeOK, Procs, fwVars
  <2>2. QED
    BY <2>1, <1>0, <1>a
<1>9. CASE ResetSplice
  <2>1. DOMAIN processing' = {} /\ UNCHANGED <<accepted, epoch, resetId>>
    BY <1>0, <1>9, SpliceKeepsLists DEF ResetSplice, fwVars
  <2>2. pc'[Worker] = "handler"
    BY <1>0, <1>9 DEF ResetSplice, Goto, TypeOK, Procs
  <2>3. QED
    BY <2>1, <2>2, <1>0
<1>10. CASE ResetHandler
  <2>1. pc'[Worker] = "wait" /\ pc[Worker] = "handler"
    BY <1>0, <1>10 DEF ResetHandler, Goto, TypeOK, Procs
  <2>2. QED
    BY <1>4, <1>10, <2>1 DEF ResetHandler, listVars, hostVars, fwVars
<1>11. CASE ResetInputReady
  <2>1. Waiting' = Waiting /\ UNCHANGED <<processing, doorbell, accepted, epoch, resetId>>
    BY <1>11 DEF ResetInputReady, hostVars, fwVars, Waiting
  <2>2. pc[Worker] = "wait" /\ (pc'[Worker] = "ack" => doorbell = 0)
    BY <1>0, <1>11 DEF ResetInputReady, Goto, TypeOK, Procs
  <2>3. QED
    BY <2>1, <2>2, <1>0
<1>12. CASE ResetAck
  <2>1. CASE Enqueue(Worker)
    BY <1>1, <1>12, <2>1 DEF ResetAck, Procs, fwVars
  <2>2. CASE Goto(Worker, "idle") /\ UNCHANGED <<hostVars, accepted>>
    <3>1. pc'[Worker] = "idle"
      BY <1>0, <2>2 DEF Goto, TypeOK, Procs
    <3>2. QED
      BY <1>4, <1>12, <2>2, <3>1 DEF ResetAck, listVars, hostVars, fwVars
  <2>3. QED
    BY <1>12, <2>1, <2>2 DEF ResetAck
<1>13. CASE Disable \/ UNCHANGED vars
  BY <1>4, <1>13 DEF Disable, listVars, hostVars, fwVars, vars
<1>14. QED
  BY <1>2, <1>3, <1>5, <1>6, <1>7, <1>8, <1>9, <1>10, <1>11, <1>12, <1>13
     DEF Next, Drain, Reset

(***************************************************************************)
(* The inductive invariant holds in every reachable state.                 *)
(***************************************************************************)
LEMMA Inductive == Spec => []IInv
<1>1. Init => IInv
  <2> SUFFICES ASSUME Init PROVE IInv
    OBVIOUS
  <2>1. DOMAIN processing = {} /\ Len(accepted) = 0
    BY DEF Init
  <2>2. BuffersConserved /\ Numbered /\ InOrder
    BY <2>1 DEF Init, BuffersConserved, Numbered, InOrder
  <2>3. NoLostWakeup /\ Epochs /\ NoStaleAtAck
    BY <2>1 DEF Init, NoLostWakeup, Epochs, NoStaleAtAck, Procs
  <2>4. QED
    BY <2>2, <2>3, InitType DEF IInv
<1>2. IInv /\ TypeOK' /\ [Next]_vars => IInv'
  BY ListsKept, WakeupKept, EpochsKept DEF IInv, ListInv
<1>3. QED
  BY <1>1, <1>2, TypeCorrect, PTL DEF Spec

(***************************************************************************)
(* Buffers: each is in exactly one list, once (ipc.c's wr_free_list and    *)
(* wr_processing_list under any interleaving of senders, interrupt and     *)
(* reset).                                                                 *)
(***************************************************************************)
THEOREM BuffersAreConserved == Spec => []BuffersConserved
BY Inductive, PTL DEF IInv

(***************************************************************************)
(* The firmware sees the accepted messages in order and never twice.       *)
(***************************************************************************)
THEOREM MessagesInOrder == Spec => []InOrder
BY Inductive, PTL DEF IInv

(***************************************************************************)
(* No message is left waiting with nobody about to look at the list.       *)
(***************************************************************************)
THEOREM WakeupNeverLost == Spec => []NoLostWakeup
BY Inductive, PTL DEF IInv

(***************************************************************************)
(* Nothing accepted before a reset is left when it is acknowledged.        *)
(***************************************************************************)
THEOREM ResetLeavesNothingStale == Spec => []NoStaleAtAck
BY Inductive, PTL DEF IInv

(***************************************************************************)
(* The doorbell is never rung over an unread message.                      *)
(***************************************************************************)
THEOREM DoorbellRespected == Spec => DoorbellNotOverwritten
<1>1. [Next]_vars => [doorbell' # doorbell => doorbell = 0 \/ doorbell' = 0]_vars
  <2>1. ASSUME NEW t \in Threads, Send(t) PROVE UNCHANGED doorbell
    BY <2>1 DEF Send
  <2>2. ASSUME NEW p \in Procs, Drain(p) PROVE doorbell' = doorbell \/ doorbell = 0
    BY <2>2 DEF Drain, DrainStart, DrainNothing, DrainWrite
  <2>3. ASSUME FwRead \/ FwReset PROVE doorbell' = doorbell \/ doorbell' = 0
    BY <2>3 DEF FwRead, FwReset
  <2>4. ASSUME IrqRxCmpl \/ IrqResetNotify \/ Reset \/ Disable PROVE UNCHANGED doorbell
    BY <2>4 DEF IrqRxCmpl, IrqResetNotify, Reset, ResetStart, ResetSplice,
       ResetHandler, ResetInputReady, ResetAck, Disable, hostVars, fwVars
  <2>5. QED
    BY <2>1, <2>2, <2>3, <2>4 DEF Next, vars
<1>2. QED
  BY <1>1, PTL DEF Spec, DoorbellNotOverwritten
-----------------------------------------------------------------------------
(***************************************************************************)
(* The refinement of IpcChannel: what the doorbell shows and what waits is *)
(* the channel's queue.                                                    *)
(***************************************************************************)
Bell      == IF doorbell = 0 THEN <<>> ELSE <<doorbell>>
Unread    == Bell \o Waiting
Resetting == notify \/ resetWork \/ pc[Worker] = "splice"

\* What a step of the channel says, in terms of the queue.
ChannelStep ==
    \/ /\ Len(accepted') = Len(accepted) + 1
       /\ Unread' = Append(Unread, Len(accepted'))
       /\ lastRead' = lastRead /\ Resetting' = Resetting
    \/ /\ Unread # <<>>
       /\ lastRead' = Head(Unread)
       /\ Unread' = Tail(Unread)
       /\ Len(accepted') = Len(accepted) /\ Resetting' = Resetting
    \/ /\ Resetting'
       /\ Unread' = Unread \/ (Unread # <<>> /\ Unread' = Tail(Unread))
       /\ Len(accepted') = Len(accepted) /\ lastRead' = lastRead
    \/ /\ Resetting
       /\ Unread' = <<>> \/ (Unread # <<>> /\ Unread' = <<Head(Unread)>>)
       /\ Len(accepted') = Len(accepted) /\ lastRead' = lastRead
    \/ /\ Unread' = Unread /\ Resetting' = Resetting
       /\ Len(accepted') = Len(accepted) /\ lastRead' = lastRead

(***************************************************************************)
(* A first message put before a list, and taken off it.                    *)
(***************************************************************************)
LEMMA FirstOff ==
    ASSUME NEW S, NEW e \in S, NEW s \in Seq(S)
    PROVE  /\ <<e>> \o s \in Seq(S)
           /\ <<e>> \o s # <<>>
           /\ Head(<<e>> \o s) = e
           /\ Tail(<<e>> \o s) = s
<1> DEFINE t == <<e>> \o s
<1>1. <<e>> \in Seq(S) /\ Len(<<e>>) = 1 /\ <<e>>[1] = e
  OBVIOUS
<1>2. /\ t \in Seq(S) /\ Len(t) = 1 + Len(s) /\ Len(s) \in Nat
      /\ t[1] = e
      /\ \A i \in 1 .. Len(s) : t[i + 1] = s[i]
  BY <1>1, ConcatProperties, LenProperties
<1>3. t # <<>>
  BY <1>2, EmptySeq
<1> HIDE DEF t
<1>4. /\ Head(t) = e
      /\ Tail(t) \in Seq(S) /\ Len(Tail(t)) = Len(s)
      /\ \A i \in 1 .. Len(s) : Tail(t)[i] = s[i]
  BY <1>2, <1>3, TailElements, LenProperties
<1>5. Tail(t) = s
  BY <1>4, SeqEqual
<1>6. QED
  BY <1>2, <1>3, <1>4, <1>5 DEF t

LEMMA ContentsListed ==
    ASSUME NEW s \in Seq(Buffers), NEW c \in [Buffers -> Nat]
    PROVE  /\ Len(s) \in Nat /\ DOMAIN s = 1 .. Len(s)
           /\ [i \in DOMAIN s |-> c[s[i]]] \in Seq(Nat)
           /\ Len([i \in DOMAIN s |-> c[s[i]]]) = Len(s)
<1>1. /\ Len(s) \in Nat /\ DOMAIN s = 1 .. Len(s)
      /\ \A i \in 1 .. Len(s) : c[s[i]] \in Nat
  BY LenProperties
<1>2. QED
  BY <1>1

LEMMA WaitingTypes ==
    /\ TypeOK  => /\ Waiting \in Seq(Nat) /\ Len(Waiting) = Len(processing) /\ Bell \in Seq(Nat)
                  /\ Len(processing) \in Nat /\ DOMAIN processing = 1 .. Len(processing)
    /\ TypeOK' => /\ Waiting' \in Seq(Nat) /\ Len(Waiting') = Len(processing')
                  /\ DOMAIN processing' = 1 .. Len(processing')
<1>1. TypeOK => /\ Waiting \in Seq(Nat) /\ Len(Waiting) = Len(processing)
                /\ Len(processing) \in Nat /\ DOMAIN processing = 1 .. Len(processing)
  BY ContentsListed DEF TypeOK, Waiting
<1>2. TypeOK => Bell \in Seq(Nat)
  BY EmptySeq DEF TypeOK, Bell
<1>3. TypeOK' => /\ Waiting' \in Seq(Nat) /\ Len(Waiting') = Len(processing')
                 /\ DOMAIN processing' = 1 .. Len(processing')
  BY ContentsListed DEF TypeOK, Waiting
<1>4. QED
  BY <1>1, <1>2, <1>3

(***************************************************************************)
(* A message accepted goes to the end of the channel.                      *)
(***************************************************************************)
LEMMA ChannelAccepts ==
    ASSUME TypeOK, TypeOK', ListInv, NEW p \in Procs, Enqueue(p), UNCHANGED <<doorbell, lastRead>>
    PROVE  Unread' = Append(Unread, Len(accepted')) /\ Len(accepted') = Len(accepted) + 1
<1> DEFINE n == Len(processing)
           m == Len(accepted')
<1>1. m = Len(accepted) + 1 /\ m \in Nat
  BY AppendElements, LenProperties DEF Enqueue, TypeOK
<1>2. Len(processing') = n + 1
  BY AppendElements DEF Enqueue, TypeOK
<1>3. /\ Waiting \in Seq(Nat) /\ Len(Waiting) = n /\ n \in Nat
      /\ Waiting' \in Seq(Nat) /\ Len(Waiting') = n + 1
      /\ Bell \in Seq(Nat) /\ Bell' = Bell
  BY <1>2, WaitingTypes DEF Bell
<1>4. /\ \A i \in 1 .. n : Waiting'[i] = Waiting[i]
      /\ Waiting'[n + 1] = m
  BY <1>1, EnqueueKeepsLists, WaitingTypes
<1>5. Waiting' = Append(Waiting, m)
  <2>1. /\ Append(Waiting, m) \in Seq(Nat) /\ Len(Append(Waiting, m)) = n + 1
        /\ \A i \in 1 .. n : Append(Waiting, m)[i] = Waiting[i]
        /\ Append(Waiting, m)[n + 1] = m
    BY <1>1, <1>3, AppendElements
  <2>2. \A i \in 1 .. (n + 1) : Waiting'[i] = Append(Waiting, m)[i]
    BY <2>1, <1>3, <1>4
  <2>3. QED
    BY <2>1, <2>2, <1>3, SeqEqual
<1>6. Bell \o Append(Waiting, m) = Append(Bell \o Waiting, m)
  <2>1. /\ Append(Waiting, m) = Waiting \o <<m>>
        /\ Append(Bell \o Waiting, m) = (Bell \o Waiting) \o <<m>>
        /\ <<m>> \in Seq(Nat)
    BY <1>1, <1>3, AppendIsConcat, ConcatProperties
  <2>2. QED
    BY <2>1, <1>3, ConcatAssociative
<1>7. QED
  BY <1>1, <1>3, <1>5, <1>6 DEF Unread

(***************************************************************************)
(* The message the doorbell gets is the one the channel had first.         *)
(***************************************************************************)
LEMMA ChannelWrites ==
    ASSUME TypeOK, TypeOK', ListInv, NEW p \in Procs, DrainWrite(p)
    PROVE  Unread' = Unread
<1> DEFINE n == Len(processing)
<1>1. n \in Nat \ {0} /\ Len(processing') = n - 1
  BY TailElements, HeadTailProperties DEF DrainWrite, TypeOK
<1>2. /\ Waiting \in Seq(Nat) /\ Len(Waiting) = n
      /\ Waiting' \in Seq(Nat) /\ Len(Waiting') = n - 1
      /\ DOMAIN processing' = 1 .. (n - 1)
  BY <1>1, WaitingTypes
<1>3. /\ doorbell' = Waiting[1] /\ doorbell' > 0 /\ doorbell' \in Nat
      /\ \A i \in 1 .. (n - 1) : Waiting'[i] = Waiting[i + 1]
  BY <1>2, WriteKeepsLists DEF TypeOK
<1>4. Bell = <<>> /\ Bell' = <<doorbell'>>
  BY <1>3 DEF Bell, DrainWrite
<1>5. <<doorbell'>> \o Waiting' = Waiting
  <2> DEFINE t == <<doorbell'>> \o Waiting'
  <2>0. <<doorbell'>> \in Seq(Nat) /\ Len(<<doorbell'>>) = 1 /\ <<doorbell'>>[1] = doorbell'
    BY <1>3
  <2>1. t \in Seq(Nat) /\ Len(t) = 1 + (n - 1)
        /\ \A i \in 1 .. 1 + (n - 1) : t[i] = IF i <= 1 THEN doorbell' ELSE Waiting'[i - 1]
    BY <2>0, <1>2, ConcatProperties
  <2> HIDE DEF t
  <2>2. \A i \in 1 .. n : t[i] = Waiting[i]
    BY <2>1, <1>1, <1>3
  <2>3. Len(t) = Len(Waiting)
    BY <2>1, <1>1, <1>2
  <2>4. t = Waiting
    BY <2>1, <2>2, <2>3, <1>2, SeqEqual
  <2>5. QED
    BY <2>4 DEF t
<1>6. QED
  BY <1>2, <1>4, <1>5, ConcatEmptySeq DEF Unread

\* Neither the doorbell nor the list change.
LEMMA ChannelStays ==
    ASSUME UNCHANGED <<doorbell, processing, content>>
    PROVE  Unread' = Unread
BY DEF Unread, Bell, Waiting

(***************************************************************************)
(* The firmware takes the message of the doorbell.                         *)
(***************************************************************************)
LEMMA BellOff ==
    ASSUME TypeOK, UNCHANGED <<processing, content>>, doorbell # 0, doorbell' = 0
    PROVE  Unread # <<>> /\ Head(Unread) = doorbell /\ Unread' = Tail(Unread)
<1>1. Waiting' = Waiting /\ Waiting \in Seq(Nat) /\ doorbell \in Nat
  BY WaitingTypes DEF Waiting, TypeOK
<1>2. Unread = <<doorbell>> \o Waiting /\ Unread' = <<>> \o Waiting
  BY <1>1 DEF Unread, Bell
<1>3. QED
  BY <1>1, <1>2, FirstOff, ConcatEmptySeq

LEMMA ChannelPurged ==
    ASSUME TypeOK, TypeOK', ResetSplice
    PROVE  Unread' = <<>> \/ (Unread # <<>> /\ Unread' = <<Head(Unread)>>)
<1>1. doorbell' = doorbell /\ Waiting' = <<>> /\ Bell' = Bell
  <2>1. Len(processing') = 0
    BY EmptySeq DEF ResetSplice
  <2>2. Waiting' \in Seq(Nat) /\ Len(Waiting') = 0
    BY <2>1, WaitingTypes
  <2>3. QED
    BY <2>2, EmptySeq DEF ResetSplice, Bell
<1>2. Waiting \in Seq(Nat) /\ Bell \in Seq(Nat) /\ doorbell \in Nat
  BY WaitingTypes DEF TypeOK
<1>3. Unread' = Bell
  BY <1>1, <1>2, ConcatEmptySeq DEF Unread
<1>4. CASE doorbell = 0
  BY <1>3, <1>4 DEF Bell
<1>5. CASE doorbell # 0
  BY <1>2, <1>3, <1>5, FirstOff DEF Bell, Unread
<1>6. QED
  BY <1>4, <1>5

(***************************************************************************)
(* Every step of the queue is a step of the channel or leaves it alone.    *)
(***************************************************************************)
LEMMA ChannelSimulates ==
    ASSUME IInv, TypeOK', [Next]_vars
    PROVE  ChannelStep
<1>0. TypeOK /\ ListInv /\ Worker \in Procs /\ pc \in [Procs -> Labels]
  BY DEF IInv, ListInv, TypeOK, Procs
<1>1. ASSUME NEW t \in Threads, Send(t) PROVE ChannelStep
  <2>1. t \in Procs /\ t # Worker
    BY ProcsAssumption DEF Procs
  <2>2. Resetting' = Resetting
    BY <1>0, <1>1, <2>1 DEF Send, Enqueue, Goto, Resetting
  <2>3. QED
    BY <1>0, <1>1, <2>1, <2>2, ChannelAccepts DEF Send, ChannelStep
<1>2. ASSUME NEW p \in Procs, Drain(p) PROVE ChannelStep
  <2>1. /\ pc[p] \in {"drain", "lock"}
        /\ \E l \in {"idle", "lock"} : Goto(p, l)
        /\ UNCHANGED <<accepted, lastRead, notify, resetWork>>
    BY <1>2 DEF Drain, DrainStart, DrainNothing, DrainWrite, fwVars, hostVars
  <2>2. Resetting' = Resetting
    BY <1>0, <2>1 DEF Goto, Resetting
  <2>3. CASE DrainWrite(p)
    BY <1>0, <2>1, <2>2, <2>3, ChannelWrites DEF ChannelStep
  <2>4. CASE DrainStart(p) \/ DrainNothing(p)
    BY <2>1, <2>2, <2>4, ChannelStays DEF ChannelStep, DrainStart, DrainNothing, hostVars
  <2>5. QED
    BY <1>2, <2>3, <2>4 DEF Drain
<1>3. CASE FwRead
  <2>1. Resetting' = Resetting /\ accepted' = accepted
    BY <1>3 DEF FwRead, Resetting
  <2>2. Unread # <<>> /\ lastRead' = Head(Unread) /\ Unread' = Tail(Unread)
    BY <1>0, <1>3, BellOff DEF FwRead, hostVars
  <2>3. QED
    BY <2>1, <2>2 DEF ChannelStep
<1>4. CASE FwReset
  <2>1. Resetting' /\ UNCHANGED <<accepted, lastRead>>
    BY <1>4 DEF FwReset, Resetting
  <2>2. CASE doorbell' = doorbell
    BY <1>4, <2>1, <2>2, ChannelStays DEF FwReset, hostVars, ChannelStep
  <2>3. CASE doorbell # 0 /\ doorbell' = 0
    BY <1>0, <1>4, <2>1, <2>3, BellOff DEF FwReset, hostVars, ChannelStep
  <2>4. QED
    BY <1>4, <2>2, <2>3 DEF FwReset
<1>5. CASE IrqRxCmpl \/ IrqResetNotify \/ Disable
  <2>1. pc'[Worker] = pc[Worker]
    BY <1>0, <1>5, ProcsAssumption DEF IrqRxCmpl, IrqResetNotify, Disable, Goto, Procs
  <2>2. UNCHANGED <<doorbell, processing, content, accepted, lastRead>> /\ Resetting' = Resetting
    BY <1>5, <2>1 DEF IrqRxCmpl, IrqResetNotify, Disable, hostVars, fwVars, Resetting
  <2>3. QED
    BY <2>2, ChannelStays DEF ChannelStep
<1>6. CASE ResetStart \/ ResetHandler \/ ResetInputReady
  <2>1. UNCHANGED <<doorbell, processing, content, accepted, lastRead>>
    BY <1>6 DEF ResetStart, ResetHandler, ResetInputReady, hostVars, fwVars
  <2>2. Resetting' = Resetting
    BY <1>0, <1>6 DEF ResetStart, ResetHandler, ResetInputReady, hostVars, fwVars, Resetting, Goto
  <2>3. QED
    BY <2>1, <2>2, ChannelStays DEF ChannelStep
<1>7. CASE ResetSplice
  BY <1>0, <1>7, ChannelPurged DEF ResetSplice, fwVars, Resetting, ChannelStep
<1>8. CASE ResetAck
  <2>1. CASE Enqueue(Worker)
    <3>1. Resetting' = Resetting
      BY <1>0, <1>8, <2>1 DEF ResetAck, Enqueue, Goto, fwVars, Resetting
    <3>2. UNCHANGED <<doorbell, lastRead>>
      BY <1>8 DEF ResetAck, fwVars
    <3>3. QED
      BY <1>0, <2>1, <3>1, <3>2, ChannelAccepts DEF ChannelStep
  <2>2. CASE Goto(Worker, "idle") /\ UNCHANGED <<hostVars, accepted>>
    <3>1. UNCHANGED <<doorbell, processing, content, accepted, lastRead>> /\ Resetting' = Resetting
      BY <1>0, <1>8, <2>2 DEF ResetAck, Goto, hostVars, fwVars, Resetting
    <3>2. QED
      BY <3>1, ChannelStays DEF ChannelStep
  <2>3. QED
    BY <1>8, <2>1, <2>2 DEF ResetAck
<1>9. CASE UNCHANGED vars
  BY <1>9, ChannelStays DEF vars, Resetting, ChannelStep
<1>10. QED
  BY <1>1, <1>2, <1>3, <1>4, <1>5, <1>6, <1>7, <1>8, <1>9 DEF Next, Reset

(***************************************************************************)
(* The queue with its lists, doorbell, interrupt and reset work is the     *)
(* channel that the rest of the stack takes it for.                        *)
(***************************************************************************)
THEOREM QueueIsChannel == Spec => ImplementsChannel
<1>1. Init => Channel!Init
  <2> SUFFICES ASSUME Init PROVE Channel!Init
    OBVIOUS
  <2>1. TypeOK /\ Len(processing) = 0 /\ Len(accepted) = 0
    BY InitType, EmptySeq DEF Init
  <2>2. Waiting = <<>>
    BY <2>1, WaitingTypes, EmptySeq
  <2>3. Bell \o Waiting = <<>>
    BY <2>2 DEF Init, Bell
  <2>4. ~notify /\ ~resetWork /\ pc[Worker] # "splice" /\ lastRead = 0
    BY DEF Init, Procs
  <2>5. QED
    BY <2>1, <2>3, <2>4 DEF Channel!Init, Bell
<1>2. ChannelStep => [Channel!Next]_Channel!vars
  BY DEF ChannelStep, Channel!Next, Channel!Accept, Channel!Read, Channel!Reset, Channel!Purge,
         Channel!vars, Unread, Bell, Resetting
<1>3. IInv /\ TypeOK' /\ [Next]_vars => [Channel!Next]_Channel!vars
  BY <1>2, ChannelSimulates
<1>4. QED
  BY <1>1, <1>3, Inductive, TypeCorrect, PTL DEF Spec, ImplementsChannel, Channel!Spec
=============================================================================
