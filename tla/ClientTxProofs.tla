--------------------------- MODULE ClientTxProofs ---------------------------
(***************************************************************************)
(* Theorems about ClientTx, for any number of senders, any ring, any       *)
(* number and size of messages, both source trees, and an IPC queue that   *)
(* may be full.                                                            *)
(*                                                                         *)
(* LockInv says what tx_list_spinlock protects; BufsInv, PaidInv and       *)
(* OrderInv say each what the buffers, the credits and the fragments need  *)
(* besides.                                                                *)
(***************************************************************************)
EXTENDS ClientTx, FiniteSetTheorems, SequenceTheorems, TLAPS

(***************************************************************************)
(* Append and Tail, element by element.                                    *)
(***************************************************************************)
LEMMA AppendElements ==
    ASSUME NEW S, NEW s \in Seq(S), NEW e \in S
    PROVE  /\ Append(s, e) \in Seq(S)
           /\ Len(Append(s, e)) = Len(s) + 1
           /\ DOMAIN s = 1 .. Len(s)
           /\ DOMAIN Append(s, e) = 1 .. (Len(s) + 1)
           /\ \A i \in 1 .. Len(s) : Append(s, e)[i] = s[i]
           /\ Append(s, e)[Len(s) + 1] = e
BY SMT

LEMMA TailElements ==
    ASSUME NEW S, NEW s \in Seq(S), s # <<>>
    PROVE  /\ Tail(s) \in Seq(S)
           /\ Len(s) \in Nat \ {0}
           /\ Len(Tail(s)) = Len(s) - 1
           /\ Head(s) = s[1]
           /\ Head(s) \in S
           /\ DOMAIN s = 1 .. Len(s)
           /\ DOMAIN Tail(s) = 1 .. (Len(s) - 1)
           /\ \A i \in 1 .. (Len(s) - 1) : Tail(s)[i] = s[i + 1]
BY EmptySeq, HeadTailProperties, SMT

Labels == {"idle", "queue", "check", "reset", "tx", "frag", "advance", "rem", "last", "free",
           "look", "oldAdvance", "write", "called"}

\* A fragment: its message, its place in the message, and whether it is the last one.
Pieces == Nat \X Nat \X BOOLEAN

\* The buffers of tx_list hold messages that were queued.
ListedOK == txList \in Seq(1 .. Queued)
TypeInv  == TypeOK /\ ListedOK

Holding == {"frag", "advance", "rem", "last"}

\* The labels of one source tree only.
Labels65  == {"advance", "rem", "last"}
Labels515 == {"oldAdvance", "write", "called"}

LockInv ==
    /\ \A p \in Contexts : pc[p] \in Holding <=> lock = p
    /\ lock # None => sending
    /\ sending => txList # <<>>
    /\ \A p \in Contexts : hand[p] # None <=> pc[p] \in {"oldAdvance", "write"}
    /\ \A p \in Contexts : pc[p] = "oldAdvance" => ~hand[p][3]
    /\ \A p \in Contexts : pc[p] \notin (IF tree = "6.5" THEN Labels515 ELSE Labels65)
    /\ tree = "6.5" => calls = 0

(***************************************************************************)
(* A message takes its credit when it is started, before its first         *)
(* fragment is written: the messages paid for are the one being sent, what *)
(* a context has in its hand, and all that reached the wire.               *)
(***************************************************************************)
InHand == {hand[p][1] : p \in {q \in Contexts : hand[q] # None}}
Paid   == Started \cup InHand \cup (IF sending THEN {Head(txList)} ELSE {})

PaidInv ==
    /\ creds \in {0, 1}
    /\ IsFiniteSet(Paid)
    /\ Cardinality(Paid) + creds <= fcs

(***************************************************************************)
(* Where ipc_tx_send stands in the stream of fragments: Expected is the    *)
(* fragment the wire needs next, FirstUnsent the message at the head of    *)
(* the list or, if that is empty, the one the next sender will queue.      *)
(***************************************************************************)
Expected    == IF wire = <<>> THEN <<1, 1>> ELSE After(wire[Len(wire)])
FirstUnsent == Queued - Len(txList) + 1

QueueInOrder ==
    /\ FirstUnsent \in Nat \ {0}
    /\ \A i \in DOMAIN txList : txList[i] = Queued - Len(txList) + i
    /\ \A m \in DOMAIN sizes : sizes[m] \in Nat \ {0}

NoHand == \A q \in Contexts : hand[q] = None

AtRest ==
    lock = None /\ NoHand =>
        IF sending THEN offs < sizes[FirstUnsent] /\ Expected = <<FirstUnsent, offs + 1>>
                   ELSE Expected = <<FirstUnsent, 1>>

AtWork(p) ==
    /\ pc[p] = "frag" =>
          /\ rem[p] = sizes[FirstUnsent] - offs
          /\ rem[p] > 0
          /\ Expected = <<FirstUnsent, offs + 1>>
    /\ pc[p] = "advance" =>
          offs + 1 < sizes[FirstUnsent] /\ Expected = <<FirstUnsent, offs + 2>>
    /\ pc[p] = "rem" =>
          offs < sizes[FirstUnsent] /\ Expected = <<FirstUnsent, offs + 1>>
    /\ pc[p] = "last" =>
          Expected = <<FirstUnsent + 1, 1>>
    /\ pc[p] = "oldAdvance" =>
          /\ sending
          /\ offs + 1 < sizes[FirstUnsent]
          /\ hand[p] = <<FirstUnsent, offs + 1, FALSE>>
          /\ Expected = <<FirstUnsent, offs + 1>>
    /\ pc[p] = "write" =>
          IF hand[p][3]
          THEN /\ ~sending
               /\ FirstUnsent > 1
               /\ hand[p] = <<FirstUnsent - 1, sizes[FirstUnsent - 1], TRUE>>
               /\ Expected = <<FirstUnsent - 1, sizes[FirstUnsent - 1]>>
          ELSE /\ sending
               /\ offs \in Nat \ {0}
               /\ offs < sizes[FirstUnsent]
               /\ hand[p] = <<FirstUnsent, offs, FALSE>>
               /\ Expected = <<FirstUnsent, offs>>

\* 6.5: a message is sent whole in one critical section.
WholeInLock == tree = "6.5" /\ lock = None => ~sending /\ offs = 0

\* 5.15: whoever goes on with a message is the only one to do so.
Follower(p) == pc[p] \in {"frag", "oldAdvance", "write", "called"}

OneFollower ==
    tree = "5.15" =>
        /\ \A p, q \in Contexts : Follower(p) /\ Follower(q) => p = q
        /\ calls \in {0, 1}
        /\ calls = 1 => sending /\ \A p \in Contexts : ~Follower(p)
        /\ \A p \in Contexts : pc[p] = "called" => sending

InStep == /\ FragmentsInOrder
          /\ QueueInOrder
          /\ AtRest
          /\ \A p \in Contexts : AtWork(p)
          /\ WholeInLock
          /\ OneFollower

OrderInv == rewound \/ dropped \/ crossed \/ InStep

-----------------------------------------------------------------------------
(***************************************************************************)
(* A step of one context changes the label of no other.                    *)
(***************************************************************************)
LEMMA GotoLabel ==
    ASSUME TypeInv, NEW p \in Contexts, NEW l \in Labels, Goto(p, l)
    PROVE  /\ pc' \in [Contexts -> Labels]
           /\ pc'[p] = l
           /\ \A q \in Contexts : q # p => pc'[q] = pc[q]
BY DEF TypeInv, TypeOK, Goto, Labels

(***************************************************************************)
(* The message at the head of the list is one that was queued.             *)
(***************************************************************************)
LEMMA HeadQueued ==
    ASSUME TypeInv, txList # <<>>
    PROVE  /\ Head(txList) \in 1 .. Queued
           /\ Head(txList) \in Nat
           /\ sizes[Head(txList)] \in Nat
           /\ Tail(txList) \in Seq(1 .. Queued)
           /\ Tail(txList) \in Seq(Nat)
<1>1. Queued \in Nat /\ \A m \in 1 .. Queued : sizes[m] \in Nat
  BY LenProperties DEF TypeInv, TypeOK, Queued
<1>2. Head(txList) \in 1 .. Queued /\ Tail(txList) \in Seq(1 .. Queued)
  BY TailElements DEF TypeInv, ListedOK
<1>3. Tail(txList) \in Seq(Nat)
  BY TailElements DEF TypeInv, TypeOK
<1>4. QED
  BY <1>1, <1>2, <1>3

(***************************************************************************)
(* What ipc_tx_send cuts from the message at the head is a fragment.       *)
(***************************************************************************)
LEMMA FragmentType ==
    ASSUME TypeInv, txList # <<>>, NEW last \in BOOLEAN
    PROVE  Fragment(last) \in Pieces
<1>1. Head(txList) \in Nat /\ offs + 1 \in Nat
  BY HeadQueued DEF TypeInv, TypeOK
<1>2. QED
  BY <1>1, Zenon DEF Fragment, Pieces

(***************************************************************************)
(* What becomes of a fragment that is written.                             *)
(***************************************************************************)
LEMMA WriteType ==
    ASSUME TypeInv, NEW f \in Pieces, Write(f)
    PROVE  wire' \in Seq(Nat \X Nat \X BOOLEAN) /\ dropped' \in BOOLEAN
<1>1. wire \in Seq(Pieces) /\ dropped \in BOOLEAN
  BY DEF TypeInv, TypeOK, Pieces
<1>2. Append(wire, f) \in Seq(Pieces)
  BY <1>1, AppendElements
<1>3. QED
  BY <1>1, <1>2 DEF Write, Pieces

(***************************************************************************)
(* A message that is queued leaves what was queued as it was.              *)
(***************************************************************************)
LEMMA QueueOne ==
    ASSUME TypeInv, NEW t \in Threads, SendQueue(t)
    PROVE  /\ Queued \in Nat
           /\ Queued' = Queued + 1
           /\ sizes' \in Seq(Nat)
           /\ DOMAIN sizes = 1 .. Queued
           /\ DOMAIN sizes' = 1 .. (Queued + 1)
           /\ \A m \in 1 .. Queued : sizes'[m] = sizes[m]
           /\ sizes'[Queued + 1] \in Nat \ {0}
           /\ txList' \in Seq(Nat)
           /\ txList' \in Seq(1 .. Queued')
<1>1. Queued \in Nat /\ sizes \in Seq(Nat) /\ txList \in Seq(Nat)
  BY LenProperties DEF TypeInv, TypeOK, Queued
<1>2. PICK n \in 1 .. MaxFrags : sizes' = Append(sizes, n)
  BY DEF SendQueue
<1>3. n \in Nat \ {0}
  BY BoundsAssumption
<1>4. /\ sizes' \in Seq(Nat)
      /\ Queued' = Queued + 1
      /\ DOMAIN sizes = 1 .. Queued
      /\ DOMAIN sizes' = 1 .. (Queued + 1)
      /\ \A m \in 1 .. Queued : sizes'[m] = sizes[m]
      /\ sizes'[Queued + 1] = n
  BY <1>1, <1>2, <1>3, AppendElements DEF Queued
<1>5. txList' = Append(txList, Queued + 1)
  BY DEF SendQueue
<1>6. txList' \in Seq(Nat)
  BY <1>1, <1>5, AppendElements
<1>7. txList \in Seq(1 .. (Queued + 1))
  <2>1. txList \in Seq(1 .. Queued)
    BY DEF TypeInv, ListedOK
  <2>2. 1 .. Queued \subseteq 1 .. (Queued + 1)
    BY <1>1
  <2>3. QED
    BY <2>1, <2>2, SeqMonotonic
<1>8. txList' \in Seq(1 .. (Queued + 1))
  BY <1>1, <1>5, <1>7, AppendElements
<1>9. QED
  BY <1>1, <1>3, <1>4, <1>6, <1>8

(***************************************************************************)
(* The initial state has the types, and nobody holds the lock.             *)
(***************************************************************************)
LEMMA BaseInit == Init => TypeInv /\ LockInv
<1> SUFFICES ASSUME Init PROVE TypeInv /\ LockInv
  OBVIOUS
<1>1. /\ <<>> \in Seq(Nat)
      /\ <<>> \in Seq(Nat \X Nat \X BOOLEAN)
      /\ <<>> \in Seq(1 .. Queued)
  BY EmptySeq
<1>2. TypeOK
  <2>1. /\ pc \in [Contexts -> Labels]
        /\ rem \in [Contexts -> Int]
        /\ hand \in [Contexts -> (Nat \X Nat \X BOOLEAN) \cup {None}]
    BY DEF Init, Labels
  <2>2. /\ freeSize \in Nat /\ owed \in Nat /\ fcs \in Nat
        /\ creds \in 0 .. 255 /\ offs \in Nat /\ calls \in Nat
    BY RingAssumption, BoundsAssumption DEF Init
  <2>3. /\ sending \in BOOLEAN /\ connected \in BOOLEAN /\ rewound \in BOOLEAN
        /\ dropped \in BOOLEAN /\ crossed \in BOOLEAN
        /\ lock \in Contexts \cup {None} /\ tree \in Trees
    BY DEF Init
  <2>4. txList \in Seq(Nat) /\ sizes \in Seq(Nat) /\ wire \in Seq(Nat \X Nat \X BOOLEAN)
    BY <1>1 DEF Init
  <2>5. QED
    BY <2>1, <2>2, <2>3, <2>4, Zenon DEF TypeOK, Labels
<1>3. LockInv
  BY ContextsAssumption DEF Init, LockInv, Holding, Labels65, Labels515
<1>4. QED
  BY <1>1, <1>2, <1>3 DEF TypeInv, ListedOK, Init

(***************************************************************************)
(* Every step keeps the types.  What ipc_tx_send takes from the list is    *)
(* there because it holds the lock.                                        *)
(***************************************************************************)
LEMMA TypeStep == TypeInv /\ LockInv /\ [Next]_vars => TypeInv'
<1> SUFFICES ASSUME TypeInv, LockInv, [Next]_vars PROVE TypeInv'
  OBVIOUS
<1> USE DEF Labels
<1>1. CASE FcExtra
  BY <1>1 DEF FcExtra, TypeInv, TypeOK, ListedOK, ringVars, sendVars, oldVars, Queued
<1>2. CASE FcCredit
  BY <1>2, GotoLabel DEF FcCredit, TypeInv, TypeOK, ListedOK, ringVars, oldVars, Queued, Contexts
<1>3. CASE FcLook
  BY <1>3, GotoLabel
     DEF FcLook, TypeInv, TypeOK, ListedOK, ringVars, sendVars, fwVars, oldVars, Queued, Contexts
<1>4. ASSUME NEW t \in Threads, SendTake(t) PROVE TypeInv'
  <2>1. freeSize' \in Nat
    BY <1>4 DEF SendTake, TypeInv, TypeOK
  <2>2. QED
    BY <1>4, <2>1, GotoLabel
       DEF SendTake, TypeInv, TypeOK, ListedOK, sendVars, fwVars, oldVars, Queued, Contexts
<1>5. ASSUME NEW t \in Threads, SendQueue(t) PROVE TypeInv'
  BY <1>5, GotoLabel, QueueOne
     DEF SendQueue, TypeInv, TypeOK, ListedOK, sendVars, fwVars, oldVars, Contexts
<1>6. ASSUME NEW t \in Threads, SendCheck(t) PROVE TypeInv'
  BY <1>6, GotoLabel
     DEF SendCheck, TypeInv, TypeOK, ListedOK, ringVars, sendVars, fwVars, oldVars, Queued, Contexts
<1>7. ASSUME NEW p \in Contexts, TxReset(p) PROVE TypeInv'
  BY <1>7, GotoLabel
     DEF TxReset, MidMessage, TypeInv, TypeOK, ListedOK, ringVars, fwVars, oldVars, Queued
<1>8. ASSUME NEW p \in Contexts, TxNothing(p) PROVE TypeInv'
  BY <1>8, GotoLabel
     DEF TxNothing, TypeInv, TypeOK, ListedOK, ringVars, sendVars, fwVars, oldVars, Queued
<1>9. ASSUME NEW p \in Contexts, TxStart(p) PROVE TypeInv'
  <2>1. sizes[Head(txList)] - offs \in Int
    BY <1>9, HeadQueued DEF TxStart, MaySend, TypeInv, TypeOK
  <2>2. rem' \in [Contexts -> Int]
    BY <1>9, <2>1 DEF TxStart, TypeInv, TypeOK
  <2>3. creds' \in 0 .. 255
    BY <1>9, SMT DEF TxStart, TypeInv, TypeOK
  <2>4. pc' \in [Contexts -> Labels]
    BY <1>9, GotoLabel DEF TxStart
  <2>5. crossed' \in BOOLEAN
    BY <1>9 DEF TxStart, Crossing, TypeInv, TypeOK
  <2>6. QED
    BY <1>9, <2>2, <2>3, <2>4, <2>5
       DEF TxStart, TypeInv, TypeOK, ListedOK, ringVars, fwVars, Queued
<1>10. ASSUME NEW p \in Contexts, TxPart(p) PROVE TypeInv'
  <2>1. txList # <<>>
    BY <1>10, ContextsAssumption DEF TxPart, LockInv, Holding
  <2>2. Fragment(FALSE) \in Pieces
    BY <2>1, FragmentType
  <2>3. QED
    BY <1>10, <2>2, WriteType, GotoLabel
       DEF TxPart, TypeInv, TypeOK, ListedOK, ringVars, sendVars, oldVars, Queued
<1>11. ASSUME NEW p \in Contexts, TxAdvance(p) PROVE TypeInv'
  BY <1>11, GotoLabel
     DEF TxAdvance, TypeInv, TypeOK, ListedOK, ringVars, fwVars, oldVars, Queued
<1>12. ASSUME NEW p \in Contexts, TxRem(p) PROVE TypeInv'
  <2>1. txList # <<>>
    BY <1>12, ContextsAssumption DEF TxRem, LockInv, Holding
  <2>2. sizes[Head(txList)] - offs \in Int
    BY <2>1, HeadQueued DEF TypeInv, TypeOK
  <2>3. QED
    BY <1>12, <2>2, GotoLabel
       DEF TxRem, TypeInv, TypeOK, ListedOK, ringVars, fwVars, oldVars, Queued
<1>13. ASSUME NEW p \in Contexts, TxLast(p) PROVE TypeInv'
  <2>1. txList # <<>>
    BY <1>13, ContextsAssumption DEF TxLast, LockInv, Holding
  <2>2. Fragment(TRUE) \in Pieces
    BY <2>1, FragmentType
  <2>3. owed' \in Nat
    BY <1>13 DEF TxLast, TypeInv, TypeOK
  <2>4. wire' \in Seq(Nat \X Nat \X BOOLEAN) /\ dropped' \in BOOLEAN
    BY <1>13, <2>2, WriteType DEF TxLast
  <2>5. QED
    BY <1>13, <2>3, <2>4, GotoLabel
       DEF TxLast, TypeInv, TypeOK, ListedOK, ringVars, sendVars, oldVars, Queued
<1>14. ASSUME NEW p \in Contexts, TxDone(p) PROVE TypeInv'
  <2>1. txList # <<>>
    BY <1>14, ContextsAssumption DEF TxDone, LockInv, Holding
  <2>2. txList' \in Seq(Nat) /\ txList' \in Seq(1 .. Queued)
    BY <1>14, <2>1, HeadQueued DEF TxDone
  <2>3. rem' \in [Contexts -> Int] /\ pc' \in [Contexts -> Labels]
    BY <1>14, GotoLabel DEF TxDone, TypeInv, TypeOK
  <2>4. QED
    BY <1>14, <2>2, <2>3
       DEF TxDone, TypeInv, TypeOK, ListedOK, fwVars, oldVars, Queued
<1>15. ASSUME NEW p \in Contexts, TxFree(p) PROVE TypeInv'
  BY <1>15, GotoLabel
     DEF TxFree, TypeInv, TypeOK, ListedOK, sendVars, fwVars, oldVars, Queued
<1>16. ASSUME NEW p \in Contexts, OldTake(p) PROVE TypeInv'
  <2>1. txList # <<>>
    BY <1>16, ContextsAssumption DEF OldTake, LockInv, Holding
  <2>2. Fragment(rem[p] = 1) \in Pieces
    BY <2>1, FragmentType
  <2>3. hand' \in [Contexts -> (Nat \X Nat \X BOOLEAN) \cup {None}]
    BY <1>16, <2>2 DEF OldTake, TypeInv, TypeOK, Pieces
  <2>4. pc' \in [Contexts -> Labels]
    BY <1>16, GotoLabel DEF OldTake
  <2>5. txList' \in Seq(Nat) /\ txList' \in Seq(1 .. Queued)
    BY <1>16, <2>1, HeadQueued DEF OldTake, TypeInv, TypeOK, ListedOK
  <2>6. sending' \in BOOLEAN
    BY <1>16 DEF OldTake
  <2>7. QED
    BY <1>16, <2>3, <2>4, <2>5, <2>6 DEF OldTake, TypeInv, TypeOK, ListedOK, fwVars, Queued
<1>17. ASSUME NEW p \in Contexts, OldAdvance(p) PROVE TypeInv'
  BY <1>17, GotoLabel
     DEF OldAdvance, TypeInv, TypeOK, ListedOK, ringVars, fwVars, oldVars, Queued
<1>18. ASSUME NEW p \in Contexts, OldWrite(p) PROVE TypeInv'
  <2>1. hand[p] \in Pieces
    BY <1>18 DEF OldWrite, LockInv, TypeInv, TypeOK, Pieces
  <2>2. wire' \in Seq(Nat \X Nat \X BOOLEAN) /\ dropped' \in BOOLEAN
    BY <1>18, <2>1, WriteType DEF OldWrite
  <2>3. hand' \in [Contexts -> (Nat \X Nat \X BOOLEAN) \cup {None}]
    BY <1>18 DEF OldWrite, TypeInv, TypeOK
  <2>4. pc' \in [Contexts -> Labels]
    BY <1>18, GotoLabel DEF OldWrite
  <2>5. owed' \in Nat /\ calls' \in Nat
    BY <1>18 DEF OldWrite, TypeInv, TypeOK
  <2>6. QED
    BY <1>18, <2>2, <2>3, <2>4, <2>5
       DEF OldWrite, TypeInv, TypeOK, ListedOK, ringVars, sendVars, Queued
<1>19. ASSUME NEW p \in Contexts, OldCallback(p) PROVE TypeInv'
  BY <1>19, GotoLabel
     DEF OldCallback, TypeInv, TypeOK, ListedOK, ringVars, sendVars, fwVars, Queued
<1>20. CASE Disconnect
  BY <1>20 DEF Disconnect, TypeInv, TypeOK, ListedOK, ringVars, sendVars, fwVars, oldVars, Queued
<1>21. CASE UNCHANGED vars
  BY <1>21 DEF vars, TypeInv, TypeOK, ListedOK, oldVars, Queued
<1>22. QED
  BY <1>1, <1>2, <1>3, <1>4, <1>5, <1>6, <1>7, <1>8, <1>9, <1>10, <1>11, <1>12, <1>13, <1>14,
     <1>15, <1>16, <1>17, <1>18, <1>19, <1>20, <1>21
     DEF Next, FlowControl, Send, Tx, Old

(***************************************************************************)
(* Every step keeps what the lock protects.  A context that takes the lock *)
(* finds it free, so no other is between the lock's two ends; only the     *)
(* holder ends a message or takes it off the list.                         *)
(***************************************************************************)
LEMMA LockStep == TypeInv /\ LockInv /\ [Next]_vars => LockInv'
<1> SUFFICES ASSUME TypeInv, LockInv, [Next]_vars PROVE LockInv'
  OBVIOUS
<1> USE ContextsAssumption DEF Labels, LockInv, Holding, Labels65, Labels515
<1>1. CASE FcExtra
  BY <1>1 DEF FcExtra, ringVars, sendVars, oldVars
<1>2. CASE FcCredit
  BY <1>2, GotoLabel DEF FcCredit, ringVars, oldVars, Contexts
<1>3. CASE FcLook
  BY <1>3, GotoLabel DEF FcLook, ringVars, sendVars, oldVars, Contexts
<1>4. ASSUME NEW t \in Threads, SendTake(t) PROVE LockInv'
  BY <1>4, GotoLabel DEF SendTake, sendVars, oldVars, Contexts
<1>5. ASSUME NEW t \in Threads, SendQueue(t) PROVE LockInv'
  <2>1. txList' # <<>>
    BY <1>5, AppendElements, QueueOne, EmptySeq DEF SendQueue, TypeInv, ListedOK
  <2>2. QED
    BY <1>5, <2>1, GotoLabel DEF SendQueue, sendVars, oldVars, Contexts
<1>6. ASSUME NEW t \in Threads, SendCheck(t) PROVE LockInv'
  BY <1>6, GotoLabel DEF SendCheck, ringVars, sendVars, oldVars, Contexts
<1>7. ASSUME NEW p \in Contexts, TxReset(p) PROVE LockInv'
  BY <1>7, GotoLabel DEF TxReset, ringVars, oldVars
<1>8. ASSUME NEW p \in Contexts, TxNothing(p) PROVE LockInv'
  BY <1>8, GotoLabel DEF TxNothing, ringVars, sendVars, oldVars
<1>9. ASSUME NEW p \in Contexts, TxStart(p) PROVE LockInv'
  BY <1>9, GotoLabel DEF TxStart, ringVars, MaySend
<1>10. ASSUME NEW p \in Contexts, TxPart(p) PROVE LockInv'
  BY <1>10, GotoLabel DEF TxPart, ringVars, sendVars, oldVars
<1>11. ASSUME NEW p \in Contexts, TxAdvance(p) PROVE LockInv'
  BY <1>11, GotoLabel DEF TxAdvance, ringVars, oldVars
<1>12. ASSUME NEW p \in Contexts, TxRem(p) PROVE LockInv'
  BY <1>12, GotoLabel DEF TxRem, ringVars, oldVars
<1>13. ASSUME NEW p \in Contexts, TxLast(p) PROVE LockInv'
  BY <1>13, GotoLabel DEF TxLast, ringVars, sendVars, oldVars
<1>14. ASSUME NEW p \in Contexts, TxDone(p) PROVE LockInv'
  BY <1>14, GotoLabel DEF TxDone, oldVars
<1>15. ASSUME NEW p \in Contexts, TxFree(p) PROVE LockInv'
  BY <1>15, GotoLabel DEF TxFree, sendVars, oldVars
<1>16. ASSUME NEW p \in Contexts, OldTake(p) PROVE LockInv'
  <2> DEFINE last == rem[p] = 1
             l == IF last THEN "write" ELSE "oldAdvance"
  <2>1. /\ hand'[p] = Fragment(last)
        /\ \A q \in Contexts : q # p => hand'[q] = hand[q]
    BY <1>16 DEF OldTake, TypeInv, TypeOK
  <2>2. hand'[p] # None
    BY <1>16, <2>1, FragmentType, NoneAssumption DEF OldTake, Pieces
  <2>3. hand'[p][3] = last
    BY <2>1 DEF Fragment
  <2>4. /\ pc'[p] = l
        /\ \A q \in Contexts : q # p => pc'[q] = pc[q]
    BY <1>16, GotoLabel DEF OldTake
  <2>5. /\ lock = p /\ lock' = None /\ sending
        /\ sending' = ~last /\ tree = "5.15"
        /\ UNCHANGED <<tree, calls>>
        /\ ~last => txList' = txList
        /\ \A q \in Contexts : q # p => pc[q] \notin Holding
    BY <1>16 DEF OldTake
  <2> HIDE DEF last
  <2>6. QED
    BY <2>1, <2>2, <2>3, <2>4, <2>5
<1>17. ASSUME NEW p \in Contexts, OldAdvance(p) PROVE LockInv'
  BY <1>17, GotoLabel DEF OldAdvance, ringVars, oldVars
<1>18. ASSUME NEW p \in Contexts, OldWrite(p) PROVE LockInv'
  <2>1. /\ hand'[p] = None
        /\ \A q \in Contexts : q # p => hand'[q] = hand[q]
    BY <1>18 DEF OldWrite, TypeInv, TypeOK
  <2>2. /\ pc'[p] \in {"free", "idle"}
        /\ \A q \in Contexts : q # p => pc'[q] = pc[q]
    BY <1>18, GotoLabel DEF OldWrite
  <2>3. /\ pc[p] = "write" /\ tree # "6.5"
        /\ UNCHANGED <<lock, sending, txList, tree>>
    BY <1>18 DEF OldWrite, ringVars, sendVars
  <2>4. QED
    BY <2>1, <2>2, <2>3
<1>19. ASSUME NEW p \in Contexts, OldCallback(p) PROVE LockInv'
  BY <1>19, GotoLabel DEF OldCallback, ringVars, sendVars
<1>20. CASE Disconnect
  BY <1>20 DEF Disconnect, ringVars, sendVars, oldVars
<1>21. CASE UNCHANGED vars
  BY <1>21 DEF vars, oldVars
<1>22. QED
  BY <1>1, <1>2, <1>3, <1>4, <1>5, <1>6, <1>7, <1>8, <1>9, <1>10, <1>11, <1>12, <1>13, <1>14,
     <1>15, <1>16, <1>17, <1>18, <1>19, <1>20, <1>21
     DEF Next, FlowControl, Send, Tx, Old

(***************************************************************************)
(* The types and the lock, in every state.                                 *)
(***************************************************************************)
LEMMA BaseInvariant == Spec => [](TypeInv /\ LockInv)
<1>1. TypeInv /\ LockInv /\ [Next]_vars => (TypeInv /\ LockInv)'
  BY TypeStep, LockStep
<1>2. QED
  BY BaseInit, <1>1, PTL DEF Spec

(***************************************************************************)
(* The types of the state of ishtp_cl_send and ipc_tx_send.                *)
(***************************************************************************)
THEOREM TypeCorrect == Spec => []TypeOK
BY BaseInvariant, PTL DEF TypeInv
-----------------------------------------------------------------------------
(***************************************************************************)
(* There are finitely many movers.                                         *)
(***************************************************************************)
LEMMA MoversFinite == IsFiniteSet(Movers) /\ Cardinality(Movers) \in Nat
<1>1. IsFiniteSet(Contexts)
  BY ContextsAssumption, FS_AddElement DEF Contexts
<1>2. Movers \in SUBSET Contexts
  BY DEF Movers
<1>3. QED
  BY <1>1, <1>2, FS_Subset, FS_CardinalityType

(***************************************************************************)
(* A step of context p makes only p begin or end to move a buffer.         *)
(***************************************************************************)
LEMMA MoversStep ==
    ASSUME TypeInv, NEW p \in Contexts,
           \A q \in Contexts : q # p => pc'[q] = pc[q] /\ hand'[q] = hand[q]
    PROVE  /\ Cardinality(Movers) \in Nat
           /\ (p \in Movers <=> p \in Movers') => Cardinality(Movers)' = Cardinality(Movers)
           /\ p \notin Movers /\ p \in Movers' => Cardinality(Movers)' = Cardinality(Movers) + 1
           /\ p \in Movers /\ p \notin Movers' => Cardinality(Movers)' = Cardinality(Movers) - 1
<1>1. IsFiniteSet(Movers) /\ Cardinality(Movers) \in Nat
  BY MoversFinite
<1>2. \A q \in Contexts : q # p => (q \in Movers <=> q \in Movers')
  BY DEF Movers
<1>3. Movers \subseteq Contexts /\ Movers' \subseteq Contexts
  BY DEF Movers
<1>4. CASE p \in Movers <=> p \in Movers'
  <2>1. Movers' = Movers
    BY <1>2, <1>3, <1>4
  <2>2. QED
    BY <1>1, <1>4, <2>1
<1>5. CASE p \notin Movers /\ p \in Movers'
  <2>1. Movers' = Movers \cup {p}
    BY <1>2, <1>3, <1>5
  <2>2. QED
    BY <1>1, <1>5, <2>1, FS_AddElement
<1>6. CASE p \in Movers /\ p \notin Movers'
  <2>1. Movers' = Movers \ {p}
    BY <1>2, <1>3, <1>6
  <2>2. QED
    BY <1>1, <1>6, <2>1, FS_RemoveElement
<1>7. QED
  BY <1>4, <1>5, <1>6

(***************************************************************************)
(* A step that leaves the rings and the movers alone keeps the sum.        *)
(***************************************************************************)
LEMMA BufsStay ==
    ASSUME TypeInv, TxBufsConserved, NEW p \in Contexts, NEW l \in Labels, Goto(p, l),
           l \notin {"queue", "free", "write"}, pc[p] \notin {"queue", "free", "write"},
           UNCHANGED <<freeSize, txList, hand>>
    PROVE  TxBufsConserved'
<1>1. Cardinality(Movers)' = Cardinality(Movers)
  BY GotoLabel, MoversStep DEF Movers
<1>2. QED
  BY <1>1 DEF TxBufsConserved

(***************************************************************************)
(* The whole of a message's buffer goes from tx_free_list to the sender,   *)
(* to tx_list, to the context that sends its last fragment, and back.      *)
(***************************************************************************)
LEMMA BufsStep == TypeInv /\ LockInv /\ TxBufsConserved /\ [Next]_vars => TxBufsConserved'
<1> SUFFICES ASSUME TypeInv, LockInv, TxBufsConserved, [Next]_vars PROVE TxBufsConserved'
  OBVIOUS
<1> USE DEF Labels
<1>1. /\ freeSize \in Nat /\ Len(txList) \in Nat /\ Cardinality(Movers) \in Nat
      /\ RingSize \in Nat
      /\ freeSize + Len(txList) + Cardinality(Movers) = RingSize
  BY RingAssumption, LenProperties, MoversFinite DEF TypeInv, TypeOK, TxBufsConserved
<1>2. CASE FlowControl
  <2>1. CASE FcExtra
    BY <2>1 DEF FcExtra, TxBufsConserved, Movers, ringVars, oldVars
  <2>2. CASE FcCredit \/ FcLook
    <3>1. PICK l \in {"look", "idle", "reset"} :
              /\ Goto(Isr, l) /\ pc[Isr] \in {"idle", "look"}
              /\ UNCHANGED <<freeSize, txList, hand>>
      BY <2>2 DEF FcCredit, FcLook, ringVars, oldVars
    <3>2. QED
      BY <3>1, BufsStay DEF Contexts
  <2>3. QED
    BY <1>2, <2>1, <2>2 DEF FlowControl
<1>3. ASSUME NEW t \in Threads, SendTake(t) PROVE TxBufsConserved'
  <2>1. Cardinality(Movers)' = Cardinality(Movers) + 1
    BY <1>3, GotoLabel, MoversStep DEF SendTake, Movers, oldVars, Contexts
  <2>2. freeSize' = freeSize - 1 /\ txList' = txList
    BY <1>3 DEF SendTake
  <2>3. QED
    BY <1>1, <2>1, <2>2 DEF TxBufsConserved
<1>4. ASSUME NEW t \in Threads, SendQueue(t) PROVE TxBufsConserved'
  <2>1. Cardinality(Movers)' = Cardinality(Movers) - 1
    BY <1>4, GotoLabel, MoversStep DEF SendQueue, Movers, oldVars, Contexts
  <2>2. freeSize' = freeSize /\ Len(txList') = Len(txList) + 1
    BY <1>4, AppendElements, QueueOne DEF SendQueue, TypeInv, TypeOK
  <2>3. QED
    BY <1>1, <2>1, <2>2 DEF TxBufsConserved
<1>5. ASSUME NEW t \in Threads, SendCheck(t) PROVE TxBufsConserved'
  BY <1>5, BufsStay DEF SendCheck, ringVars, oldVars, Contexts
<1>6. ASSUME NEW p \in Contexts, TxReset(p) \/ TxNothing(p) \/ TxStart(p) \/ TxPart(p)
                                 \/ TxAdvance(p) \/ TxRem(p) \/ TxLast(p) \/ OldCallback(p)
      PROVE  TxBufsConserved'
  <2>1. PICK l \in {"tx", "idle", "frag", "advance", "rem", "last", "called"} :
            /\ Goto(p, l)
            /\ pc[p] \in {"reset", "tx", "called", "frag", "advance", "rem", "idle"}
            /\ UNCHANGED <<freeSize, txList, hand>>
    BY <1>6 DEF TxReset, TxNothing, TxStart, TxPart, TxAdvance, TxRem, TxLast, OldCallback,
                ringVars, oldVars
  <2>2. QED
    BY <2>1, BufsStay
<1>7. ASSUME NEW p \in Contexts, TxDone(p) PROVE TxBufsConserved'
  <2>1. Cardinality(Movers)' = Cardinality(Movers) + 1
    BY <1>7, GotoLabel, MoversStep DEF TxDone, Movers, oldVars
  <2>2. txList # <<>>
    BY <1>7, ContextsAssumption DEF TxDone, LockInv, Holding
  <2>3. freeSize' = freeSize /\ Len(txList') = Len(txList) - 1
    BY <1>7, <2>2, TailElements DEF TxDone, TypeInv, TypeOK
  <2>4. QED
    BY <1>1, <2>1, <2>3 DEF TxBufsConserved
<1>8. ASSUME NEW p \in Contexts, TxFree(p) PROVE TxBufsConserved'
  <2>1. Cardinality(Movers)' = Cardinality(Movers) - 1
    BY <1>8, GotoLabel, MoversStep DEF TxFree, Movers, oldVars
  <2>2. freeSize' = freeSize + 1 /\ txList' = txList
    BY <1>8 DEF TxFree
  <2>3. QED
    BY <1>1, <2>1, <2>2 DEF TxBufsConserved
<1>9. ASSUME NEW p \in Contexts, OldTake(p) PROVE TxBufsConserved'
  <2> DEFINE last == rem[p] = 1
  <2>1. /\ hand'[p][3] = last
        /\ pc'[p] = IF last THEN "write" ELSE "oldAdvance"
        /\ pc[p] = "frag"
    BY <1>9, GotoLabel DEF OldTake, Fragment, TypeInv, TypeOK
  <2>2. \A q \in Contexts : q # p => pc'[q] = pc[q] /\ hand'[q] = hand[q]
    BY <1>9, GotoLabel DEF OldTake, TypeInv, TypeOK
  <2>3. /\ freeSize' = freeSize
        /\ txList' = IF last THEN Tail(txList) ELSE txList
    BY <1>9 DEF OldTake
  <2>4. txList # <<>>
    BY <1>9, ContextsAssumption DEF OldTake, LockInv, Holding
  <2> HIDE DEF last
  <2>5. CASE last
    <3>1. p \notin Movers /\ p \in Movers'
      BY <2>1, <2>5 DEF Movers
    <3>2. freeSize' = freeSize /\ Len(txList') = Len(txList) - 1
      BY <2>3, <2>4, <2>5, TailElements DEF TypeInv, TypeOK
    <3>3. Cardinality(Movers)' = Cardinality(Movers) + 1
      BY <2>2, <3>1, MoversStep
    <3>4. QED
      BY <1>1, <3>2, <3>3 DEF TxBufsConserved
  <2>6. CASE ~last
    <3>1. p \notin Movers /\ p \notin Movers'
      BY <2>1, <2>6 DEF Movers
    <3>2. QED
      BY <1>1, <2>2, <2>3, <2>6, <3>1, MoversStep DEF TxBufsConserved
  <2>7. QED
    BY <2>5, <2>6
<1>10. ASSUME NEW p \in Contexts, OldAdvance(p) PROVE TxBufsConserved'
  <2>1. /\ pc'[p] = "write" /\ pc[p] = "oldAdvance" /\ ~hand[p][3]
        /\ UNCHANGED <<freeSize, txList, hand>>
        /\ \A q \in Contexts : q # p => pc'[q] = pc[q]
    BY <1>10, GotoLabel DEF OldAdvance, LockInv, ringVars, oldVars
  <2>2. p \notin Movers /\ p \notin Movers'
    BY <2>1 DEF Movers
  <2>3. QED
    BY <1>1, <2>1, <2>2, MoversStep DEF TxBufsConserved
<1>11. ASSUME NEW p \in Contexts, OldWrite(p) PROVE TxBufsConserved'
  <2>1. /\ pc'[p] = IF hand[p][3] THEN "free" ELSE "idle"
        /\ pc[p] = "write"
        /\ UNCHANGED <<freeSize, txList>>
        /\ \A q \in Contexts : q # p => pc'[q] = pc[q] /\ hand'[q] = hand[q]
    BY <1>11, GotoLabel DEF OldWrite, ringVars, TypeInv, TypeOK
  <2>2. p \in Movers <=> p \in Movers'
    BY <2>1 DEF Movers
  <2>3. QED
    BY <1>1, <2>1, <2>2, MoversStep DEF TxBufsConserved
<1>12. CASE Disconnect
  BY <1>12 DEF Disconnect, TxBufsConserved, Movers, ringVars, oldVars
<1>13. CASE UNCHANGED vars
  BY <1>13 DEF vars, TxBufsConserved, Movers, oldVars
<1>14. QED
  BY <1>2, <1>3, <1>4, <1>5, <1>6, <1>7, <1>8, <1>9, <1>10, <1>11, <1>12, <1>13
     DEF Next, Send, Tx, Old

(***************************************************************************)
(* No transmit buffer is lost or made up, in either tree, whatever runs    *)
(* beside what and however many fragments find no IPC buffer.              *)
(***************************************************************************)
THEOREM TxBufsNeverLost == Spec => []TxBufsConserved
<1>1. Init => TxBufsConserved
  <2> SUFFICES ASSUME Init PROVE TxBufsConserved
    OBVIOUS
  <2>1. Movers = {}
    BY DEF Init, Movers
  <2>2. QED
    BY <2>1, FS_EmptySet, EmptySeq, RingAssumption DEF Init, TxBufsConserved
<1>2. TypeInv /\ LockInv /\ TxBufsConserved /\ [Next]_vars => TxBufsConserved'
  BY BufsStep
<1>3. QED
  BY <1>1, <1>2, BaseInvariant, PTL DEF Spec
-----------------------------------------------------------------------------
(***************************************************************************)
(* A step by which nothing more is to be paid for keeps PaidInv.           *)
(***************************************************************************)
LEMMA PaidKept ==
    ASSUME TypeInv, PaidInv, Paid' \subseteq Paid, UNCHANGED <<creds, fcs>>
    PROVE  PaidInv'
<1>1. IsFiniteSet(Paid') /\ Cardinality(Paid') <= Cardinality(Paid)
  BY FS_Subset DEF PaidInv
<1>2. Cardinality(Paid) \in Nat /\ Cardinality(Paid') \in Nat
  BY <1>1, FS_CardinalityType DEF PaidInv
<1>3. QED
  BY <1>1, <1>2 DEF PaidInv, TypeInv, TypeOK

(***************************************************************************)
(* A fragment that is written adds at most its message to those started.   *)
(***************************************************************************)
LEMMA StartedWrite ==
    ASSUME TypeInv, NEW f \in Pieces, Write(f)
    PROVE  Started' \subseteq Started \cup {f[1]}
<1>1. CASE UNCHANGED wire
  BY <1>1 DEF Started
<1>2. CASE wire' = Append(wire, f)
  <2>1. wire \in Seq(Pieces)
    BY DEF TypeInv, TypeOK, Pieces
  <2>2. /\ Len(wire) \in Nat
        /\ DOMAIN wire = 1 .. Len(wire)
        /\ DOMAIN wire' = 1 .. (Len(wire) + 1)
        /\ \A i \in 1 .. Len(wire) : wire'[i] = wire[i]
        /\ wire'[Len(wire) + 1] = f
    BY <1>2, <2>1, AppendElements, LenProperties
  <2>3. ASSUME NEW i \in DOMAIN wire' PROVE wire'[i][1] \in Started \cup {f[1]}
    <3>1. CASE i = Len(wire) + 1
      BY <2>2, <3>1
    <3>2. CASE i \in DOMAIN wire
      BY <2>2, <3>2 DEF Started
    <3>3. QED
      BY <2>2, <2>3, <3>1, <3>2
  <2>4. QED
    BY <2>3 DEF Started
<1>3. QED
  BY <1>1, <1>2 DEF Write

(***************************************************************************)
(* A step that writes nothing, takes nothing in a hand and leaves the      *)
(* message being sent at the head of the list.                             *)
(***************************************************************************)
LEMMA PaidStays ==
    ASSUME TypeInv, PaidInv, UNCHANGED <<wire, hand, sending, creds, fcs>>,
           sending => Head(txList') = Head(txList)
    PROVE  PaidInv'
<1>1. Started' = Started /\ InHand' = InHand
  BY DEF Started, InHand
<1>2. Paid' = Paid
  BY <1>1 DEF Paid
<1>3. QED
  BY <1>2, PaidKept

(***************************************************************************)
(* A credit is spent when a message is started, and for that message only. *)
(***************************************************************************)
LEMMA PaidStep == TypeInv /\ LockInv /\ PaidInv /\ [Next]_vars => PaidInv'
<1> SUFFICES ASSUME TypeInv, LockInv, PaidInv, [Next]_vars PROVE PaidInv'
  OBVIOUS
<1>1. /\ creds \in {0, 1} /\ fcs \in Nat /\ IsFiniteSet(Paid)
      /\ Cardinality(Paid) \in Nat
      /\ Cardinality(Paid) + creds <= fcs
  BY FS_CardinalityType DEF PaidInv, TypeInv, TypeOK
<1>2. CASE FcExtra \/ FcLook \/ Disconnect \/ UNCHANGED vars
  BY <1>2, PaidStays DEF FcExtra, FcLook, Disconnect, vars, ringVars, sendVars, fwVars, oldVars
<1>3. CASE FcCredit
  <2>1. UNCHANGED <<wire, hand, sending, txList>> /\ creds = 0 /\ creds' = 1 /\ fcs' = fcs + 1
    BY <1>3 DEF FcCredit, ringVars, oldVars
  <2>2. Paid' = Paid
    BY <2>1 DEF Paid, Started, InHand
  <2>3. QED
    BY <1>1, <2>1, <2>2 DEF PaidInv
<1>4. ASSUME NEW t \in Threads, SendTake(t) \/ SendCheck(t) PROVE PaidInv'
  BY <1>4, PaidStays DEF SendTake, SendCheck, ringVars, sendVars, fwVars, oldVars
<1>5. ASSUME NEW t \in Threads, SendQueue(t) PROVE PaidInv'
  <2>1. sending => Head(txList') = Head(txList)
    <3>1. SUFFICES ASSUME sending PROVE Head(txList') = Head(txList)
      OBVIOUS
    <3>2. txList # <<>> /\ txList \in Seq(Nat)
      BY <3>1 DEF LockInv, TypeInv, TypeOK
    <3>3. txList' = Append(txList, Queued + 1) /\ Queued + 1 \in Nat
      BY <1>5, QueueOne DEF SendQueue
    <3>4. 1 \in 1 .. Len(txList) /\ txList' # <<>> /\ txList' \in Seq(Nat)
      BY <3>2, <3>3, AppendElements, TailElements, EmptySeq
    <3>5. txList'[1] = txList[1]
      BY <3>2, <3>3, <3>4, AppendElements
    <3>6. QED
      BY <3>2, <3>4, <3>5, TailElements
  <2>2. QED
    BY <1>5, <2>1, PaidStays DEF SendQueue, sendVars, fwVars, oldVars
<1>6. ASSUME NEW p \in Contexts, TxReset(p) \/ TxNothing(p) \/ TxAdvance(p) \/ TxRem(p)
                                 \/ TxFree(p) \/ OldAdvance(p) \/ OldCallback(p)
      PROVE  PaidInv'
  BY <1>6, PaidStays DEF TxReset, TxNothing, TxAdvance, TxRem, TxFree, OldAdvance, OldCallback,
                         ringVars, sendVars, fwVars, oldVars
<1>7. ASSUME NEW p \in Contexts, TxStart(p) PROVE PaidInv'
  <2>1. UNCHANGED <<wire, hand, txList, fcs>> /\ sending'
    BY <1>7 DEF TxStart, ringVars, fwVars
  <2>2. Started' = Started /\ InHand' = InHand
    BY <2>1 DEF Started, InHand
  <2>3. CASE sending
    BY <1>7, <2>1, <2>3, PaidStays DEF TxStart
  <2>4. CASE ~sending
    <3>1. creds = 1 /\ creds' = (creds + 255) % 256
      BY <1>7, <2>4 DEF TxStart, MaySend
    <3>2. creds' = 0
      BY <3>1, SMT
    <3> DEFINE PaidNow == Paid \cup {Head(txList)}
    <3>3. Paid' = PaidNow
      BY <2>1, <2>2, <2>4 DEF Paid
    <3>4. IsFiniteSet(PaidNow) /\ Cardinality(PaidNow) <= Cardinality(Paid) + 1
      <4>1. /\ IsFiniteSet(PaidNow)
            /\ \/ Cardinality(PaidNow) = Cardinality(Paid)
               \/ Cardinality(PaidNow) = Cardinality(Paid) + 1
        BY <1>1, FS_AddElement, Zenon
      <4> HIDE DEF PaidNow
      <4>2. QED
        BY <4>1, <1>1
    <3>5. Cardinality(PaidNow) \in Nat
      BY <3>4, FS_CardinalityType
    <3> HIDE DEF PaidNow
    <3>6. QED
      BY <1>1, <2>1, <3>1, <3>2, <3>3, <3>4, <3>5 DEF PaidInv
  <2>5. QED
    BY <2>3, <2>4
<1>8. ASSUME NEW p \in Contexts, NEW last \in BOOLEAN, pc[p] = "frag",
             Write(Fragment(last)), UNCHANGED <<hand, sending, txList, creds, fcs>>
      PROVE  PaidInv'
  <2>1. sending /\ txList # <<>>
    BY <1>8, ContextsAssumption DEF LockInv, Holding
  <2>2. Started' \subseteq Started \cup {Head(txList)}
    BY <1>8, <2>1, FragmentType, StartedWrite DEF Fragment
  <2>3. InHand' = InHand
    BY <1>8 DEF InHand
  <2>4. Paid' \subseteq Paid
    BY <1>8, <2>1, <2>2, <2>3 DEF Paid
  <2>5. QED
    BY <1>8, <2>4, PaidKept
<1>9. ASSUME NEW p \in Contexts, TxPart(p) \/ TxLast(p) PROVE PaidInv'
  BY <1>8, <1>9 DEF TxPart, TxLast, ringVars, sendVars, oldVars
<1>10. ASSUME NEW p \in Contexts, TxDone(p) PROVE PaidInv'
  <2>1. Paid' \subseteq Paid
    BY <1>10 DEF TxDone, Paid, Started, InHand, fwVars, oldVars
  <2>2. QED
    BY <1>10, <2>1, PaidKept DEF TxDone, fwVars
<1>11. ASSUME NEW p \in Contexts, OldTake(p) PROVE PaidInv'
  <2>1. sending
    BY <1>11, ContextsAssumption DEF OldTake, LockInv, Holding
  <2>2. ASSUME NEW q \in Contexts, hand'[q] # None
        PROVE  hand'[q][1] \in InHand \cup {Head(txList)}
    BY <1>11, <2>2 DEF OldTake, Fragment, InHand, TypeInv, TypeOK
  <2>3. InHand' \subseteq InHand \cup {Head(txList)}
    BY <2>2 DEF InHand
  <2>4. Started' = Started
    BY <1>11 DEF OldTake, Started, fwVars
  <2>5. sending' => txList' = txList
    BY <1>11 DEF OldTake
  <2>6. Paid' \subseteq Paid
    BY <2>1, <2>3, <2>4, <2>5 DEF Paid
  <2>7. QED
    BY <1>11, <2>6, PaidKept DEF OldTake, fwVars
<1>12. ASSUME NEW p \in Contexts, OldWrite(p) PROVE PaidInv'
  <2>1. hand[p] \in Pieces /\ hand[p] # None
    BY <1>12 DEF OldWrite, LockInv, TypeInv, TypeOK, Pieces
  <2>2. Started' \subseteq Started \cup {hand[p][1]}
    BY <1>12, <2>1, StartedWrite DEF OldWrite
  <2>3. hand[p][1] \in InHand
    BY <2>1 DEF InHand
  <2>4. ASSUME NEW q \in Contexts, hand'[q] # None PROVE hand'[q][1] \in InHand
    BY <1>12, <2>4 DEF OldWrite, InHand, TypeInv, TypeOK
  <2>5. InHand' \subseteq InHand
    BY <2>4 DEF InHand
  <2>6. UNCHANGED <<txList, sending, creds, fcs>>
    BY <1>12 DEF OldWrite, ringVars, sendVars
  <2>7. Paid' \subseteq Paid
    BY <2>2, <2>3, <2>5, <2>6 DEF Paid
  <2>8. QED
    BY <2>6, <2>7, PaidKept
<1>13. QED
  BY <1>2, <1>3, <1>4, <1>5, <1>6, <1>7, <1>9, <1>10, <1>11, <1>12
     DEF Next, FlowControl, Send, Tx, Old

(***************************************************************************)
(* The host starts no message it has no credit for, in either tree, even   *)
(* where two contexts send at a time and where fragments are dropped.      *)
(***************************************************************************)
THEOREM NoMessageUnpaid == Spec => []CreditPerMessage
<1>1. Init => PaidInv
  <2> SUFFICES ASSUME Init PROVE PaidInv
    OBVIOUS
  <2>1. Started = {}
    BY DEF Init, Started
  <2>2. InHand = {}
    BY DEF Init, InHand
  <2>3. Paid = {}
    BY <2>1, <2>2 DEF Init, Paid
  <2>4. QED
    BY <2>3, FS_EmptySet DEF Init, PaidInv
<1>2. TypeInv /\ LockInv /\ PaidInv /\ [Next]_vars => PaidInv'
  BY PaidStep
<1>3. TypeInv /\ PaidInv => CreditPerMessage
  <2> SUFFICES ASSUME TypeInv, PaidInv PROVE CreditPerMessage
    OBVIOUS
  <2>1. Started \subseteq Paid
    BY DEF Paid
  <2>2. Cardinality(Started) <= Cardinality(Paid) /\ Cardinality(Started) \in Nat
    BY <2>1, FS_Subset, FS_CardinalityType DEF PaidInv
  <2>3. Cardinality(Paid) \in Nat /\ creds \in {0, 1} /\ fcs \in Nat
    BY FS_CardinalityType DEF PaidInv, TypeInv, TypeOK
  <2>4. QED
    BY <2>2, <2>3 DEF CreditPerMessage, PaidInv
<1>4. QED
  BY <1>1, <1>2, <1>3, BaseInvariant, PTL DEF Spec
-----------------------------------------------------------------------------
(***************************************************************************)
(* The message at the head of the list is the first unsent one.            *)
(***************************************************************************)
LEMMA HeadIsFirst ==
    ASSUME TypeInv, QueueInOrder, txList # <<>>
    PROVE  /\ Head(txList) = FirstUnsent
           /\ FirstUnsent \in 1 .. Queued
           /\ FirstUnsent \in Nat \ {0}
           /\ sizes[FirstUnsent] \in Nat \ {0}
<1>1. /\ Queued \in Nat /\ Len(txList) \in Nat \ {0}
      /\ DOMAIN sizes = 1 .. Queued
      /\ DOMAIN txList = 1 .. Len(txList)
      /\ Head(txList) = txList[1]
  BY LenProperties, TailElements DEF TypeInv, TypeOK, Queued
<1>2. txList[1] = Queued - Len(txList) + 1 /\ FirstUnsent \in Nat \ {0}
  BY <1>1 DEF QueueInOrder
<1>3. FirstUnsent \in 1 .. Queued
  <2>1. Queued \in Nat /\ Len(txList) \in Nat \ {0}
    BY <1>1
  <2>2. QED
    BY <1>2, <2>1 DEF FirstUnsent
<1>4. QED
  BY <1>1, <1>2, <1>3 DEF FirstUnsent, QueueInOrder

(***************************************************************************)
(* The list without its head is in order, and one more message is sent.    *)
(***************************************************************************)
LEMMA NextIsFirst ==
    ASSUME TypeInv, QueueInOrder, txList # <<>>, txList' = Tail(txList), UNCHANGED sizes
    PROVE  QueueInOrder' /\ FirstUnsent' = FirstUnsent + 1
<1>1. /\ Queued \in Nat /\ Queued' = Queued
      /\ Len(txList) \in Nat \ {0} /\ Len(txList') = Len(txList) - 1
      /\ DOMAIN txList = 1 .. Len(txList)
      /\ DOMAIN txList' = 1 .. (Len(txList) - 1)
      /\ \A i \in 1 .. (Len(txList) - 1) : txList'[i] = txList[i + 1]
  BY LenProperties, TailElements DEF TypeInv, TypeOK, Queued
<1>2. FirstUnsent' = FirstUnsent + 1 /\ FirstUnsent \in Nat \ {0}
  <2>1. /\ Queued \in Nat /\ Queued' = Queued
        /\ Len(txList) \in Nat \ {0} /\ Len(txList') = Len(txList) - 1
    BY <1>1
  <2>2. FirstUnsent' = FirstUnsent + 1
    BY <2>1 DEF FirstUnsent
  <2>3. QED
    BY <2>2 DEF QueueInOrder
<1>3. ASSUME NEW i \in DOMAIN txList' PROVE txList'[i] = Queued - Len(txList') + i
  <2>1. i \in 1 .. (Len(txList) - 1) /\ i + 1 \in DOMAIN txList
    BY <1>1, <1>3
  <2>2. txList'[i] = Queued - Len(txList) + (i + 1)
    BY <1>1, <2>1 DEF QueueInOrder
  <2>3. QED
    BY <1>1, <2>1, <2>2
<1>4. \A m \in DOMAIN sizes' : sizes'[m] \in Nat \ {0}
  BY DEF QueueInOrder
<1>5. QED
  BY <1>1, <1>2, <1>3, <1>4 DEF QueueInOrder

(***************************************************************************)
(* A message queued at the end of the list leaves it in order, and what    *)
(* was written and is expected next is the same.                           *)
(***************************************************************************)
LEMMA QueueLast ==
    ASSUME TypeInv, QueueInOrder, FragmentsInOrder, NEW t \in Threads, SendQueue(t)
    PROVE  /\ QueueInOrder' /\ FragmentsInOrder'
           /\ FirstUnsent' = FirstUnsent
           /\ Expected' = Expected
<1>1. /\ Queued \in Nat /\ Queued' = Queued + 1
      /\ DOMAIN sizes = 1 .. Queued
      /\ DOMAIN sizes' = 1 .. (Queued + 1)
      /\ \A m \in 1 .. Queued : sizes'[m] = sizes[m]
      /\ sizes'[Queued + 1] \in Nat \ {0}
  BY QueueOne
<1>2. /\ Len(txList) \in Nat /\ Len(txList') = Len(txList) + 1
      /\ DOMAIN txList = 1 .. Len(txList)
      /\ DOMAIN txList' = 1 .. (Len(txList) + 1)
      /\ \A i \in 1 .. Len(txList) : txList'[i] = txList[i]
      /\ txList'[Len(txList) + 1] = Queued + 1
  BY <1>1, LenProperties, AppendElements DEF SendQueue, TypeInv, TypeOK
<1>3. FirstUnsent' = FirstUnsent
  BY <1>1, <1>2 DEF FirstUnsent
<1>4. wire' = wire
  BY DEF SendQueue, fwVars
<1>5. Expected' = Expected
  BY <1>4 DEF Expected, After
<1>6. QueueInOrder'
  <2>1. ASSUME NEW i \in DOMAIN txList' PROVE txList'[i] = Queued' - Len(txList') + i
    <3>1. CASE i = Len(txList) + 1
      BY <1>1, <1>2, <3>1
    <3>2. CASE i \in DOMAIN txList
      BY <1>1, <1>2, <3>2 DEF QueueInOrder
    <3>3. QED
      BY <1>2, <2>1, <3>1, <3>2
  <2>2. ASSUME NEW m \in DOMAIN sizes' PROVE sizes'[m] \in Nat \ {0}
    <3>1. m = Queued + 1 \/ m \in DOMAIN sizes
      BY <1>1, <2>2
    <3>2. QED
      BY <1>1, <3>1 DEF QueueInOrder
  <2>3. QED
    BY <1>3, <2>1, <2>2 DEF QueueInOrder
<1>7. FragmentsInOrder'
  <2>1. ASSUME NEW f, IsFragment(f) PROVE IsFragment(f)'
    BY <1>1, <2>1 DEF IsFragment
  <2>2. QED
    BY <1>4, <2>1 DEF FragmentsInOrder, After
<1>8. QED
  BY <1>3, <1>5, <1>6, <1>7

(***************************************************************************)
(* The fragment that is expected, when it is written, keeps the order.     *)
(***************************************************************************)
LEMMA WriteExpected ==
    ASSUME TypeInv, FragmentsInOrder, NEW f \in Pieces, IsFragment(f),
           Expected = <<f[1], f[2]>>, wire' = Append(wire, f), UNCHANGED sizes
    PROVE  FragmentsInOrder' /\ Expected' = After(f)
<1>1. wire \in Seq(Pieces)
  BY DEF TypeInv, TypeOK, Pieces
<1>2. /\ Len(wire) \in Nat
      /\ Len(wire') = Len(wire) + 1
      /\ DOMAIN wire = 1 .. Len(wire)
      /\ DOMAIN wire' = 1 .. (Len(wire) + 1)
      /\ \A i \in 1 .. Len(wire) : wire'[i] = wire[i]
      /\ wire'[Len(wire) + 1] = f
      /\ wire = <<>> <=> Len(wire) = 0
  BY <1>1, AppendElements, LenProperties, EmptySeq
<1>3. wire' # <<>>
  BY <1>1, AppendElements, EmptySeq
<1>4. Expected' = After(f)
  BY <1>2, <1>3 DEF Expected, After
<1>5. Queued' = Queued
  BY DEF Queued
<1>6. ASSUME NEW i \in 1 .. Len(wire)
      PROVE  (/\ IsFragment(wire[i])
              /\ <<wire[i][1], wire[i][2]>> = IF i = 1 THEN <<1, 1>> ELSE After(wire[i - 1]))'
  <2>1. wire'[i] = wire[i] /\ (i # 1 => wire'[i - 1] = wire[i - 1])
    BY <1>2
  <2>2. /\ IsFragment(wire[i])
        /\ <<wire[i][1], wire[i][2]>> = IF i = 1 THEN <<1, 1>> ELSE After(wire[i - 1])
    BY <1>2 DEF FragmentsInOrder
  <2>3. QED
    BY <1>5, <2>1, <2>2, Zenon DEF IsFragment, After
<1>7. (/\ IsFragment(wire[Len(wire)])
       /\ <<wire[Len(wire)][1], wire[Len(wire)][2]>> =
            IF Len(wire) = 1 THEN <<1, 1>> ELSE After(wire[Len(wire) - 1]))'
  <2>1. Len(wire') = 1 <=> wire = <<>>
    BY <1>2
  <2>2. Len(wire') # 1 => wire'[Len(wire') - 1] = wire[Len(wire)]
    <3>1. Len(wire') - 1 = Len(wire) /\ (Len(wire') # 1 => Len(wire) \in 1 .. Len(wire))
      BY <1>2
    <3>2. QED
      BY <1>2, <3>1
  <2>3. wire'[Len(wire')] = f
    BY <1>2
  <2>4. QED
    BY <1>5, <2>1, <2>2, <2>3 DEF IsFragment, After, Expected
<1>8. FragmentsInOrder'
  <2>1. \A i \in DOMAIN wire' : i \in 1 .. Len(wire) \/ i = Len(wire')
    BY <1>2
  <2>2. QED
    BY <1>6, <1>7, <2>1 DEF FragmentsInOrder
<1>9. QED
  BY <1>4, <1>8

(***************************************************************************)
(* While nothing is queued, written or taken off, the order is as it was.  *)
(***************************************************************************)
LEMMA OrderFrame ==
    /\ UNCHANGED <<sizes, txList>> => FirstUnsent' = FirstUnsent /\ (QueueInOrder => QueueInOrder')
    /\ UNCHANGED <<sizes, wire>> => Expected' = Expected /\ (FragmentsInOrder => FragmentsInOrder')
<1>1. ASSUME UNCHANGED <<sizes, txList>>
      PROVE  FirstUnsent' = FirstUnsent /\ (QueueInOrder => QueueInOrder')
  BY <1>1 DEF FirstUnsent, QueueInOrder, Queued
<1>2. ASSUME UNCHANGED <<sizes, wire>>
      PROVE  Expected' = Expected /\ (FragmentsInOrder => FragmentsInOrder')
  BY <1>2 DEF Expected, FragmentsInOrder, IsFragment, After, Queued
<1>3. QED
  BY <1>1, <1>2

(***************************************************************************)
(* The labels at which a context does nothing about a message.             *)
(***************************************************************************)
Quiet == {"idle", "queue", "check", "reset", "tx", "free", "look"}

(***************************************************************************)
(* A step to such a label that changes nothing of a message.               *)
(***************************************************************************)
LEMMA QuietStep ==
    ASSUME TypeInv, InStep, NEW p \in Contexts, NEW l \in Quiet, Goto(p, l),
           UNCHANGED <<txList, sizes, wire, sending, offs, lock, rem, tree, hand, calls>>
    PROVE  InStep'
<1>1. /\ pc'[p] \in Quiet
      /\ \A q \in Contexts : q # p => pc'[q] = pc[q]
  BY GotoLabel DEF Quiet, Labels
<1>2. /\ FirstUnsent' = FirstUnsent /\ Expected' = Expected
      /\ QueueInOrder' /\ FragmentsInOrder'
  BY OrderFrame DEF InStep
<1>3. AtRest'
  BY <1>2 DEF InStep, AtRest, NoHand
<1>4. ASSUME NEW q \in Contexts PROVE AtWork(q)'
  <2>1. CASE q = p
    BY <1>1, <2>1 DEF AtWork, Quiet
  <2>2. CASE q # p
    <3>1. AtWork(q) /\ pc'[q] = pc[q]
      BY <1>1, <2>2 DEF InStep
    <3>2. QED
      BY <1>2, <3>1 DEF AtWork
  <2>3. QED
    BY <2>1, <2>2
<1>5. WholeInLock'
  BY DEF InStep, WholeInLock
<1>6. OneFollower'
  BY <1>1 DEF InStep, OneFollower, Follower, Quiet
<1>7. QED
  BY <1>2, <1>3, <1>4, <1>5, <1>6 DEF InStep

(***************************************************************************)
(* A message is queued behind the others, whoever sends them meanwhile.    *)
(***************************************************************************)
LEMMA SendQueueInStep ==
    ASSUME TypeInv, LockInv, InStep, NEW t \in Threads, SendQueue(t)
    PROVE  InStep'
<1>1. /\ t \in Contexts
      /\ pc'[t] \in Quiet
      /\ \A q \in Contexts : q # t => pc'[q] = pc[q]
  BY GotoLabel DEF SendQueue, Quiet, Labels, Contexts
<1>2. /\ FirstUnsent' = FirstUnsent /\ Expected' = Expected
      /\ QueueInOrder' /\ FragmentsInOrder'
  BY QueueLast DEF InStep
<1>3. UNCHANGED <<wire, sending, offs, lock, rem, tree, hand, calls>>
  BY DEF SendQueue, sendVars, fwVars, oldVars
<1>4. \A m \in 1 .. Queued : sizes'[m] = sizes[m]
  BY QueueOne
<1>5. sending => FirstUnsent \in 1 .. Queued
  BY HeadIsFirst DEF InStep, LockInv
<1>6. FirstUnsent > 1 => FirstUnsent - 1 \in 1 .. Queued
  <2>1. Queued \in Nat /\ Len(txList) \in Nat /\ FirstUnsent \in Nat \ {0}
    BY LenProperties DEF InStep, QueueInOrder, TypeInv, TypeOK, Queued
  <2>2. QED
    BY <2>1 DEF FirstUnsent
<1>7. AtRest'
  BY <1>2, <1>3, <1>4, <1>5 DEF InStep, AtRest, NoHand
<1>8. ASSUME NEW q \in Contexts PROVE AtWork(q)'
  <2>1. CASE q = t
    BY <1>1, <2>1 DEF AtWork, Quiet
  <2>2. CASE q # t
    <3>1. AtWork(q) /\ pc'[q] = pc[q]
      BY <1>1, <2>2 DEF InStep
    <3>2. pc[q] \in Holding \cup {"oldAdvance"} => sending
      BY <3>1, ContextsAssumption DEF LockInv, Holding, AtWork
    <3>3. sending => sizes'[FirstUnsent] = sizes[FirstUnsent]
      BY <1>4, <1>5
    <3>4. FirstUnsent > 1 => sizes'[FirstUnsent - 1] = sizes[FirstUnsent - 1]
      BY <1>4, <1>6
    <3>5. QED
      BY <1>2, <1>3, <3>1, <3>2, <3>3, <3>4 DEF AtWork, Holding
  <2>3. QED
    BY <2>1, <2>2
<1>9. WholeInLock'
  BY <1>3 DEF InStep, WholeInLock
<1>10. OneFollower'
  BY <1>1, <1>3 DEF InStep, OneFollower, Follower, Quiet
<1>11. QED
  BY <1>2, <1>7, <1>8, <1>9, <1>10 DEF InStep

(***************************************************************************)
(* A reset of tx_offs between two messages disturbs none.                  *)
(***************************************************************************)
LEMMA TxResetInStep ==
    ASSUME TypeInv, LockInv, InStep, NEW p \in Contexts, TxReset(p), ~MidMessage
    PROVE  InStep'
<1>1. tree \in {"6.5", "5.15"}
  BY TreesAssumption DEF TypeInv, TypeOK
<1>2. /\ Goto(p, "tx") /\ "tx" \in Quiet /\ offs' = 0
      /\ UNCHANGED <<txList, sizes, wire, sending, lock, rem, tree, hand, calls>>
  BY DEF TxReset, ringVars, fwVars, oldVars, Quiet
<1>3. CASE offs = 0
  BY <1>2, <1>3, QuietStep
<1>4. CASE offs # 0
  <2>1. ~sending
    BY <1>4 DEF MidMessage
  <2>2. lock = None
    BY <2>1 DEF LockInv
  <2>3. tree = "5.15"
    BY <1>1, <1>4, <2>2 DEF InStep, WholeInLock
  <2>4. /\ pc'[p] = "tx"
        /\ \A q \in Contexts : q # p => pc'[q] = pc[q]
    BY <1>2, GotoLabel DEF Labels
  <2>5. /\ FirstUnsent' = FirstUnsent /\ Expected' = Expected
        /\ QueueInOrder' /\ FragmentsInOrder'
    BY <1>2, OrderFrame DEF InStep
  <2>6. AtRest'
    BY <1>2, <2>1, <2>5 DEF InStep, AtRest, NoHand
  <2>7. ASSUME NEW q \in Contexts PROVE AtWork(q)'
    <3>1. CASE q = p
      BY <2>4, <3>1 DEF AtWork
    <3>2. CASE q # p
      <4>1. AtWork(q) /\ pc'[q] = pc[q]
        BY <2>4, <3>2 DEF InStep
      <4>2. pc[q] \notin Holding
        BY <2>2, ContextsAssumption DEF LockInv
      <4>3. QED
        BY <1>2, <2>1, <2>5, <4>1, <4>2 DEF AtWork, Holding
    <3>3. QED
      BY <3>1, <3>2
  <2>8. WholeInLock' /\ OneFollower'
    BY <1>2, <2>3, <2>4 DEF InStep, WholeInLock, OneFollower, Follower
  <2>9. QED
    BY <2>5, <2>6, <2>7, <2>8 DEF InStep
<1>5. QED
  BY <1>3, <1>4

(***************************************************************************)
(* A context that goes on with a message alone goes on where it stands.    *)
(***************************************************************************)
LEMMA TxStartInStep ==
    ASSUME TypeInv, LockInv, InStep, NEW p \in Contexts, TxStart(p), ~crossed'
    PROVE  InStep'
<1>1. /\ pc'[p] = "frag" /\ pc[p] \in {"tx", "called"}
      /\ \A q \in Contexts : q # p => pc'[q] = pc[q]
  BY GotoLabel DEF TxStart, Labels
<1>2. /\ FirstUnsent' = FirstUnsent /\ Expected' = Expected
      /\ QueueInOrder' /\ FragmentsInOrder'
  BY OrderFrame DEF InStep, TxStart, ringVars, fwVars
<1>3. /\ lock = None /\ lock' = p /\ lock' # None /\ sending'
      /\ rem'[p] = sizes[Head(txList)] - offs
      /\ UNCHANGED <<sizes, offs, hand, tree, calls>>
  BY ContextsAssumption DEF TxStart, ringVars, TypeInv, TypeOK
<1>4. /\ Head(txList) = FirstUnsent
      /\ sizes[FirstUnsent] \in Nat \ {0} /\ offs \in Nat
  BY HeadIsFirst DEF TxStart, MaySend, InStep, TypeInv, TypeOK
<1>5. /\ sending \/ offs = 0
      /\ ~(calls > 0)
      /\ \A q \in Contexts \ {p} : hand[q] = None /\ pc[q] # "called"
  BY DEF TxStart, Crossing
<1>6. NoHand
  BY <1>1, <1>5 DEF NoHand, LockInv
<1>7. offs < sizes[FirstUnsent] /\ Expected = <<FirstUnsent, offs + 1>>
  BY <1>3, <1>4, <1>5, <1>6 DEF InStep, AtRest
<1>8. AtRest' /\ WholeInLock'
  BY <1>3 DEF AtRest, WholeInLock
<1>9. ASSUME NEW q \in Contexts PROVE AtWork(q)'
  <2>1. CASE q = p
    <3>1. /\ rem'[p] = sizes'[FirstUnsent'] - offs'
          /\ rem'[p] > 0
          /\ Expected' = <<FirstUnsent', offs' + 1>>
      BY <1>2, <1>3, <1>4, <1>7
    <3>2. QED
      BY <1>1, <2>1, <3>1 DEF AtWork
  <2>2. CASE q # p
    <3>1. pc'[q] = pc[q] /\ pc[q] \notin Holding /\ pc[q] \notin {"oldAdvance", "write"}
      BY <1>1, <1>3, <1>6, <2>2, ContextsAssumption DEF LockInv, NoHand
    <3>2. QED
      BY <3>1 DEF AtWork, Holding
  <2>3. QED
    BY <2>1, <2>2
<1>10. OneFollower'
  <2>1. ASSUME NEW q \in Contexts, q # p PROVE ~Follower(q)'
    <3>1. pc[q] \notin Holding /\ pc[q] \notin {"oldAdvance", "write"} /\ pc[q] # "called"
      BY <1>3, <1>5, <1>6, <2>1, ContextsAssumption DEF LockInv, NoHand
    <3>2. QED
      BY <1>1, <2>1, <3>1 DEF Follower, Holding
  <2>2. calls = 0
    BY <1>5 DEF TypeInv, TypeOK
  <2>3. QED
    BY <1>1, <1>3, <2>1, <2>2 DEF OneFollower, Follower
<1>11. QED
  BY <1>2, <1>8, <1>9, <1>10 DEF InStep

(***************************************************************************)
(* 6.5: what the holder of the lock does within it disturbs nobody.        *)
(***************************************************************************)
LEMMA HolderStep ==
    ASSUME TypeInv, LockInv, NEW p \in Contexts, lock = p, tree = "6.5", tree' = tree,
           \A q \in Contexts : q # p => pc'[q] = pc[q],
           FragmentsInOrder', QueueInOrder', AtWork(p)',
           lock' = p \/ (lock' = None /\ ~sending' /\ offs' = 0 /\ Expected' = <<FirstUnsent', 1>>)
    PROVE  InStep'
<1>1. lock # None
  BY ContextsAssumption
<1>2. AtRest' /\ WholeInLock'
  BY <1>1 DEF AtRest, WholeInLock
<1>3. ASSUME NEW q \in Contexts PROVE AtWork(q)'
  <2>1. CASE q = p
    BY <2>1
  <2>2. CASE q # p
    <3>1. pc[q] \notin Holding /\ pc[q] \notin Labels515
      BY <2>2 DEF LockInv
    <3>2. QED
      BY <2>2, <3>1 DEF AtWork, Holding, Labels515
  <2>3. QED
    BY <2>1, <2>2
<1>4. OneFollower'
  BY DEF OneFollower
<1>5. QED
  BY <1>2, <1>3, <1>4 DEF InStep

(***************************************************************************)
(* 6.5: the fragments of one message.                                      *)
(***************************************************************************)
LEMMA HolderInStep ==
    ASSUME TypeInv, LockInv, InStep, NEW p \in Contexts, ~dropped',
           TxPart(p) \/ TxAdvance(p) \/ TxRem(p) \/ TxLast(p) \/ TxDone(p)
    PROVE  InStep'
<1>1. tree \in {"6.5", "5.15"}
  BY TreesAssumption DEF TypeInv, TypeOK
<1>2. lock = p /\ lock # None /\ pc[p] \in Holding /\ sending /\ txList # <<>>
  BY ContextsAssumption
     DEF TxPart, TxAdvance, TxRem, TxLast, TxDone, LockInv, Holding
<1>3. tree = "6.5" /\ tree' = tree
  BY <1>1, <1>2 DEF TxPart, TxAdvance, TxRem, TxLast, TxDone, LockInv, Labels65, oldVars
<1>4. \A q \in Contexts : q # p => pc'[q] = pc[q]
  BY GotoLabel DEF TxPart, TxAdvance, TxRem, TxLast, TxDone, Labels
<1>5. /\ Head(txList) = FirstUnsent /\ FirstUnsent \in 1 .. Queued
      /\ FirstUnsent \in Nat \ {0}
      /\ sizes[FirstUnsent] \in Nat \ {0} /\ offs \in Nat
  BY <1>2, HeadIsFirst DEF InStep, TypeInv, TypeOK
<1>6. AtWork(p) /\ FragmentsInOrder /\ QueueInOrder
  BY DEF InStep
<1>7. UNCHANGED <<sizes, txList>> => FirstUnsent' = FirstUnsent /\ QueueInOrder'
  BY <1>6, OrderFrame
<1>8. UNCHANGED <<sizes, wire>> => Expected' = Expected /\ FragmentsInOrder'
  BY <1>6, OrderFrame
<1>9. CASE TxPart(p)
  <2>1. /\ pc[p] = "frag" /\ pc'[p] = "advance" /\ rem[p] > 1 /\ lock' = p
        /\ wire' = Append(wire, Fragment(FALSE)) /\ UNCHANGED <<sizes, txList, offs>>
    BY <1>2, <1>9, GotoLabel DEF TxPart, Write, Labels, ringVars, sendVars
  <2>2. /\ offs + 1 < sizes[FirstUnsent]
        /\ Expected = <<FirstUnsent, offs + 1>>
    BY <1>5, <1>6, <2>1 DEF AtWork
  <2> DEFINE f == <<FirstUnsent, offs + 1, FALSE>>
  <2>3. Fragment(FALSE) = f /\ f \in Pieces
    BY <1>2, <1>5, FragmentType DEF Fragment
  <2>4. IsFragment(f) /\ f[1] = FirstUnsent /\ f[2] = offs + 1
    BY <1>5, <2>2 DEF IsFragment
  <2>5. FragmentsInOrder' /\ Expected' = After(f)
    <3> HIDE DEF f
    <3>1. QED
      BY <1>6, <2>1, <2>2, <2>3, <2>4, WriteExpected
  <2>6. Expected' = <<FirstUnsent, offs + 2>>
    BY <1>5, <2>5 DEF After
  <2>7. AtWork(p)'
    BY <1>7, <2>1, <2>2, <2>6 DEF AtWork
  <2>8. QED
    BY <1>2, <1>3, <1>4, <1>7, <2>1, <2>5, <2>7, HolderStep
<1>10. CASE TxAdvance(p)
  <2>1. /\ pc[p] = "advance" /\ pc'[p] = "rem" /\ lock' = p /\ offs' = offs + 1
        /\ UNCHANGED <<sizes, txList, wire>>
    BY <1>2, <1>10, GotoLabel DEF TxAdvance, Labels, ringVars, fwVars
  <2>2. offs + 1 < sizes[FirstUnsent] /\ Expected = <<FirstUnsent, offs + 2>>
    BY <1>6, <2>1 DEF AtWork
  <2>3. offs + 2 = offs' + 1
    BY <1>5, <2>1
  <2>4. AtWork(p)'
    BY <1>7, <1>8, <2>1, <2>2, <2>3 DEF AtWork
  <2>5. QED
    BY <1>2, <1>3, <1>4, <1>7, <1>8, <2>1, <2>4, HolderStep
<1>11. CASE TxRem(p)
  <2>1. /\ pc[p] = "rem" /\ pc'[p] = "frag" /\ lock' = p
        /\ rem'[p] = sizes[FirstUnsent] - offs
        /\ UNCHANGED <<sizes, txList, wire, offs>>
    BY <1>2, <1>5, <1>11, GotoLabel DEF TxRem, Labels, ringVars, fwVars, TypeInv, TypeOK
  <2>2. offs < sizes[FirstUnsent] /\ Expected = <<FirstUnsent, offs + 1>>
    BY <1>6, <2>1 DEF AtWork
  <2>3. rem'[p] > 0
    BY <1>5, <2>1, <2>2
  <2>4. AtWork(p)'
    BY <1>7, <1>8, <2>1, <2>2, <2>3 DEF AtWork
  <2>5. QED
    BY <1>2, <1>3, <1>4, <1>7, <1>8, <2>1, <2>4, HolderStep
<1>12. CASE TxLast(p)
  <2>1. /\ pc[p] = "frag" /\ pc'[p] = "last" /\ rem[p] = 1 /\ lock' = p
        /\ wire' = Append(wire, Fragment(TRUE)) /\ UNCHANGED <<sizes, txList>>
    BY <1>2, <1>12, GotoLabel DEF TxLast, Write, Labels, ringVars, sendVars
  <2>2. /\ offs + 1 = sizes[FirstUnsent]
        /\ Expected = <<FirstUnsent, offs + 1>>
    BY <1>5, <1>6, <2>1 DEF AtWork
  <2> DEFINE f == <<FirstUnsent, offs + 1, TRUE>>
  <2>3. Fragment(TRUE) = f /\ f \in Pieces
    BY <1>2, <1>5, FragmentType DEF Fragment
  <2>4. IsFragment(f) /\ f[1] = FirstUnsent /\ f[2] = offs + 1
    BY <1>5, <2>2 DEF IsFragment
  <2>5. FragmentsInOrder' /\ Expected' = After(f)
    <3> HIDE DEF f
    <3>1. QED
      BY <1>6, <2>1, <2>2, <2>3, <2>4, WriteExpected
  <2>6. Expected' = <<FirstUnsent + 1, 1>>
    BY <2>5 DEF After
  <2>7. AtWork(p)'
    BY <1>7, <2>1, <2>6 DEF AtWork
  <2>8. QED
    BY <1>2, <1>3, <1>4, <1>7, <2>1, <2>5, <2>7, HolderStep
<1>13. CASE TxDone(p)
  <2>1. /\ pc[p] = "last" /\ pc'[p] = "free" /\ lock' = None /\ ~sending' /\ offs' = 0
        /\ txList' = Tail(txList) /\ UNCHANGED <<sizes, wire>>
    BY <1>13, GotoLabel DEF TxDone, Labels, fwVars
  <2>2. QueueInOrder' /\ FirstUnsent' = FirstUnsent + 1
    BY <1>2, <1>6, <2>1, NextIsFirst
  <2>3. Expected' = <<FirstUnsent', 1>>
    BY <1>6, <1>8, <2>1, <2>2 DEF AtWork
  <2>4. AtWork(p)'
    BY <2>1 DEF AtWork
  <2>5. QED
    BY <1>2, <1>3, <1>4, <1>8, <2>1, <2>2, <2>3, <2>4, HolderStep
<1>14. QED
  BY <1>9, <1>10, <1>11, <1>12, <1>13

(***************************************************************************)
(* 5.15: while a context cuts, keeps or writes a fragment, no other is     *)
(* anywhere in a message, and what it does there concerns nobody else.     *)
(***************************************************************************)
LEMMA AloneOld ==
    ASSUME LockInv, OneFollower, tree = "5.15", NEW p \in Contexts, Follower(p)
    PROVE  \A q \in Contexts \ {p} : /\ pc[q] \notin Holding /\ ~Follower(q)
                                     /\ hand[q] = None
<1> SUFFICES ASSUME NEW q \in Contexts, q # p
             PROVE  pc[q] \notin Holding /\ ~Follower(q) /\ hand[q] = None
  OBVIOUS
<1>1. ~Follower(q)
  BY DEF OneFollower
<1>2. hand[q] = None
  BY <1>1 DEF LockInv, Follower
<1>3. pc[q] \notin Holding
  BY <1>1 DEF LockInv, Follower, Holding, Labels65
<1>4. QED
  BY <1>1, <1>2, <1>3

(***************************************************************************)
(* 5.15: what the only follower does keeps the order if it keeps its own   *)
(* place.                                                                  *)
(***************************************************************************)
LEMMA OldStep ==
    ASSUME TypeInv, LockInv, OneFollower, NEW p \in Contexts, Follower(p),
           tree = "5.15", tree' = tree,
           \A q \in Contexts : q # p => pc'[q] = pc[q] /\ hand'[q] = hand[q],
           FragmentsInOrder', QueueInOrder', AtWork(p)', AtRest',
           calls' \in {0, 1}, calls' = 1 => sending' /\ ~Follower(p)', pc'[p] # "called"
    PROVE  InStep'
<1>1. \A q \in Contexts \ {p} : pc[q] \notin Holding /\ ~Follower(q)
  BY AloneOld
<1>2. ASSUME NEW q \in Contexts PROVE AtWork(q)'
  <2>1. CASE q = p
    BY <2>1
  <2>2. CASE q # p
    BY <1>1, <2>2 DEF AtWork, Holding, Follower
  <2>3. QED
    BY <2>1, <2>2
<1>3. OneFollower'
  <2>1. \A q \in Contexts \ {p} : ~Follower(q)'
    BY <1>1 DEF Follower
  <2>2. \A q \in Contexts : pc'[q] # "called"
    BY <1>1 DEF Follower
  <2>3. QED
    BY <2>1, <2>2 DEF OneFollower
<1>4. WholeInLock'
  BY DEF WholeInLock
<1>5. QED
  BY <1>2, <1>3, <1>4 DEF InStep

(***************************************************************************)
(* 5.15: one fragment is taken; with the last one the message leaves the   *)
(* list before the fragment is written.                                    *)
(***************************************************************************)
LEMMA OldTakeInStep ==
    ASSUME TypeInv, LockInv, InStep, NEW p \in Contexts, OldTake(p)
    PROVE  InStep'
<1>1. /\ pc[p] = "frag" /\ Follower(p) /\ tree = "5.15" /\ tree' = tree
      /\ sending /\ txList # <<>> /\ UNCHANGED <<sizes, wire, offs, calls>>
  BY ContextsAssumption DEF OldTake, LockInv, Holding, Follower, fwVars
<1>2. /\ \A q \in Contexts : q # p => pc'[q] = pc[q] /\ hand'[q] = hand[q]
      /\ hand'[p] = Fragment(rem[p] = 1)
      /\ pc'[p] = IF rem[p] = 1 THEN "write" ELSE "oldAdvance"
      /\ sending' = (rem[p] # 1)
      /\ txList' = IF rem[p] = 1 THEN Tail(txList) ELSE txList
  BY GotoLabel DEF OldTake, Labels, TypeInv, TypeOK
<1>3. /\ Head(txList) = FirstUnsent /\ FirstUnsent \in 1 .. Queued
      /\ FirstUnsent \in Nat \ {0}
      /\ sizes[FirstUnsent] \in Nat \ {0} /\ offs \in Nat
  BY <1>1, HeadIsFirst DEF InStep, TypeInv, TypeOK
<1>4. /\ rem[p] = sizes[FirstUnsent] - offs /\ rem[p] > 0
      /\ Expected = <<FirstUnsent, offs + 1>>
  BY <1>1 DEF InStep, AtWork
<1>5. OneFollower /\ calls = 0
  BY <1>1 DEF InStep, OneFollower
<1>6. Expected' = Expected /\ FragmentsInOrder'
  BY <1>1, OrderFrame DEF InStep
<1>7. hand'[p] # None
  BY <1>1, <1>2, FragmentType, NoneAssumption DEF Pieces
<1>8. AtRest'
  BY <1>7 DEF AtRest, NoHand
<1>9. CASE rem[p] = 1
  <2>1. QueueInOrder' /\ FirstUnsent' = FirstUnsent + 1
    BY <1>1, <1>2, <1>9, NextIsFirst DEF InStep
  <2>2. hand'[p] = <<FirstUnsent, offs + 1, TRUE>> /\ pc'[p] = "write" /\ ~sending'
    BY <1>2, <1>3, <1>9 DEF Fragment
  <2>3. offs + 1 = sizes[FirstUnsent]
    BY <1>3, <1>4, <1>9
  <2>4. FirstUnsent' - 1 = FirstUnsent /\ FirstUnsent' > 1
    BY <1>3, <2>1
  <2>5. AtWork(p)'
    BY <1>1, <1>4, <1>6, <2>2, <2>3, <2>4 DEF AtWork
  <2>6. QED
    BY <1>1, <1>2, <1>5, <1>6, <1>8, <2>1, <2>2, <2>5, OldStep
<1>10. CASE rem[p] # 1
  <2>1. QueueInOrder' /\ FirstUnsent' = FirstUnsent
    BY <1>1, <1>2, <1>10, OrderFrame DEF InStep
  <2>2. hand'[p] = <<FirstUnsent, offs + 1, FALSE>> /\ pc'[p] = "oldAdvance" /\ sending'
    BY <1>2, <1>3, <1>10 DEF Fragment
  <2>3. offs + 1 < sizes[FirstUnsent]
    BY <1>3, <1>4, <1>10
  <2>4. AtWork(p)'
    BY <1>1, <1>4, <1>6, <2>1, <2>2, <2>3 DEF AtWork
  <2>5. QED
    BY <1>1, <1>2, <1>5, <1>6, <1>8, <2>1, <2>2, <2>4, OldStep
<1>11. QED
  BY <1>9, <1>10

(***************************************************************************)
(* 5.15: tx_offs goes on between the taking and the writing.               *)
(***************************************************************************)
LEMMA OldAdvanceInStep ==
    ASSUME TypeInv, LockInv, InStep, NEW p \in Contexts, OldAdvance(p)
    PROVE  InStep'
<1>1. tree \in {"6.5", "5.15"}
  BY TreesAssumption DEF TypeInv, TypeOK
<1>2. /\ pc[p] = "oldAdvance" /\ Follower(p) /\ hand[p] # None /\ tree = "5.15"
      /\ pc'[p] = "write" /\ offs' = offs + 1
      /\ \A q \in Contexts : q # p => pc'[q] = pc[q]
      /\ UNCHANGED <<sizes, wire, txList, sending, hand, tree, calls>>
  BY <1>1, GotoLabel
     DEF OldAdvance, LockInv, Follower, Labels, Labels515, ringVars, fwVars, oldVars
<1>3. /\ sending /\ offs + 1 < sizes[FirstUnsent]
      /\ hand[p] = <<FirstUnsent, offs + 1, FALSE>>
      /\ Expected = <<FirstUnsent, offs + 1>>
  BY <1>2 DEF InStep, AtWork
<1>4. /\ FirstUnsent' = FirstUnsent /\ Expected' = Expected
      /\ QueueInOrder' /\ FragmentsInOrder'
  BY <1>2, OrderFrame DEF InStep
<1>5. offs' \in Nat \ {0}
  BY <1>2 DEF TypeInv, TypeOK
<1>6. AtWork(p)'
  BY <1>2, <1>3, <1>4, <1>5 DEF AtWork
<1>7. AtRest'
  BY <1>2 DEF AtRest, NoHand
<1>8. OneFollower /\ calls = 0
  BY <1>2 DEF InStep, OneFollower
<1>9. QED
  BY <1>2, <1>4, <1>6, <1>7, <1>8, OldStep

(***************************************************************************)
(* 5.15: the fragment is written, which is the one the wire expects.       *)
(***************************************************************************)
LEMMA OldWriteInStep ==
    ASSUME TypeInv, LockInv, InStep, NEW p \in Contexts, OldWrite(p), ~dropped'
    PROVE  InStep'
<1> DEFINE f == hand[p]
<1>1. tree \in {"6.5", "5.15"}
  BY TreesAssumption DEF TypeInv, TypeOK
<1>2. /\ pc[p] = "write" /\ Follower(p) /\ f # None /\ tree = "5.15"
      /\ UNCHANGED <<sizes, txList, sending, offs, tree>>
  BY <1>1 DEF OldWrite, LockInv, Follower, Labels515, ringVars, sendVars
<1>3. /\ hand'[p] = None
      /\ pc'[p] \in {"free", "idle"}
      /\ \A q \in Contexts : q # p => pc'[q] = pc[q] /\ hand'[q] = hand[q]
  BY GotoLabel DEF OldWrite, Labels, TypeInv, TypeOK
<1>4. wire' = Append(wire, f) /\ f \in Pieces
  BY <1>2 DEF OldWrite, Write, TypeInv, TypeOK, Pieces
<1>5. calls' = calls \/ (~f[3] /\ calls' = calls + 1)
  BY DEF OldWrite
<1>6. OneFollower /\ calls = 0 /\ FragmentsInOrder /\ QueueInOrder /\ AtWork(p)
  BY <1>2 DEF InStep, OneFollower
<1>7. FirstUnsent' = FirstUnsent /\ QueueInOrder'
  BY <1>2, <1>6, OrderFrame
<1>8. /\ Queued \in Nat /\ Len(txList) \in Nat /\ FirstUnsent \in Nat \ {0} /\ offs \in Nat
      /\ DOMAIN sizes = 1 .. Queued
  BY <1>6, LenProperties DEF QueueInOrder, TypeInv, TypeOK, Queued
<1>9. NoHand'
  <2>1. \A q \in Contexts \ {p} : hand[q] = None
    BY <1>2, <1>6, AloneOld
  <2>2. QED
    BY <1>3, <2>1 DEF NoHand
<1>10. AtWork(p)' /\ ~Follower(p)'
  BY <1>3 DEF AtWork, Follower
<1>11. CASE f[3]
  <2> DEFINE m == FirstUnsent - 1
  <2>1. /\ ~sending /\ FirstUnsent > 1 /\ f = <<m, sizes[m], TRUE>>
        /\ Expected = <<m, sizes[m]>>
    BY <1>2, <1>6, <1>11 DEF AtWork
  <2>2. m \in 1 .. Queued /\ m + 1 = FirstUnsent
    BY <1>8, <2>1 DEF FirstUnsent
  <2>3. sizes[m] \in Nat \ {0}
    BY <1>6, <1>8, <2>2 DEF QueueInOrder
  <2> HIDE DEF m
  <2>4. IsFragment(f) /\ f[1] = m /\ f[2] = sizes[m]
    BY <2>1, <2>2, <2>3 DEF IsFragment
  <2> HIDE DEF f
  <2>5. FragmentsInOrder' /\ Expected' = After(f)
    BY <1>2, <1>4, <1>6, <2>1, <2>4, WriteExpected
  <2>6. Expected' = <<FirstUnsent, 1>>
    BY <1>11, <2>2, <2>4, <2>5 DEF After
  <2>7. AtRest'
    BY <1>2, <1>7, <2>1, <2>6 DEF AtRest
  <2>8. calls' = 0
    BY <1>5, <1>6, <1>11
  <2>9. QED
    BY <1>2, <1>3, <1>6, <1>7, <1>10, <2>5, <2>7, <2>8, OldStep
<1>12. CASE ~f[3]
  <2>1. /\ sending /\ offs \in Nat \ {0} /\ offs < sizes[FirstUnsent]
        /\ f = <<FirstUnsent, offs, FALSE>>
        /\ Expected = <<FirstUnsent, offs>>
    BY <1>2, <1>6, <1>12 DEF AtWork
  <2>2. FirstUnsent \in 1 .. Queued /\ sizes[FirstUnsent] \in Nat \ {0}
    BY <1>6, <2>1, HeadIsFirst DEF LockInv
  <2>3. IsFragment(f) /\ f[1] = FirstUnsent /\ f[2] = offs
    BY <2>1, <2>2 DEF IsFragment
  <2> HIDE DEF f
  <2>4. FragmentsInOrder' /\ Expected' = After(f)
    BY <1>2, <1>4, <1>6, <2>1, <2>3, WriteExpected
  <2>5. Expected' = <<FirstUnsent, offs + 1>>
    BY <1>12, <2>3, <2>4 DEF After
  <2>6. AtRest'
    BY <1>2, <1>7, <2>1, <2>5 DEF AtRest
  <2>7. calls' \in {0, 1} /\ sending'
    BY <1>2, <1>5, <1>6, <2>1
  <2>8. QED
    BY <1>2, <1>3, <1>6, <1>7, <1>10, <2>4, <2>6, <2>7, OldStep
<1>13. QED
  BY <1>11, <1>12

(***************************************************************************)
(* 5.15: the callback for a fragment makes a context the next follower.    *)
(***************************************************************************)
LEMMA OldCallbackInStep ==
    ASSUME TypeInv, LockInv, InStep, NEW p \in Contexts, OldCallback(p)
    PROVE  InStep'
<1>1. tree = "5.15" /\ calls = 1 /\ calls' = 0 /\ sending
  <2>1. tree \in {"6.5", "5.15"}
    BY TreesAssumption DEF TypeInv, TypeOK
  <2>2. tree = "5.15"
    BY <2>1 DEF OldCallback, LockInv
  <2>3. QED
    BY <2>2 DEF OldCallback, InStep, OneFollower
<1>2. /\ pc'[p] = "called" /\ \A q \in Contexts : q # p => pc'[q] = pc[q]
      /\ UNCHANGED <<sizes, wire, txList, sending, offs, lock, rem, hand, tree>>
  BY GotoLabel DEF OldCallback, Labels, ringVars, sendVars, fwVars
<1>3. \A q \in Contexts : ~Follower(q)
  BY <1>1 DEF InStep, OneFollower
<1>4. /\ FirstUnsent' = FirstUnsent /\ Expected' = Expected
      /\ QueueInOrder' /\ FragmentsInOrder'
  BY <1>2, OrderFrame DEF InStep
<1>5. AtRest'
  BY <1>2, <1>4 DEF InStep, AtRest, NoHand
<1>6. ASSUME NEW q \in Contexts PROVE AtWork(q)'
  <2>1. AtWork(q) /\ (q # p => pc'[q] = pc[q])
    BY <1>2 DEF InStep
  <2>2. QED
    BY <1>2, <1>4, <2>1 DEF AtWork
<1>7. WholeInLock' /\ OneFollower'
  BY <1>1, <1>2, <1>3 DEF WholeInLock, OneFollower, Follower
<1>8. QED
  BY <1>4, <1>5, <1>6, <1>7 DEF InStep

(***************************************************************************)
(* Once the order was disturbed, it stays so.                              *)
(***************************************************************************)
LEMMA Disturbed ==
    ASSUME TypeInv, [Next]_vars
    PROVE  (rewound => rewound') /\ (dropped => dropped') /\ (crossed => crossed')
<1>1. CASE FlowControl
  BY <1>1 DEF FlowControl, FcExtra, FcCredit, FcLook, fwVars, oldVars
<1>2. ASSUME NEW t \in Threads, Send(t) PROVE UNCHANGED <<rewound, dropped, crossed>>
  BY <1>2 DEF Send, SendTake, SendQueue, SendCheck, fwVars, oldVars
<1>3. ASSUME NEW p \in Contexts, Tx(p)
      PROVE  (rewound => rewound') /\ (dropped => dropped') /\ (crossed => crossed')
  <2>1. CASE TxReset(p) \/ TxStart(p)
    <3>1. CASE TxReset(p)
      <4>1. rewound' = (rewound \/ MidMessage) /\ UNCHANGED <<dropped, crossed>>
        BY <3>1 DEF TxReset, fwVars, oldVars
      <4>2. rewound => rewound'
        BY <4>1 DEF TypeInv, TypeOK
      <4>3. QED
        BY <4>1, <4>2
    <3>2. CASE TxStart(p)
      <4>1. crossed' = (crossed \/ Crossing(p)) /\ UNCHANGED <<dropped, rewound>>
        BY <3>2 DEF TxStart, fwVars
      <4>2. crossed => crossed'
        BY <4>1 DEF TypeInv, TypeOK
      <4>3. QED
        BY <4>1, <4>2
    <3>3. QED
      BY <2>1, <3>1, <3>2
  <2>2. CASE TxPart(p) \/ TxLast(p)
    <3>1. UNCHANGED <<rewound, crossed>> /\ (dropped' = TRUE \/ dropped' = dropped)
      BY <2>2, Zenon DEF TxPart, TxLast, Write, oldVars
    <3>2. QED
      BY <3>1
  <2>3. CASE TxNothing(p) \/ TxAdvance(p) \/ TxRem(p) \/ TxDone(p) \/ TxFree(p)
    BY <2>3 DEF TxNothing, TxAdvance, TxRem, TxDone, TxFree, fwVars, oldVars
  <2>4. QED
    BY <1>3, <2>1, <2>2, <2>3 DEF Tx
<1>4. ASSUME NEW p \in Contexts, Old(p) \/ OldCallback(p)
      PROVE  (rewound => rewound') /\ (dropped => dropped') /\ (crossed => crossed')
  BY <1>4 DEF Old, OldTake, OldAdvance, OldWrite, OldCallback, Write, fwVars, oldVars
<1>5. CASE Disconnect \/ UNCHANGED vars
  BY <1>5 DEF Disconnect, vars, fwVars, oldVars
<1>6. QED
  BY <1>1, <1>2, <1>3, <1>4, <1>5 DEF Next

(***************************************************************************)
(* Every step keeps the order, unless it disturbs it.                      *)
(***************************************************************************)
LEMMA OrderStep == TypeInv /\ LockInv /\ OrderInv /\ [Next]_vars => OrderInv'
<1> SUFFICES ASSUME TypeInv, LockInv, OrderInv, [Next]_vars,
                    ~rewound', ~dropped', ~crossed'
             PROVE  InStep'
  BY DEF OrderInv
<1>1. InStep
  BY Disturbed DEF OrderInv
<1>2. CASE FlowControl
  <2>1. CASE FcExtra
    <3>1. Goto(Isr, "idle") /\ "idle" \in Quiet
      BY <2>1 DEF FcExtra, Goto, Quiet, TypeInv, TypeOK
    <3>2. QED
      BY <1>1, <2>1, <3>1, QuietStep DEF FcExtra, ringVars, sendVars, oldVars, Contexts
  <2>2. CASE FcCredit \/ FcLook
    <3>1. PICK l \in Quiet :
              /\ Goto(Isr, l)
              /\ UNCHANGED <<txList, sizes, wire, sending, offs, lock, rem, tree, hand, calls>>
      BY <2>2 DEF FcCredit, FcLook, ringVars, sendVars, fwVars, oldVars, Quiet
    <3>2. QED
      BY <1>1, <3>1, QuietStep DEF Contexts
  <2>3. QED
    BY <1>2, <2>1, <2>2 DEF FlowControl
<1>3. ASSUME NEW t \in Threads, SendTake(t) \/ SendCheck(t) PROVE InStep'
  <2>1. PICK l \in Quiet :
            /\ Goto(t, l)
            /\ UNCHANGED <<txList, sizes, wire, sending, offs, lock, rem, tree, hand, calls>>
    BY <1>3 DEF SendTake, SendCheck, ringVars, sendVars, fwVars, oldVars, Quiet
  <2>2. QED
    BY <1>1, <2>1, QuietStep DEF Contexts
<1>4. ASSUME NEW t \in Threads, SendQueue(t) PROVE InStep'
  BY <1>1, <1>4, SendQueueInStep
<1>5. ASSUME NEW p \in Contexts, TxReset(p) PROVE InStep'
  BY <1>1, <1>5, TxResetInStep DEF TxReset
<1>6. ASSUME NEW p \in Contexts, TxNothing(p) \/ TxFree(p) PROVE InStep'
  <2>1. Goto(p, "idle") /\ "idle" \in Quiet
    BY <1>6 DEF TxNothing, TxFree, Quiet
  <2>2. UNCHANGED <<txList, sizes, wire, sending, offs, lock, rem, tree, hand, calls>>
    BY <1>6 DEF TxNothing, TxFree, ringVars, sendVars, fwVars, oldVars
  <2>3. QED
    BY <1>1, <2>1, <2>2, QuietStep
<1>7. ASSUME NEW p \in Contexts, TxStart(p) PROVE InStep'
  BY <1>1, <1>7, TxStartInStep
<1>8. ASSUME NEW p \in Contexts,
             TxPart(p) \/ TxAdvance(p) \/ TxRem(p) \/ TxLast(p) \/ TxDone(p)
      PROVE  InStep'
  BY <1>1, <1>8, HolderInStep
<1>9. ASSUME NEW p \in Contexts, Old(p) PROVE InStep'
  BY <1>1, <1>9, OldTakeInStep, OldAdvanceInStep, OldWriteInStep DEF Old
<1>10. ASSUME NEW p \in Contexts, OldCallback(p) PROVE InStep'
  BY <1>1, <1>10, OldCallbackInStep
<1>11. CASE Disconnect \/ UNCHANGED vars
  <2>1. UNCHANGED <<pc, txList, sizes, wire, sending, offs, lock, rem, tree, hand, calls>>
    BY <1>11 DEF Disconnect, vars, ringVars, sendVars, fwVars, oldVars
  <2>2. Goto(Isr, pc[Isr])
    BY <2>1 DEF Goto, TypeInv, TypeOK, Contexts
  <2>3. /\ FirstUnsent' = FirstUnsent /\ Expected' = Expected
        /\ QueueInOrder' /\ FragmentsInOrder'
    BY <1>1, <2>1, OrderFrame DEF InStep
  <2>4. QED
    BY <1>1, <2>1, <2>3
       DEF InStep, AtRest, NoHand, AtWork, WholeInLock, OneFollower, Follower
<1>12. QED
  BY <1>2, <1>3, <1>4, <1>5, <1>6, <1>7, <1>8, <1>9, <1>10, <1>11 DEF Next, Send, Tx

(***************************************************************************)
(* The fragments reach the IPC queue message by message and in order, each *)
(* once, for any number of senders, unless tx_offs was reset inside a      *)
(* message, a fragment was dropped, or two contexts of the 5.15 tree sent  *)
(* at a time.                                                              *)
(***************************************************************************)
THEOREM FragmentsKeepOrder == Spec => []FragmentsUnlessRewound
<1>1. Init => OrderInv
  <2> SUFFICES ASSUME Init PROVE InStep
    BY DEF OrderInv
  <2>1. /\ Len(txList) = 0 /\ Queued = 0 /\ DOMAIN wire = {}
        /\ DOMAIN txList = {} /\ DOMAIN sizes = {}
    BY EmptySeq DEF Init, Queued
  <2>2. FirstUnsent = 1 /\ Expected = <<1, 1>>
    BY <2>1 DEF Init, FirstUnsent, Expected
  <2>3. FragmentsInOrder /\ QueueInOrder
    BY <2>1, <2>2 DEF FragmentsInOrder, QueueInOrder
  <2>4. AtRest /\ WholeInLock /\ OneFollower
    BY <2>2 DEF Init, AtRest, WholeInLock, OneFollower, Follower
  <2>5. \A p \in Contexts : AtWork(p)
    BY DEF Init, AtWork
  <2>6. QED
    BY <2>3, <2>4, <2>5 DEF InStep
<1>2. TypeInv /\ LockInv /\ OrderInv /\ [Next]_vars => OrderInv'
  BY OrderStep
<1>3. OrderInv => FragmentsUnlessRewound
  BY DEF OrderInv, InStep, FragmentsUnlessRewound
<1>4. QED
  BY <1>1, <1>2, <1>3, BaseInvariant, PTL DEF Spec
=============================================================================
