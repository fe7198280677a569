------------------------------ MODULE ClientTx ------------------------------
(***************************************************************************)
(* The transmit side of one ISHTP client (ishtp_cl_send and what it        *)
(* calls): the ring of transmit buffers, the list of messages that wait    *)
(* for a credit, the fragments a message is cut into, and the flow control *)
(* (FC) messages by which the firmware gives credits.                      *)
(*                                                                         *)
(* Any number of threads send; the interrupt that receives an FC sends     *)
(* too.  Steps are cut where a lock is taken or released and wherever      *)
(* tx_offs or ishtp_flow_ctrl_creds is used without one.  A fragment is    *)
(* the unit of tx_offs, and is named by its message and its place in it.   *)
(* Messages are not empty: no caller sends an empty one.                   *)
(*                                                                         *)
(* The two source trees differ in ipc_tx_send, which the 5.15 tree calls   *)
(* ipc_tx_callback: 6.5 hands all fragments to the IPC queue in one        *)
(* critical section; 5.15 hands it one, out of the lock, and the IPC queue *)
(* calls back for the next when that one went to the doorbell.             *)
(***************************************************************************)
EXTENDS Integers, Sequences, FiniteSets

CONSTANTS Threads,    \* contexts that call ishtp_cl_send
          Isr,        \* the interrupt that receives FCs
          RingSize,   \* buffers of the TX ring
          None,       \* nobody, or no fragment
          Window,     \* messages the firmware lets the host send ahead
          MaxFrags,   \* bound: fragments of a message
          MaxMsgs,    \* bound: messages sent
          Trees,      \* the source trees modelled, of "6.5" and "5.15"
          IpcMayFail  \* ishtp_write_message may find no IPC buffer

Contexts == Threads \cup {Isr}

ASSUME ContextsAssumption ==
    Isr \notin Threads /\ None \notin Contexts /\ IsFiniteSet(Threads)
ASSUME NoneAssumption   == None \notin Nat \X Nat \X BOOLEAN
ASSUME RingAssumption   == RingSize \in Nat
ASSUME BoundsAssumption == Window \in Nat /\ MaxFrags \in Nat \ {0} /\ MaxMsgs \in Nat
ASSUME SwitchAssumption == IpcMayFail \in BOOLEAN
ASSUME TreesAssumption  == Trees \subseteq {"6.5", "5.15"}

VARIABLES
    freeSize,   \* buffers in tx_free_list, which is tx_ring_free_size
    txList,     \* the messages in the buffers of tx_list
    creds,      \* ishtp_flow_ctrl_creds, an uint8_t
    sending,    \* sending
    offs,       \* tx_offs
    lock,       \* owner of tx_list_spinlock
    rem,        \* rem of each context's ipc_tx_send
    pc,         \* where each context is
    connected,  \* the client is connected and the device enabled
    tree,       \* the source tree
    hand,       \* 5.15: the fragment each context is about to write
    calls,      \* 5.15: fragments whose ipc_tx_callback is to come
    owed,       \* FCs the firmware may send now
    fcs,        \* history: FCs that became a credit
    sizes,      \* history: fragments of every message queued
    wire,       \* history: fragments that reached the IPC queue
    rewound,    \* history: tx_offs was reset in the middle of a message
    dropped,    \* history: a fragment found no IPC buffer
    crossed     \* history: 5.15: two contexts sent at a time

ringVars == <<freeSize, txList, sizes>>
sendVars == <<creds, sending, offs, lock, rem>>
fwVars   == <<owed, fcs, wire, dropped>>
oldVars  == <<tree, hand, calls, crossed>>
vars     == <<freeSize, txList, sizes, creds, sending, offs, lock, rem, pc, connected,
              owed, fcs, wire, rewound, dropped, oldVars>>

Goto(p, label) == pc' = [pc EXCEPT ![p] = label]
Queued == Len(sizes)

\* Bound: one fault in a behaviour, a dropped fragment or a disconnection.
NoFault == connected /\ ~dropped
-----------------------------------------------------------------------------
\* The client has just been connected: the firmware sends its first FC.
Init ==
    /\ freeSize = RingSize
    /\ txList = <<>>
    /\ creds = 0
    /\ sending = FALSE
    /\ offs = 0
    /\ lock = None
    /\ rem = [p \in Contexts |-> 0]
    /\ pc = [p \in Contexts |-> "idle"]
    /\ connected = TRUE
    /\ owed = Window
    /\ fcs = 0
    /\ sizes = <<>>
    /\ wire = <<>>
    /\ rewound = FALSE
    /\ dropped = FALSE
    /\ tree \in Trees
    /\ hand = [p \in Contexts |-> None]
    /\ calls = 0
    /\ crossed = FALSE

(***************************************************************************)
(* Plausible mistakes, each of which breaks a property below: a message    *)
(* queued without taking a buffer from the free list, a message sent       *)
(* without a credit, messages queued at the wrong end, and a sender that   *)
(* finds the list empty and leaves its message to the next FC.             *)
(***************************************************************************)
TakeNone(t) ==
    /\ connected
    /\ pc[t] = "idle"
    /\ Queued + Cardinality({q \in Threads : pc[q] = "queue"}) < MaxMsgs
    /\ Goto(t, "queue")
    /\ UNCHANGED <<ringVars, sendVars, connected, fwVars, rewound, oldVars>>

QueueFirst(t) ==
    /\ pc[t] = "queue"
    /\ lock = None
    /\ \E n \in 1 .. MaxFrags : sizes' = Append(sizes, n)
    /\ txList' = <<Queued + 1>> \o txList
    /\ Goto(t, IF txList = <<>> THEN "check" ELSE "idle")
    /\ UNCHANGED <<freeSize, sendVars, connected, fwVars, rewound, oldVars>>

MaySendUnpaid == txList # <<>>

CheckNothing(t) ==
    /\ pc[t] = "check"
    /\ Goto(t, "idle")
    /\ UNCHANGED <<ringVars, sendVars, connected, fwVars, rewound, oldVars>>

(***************************************************************************)
(* ishtp_cl_send: a free buffer is taken and filled, then queued; the list *)
(* was empty or somebody else will send the message.                       *)
(***************************************************************************)
SendTake(t) ==
    /\ connected
    /\ pc[t] = "idle"
    /\ Queued + Cardinality({q \in Threads : pc[q] = "queue"}) < MaxMsgs
    /\ freeSize > 0
    /\ freeSize' = freeSize - 1
    /\ Goto(t, "queue")
    /\ UNCHANGED <<txList, sizes, sendVars, connected, fwVars, rewound, oldVars>>

SendQueue(t) ==
    /\ pc[t] = "queue"
    /\ lock = None
    /\ \E n \in 1 .. MaxFrags : sizes' = Append(sizes, n)
    /\ txList' = Append(txList, Queued + 1)
    /\ Goto(t, IF txList = <<>> THEN "check" ELSE "idle")
    /\ UNCHANGED <<freeSize, sendVars, connected, fwVars, rewound, oldVars>>

SendCheck(t) ==
    /\ pc[t] = "check"
    /\ Goto(t, IF creds > 0 THEN "reset" ELSE "idle")
    /\ UNCHANGED <<ringVars, sendVars, connected, fwVars, rewound, oldVars>>

Send(t) == SendTake(t) \/ SendQueue(t) \/ SendCheck(t)

(***************************************************************************)
(* ishtp_cl_send_msg_ipc resets tx_offs before it calls ipc_tx_send, and   *)
(* without a lock.                                                         *)
(***************************************************************************)
MidMessage == sending /\ (tree = "6.5" => offs # 0)

TxReset(p) ==
    /\ pc[p] = "reset"
    /\ offs' = 0
    /\ rewound' = (rewound \/ MidMessage)
    /\ Goto(p, "tx")
    /\ UNCHANGED <<ringVars, creds, sending, lock, rem, connected, fwVars, oldVars>>

(***************************************************************************)
(* ipc_tx_send: with a credit, the message at the head of the list is cut  *)
(* into fragments that go to the IPC queue, all under tx_list_spinlock.    *)
(***************************************************************************)
MaySend == txList # <<>> /\ (creds = 1 \/ sending)

TxNothing(p) ==
    /\ pc[p] \in {"tx", "called"}
    /\ ~connected \/ (lock = None /\ ~MaySend)
    /\ Goto(p, "idle")
    /\ UNCHANGED <<ringVars, sendVars, connected, fwVars, rewound, oldVars>>

\* Bound: a 5.15 behaviour is followed until two contexts cross, and no further:
\* tx_offs then leaves the message, and the code sends whatever lies behind it.
Followed == tree = "5.15" => ~rewound /\ ~crossed

\* Another context is between two fragments, or about to write one, or left
\* tx_offs behind after this one had reset it.
Crossing(p) == \/ ~sending /\ offs # 0
               \/ calls > 0
               \/ \E q \in Contexts \ {p} : hand[q] # None \/ pc[q] = "called"

TxStart(p) ==
    /\ pc[p] \in {"tx", "called"}
    /\ connected
    /\ lock = None
    /\ MaySend
    /\ creds' = IF sending THEN creds ELSE (creds + 255) % 256
    /\ sending' = TRUE
    /\ Followed
    /\ lock' = p
    /\ rem' = [rem EXCEPT ![p] = sizes[Head(txList)] - offs]
    /\ Goto(p, "frag")
    /\ crossed' = (crossed \/ Crossing(p))
    /\ UNCHANGED <<ringVars, offs, connected, fwVars, rewound, tree, hand, calls>>

\* ishtp_write_message: nobody looks at its result.
Write(f) == \/ wire' = Append(wire, f) /\ UNCHANGED dropped
            \/ IpcMayFail /\ NoFault /\ dropped' = TRUE /\ UNCHANGED wire

Fragment(last) == <<Head(txList), offs + 1, last>>

TxPart(p) ==
    /\ tree = "6.5"
    /\ pc[p] = "frag"
    /\ rem[p] > 1
    /\ Write(Fragment(FALSE))
    /\ Goto(p, "advance")
    /\ UNCHANGED <<ringVars, sendVars, connected, owed, fcs, rewound, oldVars>>

TxAdvance(p) ==
    /\ pc[p] = "advance"
    /\ offs' = offs + 1
    /\ Goto(p, "rem")
    /\ UNCHANGED <<ringVars, creds, sending, lock, rem, connected, fwVars, rewound, oldVars>>

TxRem(p) ==
    /\ pc[p] = "rem"
    /\ rem' = [rem EXCEPT ![p] = sizes[Head(txList)] - offs]
    /\ Goto(p, "frag")
    /\ UNCHANGED <<ringVars, creds, sending, offs, lock, connected, fwVars, rewound, oldVars>>

\* The firmware may answer the last fragment with an FC at once.
TxLast(p) ==
    /\ tree = "6.5"
    /\ pc[p] = "frag"
    /\ rem[p] = 1
    /\ Write(Fragment(TRUE))
    /\ owed' = IF wire' = wire THEN owed ELSE owed + 1
    /\ Goto(p, "last")
    /\ UNCHANGED <<ringVars, sendVars, connected, fcs, rewound, oldVars>>

TxDone(p) ==
    /\ pc[p] = "last"
    /\ offs' = 0
    /\ sending' = FALSE
    /\ txList' = Tail(txList)
    /\ lock' = None
    /\ rem' = [rem EXCEPT ![p] = 0]
    /\ Goto(p, "free")
    /\ UNCHANGED <<freeSize, sizes, creds, connected, fwVars, rewound, oldVars>>

TxFree(p) ==
    /\ pc[p] = "free"
    /\ freeSize' = freeSize + 1
    /\ Goto(p, "idle")
    /\ UNCHANGED <<txList, sizes, sendVars, connected, fwVars, rewound, oldVars>>

(***************************************************************************)
(* What follows TxStart in ipc_tx_callback: one fragment.  The last one    *)
(* ends the message before it is written; tx_offs is left as it is.        *)
(***************************************************************************)
OldTake(p) ==
    /\ tree = "5.15"
    /\ pc[p] = "frag"
    /\ LET last == rem[p] = 1 IN
          /\ hand' = [hand EXCEPT ![p] = Fragment(last)]
          /\ sending' = ~last
          /\ txList' = IF last THEN Tail(txList) ELSE txList
          /\ Goto(p, IF last THEN "write" ELSE "oldAdvance")
    /\ lock' = None
    /\ rem' = [rem EXCEPT ![p] = 0]
    /\ UNCHANGED <<freeSize, sizes, creds, offs, connected, fwVars, rewound, tree, calls,
                   crossed>>

OldAdvance(p) ==
    /\ pc[p] = "oldAdvance"
    /\ offs' = offs + 1
    /\ Goto(p, "write")
    /\ UNCHANGED <<ringVars, creds, sending, lock, rem, connected, fwVars, rewound, oldVars>>

\* A fragment that finds no IPC buffer is never called back for.
OldWrite(p) ==
    /\ pc[p] = "write"
    /\ Write(hand[p])
    /\ owed' = IF hand[p][3] /\ wire' # wire THEN owed + 1 ELSE owed
    /\ calls' = IF ~hand[p][3] /\ wire' # wire THEN calls + 1 ELSE calls
    /\ Goto(p, IF hand[p][3] THEN "free" ELSE "idle")
    /\ hand' = [hand EXCEPT ![p] = None]
    /\ UNCHANGED <<ringVars, sendVars, connected, fcs, rewound, tree, crossed>>

\* write_ipc_from_queue wrote the fragment to the doorbell, in whatever
\* context: ipc_send_compl.
OldCallback(p) ==
    /\ pc[p] = "idle"
    /\ calls > 0
    /\ calls' = calls - 1
    /\ Goto(p, "called")
    /\ UNCHANGED <<ringVars, sendVars, connected, fwVars, rewound, tree, hand, crossed>>

Old(p) == OldTake(p) \/ OldAdvance(p) \/ OldWrite(p)

Tx(p) == \/ TxReset(p)
         \/ TxNothing(p)
         \/ TxStart(p)
         \/ TxPart(p)
         \/ TxAdvance(p)
         \/ TxRem(p)
         \/ TxLast(p)
         \/ TxDone(p)
         \/ TxFree(p)

(***************************************************************************)
(* recv_hbm for an FC: it becomes the client's credit, unless the client   *)
(* has one, and the interrupt sends what waits.                            *)
(***************************************************************************)
FcExtra ==
    /\ pc[Isr] = "idle"
    /\ owed > 0
    /\ creds # 0
    /\ owed' = owed - 1
    /\ UNCHANGED <<ringVars, sendVars, pc, connected, fcs, wire, dropped, rewound, oldVars>>

FcCredit ==
    /\ pc[Isr] = "idle"
    /\ owed > 0
    /\ creds = 0
    /\ owed' = owed - 1
    /\ creds' = 1
    /\ fcs' = fcs + 1
    /\ Goto(Isr, "look")
    /\ UNCHANGED <<ringVars, sending, offs, lock, rem, connected, wire, dropped, rewound, oldVars>>

FcLook ==
    /\ pc[Isr] = "look"
    /\ lock = None
    /\ Goto(Isr, IF txList = <<>> THEN "idle" ELSE "reset")
    /\ UNCHANGED <<ringVars, sendVars, connected, fwVars, rewound, oldVars>>

FlowControl == FcExtra \/ FcCredit \/ FcLook

\* A disconnect or a reset of the device: whatever waits is not sent.
Disconnect ==
    /\ NoFault
    /\ connected' = FALSE
    /\ UNCHANGED <<ringVars, sendVars, pc, fwVars, rewound, oldVars>>
-----------------------------------------------------------------------------
Next ==
    \/ FlowControl
    \/ \E t \in Threads : Send(t)
    \/ \E p \in Contexts : Tx(p) \/ Old(p) \/ OldCallback(p)
    \/ Disconnect

Spec == Init /\ [][Next]_vars

\* Every context runs on, and the firmware sends the FCs it may send.
Fairness == /\ WF_vars(FlowControl)
            /\ \A t \in Threads : WF_vars(SendQueue(t) \/ SendCheck(t))
            /\ \A p \in Contexts : WF_vars(Tx(p) \/ Old(p))
            /\ WF_vars(\E p \in Contexts : OldCallback(p))

FairSpec == Spec /\ Fairness
-----------------------------------------------------------------------------
TypeOK ==
    /\ freeSize \in Nat
    /\ txList \in Seq(Nat)
    /\ creds \in 0 .. 255
    /\ sending \in BOOLEAN
    /\ offs \in Nat
    /\ lock \in Contexts \cup {None}
    /\ rem \in [Contexts -> Int]
    /\ pc \in [Contexts -> {"idle", "queue", "check", "reset", "tx", "frag", "advance", "rem",
                            "last", "free", "look", "oldAdvance", "write", "called"}]
    /\ connected \in BOOLEAN
    /\ owed \in Nat
    /\ fcs \in Nat
    /\ sizes \in Seq(Nat)
    /\ wire \in Seq(Nat \X Nat \X BOOLEAN)
    /\ rewound \in BOOLEAN
    /\ dropped \in BOOLEAN
    /\ tree \in Trees
    /\ hand \in [Contexts -> (Nat \X Nat \X BOOLEAN) \cup {None}]
    /\ calls \in Nat
    /\ crossed \in BOOLEAN

(***************************************************************************)
(* No transmit buffer is lost or made up: every one is free, queued, or in *)
(* the hands of one context that moves it from one list to the other.      *)
(***************************************************************************)
Movers == {p \in Contexts : pc[p] \in {"queue", "free"} \/ (pc[p] = "write" /\ hand[p][3])}

TxBufsConserved == freeSize + Len(txList) + Cardinality(Movers) = RingSize

(***************************************************************************)
(* The host sends no message the firmware has not given it a credit for.   *)
(***************************************************************************)
Started == {wire[i][1] : i \in DOMAIN wire}

CreditPerMessage == Cardinality(Started) + creds <= fcs

(***************************************************************************)
(* The fragments reach the IPC queue message by message, in the order the  *)
(* messages were queued, each once and only the last marked as such,       *)
(* unless tx_offs was reset in the middle of a message, a fragment was     *)
(* dropped, or in the 5.15 tree two contexts sent at a time.               *)
(***************************************************************************)
IsFragment(f) == f[1] \in 1 .. Queued /\ f[2] \in 1 .. sizes[f[1]] /\ (f[3] <=> f[2] = sizes[f[1]])

After(f) == IF f[3] THEN <<f[1] + 1, 1>> ELSE <<f[1], f[2] + 1>>

FragmentsInOrder ==
    \A i \in DOMAIN wire :
        /\ IsFragment(wire[i])
        /\ <<wire[i][1], wire[i][2]>> = IF i = 1 THEN <<1, 1>> ELSE After(wire[i - 1])

FragmentsUnlessRewound == rewound \/ dropped \/ crossed \/ FragmentsInOrder

(***************************************************************************)
(* Every message that was queued is sent in the end if the client stays    *)
(* connected, no fragment is dropped and tx_offs is not disturbed: the     *)
(* sender that found the list busy, the interrupt that found it empty and, *)
(* in the 5.15 tree, the callback of the last fragment do not each leave   *)
(* the message to the other.                                               *)
(***************************************************************************)
Hindered == ~connected \/ rewound \/ dropped \/ crossed

EveryMessageSent ==
    <>[](Hindered \/ \A m \in 1 .. Queued : \E i \in DOMAIN wire : wire[i][1] = m /\ wire[i][3])
=============================================================================
