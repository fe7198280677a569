------------------------------ MODULE IpcQueue ------------------------------
(***************************************************************************)
(* The transmit side of the IPC link (ipc/ipc.c): the pool of message      *)
(* buffers, the list of messages that wait for the doorbell, the threads   *)
(* that queue messages and then try to write the first one to the device,  *)
(* the interrupt that continues when the firmware has read a message, and  *)
(* the work item that empties the list when the firmware resets.           *)
(*                                                                         *)
(* write_ipc_to_queue queues a message in one critical section and drains  *)
(* in another; every step of a thread between two critical sections is an  *)
(* action of its own here, so that all their interleavings are explored.   *)
(*                                                                         *)
(* A message is its number in the order of acceptance.  "accepted" records *)
(* for each the reset epoch of the firmware in which it was accepted.      *)
(***************************************************************************)
EXTENDS Naturals, Sequences, FiniteSets

CONSTANTS Threads,   \* contexts that send: fops, driver callbacks, work items
          Irq,       \* the interrupt handler of the device
          Worker,    \* fw_reset_work
          Buffers,   \* the struct wr_msg_ctl_info allocated by ish_dev_init
          MaxSends,  \* bound: messages accepted before senders stop
          MaxResets  \* bound: resets of the firmware

Procs == Threads \cup {Irq, Worker}

ASSUME ProcsAssumption ==
    /\ Irq \notin Threads
    /\ Worker \notin Threads
    /\ Irq # Worker

ASSUME BuffersAssumption == IsFiniteSet(Buffers)

VARIABLES
    free,        \* wr_free_list: which buffers are in it
    processing,  \* wr_processing_list
    content,     \* the message each buffer holds, 0 for none yet
    doorbell,    \* message in HOST2ISH_MSG while its busy bit is set, else 0
    rxCmpl,      \* MNG_RX_CMPL_INDICATIONs the firmware owes the host
    notify,      \* the firmware raised MNG_RESET_NOTIFY
    resetWork,   \* fw_reset_work is scheduled
    disabled,    \* dev_state = ISHTP_DEV_DISABLED
    pc,          \* where each context is in the functions below
    resetId,     \* reset_id of ish_fw_reset_handler
    ackLost,     \* history: RESET_NOTIFY_ACK found no free buffer
    accepted,    \* history: reset epoch of every message accepted
    epoch,       \* how often the firmware has reset
    lastRead     \* message the firmware read last, 0 if none

hostVars == <<free, processing, content>>
fwVars   == <<rxCmpl, notify, epoch, lastRead>>
vars == <<free, processing, content, doorbell, rxCmpl, notify, resetWork,
          disabled, pc, resetId, ackLost, accepted, epoch, lastRead>>

Goto(p, label) == pc' = [pc EXCEPT ![p] = label]

\* The messages that wait in wr_processing_list, first one first.
Waiting == [i \in DOMAIN processing |-> content[processing[i]]]
-----------------------------------------------------------------------------
Init ==
    /\ free = Buffers
    /\ processing = <<>>
    /\ content = [b \in Buffers |-> 0]
    /\ doorbell = 0
    /\ rxCmpl = 0
    /\ notify = FALSE
    /\ resetWork = FALSE
    /\ disabled = FALSE
    /\ pc = [p \in Procs |-> "idle"]
    /\ resetId = 0
    /\ ackLost = FALSE
    /\ accepted = <<>>
    /\ epoch = 0
    /\ lastRead = 0

(***************************************************************************)
(* Plausible mistakes in the code, each of which breaks a property below:  *)
(* the doorbell not checked, an interrupt that only wakes sleepers, the    *)
(* splice that forgets the free list, and the wait for the input whose     *)
(* timeout is ignored.                                                     *)
(***************************************************************************)
DrainUnchecked(p) ==
    /\ pc[p] = "lock"
    /\ processing # <<>>
    /\ doorbell' = content[Head(processing)]
    /\ processing' = Tail(processing)
    /\ free' = free \cup {Head(processing)}
    /\ Goto(p, "idle")
    /\ UNCHANGED <<fwVars, content, resetWork, disabled, resetId, ackLost, accepted>>

IrqOnlyWakes ==
    /\ pc[Irq] = "idle"
    /\ ~disabled
    /\ rxCmpl > 0
    /\ rxCmpl' = rxCmpl - 1
    /\ UNCHANGED <<hostVars, doorbell, notify, resetWork, disabled, pc, resetId,
                   ackLost, accepted, epoch, lastRead>>

SpliceForgets ==
    /\ pc[Worker] = "splice"
    /\ processing' = <<>>
    /\ Goto(Worker, "handler")
    /\ UNCHANGED <<fwVars, free, content, doorbell, resetWork, disabled, resetId,
                   ackLost, accepted>>

AckUnready ==
    /\ pc[Worker] = "wait"
    /\ Goto(Worker, "ack")
    /\ UNCHANGED <<hostVars, fwVars, doorbell, resetWork, disabled, resetId,
                   ackLost, accepted>>

(***************************************************************************)
(* write_ipc_to_queue, first critical section: a buffer of the free list   *)
(* takes the message and goes to the end of the processing list.  The      *)
(* caller then drains the list in a second critical section.               *)
(***************************************************************************)
Enqueue(p) ==
    \E b \in free :
        /\ free' = free \ {b}
        /\ processing' = Append(processing, b)
        /\ accepted' = Append(accepted, epoch)
        /\ content' = [content EXCEPT ![b] = Len(accepted')]
        /\ Goto(p, "drain")

Send(t) ==
    /\ pc[t] = "idle"
    /\ Len(accepted) < MaxSends
    /\ Enqueue(t)
    /\ UNCHANGED <<doorbell, rxCmpl, notify, resetWork, disabled, resetId,
                   ackLost, epoch, lastRead>>

(***************************************************************************)
(* write_ipc_from_queue.  The device state is read before the lock is      *)
(* taken.                                                                  *)
(***************************************************************************)
DrainStart(p) ==
    /\ pc[p] = "drain"
    /\ Goto(p, IF disabled THEN "idle" ELSE "lock")
    /\ UNCHANGED <<hostVars, fwVars, doorbell, resetWork, disabled, resetId,
                   ackLost, accepted>>

\* -EBUSY while the doorbell is busy, and nothing to do on an empty list.
DrainNothing(p) ==
    /\ pc[p] = "lock"
    /\ doorbell # 0 \/ processing = <<>>
    /\ Goto(p, "idle")
    /\ UNCHANGED <<hostVars, fwVars, doorbell, resetWork, disabled, resetId,
                   ackLost, accepted>>

DrainWrite(p) ==
    /\ pc[p] = "lock"
    /\ doorbell = 0
    /\ processing # <<>>
    /\ doorbell' = content[Head(processing)]
    /\ processing' = Tail(processing)
    /\ free' = free \cup {Head(processing)}
    /\ Goto(p, "idle")
    /\ UNCHANGED <<fwVars, content, resetWork, disabled, resetId, ackLost, accepted>>

(***************************************************************************)
(* The firmware (external): it reads a message, clears the busy bit and    *)
(* signals that it did; or it restarts, forgets the signals it owed, and   *)
(* notifies the host.                                                      *)
(***************************************************************************)
FwRead ==
    /\ doorbell # 0
    /\ lastRead' = doorbell
    /\ doorbell' = 0
    /\ rxCmpl' = rxCmpl + 1
    /\ UNCHANGED <<hostVars, notify, resetWork, disabled, pc, resetId,
                   ackLost, accepted, epoch>>

FwReset ==
    /\ epoch < MaxResets
    /\ epoch' = epoch + 1
    /\ rxCmpl' = 0
    /\ notify' = TRUE
    /\ doorbell' \in {doorbell, 0}
    /\ UNCHANGED <<hostVars, resetWork, disabled, pc, resetId, ackLost,
                   accepted, lastRead>>

(***************************************************************************)
(* ish_irq_handler, recv_ipc: nothing is handled while disabled.           *)
(***************************************************************************)
IrqRxCmpl ==
    /\ pc[Irq] = "idle"
    /\ ~disabled
    /\ rxCmpl > 0
    /\ rxCmpl' = rxCmpl - 1
    /\ Goto(Irq, "drain")
    /\ UNCHANGED <<hostVars, doorbell, notify, resetWork, disabled, resetId,
                   ackLost, accepted, epoch, lastRead>>

IrqResetNotify ==
    /\ pc[Irq] = "idle"
    /\ ~disabled
    /\ notify
    /\ notify' = FALSE
    /\ resetWork' = TRUE
    /\ UNCHANGED <<hostVars, doorbell, rxCmpl, disabled, pc, resetId,
                   ackLost, accepted, epoch, lastRead>>

(***************************************************************************)
(* fw_reset_work_fn, ish_fw_reset_handler.                                 *)
(***************************************************************************)
ResetStart ==
    /\ pc[Worker] = "idle"
    /\ resetWork
    /\ resetWork' = FALSE
    /\ resetId' = epoch
    /\ Goto(Worker, "splice")
    /\ UNCHANGED <<hostVars, fwVars, doorbell, disabled, ackLost, accepted>>

\* list_splice_init(&dev->wr_processing_list, &dev->wr_free_list)
ResetSplice ==
    /\ pc[Worker] = "splice"
    /\ free' = free \cup {processing[i] : i \in DOMAIN processing}
    /\ processing' = <<>>
    /\ Goto(Worker, "handler")
    /\ UNCHANGED <<fwVars, content, doorbell, resetWork, disabled, resetId,
                   ackLost, accepted>>

\* ishtp_reset_handler sets dev_state = ISHTP_DEV_RESETTING whatever it was.
ResetHandler ==
    /\ pc[Worker] = "handler"
    /\ disabled' = FALSE
    /\ Goto(Worker, "wait")
    /\ UNCHANGED <<hostVars, fwVars, doorbell, resetWork, resetId, ackLost,
                   accepted>>

\* timed_wait_for_timeout(WAIT_FOR_INPUT_RDY) and the check after it: the
\* doorbell is seen clear, or the wait times out and the reset fails (-EPIPE).
ResetInputReady ==
    /\ pc[Worker] = "wait"
    /\ Goto(Worker, IF doorbell = 0 THEN "ack" ELSE "idle")
    /\ UNCHANGED <<hostVars, fwVars, doorbell, resetWork, disabled, resetId,
                   ackLost, accepted>>

\* ipc_send_mng_msg(MNG_RESET_NOTIFY_ACK); its result is not looked at.
ResetAck ==
    /\ pc[Worker] = "ack"
    /\ \/ /\ Enqueue(Worker)
          /\ UNCHANGED ackLost
       \/ /\ free = {}
          /\ ackLost' = TRUE
          /\ Goto(Worker, "idle")
          /\ UNCHANGED <<hostVars, accepted>>
    /\ UNCHANGED <<fwVars, doorbell, resetWork, disabled, resetId>>

\* ish_device_disable, and the error path of ishtp_start.
Disable ==
    /\ ~disabled
    /\ disabled' = TRUE
    /\ UNCHANGED <<hostVars, fwVars, doorbell, resetWork, pc, resetId,
                   ackLost, accepted>>
-----------------------------------------------------------------------------
Drain(p) == DrainStart(p) \/ DrainNothing(p) \/ DrainWrite(p)

Reset == \/ ResetStart
         \/ ResetSplice
         \/ ResetHandler
         \/ ResetInputReady
         \/ ResetAck

Next ==
    \/ \E t \in Threads : Send(t)
    \/ \E p \in Procs : Drain(p)
    \/ FwRead
    \/ FwReset
    \/ IrqRxCmpl
    \/ IrqResetNotify
    \/ Reset
    \/ Disable

Spec == Init /\ [][Next]_vars

\* The scheduler runs every context that can run, an interrupt that is
\* raised is taken, and a live firmware reads what the doorbell announces.
Fairness ==
    /\ \A p \in Procs : WF_vars(Drain(p))
    /\ WF_vars(FwRead)
    /\ WF_vars(IrqRxCmpl)
    /\ WF_vars(IrqResetNotify)
    /\ WF_vars(Reset)

FairSpec == Spec /\ Fairness
-----------------------------------------------------------------------------
(***************************************************************************)
(* The types of the variables.                                             *)
(***************************************************************************)
Labels == {"idle", "drain", "lock", "splice", "handler", "wait", "ack"}

TypeOK ==
    /\ free \in SUBSET Buffers
    /\ processing \in Seq(Buffers)
    /\ accepted \in Seq(Nat)
    /\ content \in [Buffers -> Nat]
    /\ doorbell \in Nat
    /\ rxCmpl \in Nat
    /\ notify \in BOOLEAN
    /\ resetWork \in BOOLEAN
    /\ disabled \in BOOLEAN
    /\ pc \in [Procs -> Labels]
    /\ resetId \in Nat
    /\ ackLost \in BOOLEAN
    /\ epoch \in Nat
    /\ lastRead \in Nat

(***************************************************************************)
(* Every buffer is in exactly one of the two lists, once: none is lost and *)
(* none is queued twice, whatever thread, interrupt and reset do to the    *)
(* lists.                                                                  *)
(***************************************************************************)
BuffersConserved ==
    /\ free = Buffers \ {processing[i] : i \in DOMAIN processing}
    /\ \A i, j \in DOMAIN processing : processing[i] = processing[j] => i = j

(***************************************************************************)
(* The firmware sees messages in the order in which they were accepted     *)
(* and never twice: what it read last precedes what the doorbell holds,    *)
(* which precedes what waits, in order.                                    *)
(***************************************************************************)
InOrder ==
    /\ \A i, j \in DOMAIN processing : i < j => Waiting[i] < Waiting[j]
    /\ \A i \in DOMAIN processing : Waiting[i] > lastRead /\ Waiting[i] > doorbell
    /\ doorbell # 0 => doorbell > lastRead

(***************************************************************************)
(* No lost wakeup: when a message waits, the doorbell is busy (so that a   *)
(* RX_CMPL will come), or one is on its way, or a context is about to look *)
(* at the list, or a reset is going to.  This is why write_ipc_to_queue    *)
(* may leave the list alone when it finds the doorbell busy.  It must hold *)
(* although the device state is read outside the lock and a reset clears   *)
(* ISHTP_DEV_DISABLED behind the sender's back.  The one exception: the    *)
(* device was disabled, senders used up the pool without draining it, and  *)
(* the acknowledgement of the reset that re-enables the device finds no    *)
(* buffer; see ResetAcknowledged.                                          *)
(***************************************************************************)
SomeoneDrains ==
    \/ doorbell # 0
    \/ rxCmpl > 0
    \/ \E p \in Procs : pc[p] \in {"drain", "lock"}
    \/ notify
    \/ resetWork
    \/ pc[Worker] # "idle"

NoLostWakeup == processing # <<>> => disabled \/ ackLost \/ SomeoneDrains

(***************************************************************************)
(* The doorbell is never rung over a message the firmware has not read.    *)
(***************************************************************************)
DoorbellNotOverwritten == [][doorbell' # doorbell => doorbell = 0 \/ doorbell' = 0]_vars

(***************************************************************************)
(* When the host acknowledges a reset, nothing that was accepted before    *)
(* that reset can reach the restarted firmware any more: the list was      *)
(* emptied and the doorbell has been seen clear.                           *)
(***************************************************************************)
EpochOf(m) == accepted[m]

NoStaleAtAck ==
    pc[Worker] = "ack" =>
        /\ doorbell # 0 => EpochOf(doorbell) >= resetId
        /\ \A i \in DOMAIN processing : EpochOf(Waiting[i]) >= resetId

(***************************************************************************)
(* A message that waits is eventually written to the device or dropped by  *)
(* a reset, unless the device is disabled or the reset's acknowledgement   *)
(* was lost.                                                               *)
(***************************************************************************)
Queued(m) == \E i \in DOMAIN processing : Waiting[i] = m

QueueDrains == \A m \in 1 .. (MaxSends + MaxResets) : (Queued(m) ~> ~Queued(m) \/ disabled \/ ackLost)

(***************************************************************************)
(* Once the input of the firmware is ready, RESET_NOTIFY_ACK is sent.      *)
(***************************************************************************)
ResetAcknowledged == ~ackLost

(***************************************************************************)
(* The queue implements the reliable channel of IpcChannel.                *)
(***************************************************************************)
Channel == INSTANCE IpcChannel WITH
    queue <- (IF doorbell = 0 THEN <<>> ELSE <<doorbell>>) \o Waiting,
    count <- Len(accepted),
    resetting <- notify \/ resetWork \/ pc[Worker] = "splice"

ImplementsChannel == Channel!Spec
=============================================================================
