------------------------------ MODULE ClientRx ------------------------------
(***************************************************************************)
(* The receive side of one connected ISHTP client: the ring of read        *)
(* buffers (struct ishtp_cl_rb), the fragments the interrupt puts into     *)
(* them, the flow control (FC) that lets the firmware send one more        *)
(* message, and the drivers that take complete messages and recycle their  *)
(* buffers.                                                                *)
(*                                                                         *)
(* A driver is any set of contexts that take messages with                 *)
(* ishtp_cl_rx_get_rb and give them back with ishtp_cl_io_rb_recycle, in   *)
(* any order; HidRx and PseRx are two such drivers.  Steps are cut where   *)
(* the code releases a lock or touches out_flow_ctrl_creds without one.    *)
(*                                                                         *)
(* A fragment is the pair of its message's number and its place in it.     *)
(***************************************************************************)
EXTENDS Naturals, Sequences, FiniteSets, Functions

CONSTANTS Rbs,        \* the RX ring
          Takers,     \* contexts that recycle buffers, the one that connects included
          Opener,     \* the context in ishtp_cl_connect
          Isr,        \* the interrupt that receives
          None,       \* no buffer
          MaxFrags,   \* bound: fragments of a message
          Long,       \* bound: which messages may have more than one
          MaxMsgs,    \* bound: messages the firmware sends
          IpcMayFail  \* ishtp_write_message may find no IPC buffer

Contexts == Takers \cup {Isr}

ASSUME ContextsAssumption ==
    /\ IsFiniteSet(Takers)
    /\ Isr \notin Takers
    /\ Opener \in Takers
    /\ None \notin Rbs

ASSUME BoundsAssumption == MaxFrags \in Nat \ {0} /\ MaxMsgs \in Nat
ASSUME RingAssumption == Rbs # {}
ASSUME SwitchAssumption == IpcMayFail \in BOOLEAN

VARIABLES
    freeRbs,    \* free_rb_list: which buffers are in it
    readList,   \* the client's buffers in the read_list of the device
    inProcess,  \* in_process_list
    held,       \* buffers the driver took and did not recycle yet
    mine,       \* the buffer a context moves between two lists
    content,    \* the fragments in each buffer
    creds,      \* out_flow_ctrl_creds, an uint8_t
    work,       \* event_work of the client device is scheduled
    pc,         \* where each context is
    granted,    \* FCs the firmware was sent and has not answered completely
    sizes,      \* history: fragments of every message sent completely
    frag,       \* fragments sent of the message under way
    raced,      \* history: a message arrived before its FC was counted
    refused,    \* history: an FC found no IPC buffer
    undone      \* history: what the undoing of a read took (Undone)

hostVars == <<freeRbs, readList, inProcess, held, mine, content, creds, work, pc>>
fwVars   == <<granted, sizes, frag, raced, refused, undone>>
vars     == <<freeRbs, readList, inProcess, held, mine, content, creds, work, pc,
              granted, sizes, frag, raced, refused, undone>>

\* strayed: a buffer that was no longer in the read list; robbed: the one that
\* the firmware was filling.
Undone == {"strayed", "robbed"}

Goto(p, label) == pc' = [pc EXCEPT ![p] = label]

\* read_list_spinlock, which the interrupt holds across the whole reception,
\* and fc_spinlock, held from the look at the credit until it is counted.
ReadListLocked == pc[Isr] \in {"dec", "take", "fc", "count"}
FcLocked       == \E p \in Contexts : pc[p] = "count"

CredsPlus  == (creds + 1) % 256
CredsMinus == (creds + 255) % 256

Sent == Len(sizes)
-----------------------------------------------------------------------------
\* The client is connected, its rings are allocated, and ishtp_cl_connect
\* starts the first read.
Init ==
    /\ freeRbs = Rbs
    /\ readList = <<>>
    /\ inProcess = <<>>
    /\ held = {}
    /\ mine = [p \in Contexts |-> None]
    /\ content = [rb \in Rbs |-> <<>>]
    /\ creds = 0
    /\ work = FALSE
    /\ pc = [p \in Contexts |-> IF p = Opener THEN "start" ELSE "idle"]
    /\ granted = 0
    /\ sizes = <<>>
    /\ frag = 0
    /\ raced = FALSE
    /\ refused = FALSE
    /\ undone = {}

(***************************************************************************)
(* Plausible mistakes, each of which breaks a property below: the look at  *)
(* the credit left out, an FC with no buffer to receive into, a buffer     *)
(* that stays in the free list, the work scheduled when messages were      *)
(* waiting already, and a recycling that sends no FC.                      *)
(***************************************************************************)
FcWriteAgain(p) ==
    /\ pc[p] = "fc"
    /\ ~FcLocked
    /\ granted' = granted + 1
    /\ Goto(p, "count")
    /\ UNCHANGED <<freeRbs, readList, inProcess, held, mine, content, creds, work,
                   sizes, frag, raced, refused, undone>>

TakeAlwaysFc ==
    /\ pc[Isr] = "take"
    /\ \/ \E rb \in freeRbs :
             /\ freeRbs' = freeRbs \ {rb}
             /\ readList' = Append(readList, rb)
             /\ content' = [content EXCEPT ![rb] = <<>>]
       \/ freeRbs = {} /\ UNCHANGED <<freeRbs, readList, content>>
    /\ Goto(Isr, "fc")
    /\ UNCHANGED <<fwVars, inProcess, held, mine, creds, work>>

TakeLeavesFree ==
    /\ pc[Isr] = "take"
    /\ \/ \E rb \in freeRbs :
             /\ readList' = Append(readList, rb)
             /\ content' = [content EXCEPT ![rb] = <<>>]
             /\ Goto(Isr, "fc")
       \/ freeRbs = {} /\ Goto(Isr, "complete") /\ UNCHANGED <<readList, content>>
    /\ UNCHANGED <<fwVars, freeRbs, inProcess, held, mine, creds, work>>

CheckNothing(p) ==
    /\ pc[p] = "check"
    /\ Goto(p, "idle")
    /\ UNCHANGED <<fwVars, freeRbs, readList, inProcess, held, mine, content, creds, work>>

CompleteSchedulesLater ==
    /\ pc[Isr] = "complete"
    /\ inProcess' = Append(inProcess, mine[Isr])
    /\ work' = (work \/ inProcess # <<>>)
    /\ mine' = [mine EXCEPT ![Isr] = None]
    /\ Goto(Isr, "idle")
    /\ UNCHANGED <<fwVars, freeRbs, readList, held, content, creds>>

(***************************************************************************)
(* ishtp_hbm_cl_flow_control_req, called by a driver's read_start and by   *)
(* the interrupt.  The message is written, then the credit counted, both   *)
(* under fc_spinlock.  The interrupt ignores the result.                   *)
(***************************************************************************)
AfterFc(p) == IF p = Isr THEN "complete" ELSE "idle"

FcNotNeeded(p) ==
    /\ pc[p] = "fc"
    /\ ~FcLocked
    /\ creds # 0
    /\ Goto(p, AfterFc(p))
    /\ UNCHANGED <<fwVars, freeRbs, readList, inProcess, held, mine, content, creds, work>>

FcWrite(p) ==
    /\ pc[p] = "fc"
    /\ ~FcLocked
    /\ creds = 0
    /\ granted' = granted + 1
    /\ Goto(p, "count")
    /\ UNCHANGED <<freeRbs, readList, inProcess, held, mine, content, creds, work,
                   sizes, frag, raced, refused, undone>>

FcFail(p) ==
    /\ IpcMayFail
    /\ pc[p] = "fc"
    /\ ~FcLocked
    /\ creds = 0
    /\ refused' = TRUE
    /\ Goto(p, IF p = Isr THEN "complete" ELSE "undo")
    /\ UNCHANGED <<freeRbs, readList, inProcess, held, mine, content, creds, work,
                   granted, sizes, frag, raced, undone>>

FcCount(p) ==
    /\ pc[p] = "count"
    /\ creds' = CredsPlus
    /\ Goto(p, AfterFc(p))
    /\ UNCHANGED <<fwVars, freeRbs, readList, inProcess, held, mine, content, work>>

FlowControlReq(p) == FcNotNeeded(p) \/ FcWrite(p) \/ FcFail(p) \/ FcCount(p)

(***************************************************************************)
(* recv_ishtp_cl_msg for the fragment the firmware sends next: the buffer  *)
(* at the head of the read list takes it.  The last fragment of a message  *)
(* takes the buffer off the list and uses up the credit.                   *)
(***************************************************************************)
RecvFragment ==
    /\ pc[Isr] = "idle"
    /\ granted > 0
    /\ readList # <<>>
    /\ content' = [content EXCEPT ![Head(readList)] = Append(@, <<Sent + 1, frag + 1>>)]

RecvPart ==
    /\ RecvFragment
    /\ frag + 1 < MaxFrags /\ Sent + 1 \in Long
    /\ Sent < MaxMsgs
    /\ frag' = frag + 1
    /\ UNCHANGED <<freeRbs, readList, inProcess, held, mine, creds, work, pc, granted, sizes,
                   raced, refused, undone>>

RecvLast ==
    /\ RecvFragment
    /\ Sent < MaxMsgs
    /\ frag' = 0
    /\ sizes' = Append(sizes, frag + 1)
    /\ granted' = granted - 1
    /\ raced' = (raced \/ FcLocked)
    /\ readList' = Tail(readList)
    /\ mine' = [mine EXCEPT ![Isr] = Head(readList)]
    /\ Goto(Isr, "dec")
    /\ UNCHANGED <<freeRbs, inProcess, held, creds, work, refused, undone>>

\* recv_ishtp_cl_msg_dma: a message over DMA arrives in one piece.
RecvDma == frag = 0 /\ RecvLast

\* --cl->out_flow_ctrl_creds, without fc_spinlock.
RecvDec ==
    /\ pc[Isr] = "dec"
    /\ creds' = CredsMinus
    /\ Goto(Isr, "take")
    /\ UNCHANGED <<fwVars, freeRbs, readList, inProcess, held, mine, content, work>>

\* The interrupt decrements the counter while another CPU increments it: one
\* of the two updates is lost.
RecvDecTorn ==
    \E p \in Takers :
        /\ pc[Isr] = "dec"
        /\ pc[p] = "count"
        /\ creds' \in {CredsPlus, CredsMinus}
        /\ pc' = [pc EXCEPT ![Isr] = "take", ![p] = "idle"]
        /\ UNCHANGED <<fwVars, freeRbs, readList, inProcess, held, mine, content, work>>

\* A free buffer, if there is one, waits for the next message.
RecvTake ==
    /\ pc[Isr] = "take"
    /\ \/ \E rb \in freeRbs :
             /\ freeRbs' = freeRbs \ {rb}
             /\ readList' = Append(readList, rb)
             /\ content' = [content EXCEPT ![rb] = <<>>]
             /\ Goto(Isr, "fc")
       \/ /\ freeRbs = {}
          /\ Goto(Isr, "complete")
          /\ UNCHANGED <<freeRbs, readList, content>>
    /\ UNCHANGED <<fwVars, inProcess, held, mine, creds, work>>

\* ishtp_cl_read_complete: only the first message of an empty list schedules
\* the work that calls event_cb.
ReadComplete ==
    /\ pc[Isr] = "complete"
    /\ inProcess' = Append(inProcess, mine[Isr])
    /\ work' = (work \/ inProcess = <<>>)
    /\ mine' = [mine EXCEPT ![Isr] = None]
    /\ Goto(Isr, "idle")
    /\ UNCHANGED <<fwVars, freeRbs, readList, held, content, creds>>

Receive == RecvPart \/ RecvLast \/ RecvDma \/ RecvDec \/ RecvDecTorn \/ RecvTake \/ ReadComplete

(***************************************************************************)
(* ishtp_cl_io_rb_recycle: the buffer goes to the free list; the credit is *)
(* looked at after the lock is released.                                   *)
(***************************************************************************)
RecycleFree(p, rb) ==
    /\ pc[p] = "idle"
    /\ rb \in held
    /\ held' = held \ {rb}
    /\ freeRbs' = freeRbs \cup {rb}
    /\ Goto(p, "check")
    /\ UNCHANGED <<fwVars, readList, inProcess, mine, content, creds, work>>

RecycleCheck(p) ==
    /\ pc[p] = "check"
    /\ Goto(p, IF creds = 0 THEN "start" ELSE "idle")
    /\ UNCHANGED <<fwVars, freeRbs, readList, inProcess, held, mine, content, creds, work>>

(***************************************************************************)
(* ishtp_cl_read_start                                                     *)
(***************************************************************************)
ReadStartEmpty(p) ==
    /\ pc[p] = "start"
    /\ freeRbs = {}
    /\ Goto(p, "idle")
    /\ UNCHANGED <<fwVars, freeRbs, readList, inProcess, held, mine, content, creds, work>>

ReadStartTake(p) ==
    /\ pc[p] = "start"
    /\ \E rb \in freeRbs :
          /\ freeRbs' = freeRbs \ {rb}
          /\ mine' = [mine EXCEPT ![p] = rb]
          /\ content' = [content EXCEPT ![rb] = <<>>]
    /\ Goto(p, "list")
    /\ UNCHANGED <<fwVars, readList, inProcess, held, creds, work>>

ReadStartList(p) ==
    /\ pc[p] = "list"
    /\ ~ReadListLocked
    /\ readList' = Append(readList, mine[p])
    /\ Goto(p, "fc")
    /\ UNCHANGED <<fwVars, freeRbs, inProcess, held, mine, content, creds, work>>

\* The FC failed: list_del takes the buffer off whatever list it is in by then,
\* and it goes back to the free list.  Another context's FC may have let the
\* firmware use it in the meantime: from there on the lists are not sound.
Without(s, rb) ==
    IF rb \notin Range(s) THEN s
    ELSE LET i == CHOOSE j \in DOMAIN s : s[j] = rb
         IN  [j \in 1 .. Len(s) - 1 |-> IF j < i THEN s[j] ELSE s[j + 1]]

Strays(p) == mine[p] \notin Range(readList)
Robs(p)   == frag > 0 /\ readList # <<>> /\ Head(readList) = mine[p]

ReadStartUndo(p) ==
    /\ pc[p] = "undo"
    /\ ~ReadListLocked
    /\ readList' = Without(readList, mine[p])
    /\ inProcess' = Without(inProcess, mine[p])
    /\ freeRbs' = freeRbs \ {mine[p]}
    /\ undone' = undone \cup (IF Strays(p) THEN {"strayed"} ELSE {})
                         \cup (IF Robs(p) THEN {"robbed"} ELSE {})
    /\ Goto(p, "free")
    /\ UNCHANGED <<held, mine, content, creds, work, granted, sizes, frag, raced, refused>>

ReadStartFree(p) ==
    /\ pc[p] = "free"
    /\ freeRbs' = freeRbs \cup {mine[p]}
    /\ Goto(p, "idle")
    /\ UNCHANGED <<fwVars, readList, inProcess, held, mine, content, creds, work>>

ReadStart(p) == \/ ReadStartEmpty(p)
                \/ ReadStartTake(p)
                \/ ReadStartList(p)
                \/ FlowControlReq(p)
                \/ ReadStartUndo(p)
                \/ ReadStartFree(p)

(***************************************************************************)
(* The driver: its event_cb runs when the work is scheduled, and           *)
(* ishtp_cl_rx_get_rb gives it the oldest complete message.                *)
(***************************************************************************)
EventWork ==
    /\ work
    /\ work' = FALSE
    /\ UNCHANGED <<fwVars, freeRbs, readList, inProcess, held, mine, content, creds, pc>>

GetRb ==
    /\ inProcess # <<>>
    /\ inProcess' = Tail(inProcess)
    /\ held' = held \cup {Head(inProcess)}
    /\ UNCHANGED <<fwVars, freeRbs, readList, mine, content, creds, work, pc>>
-----------------------------------------------------------------------------
Core(p) == RecycleCheck(p) \/ ReadStart(p)

Next ==
    \/ Receive
    \/ FlowControlReq(Isr)
    \/ \E p \in Takers : Core(p)
    \/ \E p \in Takers, rb \in Rbs : RecycleFree(p, rb)
    \/ EventWork
    \/ GetRb

Spec == Init /\ [][Next]_vars
-----------------------------------------------------------------------------
TypeOK ==
    /\ freeRbs \in SUBSET Rbs
    /\ readList \in Seq(Rbs)
    /\ inProcess \in Seq(Rbs)
    /\ held \in SUBSET Rbs
    /\ mine \in [Contexts -> Rbs \cup {None}]
    /\ content \in [Rbs -> Seq(Nat \X Nat)]
    /\ creds \in 0 .. 255
    /\ work \in BOOLEAN
    /\ pc \in [Contexts -> {"idle", "check", "start", "list", "fc", "count", "undo",
                            "free", "dec", "take", "complete"}]
    /\ granted \in Nat
    /\ sizes \in Seq(Nat)
    /\ frag \in Nat
    /\ raced \in BOOLEAN
    /\ refused \in BOOLEAN
    /\ undone \in SUBSET Undone

(***************************************************************************)
(* No read buffer is lost, freed twice or in two lists: every buffer is in *)
(* exactly one of the three lists, the driver's hands and the hands of the *)
(* contexts that move one.  Not so once the undoing of a read, whose FC    *)
(* was refused, took a buffer that was no longer in the read list, because *)
(* another context's FC had let the firmware use it (strayed).             *)
(***************************************************************************)
Carries(p) == pc[p] \in {"list", "free"} \/ (p = Isr /\ pc[p] # "idle")
InHand     == {mine[p] : p \in {q \in Contexts : Carries(q)}}

Conserved ==
    /\ freeRbs \cup Range(readList) \cup Range(inProcess) \cup held \cup InHand = Rbs
    /\ freeRbs \cap (Range(readList) \cup Range(inProcess) \cup held \cup InHand) = {}
    /\ Range(readList) \cap (Range(inProcess) \cup held \cup InHand) = {}
    /\ Range(inProcess) \cap (held \cup InHand) = {}
    /\ held \cap InHand = {}
    /\ IsInjective(readList)
    /\ IsInjective(inProcess)
    /\ \A p, q \in Contexts : Carries(p) /\ Carries(q) /\ mine[p] = mine[q] => p = q

RbsConserved == "strayed" \notin undone => Conserved

(***************************************************************************)
(* The single-FC protocol: the host never grants the firmware a second     *)
(* message before the first one arrived completely, although drivers and   *)
(* the interrupt both send FCs.                                            *)
(***************************************************************************)
SingleFc == granted <= 1

(***************************************************************************)
(* While the firmware may send, a buffer waits for it, and no message is   *)
(* dropped for want of a request, although a refused FC takes buffers back *)
(* from the read list while others are granted: never more than were put   *)
(* there for it, as long as the lists are sound (strayed).                 *)
(***************************************************************************)
GrantHasBuffer == "strayed" \notin undone /\ granted > 0 => readList # <<>>

(***************************************************************************)
(* The counter of credits tells the truth whenever nobody is about to      *)
(* change it, unless a message came before its FC was counted.  The        *)
(* interrupt decrements the counter without fc_spinlock, so everything     *)
(* depends on the answer not coming in that short time.                    *)
(***************************************************************************)
CredsTruthful == ~raced /\ ~FcLocked /\ pc[Isr] # "dec" => creds = granted

(***************************************************************************)
(* Communication never dries up: when no context is sending an FC, either  *)
(* the firmware has been granted a message or no buffer is free and the    *)
(* driver has one whose recycling will grant it.                           *)
(***************************************************************************)
Quiet == \A p \in Contexts : pc[p] = "idle"

NeverDry == Quiet /\ granted = 0 => freeRbs = {} /\ held \cup Range(inProcess) # {}

(***************************************************************************)
(* It holds, unless a message came before its FC was counted or an FC was  *)
(* refused: neither is made good later.                                    *)
(***************************************************************************)
NeverDryUnlessHindered == raced \/ refused \/ NeverDry

(***************************************************************************)
(* Whatever a driver (HidRx, PseRx) does to the buffers is what GetRb and  *)
(* RecycleFree allow any driver.                                           *)
(***************************************************************************)
ImplementsClientRx == Spec
=============================================================================
