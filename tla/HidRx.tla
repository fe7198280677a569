------------------------------- MODULE HidRx -------------------------------
(***************************************************************************)
(* The receive path of the HID client (ishtp-hid-client.c): a ClientRx     *)
(* whose event_cb takes messages until none is left, and recycles each     *)
(* buffer as soon as it has processed its message.                         *)
(***************************************************************************)
EXTENDS ClientRx

CONSTANT Worker  \* the work queue context that calls event_cb

ASSUME WorkerAssumption == Worker \in Takers

VARIABLES inEventCb,  \* ish_cl_event_cb is running
          processed   \* history: messages process_recv has handled

hidVars == <<vars, inEventCb, processed>>

HidInit == Init /\ inEventCb = FALSE /\ processed = 0

\* A plausible mistake: a message processed without recycling its buffer.
EventDrops ==
    /\ held # {}
    /\ held' = {}
    /\ UNCHANGED <<fwVars, freeRbs, readList, inProcess, mine, content, creds, work, pc,
                   inEventCb, processed>>

HidEventStart ==
    /\ ~inEventCb
    /\ inEventCb' = TRUE
    /\ EventWork
    /\ UNCHANGED processed

EventTakes ==
    /\ inEventCb
    /\ held = {}
    /\ pc[Worker] = "idle"
    /\ GetRb
    /\ processed' = processed + 1
    /\ UNCHANGED inEventCb

EventRecycles ==
    /\ \E rb \in held : RecycleFree(Worker, rb)
    /\ UNCHANGED <<inEventCb, processed>>

EventDone ==
    /\ inEventCb
    /\ held = {}
    /\ pc[Worker] = "idle"
    /\ inProcess = <<>>
    /\ inEventCb' = FALSE
    /\ UNCHANGED <<vars, processed>>

HidEvent == HidEventStart \/ EventTakes \/ EventRecycles \/ EventDone

HidRecvStep == (Receive \/ FlowControlReq(Isr)) /\ UNCHANGED <<inEventCb, processed>>
CoreStep(p) == Core(p) /\ UNCHANGED <<inEventCb, processed>>

HidNext == HidRecvStep \/ HidEvent \/ \E p \in Takers : CoreStep(p)

HidSpec == HidInit /\ [][HidNext]_hidVars

\* The interrupt runs to its end and the scheduler runs every context; the
\* firmware, having been granted one, sends a next message as long as it has
\* one.
HidFairness == /\ WF_hidVars(HidRecvStep)
               /\ WF_hidVars(HidEvent)
               /\ \A p \in Takers : WF_hidVars(CoreStep(p))

HidFairSpec == HidSpec /\ HidFairness
-----------------------------------------------------------------------------
HidTypeOK == TypeOK /\ inEventCb \in BOOLEAN /\ processed \in Nat

(***************************************************************************)
(* A complete message is never left waiting: the event work is scheduled   *)
(* or the callback is still going to look at the list.  The interrupt may  *)
(* therefore schedule nothing when the list is not empty.                  *)
(***************************************************************************)
NoEventLost == inProcess # <<>> => work \/ inEventCb

(***************************************************************************)
(* Every message the firmware completes is processed, and the firmware is  *)
(* granted a next one again and again, so that all it has to say is said,  *)
(* unless a message came before its FC was counted.                        *)
(***************************************************************************)
AllProcessed == <>(processed = MaxMsgs \/ raced)
=============================================================================
