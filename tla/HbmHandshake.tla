----------------------------- MODULE HbmHandshake -----------------------------
(***************************************************************************)
(* From a firmware that boots to a bus with one device per client: the     *)
(* reset work (ipc.c, bus.c), the handshake of bus messages (hbm.c), and   *)
(* the thread that probes or resumes and waits for both (init.c).          *)
(*                                                                         *)
(* The interrupt puts an answer into rd_msg_fifo and schedules             *)
(* bh_hbm_work, which handles one message per run.  The reset work does    *)
(* not wait for it: it clears the fifo and frees dev->fw_clients whatever  *)
(* the bottom half is doing.  bh is the message it is at, or what is left  *)
(* of its dispatch.  Messages to the firmware keep their order and are     *)
(* dropped by the reset work, as IpcChannel promises.                      *)
(***************************************************************************)
EXTENDS Integers, Sequences, FiniteSets

CONSTANTS
    Clients,    \* addresses the firmware's clients may have
    Kept,       \* those whose driver holds a reference on the device
    FifoSize,   \* RD_INT_FIFO_SIZE, one entry of which stays empty
    MaxResets,  \* bound: resets the firmware makes by itself, and resumes
    MaxFaults   \* bound: failures, refusals and unsolicited messages

ASSUME ClientsAssumption == Clients \subseteq Nat \ {0} /\ IsFiniteSet(Clients)
ASSUME KeptAssumption == Kept \subseteq Clients
ASSUME FifoAssumption == FifoSize \in Nat /\ FifoSize > 1
ASSUME BoundAssumption == MaxResets \in Nat /\ MaxFaults \in Nat

VARIABLES
    devState, hbmState,  \* dev_state and hbm_state
    fifo, queued, bh,    \* rd_msg_fifo, bh_hbm_work pending, its progress
    map, table,          \* fw_clients_map, and client_id of each fw_clients
    index, pres,         \* fw_client_index, fw_client_presentation_num
    device,              \* fw_client of the bus device of each client
    unadded,             \* history: the clients the last enumeration added no device for
    rst, rstQueued,      \* the reset work, and whether it is pending
    starter, hwReady,    \* ish_init, and recvd_hw_ready it waits for
    fw, toFw,            \* firmware (external) and the messages on their way
    resets, faults,      \* what is left of the bounds
    seen                 \* history: which of Marks happened

states  == <<devState, hbmState>>
bhVars  == <<fifo, queued, bh>>
tabVars == <<map, table, index, pres>>
rstVars == <<rst, rstQueued>>
init    == <<starter, hwReady>>
fwVars  == <<fw, toFw>>
history == <<resets, faults, seen>>
vars    == <<states, bhVars, tabVars, device, unadded, rstVars, init, fwVars, history>>

Order == [IDLE |-> 0, START |-> 1, STARTED |-> 2, ENUM_CLIENTS |-> 3,
          CLIENT_PROPERTIES |-> 4, WORKING |-> 5, STOPPED |-> 6]

\* served: a start response was accepted; resumed: ish_init ran again;
\* hindered: something happened that nobody repairs; overtaken: a reset began
\* in the middle of a dispatch; oops: fw_clients was used, and it was NULL.
Marks == {"served", "resumed", "hindered", "overtaken", "oops"}

Msg(cmd, arg) == [cmd |-> cmd, arg |-> arg]
Idle == Msg("none", 0)
At(cmd) == bh.cmd = cmd
Done == bh' = Idle
See(marks) == seen' = seen \cup marks
SeeIf(P, mark) == See(IF P THEN {mark} ELSE {})
Fault == faults > 0 /\ faults' = faults - 1

BegunEarly(h) == Order[h] >= Order["START"]  \* mistake: the comparison is off by one

Begun(h) == Order[h] > Order["START"]

\* find_next_bit over fw_clients_map
Following(i) == {c \in map : c >= i}
First(S) == CHOOSE c \in S : \A d \in S : c <= d
-----------------------------------------------------------------------------
Init ==
    /\ devState = "INITIALIZING" /\ hbmState = "IDLE"
    /\ fifo = <<>> /\ queued = FALSE /\ bh = Idle
    /\ map = {} /\ table = <<>> /\ index = 0 /\ pres = 0
    /\ device = [c \in Clients |-> "none"] /\ unadded = {}
    /\ rst = "idle" /\ rstQueued = FALSE
    /\ starter = "hw" /\ hwReady = FALSE
    /\ fw = "down" /\ toFw = <<>>
    /\ resets = MaxResets /\ faults = MaxFaults /\ seen = {}

\* ishtp_write_message, refused when there is no IPC buffer.
Write(m) == toFw' = Append(toFw, m)

\* _ish_hw_reset: a device that cannot be reset stays as it is.
HwReset ==
    \/ /\ devState' = "RESETTING" /\ fw' = "down"
       /\ UNCHANGED <<faults, seen>>
    \/ /\ Fault
       /\ See({"hindered"})
       /\ UNCHANGED <<devState, fw>>

\* A request that cannot be sent, or whose memory cannot be had, resets too.
RequestFails == Fault /\ devState' = "RESETTING" /\ fw' = "down"
-----------------------------------------------------------------------------
(***************************************************************************)
(* Firmware and interrupt.  While the device is disabled the interrupt     *)
(* leaves the message in the mailbox, and the firmware waits.              *)
(***************************************************************************)
FwNotify ==
    /\ fw = "down"
    /\ devState # "DISABLED"
    /\ fw' = "notify"
    /\ rstQueued' = TRUE
    /\ UNCHANGED <<states, bhVars, tabVars, device, unadded, rst, init, toFw, history>>

\* The end of recv_hbm: a full fifo drops the message, and a bottom half that
\* is pending already handles only one of the two.
RecvHbm(m) ==
    /\ devState # "DISABLED"
    /\ fifo' = IF Len(fifo) = FifoSize - 1 THEN fifo ELSE Append(fifo, m)
    /\ queued' = TRUE
    /\ SeeIf(queued, "hindered")
    /\ UNCHANGED bh

\* The firmware's clients are not the same after each reset.
Replies(m) ==
    CASE m.cmd = "START_REQ" -> {Msg("START_RES", 0)}
      [] m.cmd = "ENUM_REQ"  -> {Msg("ENUM_RES", S) : S \in SUBSET Clients}
      [] m.cmd = "PROP_REQ"  -> {Msg("PROPS_RES", m.arg)}
      [] m.cmd = "STOP_REQ"  -> {Msg("STOP_RES", 0)}
      [] OTHER -> {}

\* It knows no message before RESET_NOTIFY_ACK.
FwReads ==
    /\ toFw # <<>>
    /\ fw = "notify" \/ (fw = "ready" /\ Replies(Head(toFw)) = {})
    /\ toFw' = Tail(toFw)
    /\ fw' = IF Head(toFw).cmd = "RESET_ACK" THEN "ready" ELSE fw
    /\ UNCHANGED <<states, bhVars, tabVars, device, unadded, rstVars, init, history>>

FwAnswers ==
    /\ fw = "ready"
    /\ toFw # <<>>
    /\ \E m \in Replies(Head(toFw)) : RecvHbm(m)
    /\ toFw' = Tail(toFw)
    /\ UNCHANGED <<states, tabVars, device, unadded, rstVars, init, fw, resets, faults>>

FwRefuses ==
    /\ fw = "ready"
    /\ toFw # <<>>
    /\ Head(toFw).cmd \in {"START_REQ", "PROP_REQ"}
    /\ Fault
    /\ \E m \in Replies(Head(toFw)) : RecvHbm([m EXCEPT !.arg = -1])
    /\ toFw' = Tail(toFw)
    /\ UNCHANGED <<states, tabVars, device, unadded, rstVars, init, fw, resets>>

FwUnsolicited ==
    /\ fw = "ready"
    /\ Fault
    /\ \E m \in {Msg("UNKNOWN", 0), Msg("FW_STOP_REQ", 0), Msg("START_RES", 0),
                 Msg("ENUM_RES", Clients)} : RecvHbm(m)
    /\ UNCHANGED <<states, tabVars, device, unadded, rstVars, init, fwVars, resets>>

FwResets ==
    /\ fw = "ready"
    /\ resets > 0
    /\ resets' = resets - 1
    /\ fw' = "down"
    /\ UNCHANGED <<states, bhVars, tabVars, device, unadded, rstVars, init, toFw, faults, seen>>
-----------------------------------------------------------------------------
(***************************************************************************)
(* The reset work: ish_fw_reset_handler with ishtp_reset_handler and       *)
(* ishtp_bus_remove_all_clients, then ishtp_reset_compl_handler.           *)
(***************************************************************************)
RstClear ==
    /\ rst = "idle" /\ rstQueued
    /\ rstQueued' = FALSE
    /\ rst' = "walk"
    /\ toFw' = <<>> /\ fifo' = <<>>
    /\ devState' = "RESETTING"
    /\ SeeIf(bh # Idle, "overtaken")
    /\ UNCHANGED <<hbmState, queued, bh, tabVars, device, unadded, init, fw, resets, faults>>

\* A device with a reference stays on the bus, without a firmware client.
RstWalk ==
    /\ rst = "walk"
    /\ rst' = "free"
    /\ device' = [c \in Clients |->
                    IF c \in Kept /\ device[c] # "none" THEN "null" ELSE "none"]
    /\ UNCHANGED <<unadded, states, bhVars, tabVars, rstQueued, init, fwVars, history>>

\* A device added since the walk is left with a pointer into freed memory.
RstFree ==
    /\ rst = "free"
    /\ rst' = "ack"
    /\ map' = {} /\ table' = <<>> /\ index' = 0 /\ pres' = 0
    /\ device' = [c \in Clients |-> IF device[c] = "live" THEN "freed" ELSE device[c]]
    /\ UNCHANGED <<unadded, states, bhVars, rstQueued, init, fwVars, history>>

RstAck ==
    /\ rst = "ack"
    /\ rst' = "ready"
    /\ Write(Msg("RESET_ACK", 0))
    /\ UNCHANGED <<states, bhVars, tabVars, device, unadded, rstQueued, init, fw, history>>

\* The firmware takes no message, or is not ready in time: the work gives up.
RstDead ==
    /\ rst \in {"ack", "ready"}
    /\ fw # "ready"
    /\ rst' = "idle"
    /\ SeeIf(~rstQueued /\ fw # "down", "hindered")
    /\ UNCHANGED <<states, bhVars, tabVars, device, unadded, rstQueued, init, fwVars, resets, faults>>

RstReady ==
    /\ rst = "ready"
    /\ fw = "ready"
    /\ rst' = "start"
    /\ hwReady' = TRUE
    /\ devState' = "INIT_CLIENTS" /\ hbmState' = "START"
    /\ UNCHANGED <<bhVars, tabVars, device, unadded, rstQueued, starter, fwVars, history>>

\* ishtp_hbm_start_req
RstStart ==
    /\ rst = "start"
    /\ rst' = "idle"
    /\ \/ /\ Write(Msg("START_REQ", 0))
          /\ hbmState' = "START"
          /\ UNCHANGED <<devState, fw, faults>>
       \/ /\ RequestFails
          /\ hbmState' = "IDLE"
          /\ UNCHANGED toFw
    /\ UNCHANGED <<bhVars, tabVars, device, unadded, rstQueued, init, resets, seen>>
-----------------------------------------------------------------------------
(***************************************************************************)
(* bh_hbm_work_fn and ishtp_hbm_dispatch                                   *)
(***************************************************************************)
BhTake ==
    /\ queued /\ bh = Idle
    /\ queued' = FALSE
    /\ bh' = IF fifo = <<>> THEN Idle ELSE Head(fifo)
    /\ fifo' = IF fifo = <<>> THEN fifo ELSE Tail(fifo)
    /\ UNCHANGED <<states, tabVars, device, unadded, rstVars, init, fwVars, history>>

InTurn(h) == devState = "INIT_CLIENTS" /\ hbmState = h

BhStart ==
    /\ At("START_RES")
    /\ \/ /\ bh.arg # -1 /\ InTurn("START")
          /\ hbmState' = "STARTED"
          /\ bh' = Msg("ENUM_REQ", 0)
          /\ See({"served"})
          /\ UNCHANGED <<devState, fwVars, faults>>
       \/ /\ bh.arg = -1
          /\ hbmState' = "STOPPED"
          /\ Write(Msg("STOP_REQ", 0))
          /\ Done
          /\ UNCHANGED <<devState, fw, faults, seen>>
       \/ /\ bh.arg # -1 /\ ~InTurn("START")
          /\ HwReset /\ Done
          /\ UNCHANGED <<hbmState, toFw>>
    /\ UNCHANGED <<fifo, queued, tabVars, device, unadded, rstVars, init, resets>>

(***************************************************************************)
(* Plausible mistakes, each of which breaks a property below: the request  *)
(* for the clients leaves hbm_state alone, the count of the clients is not *)
(* kept with them, and the last client is left out.                        *)
(***************************************************************************)
EnumReqKeepsState ==
    /\ At("ENUM_REQ")
    /\ Write(bh) /\ Done
    /\ UNCHANGED <<states, fw, fifo, queued, tabVars, device, unadded, rstVars, init, history>>

EnumNoTable ==
    /\ At("ENUM_RES") /\ InTurn("ENUM_CLIENTS")
    /\ map' = bh.arg /\ index' = 0 /\ pres' = 0
    /\ hbmState' = "CLIENT_PROPERTIES"
    /\ bh' = Msg("PROP_REQ", 0)
    /\ UNCHANGED <<devState, table, fifo, queued, device, unadded, rstVars, init, fwVars, history>>

PropsDoneOneLess ==
    /\ At("PROP_REQ")
    /\ Following(index) = {}
    /\ devState' = "ENABLED" /\ hbmState' = "WORKING"
    /\ pres' = 1 /\ unadded' = {}
    /\ bh' = Msg("ADD", pres - 1)
    /\ UNCHANGED <<fifo, queued, map, table, index, device, rstVars, init, fwVars, history>>

\* ishtp_hbm_enum_clients_req writes the state last, whatever came of the request.
BhEnumReq ==
    /\ At("ENUM_REQ")
    /\ hbmState' = "ENUM_CLIENTS"
    /\ \/ Write(bh) /\ UNCHANGED <<devState, fw, faults>>
       \/ RequestFails /\ UNCHANGED toFw
    /\ Done
    /\ UNCHANGED <<fifo, queued, tabVars, device, unadded, rstVars, init, resets, seen>>

\* Even an answer out of turn replaces the map.  A table that could not be
\* allocated stays NULL, and the dispatch goes on.
BhEnum ==
    /\ At("ENUM_RES")
    /\ map' = bh.arg
    /\ \/ /\ InTurn("ENUM_CLIENTS")
          /\ index' = 0 /\ pres' = 0
          /\ hbmState' = "CLIENT_PROPERTIES"
          /\ bh' = Msg("PROP_REQ", 0)
          /\ \/ /\ table' = [i \in 1 .. Cardinality(bh.arg) |-> 0]
                /\ UNCHANGED <<devState, fw, faults>>
             \/ /\ bh.arg # {} /\ RequestFails
                /\ table' = <<>>
          /\ UNCHANGED seen
       \/ /\ ~InTurn("ENUM_CLIENTS")
          /\ HwReset /\ Done
          /\ UNCHANGED <<hbmState, table, index, pres>>
    /\ UNCHANGED <<fifo, queued, device, unadded, rstVars, init, toFw, resets>>

Expected(c) == pres < Len(table) /\ table[pres + 1] = c /\ InTurn("CLIENT_PROPERTIES")

BhProps ==
    /\ At("PROPS_RES")
    /\ \/ /\ Expected(bh.arg)
          /\ index' = index + 1 /\ pres' = pres + 1
          /\ bh' = Msg("PROP_REQ", 0)
          /\ UNCHANGED <<devState, fw, faults, seen>>
       \/ /\ ~Expected(bh.arg)
          /\ HwReset /\ Done
          /\ UNCHANGED <<index, pres>>
    /\ UNCHANGED <<hbmState, fifo, queued, map, table, device, unadded, rstVars, init, toFw, resets>>

\* ishtp_hbm_prop_req
BhPropReq ==
    /\ At("PROP_REQ")
    /\ Following(index) # {} /\ pres < Len(table)
    /\ LET c == First(Following(index)) IN
          /\ table' = [table EXCEPT ![pres + 1] = c]
          /\ \/ /\ Write(Msg("PROP_REQ", c))
                /\ index' = c
                /\ UNCHANGED <<devState, fw, faults>>
             \/ /\ RequestFails
                /\ UNCHANGED <<index, toFw>>
    /\ Done
    /\ UNCHANGED <<hbmState, fifo, queued, map, pres, device, unadded, rstVars, init, resets, seen>>

BhPropsDone ==
    /\ At("PROP_REQ")
    /\ Following(index) = {}
    /\ devState' = "ENABLED" /\ hbmState' = "WORKING"
    /\ pres' = 1 /\ unadded' = {}
    /\ bh' = Msg("ADD", pres)
    /\ UNCHANGED <<fifo, queued, map, table, index, device, rstVars, init, fwVars, history>>

\* ishtp_bus_new_client, once for each entry of the table.  It may fail, for lack
\* of memory or in device_register; the loop does not look and goes on.
BhAdd ==
    /\ At("ADD")
    /\ \/ /\ pres <= bh.arg
          /\ pres \in 1 .. Len(table)
          /\ pres' = pres + 1
          /\ \/ /\ device' = [device EXCEPT ![table[pres]] = "live"]
                /\ UNCHANGED <<unadded, faults>>
             \/ /\ Fault
                /\ unadded' = unadded \cup {table[pres]}
                /\ UNCHANGED device
          /\ UNCHANGED bh
       \/ /\ pres > bh.arg
          /\ Done
          /\ UNCHANGED <<device, unadded, pres, faults>>
    /\ UNCHANGED <<states, fifo, queued, map, table, index, rstVars, init, fwVars, resets, seen>>

\* The table is gone under the dispatch, or was never there.
BhOops ==
    /\ table = <<>>
    /\ \/ At("PROP_REQ") /\ Following(index) # {}
       \/ At("ADD") /\ pres <= bh.arg
    /\ See({"oops", "hindered"})
    /\ bh' = Msg("OOPS", 0)
    /\ UNCHANGED <<states, fifo, queued, tabVars, device, unadded, rstVars, init, fwVars, resets, faults>>

BhStop ==
    /\ At("STOP_RES")
    /\ \/ HwReset
       \/ /\ Fault
          /\ devState' = "DISABLED" /\ See({"hindered"})
          /\ UNCHANGED fw
    /\ Done
    /\ UNCHANGED <<hbmState, fifo, queued, tabVars, device, unadded, rstVars, init, toFw, resets>>

\* FW_STOP_REQ stops for good; a command that is not known changes nothing.
BhOther ==
    /\ At("FW_STOP_REQ") \/ At("UNKNOWN")
    /\ hbmState' = IF At("UNKNOWN") THEN hbmState ELSE "STOPPED"
    /\ SeeIf(~At("UNKNOWN"), "hindered")
    /\ Done
    /\ UNCHANGED <<devState, fifo, queued, tabVars, device, unadded, rstVars, init, fwVars, resets, faults>>
-----------------------------------------------------------------------------
(***************************************************************************)
(* ish_init: ish_hw_start, then ishtp_start, on probe and on resume.       *)
(* recvd_hw_ready and hbm_state are those of the last start.               *)
(***************************************************************************)
HwStarted ==
    /\ starter = "hw" /\ hwReady
    /\ starter' = "hbm"
    /\ UNCHANGED <<states, bhVars, tabVars, device, unadded, rstVars, hwReady, fwVars, history>>

HbmStarted ==
    /\ starter = "hbm" /\ Begun(hbmState)
    /\ starter' = "done"
    /\ Write(Msg("QUERY", 0))
    /\ UNCHANGED <<states, bhVars, tabVars, device, unadded, rstVars, hwReady, fw, history>>

\* Both waits time out; the second looks at hbm_state before it resets it.
StartTimeout ==
    /\ \/ starter = "hw" /\ ~hwReady /\ starter' = "done"
       \/ starter = "hbm" /\ ~Begun(hbmState) /\ starter' = "giveup"
    /\ See({"hindered"})
    /\ UNCHANGED <<states, bhVars, tabVars, device, unadded, rstVars, hwReady, fwVars, resets, faults>>

StartGiveUp ==
    /\ starter = "giveup"
    /\ starter' = "done"
    /\ hbmState' = "IDLE" /\ devState' = "DISABLED"
    /\ UNCHANGED <<bhVars, tabVars, device, unadded, rstVars, hwReady, fwVars, history>>

\* Suspend to D3 stops the firmware; the resume work starts over.
Resume ==
    /\ starter = "done"
    /\ resets > 0
    /\ resets' = resets - 1
    /\ See({"resumed"})
    /\ fw' = "down"
    /\ starter' = "hw"
    /\ UNCHANGED <<states, bhVars, tabVars, device, unadded, rstVars, hwReady, toFw, faults>>
-----------------------------------------------------------------------------
Firmware == FwNotify \/ FwReads \/ FwAnswers

ResetWork == RstClear \/ RstWalk \/ RstFree \/ RstAck \/ RstDead \/ RstReady \/ RstStart

BottomHalf == \/ BhTake \/ BhStart \/ BhEnumReq \/ BhEnum \/ BhProps \/ BhPropReq
              \/ BhPropsDone \/ BhAdd \/ BhOops \/ BhStop \/ BhOther

Starter == HwStarted \/ HbmStarted \/ StartGiveUp

Next == \/ Firmware \/ FwRefuses \/ FwUnsolicited \/ FwResets
        \/ ResetWork \/ BottomHalf \/ Starter \/ StartTimeout \/ Resume

Spec == Init /\ [][Next]_vars

\* Work items and threads run, and the firmware boots and answers.
FairSpec == /\ Spec
            /\ WF_vars(Firmware) /\ WF_vars(ResetWork)
            /\ WF_vars(BottomHalf) /\ WF_vars(Starter)
-----------------------------------------------------------------------------
Up == /\ devState = "ENABLED" /\ hbmState = "WORKING"
      /\ rst = "idle" /\ ~rstQueued /\ bh = Idle /\ fw = "ready"

(***************************************************************************)
(* When the dust has settled the bus has a live device for every client    *)
(* the firmware named last, and for no other, but for those whose device   *)
(* could not be made in this enumeration: devices of a former boot are     *)
(* gone or without a client, those of this one not removed by its reset,   *)
(* and a failure costs one device, not those behind it or the next boot's. *)
(* Not so when the reset work began in the middle of a dispatch.           *)
(***************************************************************************)
DevicesExact ==
    Up /\ seen \cap {"overtaken", "hindered"} = {}
       => \A c \in Clients : device[c] = "live" <=> c \in map \ unadded

(***************************************************************************)
(* The bottom half never uses dev->fw_clients while it is NULL, unless the *)
(* reset work freed it under the dispatch or something failed before.      *)
(***************************************************************************)
NoUseAfterFree == "oops" \in seen => "overtaken" \in seen \/ faults < MaxFaults

(***************************************************************************)
(* ishtp_start says 0, and the driver goes on to query the subscribers,    *)
(* only after the firmware accepted the start: hbm_state is not what a     *)
(* former start left, except on resume, which does not reset it.           *)
(***************************************************************************)
StartMeansStarted ==
    [][starter = "hbm" /\ starter' = "done"
       => "served" \in seen \/ "resumed" \in seen \/ faults < MaxFaults]_vars

(***************************************************************************)
(* However often the firmware resets, or the system resumes, in the end    *)
(* the bus works with its clients, unless a reset work began in the middle *)
(* of a dispatch, a message was lost or handled a message too late, a wait *)
(* timed out, or the device could not be reset: no step is tried again.    *)
(***************************************************************************)
ComesUp == <>[](Up \/ seen \cap {"overtaken", "hindered"} # {})
=============================================================================
