------------------------------- MODULE PowerFlow -------------------------------
(***************************************************************************)
(* Suspend and resume: the callbacks of the PCI device and of the HID      *)
(* client, the two work items a resume leaves behind, and the messages     *)
(* that tell the firmware (pci-ish.c, hbm.c, ipc.c, bus.c,                 *)
(* ishtp-hid-client.c).                                                    *)
(*                                                                         *)
(* The firmware answers neither message: it reads it, and RX_CMPL says     *)
(* that something was read.  suspend_flag and resume_flag take the first   *)
(* RX_CMPL for their own.  The doorbell holds one message, others wait in  *)
(* the processing list, as IpcQueue has it.                                *)
(***************************************************************************)
EXTENDS Naturals, Sequences

CONSTANTS MaxSleeps,  \* bound: suspends
          MaxData,    \* bound: messages of anybody else
          MaxFaults   \* bound: answers too late, subscriptions

ASSUME BoundsAssumption == {MaxSleeps, MaxData, MaxFaults} \subseteq Nat

VARIABLES
    pm,                         \* where the PM core is
    suspend_flag, resume_flag,
    suspended, hidWork, reset,  \* the HID client's gate, its resume work, its reset
    resumeWork, rw,             \* resume_work pending, ish_resume_handler
    doorbell, list,             \* HOST2ISH doorbell ("free" or a message) and the list
    rxCmpl,                     \* what the firmware has read since the last RX_CMPL interrupt
    fw, told,                   \* firmware (external), and the state it was told last
    sleeps, data, faults,       \* what is left of the bounds
    seen                        \* history: which of Marks happened

flags   == <<suspend_flag, resume_flag>>
hid     == <<suspended, hidWork, reset>>
work    == <<resumeWork, rw>>
channel == <<doorbell, list, rxCmpl>>
bounds  == <<sleeps, data, faults>>
vars    == <<pm, flags, hid, work, channel, fw, told, bounds, seen>>

Messages == {"SUSPEND", "RESUME", "data", "void"}

\* stale: a flag was cleared by the RX_CMPL of another message; slow: the
\* firmware was alive and a wait for it ended; raced: a suspend began before the
\* work of the resume had ended, or the firmware had booted; overwritten: ish_wakeup
\* rang over a message; subscribed: the firmware's subscription made the host say
\* RESUME.
Marks == {"stale", "slow", "raced", "overwritten", "subscribed"}

SeeIf(P, mark) == seen' = IF P THEN seen \cup {mark} ELSE seen
Fault == faults > 0 /\ faults' = faults - 1

\* A wait ends, whether the firmware would still have read or not.
Coming == fw = "up" /\ (doorbell # "free" \/ list # <<>> \/ rxCmpl # {})
GiveUp(early) == IF Coming \/ early THEN Fault /\ SeeIf(TRUE, "slow") ELSE UNCHANGED <<faults, seen>>

Init ==
    /\ pm = "on"
    /\ suspend_flag = FALSE /\ resume_flag = FALSE
    /\ suspended = FALSE /\ hidWork = FALSE /\ reset = FALSE
    /\ resumeWork = FALSE /\ rw = "idle"
    /\ doorbell = "free" /\ list = <<>> /\ rxCmpl = {}
    /\ fw = "up" /\ told = "RESUME"
    /\ sleeps = MaxSleeps /\ data = MaxData /\ faults = MaxFaults /\ seen = {}
-----------------------------------------------------------------------------
\* ishtp_write_message: to the doorbell if it is free, and behind the others.
Write(m) ==
    LET waiting == Append(list, m) IN
    /\ doorbell' = IF doorbell = "free" THEN Head(waiting) ELSE doorbell
    /\ list' = IF doorbell = "free" THEN Tail(waiting) ELSE waiting

\* Any other message, such as a flow control or a request past the HID gate
SendData ==
    /\ pm = "on" \/ pm = "suspWait"
    /\ data > 0 /\ data' = data - 1
    /\ Write("data")
    /\ UNCHANGED <<pm, flags, hid, work, rxCmpl, fw, told, sleeps, faults, seen>>

\* recv_fixed_cl_msg: SYSTEM_STATE_SUBSCRIBE
FwSubscribes ==
    /\ fw = "up"
    /\ Fault
    /\ Write("RESUME")
    /\ SeeIf(TRUE, "subscribed")
    /\ UNCHANGED <<pm, flags, hid, work, rxCmpl, fw, told, sleeps, data>>

FwReads ==
    /\ fw = "up"
    /\ doorbell # "free"
    /\ doorbell' = "free"
    /\ rxCmpl' = rxCmpl \cup {doorbell}
    /\ told' = IF doorbell \in {"SUSPEND", "RESUME"} THEN doorbell ELSE told
    /\ UNCHANGED <<pm, flags, hid, work, list, fw, bounds, seen>>

\* Mistake: the interrupt forgets resume_flag.
IrqRxCmplForgets ==
    /\ rxCmpl # {}
    /\ rxCmpl' = {}
    /\ suspend_flag' = FALSE
    /\ IF doorbell = "free" /\ list # <<>>
       THEN doorbell' = Head(list) /\ list' = Tail(list)
       ELSE UNCHANGED <<doorbell, list>>
    /\ UNCHANGED <<pm, resume_flag, hid, work, fw, told, bounds, seen>>

\* recv_ipc, MNG_RX_CMPL_INDICATION
IrqRxCmpl ==
    /\ rxCmpl # {}
    /\ rxCmpl' = {}
    /\ suspend_flag' = FALSE /\ resume_flag' = FALSE
    /\ SeeIf(\/ suspend_flag /\ "SUSPEND" \notin rxCmpl
             \/ resume_flag /\ "RESUME" \notin rxCmpl, "stale")
    /\ \/ /\ doorbell = "free" /\ list # <<>>
          /\ doorbell' = Head(list) /\ list' = Tail(list)
       \/ /\ doorbell # "free" \/ list = <<>>
          /\ UNCHANGED <<doorbell, list>>
    /\ UNCHANGED <<pm, hid, work, fw, told, bounds>>
-----------------------------------------------------------------------------
(***************************************************************************)
(* Suspend: hid_ishtp_cl_suspend, then ish_suspend.  Without D0i3, or      *)
(* without an answer, the device goes to D3, which stops the firmware.     *)
(***************************************************************************)
Working == resumeWork \/ rw # "idle"

HidSuspend ==
    /\ pm = "on"
    /\ sleeps > 0 /\ sleeps' = sleeps - 1
    /\ pm' = "suspend"
    /\ suspended' = TRUE
    /\ SeeIf(Working \/ fw # "up", "raced")
    /\ UNCHANGED <<flags, hidWork, reset, work, channel, fw, told, data, faults>>

\* Mistake: suspend_flag is not set, so that nothing is waited for.
SuspendNoFlag ==
    /\ pm = "suspend"
    /\ ~suspend_flag
    /\ resume_flag' = FALSE
    /\ Write("SUSPEND")
    /\ pm' = "suspWait"
    /\ UNCHANGED <<suspend_flag, hid, work, rxCmpl, fw, told, bounds, seen>>

SuspendD0i3 ==
    /\ pm = "suspend"
    /\ ~suspend_flag
    /\ resume_flag' = FALSE /\ suspend_flag' = TRUE
    /\ Write("SUSPEND")
    /\ pm' = "suspWait"
    /\ UNCHANGED <<hid, work, rxCmpl, fw, told, bounds, seen>>

SuspendAcked ==
    /\ pm = "suspWait"
    /\ ~suspend_flag
    /\ pm' = "D0i3"
    /\ UNCHANGED <<flags, hid, work, channel, fw, told, bounds, seen>>

\* By way of the platform's firmware, or with the last suspend unanswered
SuspendD3 ==
    /\ pm = "suspend"
    /\ pm' = "D3" /\ fw' = "off"
    /\ UNCHANGED <<flags, hid, work, channel, told, bounds, seen>>

SuspendTimeout ==
    /\ pm = "suspWait"
    /\ suspend_flag
    /\ pm' = "D3" /\ fw' = "off"
    /\ GiveUp(FALSE)
    /\ UNCHANGED <<flags, hid, work, channel, told, sleeps, data>>
-----------------------------------------------------------------------------
\* ish_resume, then hid_ishtp_cl_resume
Resume ==
    /\ pm \in {"D0i3", "D3"}
    /\ pm' = "on"
    /\ resume_flag' = TRUE
    /\ resumeWork' = TRUE /\ hidWork' = TRUE
    /\ UNCHANGED <<suspend_flag, suspended, reset, rw, channel, fw, told, bounds, seen>>

(***************************************************************************)
(* ish_resume_handler                                                      *)
(***************************************************************************)
\* Mistake: the test of suspend_flag is the wrong way round.
HandlerInverted ==
    /\ resumeWork /\ rw = "idle"
    /\ resumeWork' = FALSE
    /\ rw' = IF suspend_flag /\ fw = "up" THEN "send" ELSE "init"
    /\ UNCHANGED <<pm, flags, hid, channel, fw, told, bounds, seen>>

HandlerStart ==
    /\ resumeWork /\ rw = "idle"
    /\ resumeWork' = FALSE
    /\ rw' = IF ~suspend_flag /\ fw = "up" THEN "send" ELSE "init"
    /\ UNCHANGED <<pm, flags, hid, channel, fw, told, bounds, seen>>

HandlerSend ==
    /\ rw = "send"
    /\ Write("RESUME")
    /\ rw' = "wait"
    /\ UNCHANGED <<pm, flags, hid, resumeWork, rxCmpl, fw, told, bounds, seen>>

HandlerAcked ==
    /\ rw = "wait"
    /\ ~resume_flag
    /\ rw' = "idle"
    /\ UNCHANGED <<pm, flags, hid, resumeWork, channel, fw, told, bounds, seen>>

HandlerTimeout ==
    /\ rw = "wait"
    /\ resume_flag
    /\ rw' = "init"
    /\ GiveUp(FALSE)
    /\ UNCHANGED <<pm, flags, hid, resumeWork, channel, fw, told, sleeps, data>>

\* ish_init: ish_wakeup rings the doorbell, whatever is in it.  recvd_hw_ready
\* and hbm_state are those of the last start, so nothing is waited for.
HandlerInit ==
    /\ rw = "init"
    /\ rw' = "idle"
    /\ doorbell' = "void"
    /\ SeeIf(fw = "up" /\ doorbell # "free", "overwritten")
    /\ fw' = IF fw = "off" /\ pm = "on" THEN "booting" ELSE fw
    /\ UNCHANGED <<pm, flags, hid, resumeWork, list, rxCmpl, told, bounds>>

\* The reset of a firmware that boots drops all messages, and the bus has the
\* HID client start again.
FwBoots ==
    /\ fw = "booting"
    /\ fw' = "up" /\ told' = "RESUME"
    /\ doorbell' = "free" /\ list' = <<>> /\ rxCmpl' = {}
    /\ reset' = TRUE
    /\ UNCHANGED <<pm, flags, suspended, hidWork, work, bounds, seen>>
-----------------------------------------------------------------------------
(***************************************************************************)
(* The HID client's gate: hid_ishtp_cl_resume_handler, and the end of      *)
(* hid_ishtp_cl_init, which opens it whatever the power state is.          *)
(***************************************************************************)
HidResumed ==
    /\ hidWork /\ ~resume_flag
    /\ hidWork' = FALSE
    /\ suspended' = FALSE
    /\ UNCHANGED <<pm, flags, reset, work, channel, fw, told, bounds, seen>>

HidTimeout ==
    /\ hidWork /\ resume_flag
    /\ hidWork' = FALSE
    /\ GiveUp(fw = "up" /\ (resumeWork \/ rw = "send"))
    /\ UNCHANGED <<pm, flags, suspended, reset, work, channel, fw, told, sleeps, data>>

HidReset ==
    /\ reset
    /\ reset' = FALSE
    /\ suspended' = FALSE
    /\ UNCHANGED <<pm, flags, hidWork, work, channel, fw, told, bounds, seen>>
-----------------------------------------------------------------------------
Suspend == HidSuspend \/ SuspendD0i3 \/ SuspendD3
Handler == HandlerStart \/ HandlerSend \/ HandlerAcked \/ HandlerInit
Timeout == SuspendTimeout \/ HandlerTimeout \/ HidTimeout
HidWorks == HidResumed \/ HidReset

Next == \/ SendData \/ FwSubscribes \/ FwReads \/ IrqRxCmpl \/ FwBoots
        \/ Suspend \/ SuspendAcked \/ Resume \/ Handler \/ Timeout \/ HidWorks

Spec == Init /\ [][Next]_vars

\* The firmware reads and boots, the interrupt and the works run, the system
\* completes a suspend and wakes up.
FairSpec == /\ Spec
            /\ WF_vars(FwReads) /\ WF_vars(IrqRxCmpl) /\ WF_vars(FwBoots)
            /\ WF_vars(Handler) /\ WF_vars(HidWorks) /\ WF_vars(Timeout)
            /\ WF_vars(SuspendD0i3 \/ SuspendD3) /\ WF_vars(SuspendAcked) /\ WF_vars(Resume)
-----------------------------------------------------------------------------
(***************************************************************************)
(* The system sleeps with the device in D0i3 only after the firmware read  *)
(* SUSPEND, unless the RX_CMPL of another message was taken for its        *)
(* acknowledgement, a former resume was still under way, or the firmware's *)
(* subscription made the host say RESUME again.                            *)
(***************************************************************************)
SleepsTold ==
    pm = "D0i3" => told = "SUSPEND" \/ seen \cap {"stale", "raced", "subscribed"} # {}

(***************************************************************************)
(* ish_wakeup, which rings the doorbell without looking at it and without  *)
(* wr_processing_spinlock, finds no message there that a live firmware has *)
(* yet to read, unless that was too slow or a suspend caught the resume.   *)
(***************************************************************************)
NothingOverwritten == "overwritten" \in seen => seen \cap {"slow", "raced"} # {}

(***************************************************************************)
(* After the last resume the firmware runs, knows it, and the HID gate is  *)
(* open, whether it slept in D0i3 or booted from D3, unless a wait of the  *)
(* host ended while the firmware would still have answered.                *)
(***************************************************************************)
WakesUp == <>[]((told = "RESUME" /\ fw = "up" /\ ~suspended) \/ "slow" \in seen)
=============================================================================
