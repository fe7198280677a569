----------------------------- MODULE HidRequests -----------------------------
(***************************************************************************)
(* The HID client of the firmware (ishtp-hid-client.c) and the callbacks   *)
(* it gives to hid-core (ishtp-hid.c): the enumeration of the HID devices  *)
(* by the probe and, after a firmware reset, by a work item; the requests  *)
(* of threads to a device, each a message and a wait for some answer; and  *)
(* the gate that suspend closes.                                           *)
(*                                                                         *)
(* The answers carry a device and a command and no more: what tells the    *)
(* receiver whose they are is state shared by everybody (init_done,        *)
(* cur_hid_dev, the done flags, request_done, raw_buf).  A connection      *)
(* keeps the order of its messages and drops them when it ends.            *)
(***************************************************************************)
EXTENDS Naturals, Sequences

CONSTANTS
    Threads,    \* callers of hid-core
    MaxDevs,    \* HID devices the firmware may have, numbered from 1
    MaxWaits,   \* waits of ishtp_enum_enum_devices (10)
    MaxTries,   \* calls of hid_ishtp_cl_init by the reset work (3)
    MaxCalls,   \* bound: requests
    MaxEvents   \* bound: those, and firmware resets, suspends, failures, answers too late

ASSUME BoundsAssumption == {MaxDevs, MaxWaits, MaxTries, MaxCalls, MaxEvents} \subseteq Nat

VARIABLES
    fw, fwDevs,          \* firmware (external) and its HID devices
    device,              \* the bus device, see Devices
    connected, event_cb, \* the client is connected, its callback registered
    toFw, fromFw,        \* the connection
    task,                \* hid_ishtp_cl_init, as called by the probe or the work
    work,                \* client_data->work is pending
    init_done, enum_devices_done, descr_done,
    hid_dev_count, num_hid_devices,
    descr,               \* whose descriptor each index holds, of either kind
    hubs,                \* indices registered with hid-core
    suspended, pm,       \* the gate; and whether the system sleeps
    req,                 \* what each thread is doing
    request_done, raw,   \* of each HID device: the request whose answer set the flag,
                         \* and the one whose raw_buf gets the data (0: the flag, or
                         \* raw_get_req, is false)
    calls, faults,       \* what is left of the bounds
    seen                 \* history: which of Marks happened

firmware == <<fw, fwDevs, device>>
link     == <<connected, event_cb, toFw, fromFw>>
flags    == <<init_done, enum_devices_done, descr_done>>
table    == <<hid_dev_count, num_hid_devices, descr, hubs>>
power    == <<suspended, pm>>
requests == <<req, request_done, raw>>
vars     == <<firmware, link, task, work, flags, table, power, requests, calls, faults, seen>>

Devs  == 1 .. MaxDevs
Kinds == {"hid", "report"}

\* new: nobody holds a reference, for its probe has not ended well; doomed: a
\* reset of the firmware took it off the list before; gone: it was removed.
Devices == {"new", "held", "doomed", "gone"}

\* late: somebody gave up on an answer that was coming; overlapped: two
\* requests to one device at a time; changed, empty: the firmware came back
\* with other devices, or has none; unadded: the bus did not add the device
\* again; unresumed: the firmware did not acknowledge a resume; failed: a step
\* of the initialization failed by itself; bad: a packet out of place; mixed:
\* an answer completed another request than its own; dead: it was copied to
\* the buffer of a call that had returned.
Marks == {"late", "overlapped", "changed", "empty", "unadded", "unresumed", "failed",
          "bad", "mixed", "dead"}

See(marks)     == seen' = seen \cup marks
SeeIf(P, mark) == See(IF P THEN {mark} ELSE {})
Fault          == faults > 0 /\ faults' = faults - 1
Msg(cmd, d, id) == [cmd |-> cmd, dev |-> d, id |-> id]
Failed         == Fault /\ See({"failed"})
NoCall         == [kind |-> "none", dev |-> 0, id |-> 0, pc |-> "idle"]

\* Any answer that is on its way
Coming == fw = "up" /\ toFw \o fromFw # <<>>
GiveUp == IF Coming THEN Fault /\ See({"late"}) ELSE UNCHANGED <<faults, seen>>

FirstProbe == [pc |-> "connect", reset |-> FALSE, cur |-> 1, kind |-> "hid", waits |-> 0,
               tries |-> 0]

Init ==
    /\ fw = "up" /\ fwDevs \in 0 .. MaxDevs /\ device = "new"
    /\ connected = FALSE /\ event_cb = FALSE /\ toFw = <<>> /\ fromFw = <<>>
    /\ task = FirstProbe
    /\ work = FALSE
    /\ init_done = FALSE /\ enum_devices_done = FALSE /\ descr_done = [k \in Kinds |-> FALSE]
    /\ hid_dev_count = 0 /\ num_hid_devices = 0
    /\ descr = [k \in Kinds |-> [i \in Devs |-> 0]] /\ hubs = {}
    /\ suspended = FALSE /\ pm = "on"
    /\ req = [t \in Threads |-> NoCall]
    /\ request_done = [d \in Devs |-> 0] /\ raw = [d \in Devs |-> 0]
    /\ calls \in 0 .. MaxCalls /\ faults = MaxEvents - calls /\ seen = {}
-----------------------------------------------------------------------------
(***************************************************************************)
(* Firmware (external), and what a reset of it does to the client.         *)
(***************************************************************************)
FwAnswers ==
    /\ fw = "up"
    /\ toFw # <<>>
    /\ LET m == Head(toFw) IN
          fromFw' = IF m.dev > fwDevs THEN fromFw
                    ELSE Append(fromFw, IF m.cmd = "enum" THEN [m EXCEPT !.id = fwDevs] ELSE m)
    /\ toFw' = Tail(toFw)
    /\ UNCHANGED <<firmware, connected, event_cb, task, work, flags, table, power, requests,
                   calls, faults, seen>>

\* ishtp_bus_remove_all_clients disconnects the client.
Restart ==
    /\ fw' = "reset"
    /\ connected' = FALSE /\ toFw' = <<>> /\ fromFw' = <<>>

FwResets ==
    /\ fw = "up"
    /\ Fault
    /\ Restart
    /\ UNCHANGED <<fwDevs, device, event_cb, task, work, flags, table, power, requests, calls,
                   seen>>

\* Then it takes a device without a reference off the list, and when the probe
\* of that device has ended it frees the table of the firmware's clients.
RemoveClients ==
    /\ fw = "reset"
    /\ fw' = "down"
    /\ device' = IF device = "new" THEN "doomed" ELSE device
    /\ UNCHANGED <<fwDevs, link, task, work, flags, table, power, requests, calls, faults, seen>>

\* ishtp_bus_remove_device waits for the end of the probe; hid_ishtp_cl_remove,
\* if it went well, ends the HID devices, and client_data goes with the device.
\* Requests that are still under way use freed memory: they are not followed.
RemoveDevice ==
    /\ fw = "down"
    /\ device = "doomed" /\ task.pc \in {"idle", "failed"}
    /\ device' = "gone"
    /\ event_cb' = FALSE
    /\ task' = [FirstProbe EXCEPT !.pc = "idle"]
    /\ init_done' = FALSE /\ enum_devices_done' = FALSE
    /\ descr_done' = [k \in Kinds |-> FALSE]
    /\ hid_dev_count' = 0 /\ num_hid_devices' = 0
    /\ descr' = [k \in Kinds |-> [i \in Devs |-> 0]] /\ hubs' = {}
    /\ suspended' = FALSE
    /\ req' = [t \in Threads |-> NoCall]
    /\ request_done' = [d \in Devs |-> 0] /\ raw' = [d \in Devs |-> 0]
    /\ UNCHANGED <<fw, fwDevs, connected, toFw, fromFw, work, pm, calls, faults, seen>>

\* A new device is probed.
Announced ==
    /\ device' = IF device = "gone" THEN "new" ELSE device
    /\ task' = IF device = "gone" THEN FirstProbe ELSE task

\* Mistake: the reset work is not scheduled.
FwBootsUnnoticed ==
    /\ fw = "down" /\ device \in {"held", "gone"}
    /\ fw' = "up"
    /\ Announced
    /\ event_cb' = FALSE
    /\ UNCHANGED <<fwDevs, connected, toFw, fromFw, work, flags, table, power, requests,
                   calls, faults, seen>>

\* Enumerated again: the probe of a new device, or ishtp_cl_device_reset and
\* hid_ishtp_cl_reset.
FwBoots ==
    /\ fw = "down" /\ device \in {"held", "gone"}
    /\ fw' = "up"
    /\ fwDevs' \in 0 .. MaxDevs
    /\ IF fwDevs' = fwDevs THEN UNCHANGED <<faults, seen>> ELSE Fault /\ See({"changed"})
    /\ Announced
    /\ work' = (device = "held")
    /\ event_cb' = FALSE
    /\ UNCHANGED <<connected, toFw, fromFw, flags, table, power, requests, calls>>

\* ishtp_bus_new_client fails: no new device, and none that learns of the reset.
FwBootsWithout ==
    /\ fw = "down" /\ device \in {"held", "gone"}
    /\ fw' = "up"
    /\ Fault /\ See({"unadded"})
    /\ UNCHANGED <<fwDevs, device, link, task, work, flags, table, power, requests, calls>>

Bus == RemoveClients \/ RemoveDevice
-----------------------------------------------------------------------------
(***************************************************************************)
(* process_recv, for one message.                                          *)
(***************************************************************************)
Message == Head(fromFw)

Received == event_cb /\ connected /\ fromFw # <<>>

Take == fromFw' = Tail(fromFw) /\ UNCHANGED <<connected, event_cb, toFw>>

\* An answer to the enumeration when none is under way resets the firmware.
RecvBad ==
    /\ Received
    /\ Message.cmd \in {"enum", "hid", "report"} /\ init_done
    /\ Restart
    /\ See({"bad"})
    /\ UNCHANGED <<fwDevs, device, event_cb, task, work, flags, table, power, requests, calls,
                   faults>>

RecvEnum ==
    /\ Received
    /\ Message.cmd = "enum" /\ ~init_done
    /\ Take
    /\ hid_dev_count' = Message.id
    /\ enum_devices_done' = TRUE
    /\ SeeIf(Message.id = 0, "empty")
    /\ UNCHANGED <<firmware, task, work, init_done, descr_done, num_hid_devices, descr, hubs,
                   power, requests, calls, faults>>

\* The descriptor is stored at cur_hid_dev, whichever device it is of.
RecvDescr ==
    /\ Received
    /\ Message.cmd \in Kinds /\ ~init_done
    /\ Take
    /\ descr' = [descr EXCEPT ![Message.cmd][task.cur] = Message.dev]
    /\ descr_done' = [descr_done EXCEPT ![Message.cmd] = TRUE]
    /\ UNCHANGED <<firmware, task, work, init_done, enum_devices_done, hid_dev_count,
                   num_hid_devices, hubs, power, requests, calls, faults, seen>>

Running(id) == \E t \in Threads : req[t].id = id

\* Data goes to raw_buf or to hid-core; any answer ends the wait.
RecvAnswer ==
    /\ Received
    /\ Message.cmd \in {"get", "set"}
    /\ Take
    /\ LET d == Message.dev
           known == d <= num_hid_devices /\ d \in hubs
           copied == known /\ Message.cmd = "get" /\ raw[d] # 0 IN
          /\ request_done' = IF known THEN [request_done EXCEPT ![d] = Message.id]
                             ELSE request_done
          /\ SeeIf(copied /\ ~Running(raw[d]), "dead")
    /\ UNCHANGED <<firmware, task, work, flags, table, power, req, raw, calls, faults>>

ProcessRecv == RecvBad \/ RecvEnum \/ RecvDescr \/ RecvAnswer
-----------------------------------------------------------------------------
(***************************************************************************)
(* hid_ishtp_cl_init                                                       *)
(***************************************************************************)
Goto(l) == task' = [task EXCEPT !.pc = l]

\* The reset work tries again; it, or the probe, gives up.
Retry(l) ==
    task' = IF task.reset /\ task.tries < MaxTries
            THEN [task EXCEPT !.pc = l, !.tries = @ + 1] ELSE [task EXCEPT !.pc = "failed"]

\* err_cl_disconnect
Fails ==
    /\ connected' = FALSE /\ toFw' = <<>> /\ fromFw' = <<>>
    /\ Retry("connect")

\* A failure that a reset of the firmware explains, or one of its own
FailsIf(broken) == IF broken THEN UNCHANGED <<faults, seen>> ELSE Failed

\* Mistake: init_done of the former connection is kept.
LinkStillInit ==
    /\ task.pc = "connect" /\ fw = "up"
    /\ Goto("lookup")
    /\ UNCHANGED <<firmware, link, work, flags, table, power, requests, calls, faults, seen>>

\* ishtp_cl_link.  A client that is still in cl_list is linked a second time:
\* the list is corrupt, and the model follows the client no further.
Link ==
    /\ task.pc \in {"connect", "relink"}
    /\ \/ /\ fw = "up"
          /\ IF task.pc = "connect" THEN Goto("lookup") /\ init_done' = FALSE
             ELSE Goto("dead") /\ UNCHANGED init_done
          /\ UNCHANGED <<faults, seen>>
       \/ /\ FailsIf(fw # "up")
          /\ Retry(task.pc)
          /\ UNCHANGED init_done
    /\ UNCHANGED <<firmware, link, work, enum_devices_done, descr_done, table, power, requests,
                   calls>>

\* ishtp_cl_connect
Connect ==
    /\ task.pc = "lookup"
    /\ \/ /\ fw = "up"
          /\ connected' = TRUE /\ event_cb' = TRUE
          /\ Goto("enum")
          /\ UNCHANGED <<toFw, fromFw, faults, seen>>
       \/ /\ FailsIf(fw # "up")
          /\ Fails
          /\ UNCHANGED event_cb
    /\ UNCHANGED <<firmware, work, flags, table, power, requests, calls>>

\* The table of the firmware's clients is gone: -ENOENT, without an unlinking.
\* It outlives a probe, for which RemoveDevice waits.
NotFound ==
    /\ task.pc = "lookup" /\ task.reset
    /\ fw = "down"
    /\ Retry("relink")
    /\ UNCHANGED <<firmware, link, work, flags, table, power, requests, calls, faults, seen>>

\* A request of the enumeration; one that cannot be sent ends it.
Ask(m, next) ==
    \/ /\ connected
       /\ toFw' = Append(toFw, m)
       /\ next
       /\ UNCHANGED <<connected, fromFw, faults, seen>>
    \/ /\ FailsIf(~connected)
       /\ Fails

EnumSend ==
    /\ task.pc = "enum"
    /\ Ask(Msg("enum", 0, 0), task' = [task EXCEPT !.pc = "enumWait", !.waits = 0])
    /\ UNCHANGED <<firmware, event_cb, work, flags, table, power, requests, calls>>

\* enum_devices_done stays set for good: after a reset nothing is waited for.
EnumDone ==
    /\ task.pc = "enumWait"
    /\ enum_devices_done
    /\ num_hid_devices' = hid_dev_count
    /\ task' = [task EXCEPT !.pc = IF hid_dev_count = 0 THEN "done" ELSE "descr",
                            !.cur = 1, !.kind = "hid"]
    /\ UNCHANGED <<firmware, link, work, flags, hid_dev_count, descr, hubs, power, requests,
                   calls, faults, seen>>

EnumTimeout ==
    /\ task.pc = "enumWait"
    /\ ~enum_devices_done
    /\ GiveUp
    /\ task' = [task EXCEPT !.waits = @ + 1, !.pc = IF task.waits + 1 = MaxWaits THEN "fail" ELSE @]
    /\ toFw' = IF connected THEN Append(toFw, Msg("enum", 0, 0)) ELSE toFw
    /\ UNCHANGED <<firmware, connected, event_cb, fromFw, work, flags, table, power, requests,
                   calls>>

\* Mistake: the flag of the former descriptor is kept.
DescrSendKeepsFlag ==
    /\ task.pc = "descr"
    /\ Ask(Msg(task.kind, task.cur, 0), Goto("descrWait"))
    /\ UNCHANGED <<firmware, event_cb, work, flags, table, power, requests, calls>>

\* ishtp_get_hid_descriptor, then ishtp_get_report_descriptor
DescrSend ==
    /\ task.pc = "descr"
    /\ descr_done' = [descr_done EXCEPT ![task.kind] = FALSE]
    /\ Ask(Msg(task.kind, task.cur, 0), Goto("descrWait"))
    /\ UNCHANGED <<firmware, event_cb, work, init_done, enum_devices_done, table, power,
                   requests, calls>>

NextDevice ==
    IF task.cur < num_hid_devices
    THEN task' = [task EXCEPT !.pc = "descr", !.kind = "hid", !.cur = @ + 1]
    ELSE Goto("done")

DescrDone ==
    /\ task.pc = "descrWait"
    /\ descr_done[task.kind]
    /\ IF task.kind = "hid" THEN task' = [task EXCEPT !.pc = "descr", !.kind = "report"]
       ELSE IF task.reset THEN NextDevice
       ELSE Goto("probe")
    /\ UNCHANGED <<firmware, link, work, flags, table, power, requests, calls, faults, seen>>

DescrTimeout ==
    /\ task.pc = "descrWait"
    /\ ~descr_done[task.kind]
    /\ GiveUp
    /\ Goto("fail")
    /\ UNCHANGED <<firmware, link, work, flags, table, power, requests, calls>>

\* ishtp_hid_probe, which only the first initialization calls
ProbeHid ==
    /\ task.pc = "probe"
    /\ \/ /\ hubs' = hubs \cup {task.cur}
          /\ NextDevice
          /\ UNCHANGED <<faults, seen>>
       \/ /\ Failed
          /\ Goto("fail")
          /\ UNCHANGED hubs
    /\ UNCHANGED <<firmware, link, work, flags, hid_dev_count, num_hid_devices, descr, power,
                   requests, calls>>

InitFails ==
    /\ task.pc = "fail"
    /\ Fails
    /\ UNCHANGED <<firmware, event_cb, work, flags, table, power, requests, calls, faults, seen>>

InitDone ==
    /\ task.pc = "done"
    /\ init_done' = TRUE
    /\ suspended' = FALSE
    /\ Goto(IF task.reset THEN "idle" ELSE "hold")
    /\ UNCHANGED <<firmware, link, work, enum_devices_done, descr_done, table, pm, requests,
                   calls, faults, seen>>

\* The probe takes its reference, be it that a reset did not wait for it.
GetDevice ==
    /\ task.pc = "hold"
    /\ device' = IF device = "new" THEN "held" ELSE device
    /\ Goto("idle")
    /\ UNCHANGED <<fw, fwDevs, link, work, flags, table, power, requests, calls, faults, seen>>

\* hid_ishtp_cl_reset_handler frees the client and allocates another.  Without
\* memory it leaves the pointers to the freed client, which the next reset, a
\* resume or a request uses; the model follows the client no further.
ResetBegins ==
    /\ work /\ task.pc \in {"idle", "failed"}
    /\ work' = FALSE
    /\ connected' = FALSE /\ toFw' = <<>> /\ fromFw' = <<>>
    /\ \/ /\ num_hid_devices' = 0
          /\ task' = [task EXCEPT !.pc = "connect", !.reset = TRUE, !.tries = 1]
          /\ UNCHANGED <<faults, seen>>
       \/ /\ Failed
          /\ Goto("dead")
          /\ UNCHANGED num_hid_devices
    /\ UNCHANGED <<firmware, event_cb, flags, hid_dev_count, descr, hubs, power, requests, calls>>

ClInit == \/ ResetBegins \/ Link \/ Connect \/ NotFound \/ EnumSend \/ EnumDone \/ DescrSend
          \/ DescrDone \/ ProbeHid \/ InitFails \/ InitDone \/ GetDevice
Timeout == EnumTimeout \/ DescrTimeout
-----------------------------------------------------------------------------
(***************************************************************************)
(* Requests: ishtp_raw_request, and ishtp_hid_request with the wait that   *)
(* follows it.  "raw" and "get" want a report, "set" an acknowledgement.   *)
(***************************************************************************)
Step(t, l) == req' = [req EXCEPT ![t].pc = l]

\* hid-core keeps the HID devices of a failed probe, whose client_data is freed:
\* the model follows no request to them.
Orphans == task.pc = "failed" /\ ~task.reset

\* Mistake: request_done is not cleared before the request.
CallKeepsDone(t) ==
    /\ req[t] = NoCall /\ ~Orphans
    /\ calls > 0 /\ calls' = calls - 1
    /\ \E d \in hubs, kind \in {"raw", "get", "set"} :
          /\ req' = [req EXCEPT ![t] = [kind |-> kind, dev |-> d, id |-> calls, pc |-> "link"]]
          /\ raw' = [raw EXCEPT ![d] = CASE kind = "raw" -> calls
                                         [] kind = "get" -> 0
                                         [] kind = "set" -> @]
          /\ SeeIf(\E u \in Threads : req[u].dev = d, "overlapped")
    /\ UNCHANGED <<firmware, link, task, work, flags, table, power, request_done, faults>>

Call(t) ==
    /\ req[t] = NoCall /\ ~Orphans
    /\ calls > 0 /\ calls' = calls - 1
    /\ \E d \in hubs, kind \in {"raw", "get", "set"} :
          /\ req' = [req EXCEPT ![t] = [kind |-> kind, dev |-> d, id |-> calls, pc |-> "link"]]
          /\ request_done' = [request_done EXCEPT ![d] = 0]
          /\ raw' = [raw EXCEPT ![d] = CASE kind = "raw" -> calls
                                         [] kind = "get" -> 0
                                         [] kind = "set" -> @]
          /\ SeeIf(\E u \in Threads : req[u].dev = d, "overlapped")
    /\ UNCHANGED <<firmware, link, task, work, flags, table, power, faults>>

\* ishtp_hid_link_ready_wait, before the request and again before the wait
LinkReady(t) ==
    /\ req[t].pc \in {"link", "link2"}
    /\ ~suspended
    /\ Step(t, IF req[t].pc = "link" THEN "send" ELSE "wait")
    /\ UNCHANGED <<firmware, link, task, work, flags, table, power, request_done, raw, calls,
                   faults, seen>>

\* A signal ends the wait with an error that is not 0, and so not an error.
LinkSignal(t) ==
    /\ req[t].pc \in {"link", "link2"}
    /\ suspended
    /\ Step(t, IF req[t].pc = "link" THEN "send" ELSE "wait")
    /\ UNCHANGED <<firmware, link, task, work, flags, table, power, request_done, raw, calls,
                   faults, seen>>

LinkTimeout(t) ==
    /\ suspended
    /\ \/ /\ req[t].pc = "link"
          /\ Step(t, "link2")
          /\ UNCHANGED <<faults, seen>>
       \/ /\ req[t].pc = "link2"
          /\ req' = [req EXCEPT ![t] = NoCall]
          /\ GiveUp
    /\ UNCHANGED <<firmware, link, task, work, flags, table, power, request_done, raw, calls>>

\* A device that is not in the table, or a failure to send, is not reported.
RequestSend(t) ==
    /\ req[t].pc = "send"
    /\ \/ /\ connected /\ req[t].dev <= num_hid_devices
          /\ toFw' = Append(toFw, Msg(IF req[t].kind = "set" THEN "set" ELSE "get",
                                      req[t].dev, req[t].id))
          /\ UNCHANGED faults
       \/ /\ IF connected /\ req[t].dev <= num_hid_devices THEN Fault ELSE UNCHANGED faults
          /\ UNCHANGED toFw
    /\ Step(t, "link2")
    /\ UNCHANGED <<firmware, connected, event_cb, fromFw, task, work, flags, table, power,
                   request_done, raw, calls, seen>>

\* ishtp_wait_for_response
Answered(t) ==
    /\ req[t].pc = "wait"
    /\ request_done[req[t].dev] # 0
    /\ Step(t, "clear")
    /\ SeeIf(request_done[req[t].dev] # req[t].id, "mixed")
    /\ UNCHANGED <<firmware, link, task, work, flags, table, power, request_done, raw, calls,
                   faults>>

RequestReturns(t) ==
    /\ req[t].pc = "clear"
    /\ request_done' = [request_done EXCEPT ![req[t].dev] = 0]
    /\ req' = [req EXCEPT ![t] = NoCall]
    /\ UNCHANGED <<firmware, link, task, work, flags, table, power, raw, calls, faults, seen>>

Unanswered(t) ==
    /\ req[t].pc = "wait"
    /\ request_done[req[t].dev] = 0
    /\ GiveUp
    /\ req' = [req EXCEPT ![t] = NoCall]
    /\ UNCHANGED <<firmware, link, task, work, flags, table, power, request_done, raw, calls>>

Request(t) == \/ Call(t) \/ LinkReady(t) \/ LinkSignal(t) \/ LinkTimeout(t) \/ RequestSend(t)
              \/ Answered(t) \/ RequestReturns(t) \/ Unanswered(t)
-----------------------------------------------------------------------------
(***************************************************************************)
(* hid_ishtp_cl_suspend, hid_ishtp_cl_resume and its work                  *)
(***************************************************************************)
\* The driver is bound: its probe went well, and the device is not removed.
Bound == device = "held" \/ (device = "doomed" /\ task.pc = "idle")

Suspend ==
    /\ pm = "on" /\ Bound
    /\ Fault
    /\ pm' = "asleep" /\ suspended' = TRUE
    /\ UNCHANGED <<firmware, link, task, work, flags, table, requests, calls, seen>>

\* The firmware does not always acknowledge: then only a reset opens the gate.
Resume ==
    /\ pm = "asleep"
    /\ pm' = "on"
    /\ \/ suspended' = FALSE /\ UNCHANGED <<faults, seen>>
       \/ Fault /\ See({"unresumed"}) /\ UNCHANGED suspended
    /\ UNCHANGED <<firmware, link, task, work, flags, table, requests, calls>>
-----------------------------------------------------------------------------
Next == \/ FwAnswers \/ FwResets \/ Bus \/ FwBoots \/ FwBootsWithout \/ ProcessRecv
        \/ ClInit \/ Timeout \/ Suspend \/ Resume
        \/ \E t \in Threads : Request(t)

Spec == Init /\ [][Next]_vars

\* The firmware boots and answers, work items run, and a wait ends.
FairSpec == /\ Spec
            /\ WF_vars(FwAnswers) /\ WF_vars(Bus) /\ WF_vars(FwBoots) /\ WF_vars(ProcessRecv)
            /\ WF_vars(ClInit \/ Timeout) /\ WF_vars(Resume)
-----------------------------------------------------------------------------
(***************************************************************************)
(* Once initialized, each HID device has its own descriptors: an answer    *)
(* names its device and process_recv stores it at cur_hid_dev all the      *)
(* same, which is right as long as nobody is asked before the last answer  *)
(* came or the connection ended.                                           *)
(***************************************************************************)
DescriptorsRight ==
    init_done => \A k \in Kinds, i \in 1 .. num_hid_devices : descr[k][i] = i

(***************************************************************************)
(* A thread returns with the answer to its own request, and no answer is   *)
(* copied to the buffer of a call that has returned, unless a wait ended   *)
(* before its answer came, or two threads asked one device at a time.      *)
(***************************************************************************)
OwnAnswers ==
    seen \cap {"mixed", "dead"} # {} => seen \cap {"late", "overlapped"} # {}

(***************************************************************************)
(* The driver takes an answer for a bad packet, and resets the firmware,   *)
(* only while it talks to a firmware without HID devices, which its stale  *)
(* enum_devices_done makes it reset for ever: no delay, retry, suspend or  *)
(* restart of a firmware with devices leads to it.                         *)
(***************************************************************************)
ResetsForCause == "bad" \in seen => "empty" \in seen

(***************************************************************************)
(* After the last firmware reset, suspend and failure, the client is       *)
(* connected and initialized and its gate is open: by a reset work, or by  *)
(* the probe of a new device when the reset came in the first probe or     *)
(* after a failed one.  Except that a wait ended before its answer came,   *)
(* the firmware came back with other devices or without any, the device    *)
(* was not added or the resume not acknowledged; that a step failed by     *)
(* itself and all tries are used up; or that the client is freed or twice  *)
(* in cl_list for good.                                                    *)
(***************************************************************************)
Settled == /\ init_done /\ connected /\ device = "held"
           /\ ~work /\ task.pc = "idle" /\ (pm = "on" => ~suspended)

GivenUp == \/ task.pc = "dead"
           \/ task.pc = "failed" /\ "failed" \in seen /\ fw = "up" /\ ~work

ComesUp == <>[](\/ Settled \/ GivenUp
                \/ seen \cap {"late", "changed", "empty", "unadded", "unresumed"} # {})
=============================================================================
