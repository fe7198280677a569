---------------------------- MODULE PseLifecycle ----------------------------
(***************************************************************************)
(* Opening, connecting, closing and resetting /dev/pse: the file           *)
(* operations of pse.c, its bus callbacks, and what they use of client.c   *)
(* (link, connect, disconnect, unlink, free) and of bus.c (the removal of  *)
(* the devices in a firmware reset and the probing of new ones).           *)
(*                                                                         *)
(* pse_dev keeps one client (pse_dev.cl) and one message (pse_rb.rb) for   *)
(* the whole driver.  The driver takes no reference on its bus device, so  *)
(* a firmware reset removes the device and probes a new one, and the reset *)
(* callback is never called.                                               *)
(*                                                                         *)
(* Every call reads pse_dev.cl again, and an open replaces it without      *)
(* pse_rb.lock: a step is what lies between two such reads, or one section *)
(* of device_lock or cl_list_lock.  Reads are in one step only when an     *)
(* open between them has the effect of one before or after the step.       *)
(*                                                                         *)
(* A client freed is never allocated again here, so that a pointer to it   *)
(* is known to dangle.  The first use of such a pointer, or of a NULL one, *)
(* sets oops and ends the behaviour.                                       *)
(***************************************************************************)
EXTENDS Naturals, Sequences, FiniteSets

CONSTANTS Users,      \* threads with a file of their own
          Callers,    \* bound: those of them that connect it
          Bus,        \* fw_reset_work and the HBM work that enumerates again
          Ev,         \* the event work of the bus device
          Cls,        \* clients, each allocated once
          Senders,    \* bound: those of them that the firmware sends messages to
          None,
          MaxResets,  \* bound: firmware resets
          MaxReqs     \* bound: connect requests under way

Contexts == Users \cup {Bus, Ev}
Ids      == 0 .. Cardinality(Cls) - 1  \* host client ids

ASSUME ContextsAssumption ==
    /\ Callers \subseteq Users /\ Users \cap {Bus, Ev} = {} /\ Bus # Ev
    /\ None \notin Cls \cup Contexts
ASSUME BoundsAssumption == IsFiniteSet(Cls) /\ MaxResets \in Nat /\ MaxReqs \in Nat

VARIABLES
    enabled,     \* dev_state is ISHTP_DEV_ENABLED
    registered,  \* the character device is there
    eventCb,     \* event_cb of the bus device is set
    eventWork,   \* event_work of the bus device is scheduled
    cl,          \* pse_dev.cl
    rbOf,        \* the client whose message is in pse_rb.rb
    lock,        \* owner of pse_rb.lock
    allocated,   \* clients allocated so far
    alive,       \* and not freed
    linked,      \* the clients in cl_list
    hid,         \* host_client_id
    hostMap,     \* host_clients_map
    handles,     \* open_handle_count
    addressed,   \* fw_client_id is set
    state,       \* state of each client
    ready,       \* the client is bound to its device and has its rings
    hasMsg,      \* its in_process_list is not empty
    reqs,        \* connect and disconnect requests under way to the firmware
    pc,          \* where each context is
    my,          \* the client a context was given, or has allocated
    resets,      \* firmware resets so far
    oops,        \* history: a dangling or NULL pointer was used
    hindered,    \* history: clients connected by a late answer, or without rings
    refused,     \* history: links of a disabled device so far
    raced        \* history: an open, a release or a probe disturbed another, see Races

devVars    == <<enabled, registered, eventCb, eventWork>>
pseVars    == <<cl, rbOf, lock>>
listVars   == <<allocated, alive, linked, hid, hostMap, handles>>
clVars     == <<addressed, state, ready, hasMsg, reqs>>
histVars   == <<resets, oops, hindered, refused, raced>>
vars       == <<devVars, pseVars, listVars, clVars, pc, my, histVars>>

Goto(p, label)   == pc' = [pc EXCEPT ![p] = label]
Return(u, label) == Goto(u, label) /\ my' = [my EXCEPT ![u] = None]

Connectable == {"INITIALIZING", "DISCONNECTED"}

\* The header of a request, which the response repeats: the two addresses of a
\* client, of which only the host's tells the PSE's clients apart.
Request(kind, c) == [kind |-> kind, host |-> hid[c], fw |-> addressed[c]]

\* After the host id was given back, and before the client is freed
Disposing(p) == pc[p] \in {"list", "queues", "free"}
-----------------------------------------------------------------------------
\* The PSE's bus device has been probed and nobody has opened the file.
Init ==
    /\ enabled = TRUE
    /\ registered = TRUE
    /\ eventCb = TRUE
    /\ eventWork = FALSE
    /\ cl = None
    /\ rbOf = None
    /\ lock = None
    /\ allocated = {}
    /\ alive = {}
    /\ linked = {}
    /\ hid = [c \in Cls |-> 0]
    /\ hostMap = {}
    /\ handles = 0
    /\ addressed = [c \in Cls |-> FALSE]
    /\ state = [c \in Cls |-> "INITIALIZING"]
    /\ ready = [c \in Cls |-> FALSE]
    /\ hasMsg = [c \in Cls |-> FALSE]
    /\ reqs = <<>>
    /\ pc = [p \in Contexts |-> IF p \in Users THEN "closed" ELSE "idle"]
    /\ my = [p \in Contexts |-> None]
    /\ resets = 0
    /\ oops = FALSE
    /\ hindered = {}
    /\ refused = 0
    /\ raced = FALSE

(***************************************************************************)
(* Plausible mistakes, each of which breaks a property below: an unlinking *)
(* that keeps the id, rings allocated only when somebody reads, and a      *)
(* release that returns with the lock held.                                *)
(***************************************************************************)
UnlinkIdKept(p) ==
    /\ pc[p] = "unlink"
    /\ cl \in alive \cup {None}
    /\ handles' = IF cl # None /\ handles > 0 THEN handles - 1 ELSE handles
    /\ my' = [my EXCEPT ![p] = cl]
    /\ Goto(p, IF cl = None THEN "queues" ELSE "list")
    /\ UNCHANGED <<devVars, pseVars, allocated, alive, linked, hid, hostMap, clVars, histVars>>

ConnDoneUnbound(u) ==
    /\ pc[u] = "wait"
    /\ Return(u, "file")
    /\ UNCHANGED <<devVars, pseVars, listVars, clVars, histVars>>

RelNullLocked(u) ==
    /\ pc[u] = "null"
    /\ rbOf \in alive \cup {None}
    /\ cl' = None
    /\ rbOf' = None
    /\ Return(u, "closed")
    /\ UNCHANGED <<devVars, lock, listVars, clVars, histVars>>

\* What is in freed memory does not matter, for nobody reads it before an oops.
Kfree(c) ==
    /\ alive' = alive \ {c}
    /\ addressed' = [d \in Cls |-> addressed[d] /\ d # c]
    /\ state' = [d \in Cls |-> IF d = c THEN "INITIALIZING" ELSE state[d]]
    /\ ready' = [d \in Cls |-> ready[d] /\ d # c]
    /\ hasMsg' = [d \in Cls |-> hasMsg[d] /\ d # c]
    /\ hindered' = hindered \ {c}

Oops ==
    /\ oops' = TRUE
    /\ UNCHANGED <<devVars, pseVars, listVars, clVars, pc, my, resets, hindered, refused, raced>>

(***************************************************************************)
(* How a release and ishtp_pse_remove take down whatever is in pse_dev.cl  *)
(* at each call: ishtp_cl_disconnect, ishtp_cl_unlink, which gives back    *)
(* the host id under one lock and takes the first client with that id off  *)
(* the list under another, ishtp_cl_flush_queues and ishtp_cl_free.        *)
(***************************************************************************)
Disconnect(p) ==
    /\ pc[p] \in {"disc", "remove"}
    /\ cl \in alive
    /\ state' = [state EXCEPT ![cl] = "DISCONNECTING"]
    /\ hindered' = hindered \ {cl}
    /\ \/ /\ enabled /\ Len(reqs) < MaxReqs
          /\ reqs' = Append(reqs, Request("disconnect", cl))
          /\ my' = [my EXCEPT ![p] = cl]
          /\ Goto(p, "rwait")
       \/ Return(p, "unlink") /\ UNCHANGED reqs
    /\ UNCHANGED <<devVars, pseVars, listVars, addressed, ready, hasMsg, resets, oops, refused,
                   raced>>

Wake(p) ==
    /\ pc[p] = "rwait"
    /\ my[p] \in alive
    /\ ~enabled \/ state[my[p]] = "DISCONNECTED"
    /\ Return(p, "unlink")
    /\ UNCHANGED <<devVars, pseVars, listVars, clVars, histVars>>

Timeout(p) ==
    /\ pc[p] = "rwait"
    /\ my[p] \in alive
    /\ Return(p, "unlink")
    /\ UNCHANGED <<devVars, pseVars, listVars, clVars, histVars>>

UnlinkId(p) ==
    /\ pc[p] = "unlink"
    /\ cl \in alive \cup {None}
    /\ IF cl # None /\ handles > 0
       THEN handles' = handles - 1 /\ hostMap' = hostMap \ {hid[cl]}
       ELSE UNCHANGED <<handles, hostMap>>
    /\ my' = [my EXCEPT ![p] = cl]
    /\ Goto(p, IF cl = None THEN "queues" ELSE "list")
    /\ UNCHANGED <<devVars, pseVars, allocated, alive, linked, hid, clVars, histVars>>

\* Two have the same id only after a race; the order of the list is not modelled.
UnlinkList(p) ==
    /\ pc[p] = "list"
    /\ my[p] \in alive
    /\ linked \subseteq alive
    /\ LET named == {c \in linked : hid[c] = hid[my[p]]} IN
          IF named = {} THEN UNCHANGED linked ELSE \E c \in named : linked' = linked \ {c}
    /\ Return(p, "queues")
    /\ UNCHANGED <<devVars, pseVars, allocated, alive, hid, hostMap, handles, clVars, histVars>>

FlushQueues(p) ==
    /\ pc[p] = "queues"
    /\ cl \in alive \cup {None}
    /\ Goto(p, "free")
    /\ UNCHANGED <<devVars, pseVars, listVars, clVars, my, histVars>>

Free(p) ==
    /\ pc[p] = "free"
    /\ cl \in alive \cup {None}
    /\ Kfree(cl)
    /\ Goto(p, "null")
    /\ UNCHANGED <<devVars, pseVars, allocated, linked, hid, hostMap, handles, reqs, my, resets,
                   oops, refused, raced>>

TakeDown(p) == \/ Disconnect(p) \/ Wake(p) \/ Timeout(p)
               \/ UnlinkId(p) \/ UnlinkList(p) \/ FlushQueues(p) \/ Free(p)

\* The call uses a client that is not there, or meets one in cl_list.
TakeDownOops(p) ==
    \/ pc[p] \in {"disc", "remove"} /\ cl \notin alive
    \/ pc[p] \in {"rwait", "list"} /\ my[p] \notin alive
    \/ pc[p] \in {"unlink", "queues", "free"} /\ cl \notin alive \cup {None}
    \/ pc[p] = "list" /\ ~(linked \subseteq alive)

(***************************************************************************)
(* The uses of a client that is no longer there: every one of these labels *)
(* is followed by an access through pse_dev.cl, through the client that a  *)
(* function was given, or through cl_list.  A write uses the device the    *)
(* client is bound to.  An open that links a client which another open has *)
(* linked corrupts cl_list, and that is an oops too.                       *)
(***************************************************************************)
UserOops(u) ==
    /\ \/ /\ pc[u] = "link"
          /\ {my[u], cl} \cap linked # {} \/ ~({my[u], cl} \subseteq alive \cup {None})
       \/ pc[u] = "link" /\ ~(linked \subseteq alive)
       \/ pc[u] = "lfree" /\ cl \notin alive \cup {None}
       \/ pc[u] \in {"ioctl", "address", "set"} /\ cl \notin alive
       \/ pc[u] = "call" /\ cl \notin alive \cup {None}
       \/ pc[u] \in {"conn", "wait"} /\ my[u] \notin alive
       \/ pc[u] = "conn" /\ ~(linked \subseteq alive)
       \/ pc[u] = "file" /\ cl \notin alive \cup {None}
       \/ /\ pc[u] = "file"
          /\ cl \in alive
          /\ enabled
          /\ state[cl] = "CONNECTED"
          /\ ~ready[cl] \/ (lock = None /\ rbOf \notin alive \cup {None})
    /\ Oops

RelOops(u) ==
    /\ \/ pc[u] = "rlock" /\ lock = None /\ cl \notin alive
       \/ TakeDownOops(u)
       \/ pc[u] = "null" /\ rbOf \notin alive \cup {None}
    /\ Oops

EventOops ==
    /\ pc[Ev] = "cb"
    /\ lock = None
    /\ rbOf = None
    /\ cl \notin alive
    /\ Oops

BusOops ==
    /\ \/ pc[Bus] = "flush" /\ ~(linked \subseteq alive)
       \/ TakeDownOops(Bus)
    /\ Oops

(***************************************************************************)
(* ishtp_pse_open.  It links the client it allocated, which the compiler   *)
(* may keep in a register, or the one that is in pse_dev.cl by then; the   *)
(* kfree after a failed link reads pse_dev.cl again.                       *)
(*                                                                         *)
(* Races: it links or frees the client of another open, or it links one    *)
(* after a release has unlinked the one it had and before it frees         *)
(* whichever is in pse_dev.cl.                                             *)
(***************************************************************************)
Races(u, c) == c # my[u] \/ \E p \in Contexts : Disposing(p)

OpenAlloc(u) ==
    /\ pc[u] = "closed"
    /\ registered
    /\ allocated # Cls
    /\ cl' = CHOOSE c \in Cls \ allocated : TRUE
    /\ allocated' = allocated \cup {cl'}
    /\ alive' = alive \cup {cl'}
    /\ my' = [my EXCEPT ![u] = cl']
    /\ Goto(u, "link")
    /\ UNCHANGED <<devVars, rbOf, lock, linked, hid, hostMap, handles, clVars, histVars>>

OpenNoMem(u) ==
    /\ pc[u] = "closed"
    /\ registered
    /\ cl' = None
    /\ UNCHANGED <<devVars, rbOf, lock, listVars, clVars, pc, my, histVars>>

\* find_first_zero_bit
HostId(c) ==
    \E i \in Ids \ hostMap :
        /\ \A j \in Ids \ hostMap : i <= j
        /\ hid' = [hid EXCEPT ![c] = i]

OpenLink(u) ==
    /\ pc[u] = "link"
    /\ linked \subseteq alive
    /\ enabled
    /\ \E c \in {my[u], cl} \cap (alive \ linked) :
          /\ HostId(c)
          /\ hostMap' = hostMap \cup {hid'[c]}
          /\ linked' = linked \cup {c}
          /\ state' = [state EXCEPT ![c] = "INITIALIZING"]
          /\ raced' = (raced \/ Races(u, c))
    /\ handles' = handles + 1
    /\ Return(u, "file")
    /\ UNCHANGED <<devVars, pseVars, allocated, alive, addressed, ready, hasMsg, reqs, resets, oops,
                   hindered, refused>>

\* The device is disabled: the handle is counted and the id given, but not
\* marked as used.
OpenLinkDisabled(u) ==
    /\ pc[u] = "link"
    /\ ~enabled
    /\ \E c \in {my[u], cl} \cap alive :
          /\ HostId(c)
          /\ raced' = (raced \/ c # my[u])
    /\ handles' = handles + 1
    /\ refused' = refused + 1
    /\ Goto(u, "lfree")
    /\ UNCHANGED <<devVars, pseVars, allocated, alive, linked, hostMap, clVars, my, resets, oops,
                   hindered>>

\* Another context has set pse_dev.cl to NULL, or the device has no handle or
\* no id left, which failed links and the clients of other drivers use up.
OpenLinkRefused(u) ==
    /\ pc[u] = "link"
    /\ {my[u], cl} \cap (alive \cup {None}) # {}
    /\ Goto(u, "lfree")
    /\ UNCHANGED <<devVars, pseVars, listVars, clVars, my, histVars>>

\* pse_dev.cl goes on pointing to the client that is freed.
OpenFree(u) ==
    /\ pc[u] = "lfree"
    /\ cl \in alive \cup {None}
    /\ Kfree(cl)
    /\ raced' = (raced \/ cl \notin {my[u], None})
    /\ Return(u, "closed")
    /\ UNCHANGED <<devVars, pseVars, allocated, linked, hid, hostMap, handles, reqs, resets, oops,
                   refused>>

Open(u) == \/ OpenAlloc(u) \/ OpenNoMem(u) \/ OpenLink(u)
           \/ OpenLinkDisabled(u) \/ OpenLinkRefused(u) \/ OpenFree(u)

(***************************************************************************)
(* ishtp_pse_ioctl and ishtp_cl_connect, which hold no lock.               *)
(***************************************************************************)
IoctlCall(u) ==
    /\ u \in Callers
    /\ pc[u] = "file"
    /\ cl # None
    /\ Goto(u, "ioctl")
    /\ UNCHANGED <<devVars, pseVars, listVars, clVars, my, histVars>>

\* The device is disabled, the connection is open, or no client of the
\* firmware has the UUID.
IoctlRefused(u) ==
    /\ pc[u] = "ioctl"
    /\ cl \in alive
    /\ Goto(u, "file")
    /\ UNCHANGED <<devVars, pseVars, listVars, clVars, my, histVars>>

IoctlCheck(u) ==
    /\ pc[u] = "ioctl"
    /\ cl \in alive
    /\ enabled
    /\ state[cl] \in Connectable
    /\ Goto(u, "address")
    /\ UNCHANGED <<devVars, pseVars, listVars, clVars, my, histVars>>

IoctlAddress(u) ==
    /\ pc[u] = "address"
    /\ cl \in alive
    /\ addressed' = [addressed EXCEPT ![cl] = TRUE]
    /\ Goto(u, "set")
    /\ UNCHANGED <<devVars, pseVars, listVars, state, ready, hasMsg, reqs, my, histVars>>

IoctlSet(u) ==
    /\ pc[u] = "set"
    /\ cl \in alive
    /\ state' = [state EXCEPT ![cl] = "CONNECTING"]
    /\ hindered' = hindered \ {cl}
    /\ Goto(u, "call")
    /\ UNCHANGED <<devVars, pseVars, listVars, addressed, ready, hasMsg, reqs, my, resets, oops,
                   refused, raced>>

\* ishtp_cl_connect refuses NULL.
ConnCall(u) ==
    /\ pc[u] = "call"
    /\ cl \in alive \cup {None}
    /\ my' = [my EXCEPT ![u] = cl]
    /\ Goto(u, IF cl = None THEN "file" ELSE "conn")
    /\ UNCHANGED <<devVars, pseVars, listVars, clVars, histVars>>

OtherConnecting(c) ==
    \E d \in linked \ {c} : addressed[d] = addressed[c] /\ state[d] = "CONNECTING"

\* -EBUSY, or no IPC buffer for the request: the state stays CONNECTING.
ConnFails(u) ==
    /\ pc[u] = "conn"
    /\ my[u] \in alive
    /\ linked \subseteq alive
    /\ Return(u, "file")
    /\ UNCHANGED <<devVars, pseVars, listVars, clVars, histVars>>

ConnReq(u) ==
    /\ pc[u] = "conn"
    /\ my[u] \in alive
    /\ linked \subseteq alive
    /\ ~OtherConnecting(my[u])
    /\ Len(reqs) < MaxReqs
    /\ reqs' = Append(reqs, Request("connect", my[u]))
    /\ Goto(u, "wait")
    /\ UNCHANGED <<devVars, pseVars, listVars, addressed, state, ready, hasMsg, my, histVars>>

\* The wait ends with an answer, or with the timeout or a signal.
ConnError(u) ==
    /\ pc[u] = "wait"
    /\ my[u] \in alive
    /\ ~enabled \/ state[my[u]] # "CONNECTED"
    /\ Return(u, "file")
    /\ UNCHANGED <<devVars, pseVars, listVars, clVars, histVars>>

ConnDone(u) ==
    /\ pc[u] = "wait"
    /\ my[u] \in alive
    /\ enabled
    /\ state[my[u]] = "CONNECTED"
    /\ ready' = [ready EXCEPT ![my[u]] = TRUE]
    /\ Return(u, "file")
    /\ UNCHANGED <<devVars, pseVars, listVars, addressed, state, hasMsg, reqs, histVars>>

\* The rings cannot be allocated: ishtp_cl_disconnect does nothing, for the
\* state is not DISCONNECTING.
ConnNoRings(u) ==
    /\ pc[u] = "wait"
    /\ enabled
    /\ my[u] \in alive
    /\ state[my[u]] = "CONNECTED"
    /\ hindered' = hindered \cup {my[u]}
    /\ Return(u, "file")
    /\ UNCHANGED <<devVars, pseVars, listVars, clVars, resets, oops, refused, raced>>

Connect(u) == \/ IoctlRefused(u)
              \/ IoctlCheck(u)
              \/ IoctlAddress(u)
              \/ IoctlSet(u)
              \/ ConnCall(u)
              \/ ConnFails(u)
              \/ ConnReq(u)
              \/ ConnError(u)
              \/ ConnDone(u)
              \/ ConnNoRings(u)

\* ishtp_pse_read recycles the buffer it has read.
ReadRecycle(u) ==
    /\ pc[u] = "file"
    /\ lock = None
    /\ cl \in alive
    /\ enabled
    /\ state[cl] = "CONNECTED"
    /\ rbOf \in alive
    /\ rbOf' = None
    /\ UNCHANGED <<devVars, cl, lock, listVars, clVars, pc, my, histVars>>

(***************************************************************************)
(* ishtp_pse_release                                                       *)
(***************************************************************************)
ReleaseCall(u) ==
    /\ pc[u] = "file"
    /\ Goto(u, IF cl = None THEN "closed" ELSE "rlock")
    /\ UNCHANGED <<devVars, pseVars, listVars, clVars, my, histVars>>

RelLock(u) ==
    /\ pc[u] = "rlock"
    /\ lock = None
    /\ cl \in alive
    /\ lock' = u
    /\ Goto(u, IF enabled /\ state[cl] = "CONNECTED" THEN "disc" ELSE "unlink")
    /\ UNCHANGED <<devVars, cl, rbOf, listVars, clVars, my, histVars>>

RelNull(u) ==
    /\ pc[u] = "null"
    /\ rbOf \in alive \cup {None}
    /\ cl' = None
    /\ rbOf' = None
    /\ lock' = None
    /\ Return(u, "closed")
    /\ UNCHANGED <<devVars, listVars, clVars, histVars>>

Release(u) == TakeDown(u) \/ RelNull(u) \/ RelOops(u)

(***************************************************************************)
(* ishtp_pse_event_cb, called by the event work.                           *)
(***************************************************************************)
EventStart ==
    /\ pc[Ev] = "idle"
    /\ eventWork
    /\ eventWork' = FALSE
    /\ Goto(Ev, IF eventCb THEN "cb" ELSE "idle")
    /\ UNCHANGED <<enabled, registered, eventCb, pseVars, listVars, clVars, my, histVars>>

EventTake ==
    /\ pc[Ev] = "cb"
    /\ lock = None
    /\ rbOf # None \/ cl \in alive
    /\ IF rbOf = None /\ hasMsg[cl]
       THEN rbOf' = cl /\ hasMsg' = [hasMsg EXCEPT ![cl] = FALSE]
       ELSE UNCHANGED <<rbOf, hasMsg>>
    /\ Goto(Ev, "idle")
    /\ UNCHANGED <<devVars, cl, lock, listVars, addressed, state, ready, reqs, my, histVars>>

Event == EventStart \/ EventTake \/ EventOops

(***************************************************************************)
(* A firmware reset: ishtp_reset_handler disconnects every client, removes *)
(* the bus device, whose event_cb it clears first, and so calls            *)
(* ishtp_pse_remove; the enumeration that follows probes a new device.     *)
(***************************************************************************)
ResetStart ==
    /\ pc[Bus] = "idle"
    /\ resets < MaxResets
    /\ resets' = resets + 1
    /\ enabled' = FALSE
    /\ reqs' = <<>>
    /\ Goto(Bus, "flush")
    /\ UNCHANGED <<registered, eventCb, eventWork, pseVars, listVars, addressed, state, ready,
                   hasMsg, my, oops, hindered, refused, raced>>

ResetFlush ==
    /\ pc[Bus] = "flush"
    /\ linked \subseteq alive
    /\ state' = [c \in Cls |-> IF c \in linked THEN "DISCONNECTED" ELSE state[c]]
    /\ ready' = [c \in Cls |-> ready[c] /\ c \notin linked]
    /\ hasMsg' = [c \in Cls |-> hasMsg[c] /\ c \notin linked]
    /\ hindered' = hindered \ linked
    /\ eventCb' = FALSE
    /\ Goto(Bus, "cancel")
    /\ UNCHANGED <<enabled, registered, eventWork, pseVars, listVars, addressed, reqs, my, resets,
                   oops, refused, raced>>

\* cancel_work_sync waits for a callback that runs.
ResetCancel ==
    /\ pc[Bus] = "cancel"
    /\ pc[Ev] = "idle"
    /\ eventWork' = FALSE
    /\ Goto(Bus, "lock")
    /\ UNCHANGED <<enabled, registered, eventCb, pseVars, listVars, clVars, my, histVars>>

RemoveLock ==
    /\ pc[Bus] = "lock"
    /\ lock = None
    /\ IF cl = None
       THEN Goto(Bus, "unregister") /\ UNCHANGED lock
       ELSE Goto(Bus, "remove") /\ lock' = Bus
    /\ UNCHANGED <<devVars, cl, rbOf, listVars, clVars, my, histVars>>

RemoveNull ==
    /\ pc[Bus] = "null"
    /\ cl' = None
    /\ lock' = None
    /\ Goto(Bus, "unregister")
    /\ UNCHANGED <<devVars, rbOf, listVars, clVars, my, histVars>>

Unregister ==
    /\ pc[Bus] = "unregister"
    /\ registered' = FALSE
    /\ Goto(Bus, "enumerate")
    /\ UNCHANGED <<enabled, eventCb, eventWork, pseVars, listVars, clVars, my, histVars>>

Enumerated ==
    /\ pc[Bus] = "enumerate"
    /\ enabled' = TRUE
    /\ Goto(Bus, "probe")
    /\ UNCHANGED <<registered, eventCb, eventWork, pseVars, listVars, clVars, my, histVars>>

\* ishtp_pse_probe initializes the mutex anew, be it held, but not pse_rb.rb.
Probe ==
    /\ pc[Bus] = "probe"
    /\ lock' = None
    /\ raced' = (raced \/ lock # None)
    /\ eventCb' = TRUE
    /\ registered' = TRUE
    /\ Goto(Bus, "idle")
    /\ UNCHANGED <<enabled, eventWork, cl, rbOf, listVars, clVars, my, resets, oops, hindered,
                   refused>>

ResetStep == \/ ResetFlush \/ ResetCancel \/ TakeDown(Bus) \/ RemoveNull
             \/ Unregister \/ Enumerated \/ Probe \/ BusOops

(***************************************************************************)
(* The firmware and the interrupt: responses to requests (found by host    *)
(* and firmware id), messages, and disconnections the firmware asks for.   *)
(***************************************************************************)
Addressee(r) == {c \in linked : hid[c] = r.host /\ addressed[c] = r.fw}

Waits(c) == \E u \in Users : my[u] = c /\ pc[u] = "wait"

FwResponds ==
    /\ enabled
    /\ linked \subseteq alive
    /\ reqs # <<>>
    /\ reqs' = Tail(reqs)
    /\ \E answer \in IF Head(reqs).kind = "connect" THEN {"CONNECTED", "DISCONNECTED"}
                                                     ELSE {"DISCONNECTED"} :
          /\ state' = [c \in Cls |-> IF c \in Addressee(Head(reqs)) THEN answer ELSE state[c]]
          /\ hindered' = {c \in hindered \cup Addressee(Head(reqs)) :
                              c \in Addressee(Head(reqs)) => answer = "CONNECTED" /\ ~Waits(c)}
    /\ UNCHANGED <<devVars, pseVars, listVars, addressed, ready, hasMsg, pc, my, resets, oops,
                   refused, raced>>

FwDisconnects ==
    /\ enabled
    /\ linked \subseteq alive
    /\ \E c \in linked :
          /\ state[c] = "CONNECTED"
          /\ state' = [state EXCEPT ![c] = "DISCONNECTED"]
          /\ hindered' = hindered \ {c}
    /\ UNCHANGED <<devVars, pseVars, listVars, addressed, ready, hasMsg, reqs, pc, my, resets, oops,
                   refused, raced>>

FwMessage ==
    /\ enabled
    /\ linked \subseteq alive
    /\ \E c \in linked \cap Senders :
          /\ state[c] = "CONNECTED"
          /\ ready[c]
          /\ ~hasMsg[c]
          /\ hasMsg' = [hasMsg EXCEPT ![c] = TRUE]
    /\ eventWork' = (eventWork \/ eventCb)
    /\ UNCHANGED <<enabled, registered, eventCb, pseVars, listVars, addressed, state, ready, reqs,
                   pc, my, histVars>>
-----------------------------------------------------------------------------
Step ==
    \/ \E u \in Users : \/ Open(u)
                        \/ IoctlCall(u)
                        \/ Connect(u)
                        \/ ReadRecycle(u)
                        \/ ReleaseCall(u)
                        \/ RelLock(u)
                        \/ Release(u)
                        \/ UserOops(u)
    \/ Event
    \/ ResetStart
    \/ RemoveLock
    \/ ResetStep
    \/ FwResponds
    \/ FwDisconnects
    \/ FwMessage

Next == ~oops /\ Step

Spec == Init /\ [][Next]_vars

\* Every context that is in the kernel runs on, timeouts expire, and a mutex
\* that stays free is handed to whoever waits for it.  That is enough, for a
\* release follows an open, and Cls bounds the opens.
Fairness ==
    /\ WF_vars(~oops /\ (RemoveLock \/ ResetStep))
    /\ WF_vars(~oops /\ Event)
    /\ \A u \in Users : WF_vars(~oops /\ Release(u))

FairSpec == Spec /\ Fairness
-----------------------------------------------------------------------------
ClientStates == {"INITIALIZING", "CONNECTING", "CONNECTED", "DISCONNECTING", "DISCONNECTED"}

TypeOK ==
    /\ enabled \in BOOLEAN /\ registered \in BOOLEAN
    /\ eventCb \in BOOLEAN /\ eventWork \in BOOLEAN
    /\ oops \in BOOLEAN /\ hindered \subseteq Cls /\ raced \in BOOLEAN /\ refused \in Nat
    /\ cl \in Cls \cup {None}
    /\ rbOf \in Cls \cup {None}
    /\ lock \in Contexts \cup {None}
    /\ alive \subseteq allocated /\ allocated \subseteq Cls
    /\ linked \subseteq Cls
    /\ hid \in [Cls -> Ids]
    /\ hostMap \subseteq Ids
    /\ handles \in Nat
    /\ addressed \in [Cls -> BOOLEAN]
    /\ state \in [Cls -> ClientStates]
    /\ ready \in [Cls -> BOOLEAN]
    /\ hasMsg \in [Cls -> BOOLEAN]
    /\ reqs \in Seq([kind : {"connect", "disconnect"}, host : Ids, fw : BOOLEAN])
    /\ my \in [Contexts -> Cls \cup {None}]
    /\ resets \in 0 .. MaxResets

(***************************************************************************)
(* The bookkeeping of links is exact however opens, releases and resets    *)
(* follow on each other: cl_list, over which the interrupt and the reset   *)
(* walk, has live clients only; no two have the host id by which the       *)
(* firmware's messages find them, and every id marked as used is of one of *)
(* them, a client whose id a release has given back aside, until it takes  *)
(* it off the list.                                                        *)
(*                                                                         *)
(* open_handle_count, without which an unlinking does not give the id      *)
(* back, counts every client that can still be unlinked: the one in        *)
(* pse_dev.cl, and the one whose id that has without being linked, which   *)
(* is 0 before a link.  It counts no more than there are and one for each  *)
(* link of a disabled device, which nobody gives back.  It may count less: *)
(* after three opens that overlap a client that was never linked is freed, *)
(* and the handle given back is another's.                                 *)
(*                                                                         *)
(* Not so once an open linked a client in the middle of a release, which   *)
(* then frees it in the list, an open used the client of another one, or   *)
(* the probe initialized a mutex that was held.                            *)
(***************************************************************************)
Leaving    == {c \in linked : \E p \in Contexts : pc[p] = "list" /\ hid[c] = hid[my[p]]}
Unlinkable == {c \in linked : c = cl \/ hid[c] = 0 \/ (cl # None /\ hid[c] = hid[cl])}

LinkedAlive    == linked \subseteq alive
HostIdsExact   == /\ \A c, d \in linked : hid[c] = hid[d] => c = d
                  /\ hostMap = {hid[c] : c \in linked \ Leaving}
HandlesCounted == /\ Cardinality(Unlinkable \ Leaving) <= handles
                  /\ handles <= Cardinality(linked \ Leaving) + refused

LinksExact == raced \/ (LinkedAlive /\ HostIdsExact /\ HandlesCounted)

(***************************************************************************)
(* While the device is enabled, a connected client that nobody is          *)
(* connecting is bound and has its rings, so that a write finds its        *)
(* device, unless the answer came after ishtp_cl_connect had given up or   *)
(* the rings could not be allocated: neither disconnects the client.       *)
(***************************************************************************)
Connecting(c) == \E u \in Users : my[u] = c /\ pc[u] \in {"conn", "wait"}

ReadyUnlessHindered ==
    enabled => \A c \in linked \ hindered : state[c] = "CONNECTED" /\ ~Connecting(c) => ready[c]

(***************************************************************************)
(* A firmware reset always comes to its end and the device is probed       *)
(* again: whoever holds pse_rb.lock, which the reset needs, waits with a   *)
(* timeout only, and so does the callback it cancels.                      *)
(***************************************************************************)
ResetCompletes == []<>(pc[Bus] = "idle" \/ oops)

(***************************************************************************)
(* No operation uses a client that was freed or is not there.              *)
(***************************************************************************)
NoUseAfterFree == ~oops
=============================================================================
