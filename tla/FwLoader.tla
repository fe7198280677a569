------------------------------- MODULE FwLoader -------------------------------
(***************************************************************************)
(* Loading the main firmware from the host: the loader's driver            *)
(* (ishtp-fw-loader.c), the shim in the firmware it talks to, and the      *)
(* firmware resets that end one attempt and begin the next.                *)
(*                                                                         *)
(* Two work items load: work_fw_load, scheduled by the probe, and          *)
(* work_ishtp_reset, scheduled by the bus when the shim is enumerated      *)
(* again.  Nothing keeps them apart, and they share client_data: the       *)
(* client, the response, the retries.                                      *)
(*                                                                         *)
(* A message between the shim and the client lives as long as the          *)
(* connection.  Sizes are in units small enough to reach each rounding.    *)
(***************************************************************************)
EXTENDS Naturals, Sequences

CONSTANTS
    Image,        \* fw->size
    CacheLine,    \* L1_CACHE_BYTES
    DmaLimit,     \* dma_buf_size_limit
    IpcPayload,   \* LOADER_SHIM_IPC_BUF_SIZE - IPC_FRAGMENT_DATA_PREAMBLE
    Caps,         \* what the shim may answer to a query
    MaxAttempts,  \* MAX_LOAD_ATTEMPTS
    MaxFaults     \* bound: firmware resets, failures, refusals, late answers, removals

ASSUME SizesAssumption == {Image, CacheLine, IpcPayload} \subseteq Nat \ {0} /\ DmaLimit \in Nat
ASSUME CapsAssumption ==
    Caps \subseteq [dma : BOOLEAN, ishtp : BOOLEAN, image : Nat, buffer : Nat]
ASSUME BoundsAssumption == {MaxAttempts, MaxFaults} \subseteq Nat

Works == {"load", "reset"}

VARIABLES
    bound, cb,       \* the driver is bound; event_cb is set
    cl,              \* loader_ishtp_cl: unlinked, live, dead (disconnected), freed
    pc, queued,      \* where each work is, and which are scheduled
    payload, offset, \* payload_max_size and fragment_offset of each work
    response,        \* client_data->response
    flagRetry, retries,
    remover, gone,   \* loader_ishtp_cl_remove; the client it looked up was freed
    shim, image,     \* firmware (external), and the fragments it holds
    toShim, fromShim,
    faults,          \* what is left of the bound
    seen             \* history: which of Marks happened

client   == <<bound, cb, cl>>
locals   == <<payload, offset>>
works    == <<pc, queued, locals>>
data     == <<response, flagRetry, retries>>
removal  == <<remover, gone>>
firmware == <<shim, image>>
channel  == <<toShim, fromShim>>
history  == <<faults, seen>>
vars     == <<client, works, data, removal, firmware, channel, history>>

\* both: a work began while the other ran; raced: the bus scheduled the reset
\* work after the removal had cancelled it; replaced: the reset work replaced the
\* client when a removal had looked it up, or was at it when the bus or a removal
\* did; unmade: it could not make a new one; lost: a failure that is not retried;
\* late: a query was sent behind two messages that nobody had answered or read
\* the answer of; oops: a freed client was used.
Marks == {"both", "raced", "replaced", "unmade", "lost", "late", "oops"}

Goto(w, l)     == pc' = [pc EXCEPT ![w] = l]
If(P, mark)    == IF P THEN {mark} ELSE {}
SeeIf(P, mark) == seen' = seen \cup If(P, mark)
Use            == If(cl = "freed", "oops")
Fault          == faults > 0 /\ faults' = faults - 1
Removing       == remover \notin {"no", "done"}
Waiting(w)     == pc[w] \in {"wait_query", "wait_frag", "wait_start"}

\* The buffer on the stack of work w for an answer of this kind
Buffer(w, kind) == [of |-> w, kind |-> kind, error |-> FALSE, received |-> FALSE]
-----------------------------------------------------------------------------
Init ==
    /\ bound = FALSE /\ cb = FALSE /\ cl = "unlinked"
    /\ pc = [w \in Works |-> "idle"] /\ queued = {}
    /\ payload = [w \in Works |-> 0] /\ offset = [w \in Works |-> 0]
    /\ response = Buffer("load", "none")
    /\ flagRetry = FALSE /\ retries = 0
    /\ remover = "no" /\ gone = FALSE
    /\ shim = "down" /\ image = <<>>
    /\ toShim = <<>> /\ fromShim = <<>>
    /\ faults = MaxFaults /\ seen = {}
-----------------------------------------------------------------------------
(***************************************************************************)
(* Firmware (external) and bus.  A reset disconnects the client; when the  *)
(* shim has booted, enumeration finds its device again, or adds it.        *)
(***************************************************************************)
FwResets ==
    /\ shim \in {"up", "main"}
    /\ Fault
    /\ shim' = "down"
    /\ UNCHANGED <<client, works, data, removal, image, channel, seen>>

BusRemove ==
    /\ shim = "down" \/ (shim = "main" /\ cl = "live")
    /\ shim' = IF shim = "down" THEN "boot" ELSE shim
    /\ cl' = IF cl = "live" THEN "dead" ELSE cl
    /\ toShim' = <<>> /\ fromShim' = <<>>
    /\ UNCHANGED <<bound, cb, works, data, removal, image, history>>

\* ishtp_cl_device_reset, which calls loader_ishtp_cl_reset, which finds its
\* data through the client
DeviceReset ==
    /\ shim = "boot" /\ bound
    /\ shim' = "up" /\ image' = <<>>
    /\ cb' = FALSE
    /\ queued' = queued \cup {"reset"}
    /\ seen' = seen \cup If(remover = "deinit", "raced")
                    \cup If(pc["reset"] = "connect", "replaced") \cup Use
    /\ UNCHANGED <<bound, cl, pc, locals, data, removal, channel, faults>>

Probe ==
    /\ shim = "boot" /\ ~bound /\ remover = "no"
    /\ shim' = "up" /\ image' = <<>>
    /\ \/ /\ bound' = TRUE /\ cb' = TRUE /\ cl' = "live"
          /\ retries' = 0
          /\ queued' = queued \cup {"load"}
          /\ UNCHANGED <<faults, seen>>
       \/ /\ Fault
          /\ SeeIf(TRUE, "lost")
          /\ UNCHANGED <<client, retries, queued>>
    /\ UNCHANGED <<pc, locals, response, flagRetry, removal, channel>>

\* A query begins a download, a start ends it.
ShimHandles ==
    /\ shim = "up"
    /\ toShim # <<>>
    /\ LET m == Head(toShim) IN
          /\ image' = CASE m.cmd = "query" -> <<>>
                        [] m.cmd = "frag"  -> Append(image, m)
                        [] m.cmd = "start" -> image
          /\ shim' = IF m.cmd = "start" THEN "main" ELSE shim
          /\ fromShim' = Append(fromShim, IF m.cmd = "query" THEN "query" ELSE "ack")
    /\ toShim' = Tail(toShim)
    /\ UNCHANGED <<client, works, data, removal, history>>

ShimRefuses ==
    /\ shim = "up"
    /\ toShim # <<>>
    /\ Fault
    /\ fromShim' = Append(fromShim, "refused")
    /\ toShim' = Tail(toShim)
    /\ UNCHANGED <<client, works, data, removal, firmware, seen>>
-----------------------------------------------------------------------------
(***************************************************************************)
(* loader_cl_event_cb and process_recv.  A refusal, or an answer larger    *)
(* than the buffer, sets the error and not received, so that the sender    *)
(* waits until it times out.                                               *)
(***************************************************************************)
Good(kind) == /\ ~response.received
              /\ kind # "refused"
              /\ kind = "query" => response.kind = "query"

EventCb ==
    /\ cb /\ cl = "live"
    /\ fromShim # <<>>
    /\ response' = IF Good(Head(fromShim))
                   THEN [response EXCEPT !.received = TRUE, !.kind = Head(fromShim)]
                   ELSE [response EXCEPT !.error = TRUE]
    /\ fromShim' = Tail(fromShim)
    /\ UNCHANGED <<client, works, flagRetry, retries, removal, firmware, toShim, history>>
-----------------------------------------------------------------------------
(***************************************************************************)
(* load_fw_from_host                                                       *)
(***************************************************************************)
Begin(w) ==
    /\ w \in queued /\ pc[w] = "idle"
    /\ queued' = queued \ {w}
    /\ Goto(w, IF w = "load" THEN "open" ELSE "free")
    /\ SeeIf(\E v \in Works : pc[v] # "idle", "both")
    /\ UNCHANGED <<client, locals, data, removal, firmware, channel, faults>>

\* The firmware file.  A name without memory is worth a retry, no file is not.
Open(w) ==
    /\ pc[w] = "open"
    /\ \/ /\ Goto(w, "query")
          /\ flagRetry' = FALSE
          /\ UNCHANGED <<faults, seen>>
       \/ /\ Fault
          /\ Goto(w, "fail")
          /\ flagRetry' \in BOOLEAN
          /\ SeeIf(~flagRetry', "lost")
    /\ payload' = [payload EXCEPT ![w] = 0] /\ offset' = [offset EXCEPT ![w] = 0]
    /\ UNCHANGED <<client, queued, response, retries, removal, firmware, channel>>

\* loader_cl_send: send, and wait for the answer at the given label.  A client that
\* is not connected cannot send.
Send(w, m, kind, wait) ==
    /\ response' = Buffer(w, kind)
    /\ \/ /\ cl = "live"
          /\ toShim' = Append(toShim, m)
          /\ Goto(w, wait)
          /\ SeeIf(m.cmd = "query" /\ Len(toShim) + Len(fromShim) > 1, "late")
          /\ UNCHANGED flagRetry
       \/ /\ cl # "live"
          /\ Goto(w, "fail")
          /\ flagRetry' = (flagRetry \/ m.cmd # "start")
          /\ seen' = seen \cup Use \cup If(m.cmd = "start", "lost")
          /\ UNCHANGED toShim
    /\ UNCHANGED <<client, queued, locals, retries, removal, firmware, fromShim, faults>>

Command(c) == [cmd |-> c, off |-> 0, size |-> 0, last |-> FALSE]

Query(w) == pc[w] = "query" /\ Send(w, Command("query"), "query", "wait_query")
Start(w) == pc[w] = "start" /\ Send(w, Command("start"), "ack", "wait_start")

\* The image fits, and a buffer for DMA consists of cache lines.
Suitable(c) == /\ c.image >= Image
               /\ c.dma \/ c.ishtp
               /\ c.dma => c.buffer % CacheLine = 0

\* ish_fw_xfer_direct_dma rounds down to a cache line, possibly to nothing.
Smallest(a, b) == IF a < b THEN a ELSE b
DmaPayload(c) == LET n == Smallest(Image, Smallest(c.buffer, DmaLimit)) IN n - (n % CacheLine)
Payload(c) == IF c.dma THEN DmaPayload(c) ELSE IpcPayload

\* ish_query_loader_prop.  A buffer that another answer went to holds anything.
Queried(w) ==
    /\ pc[w] = "wait_query"
    /\ response.received /\ ~response.error
    /\ \E c \in Caps :
          \/ /\ response.kind = "query" /\ Suitable(c)
             /\ Payload(c) > 0
             /\ payload' = [payload EXCEPT ![w] = Payload(c)]
             /\ Goto(w, "frag")
             /\ UNCHANGED <<flagRetry, seen>>
          \/ /\ \/ response.kind # "query" /\ flagRetry' = TRUE /\ UNCHANGED seen
                \/ Suitable(c) /\ Payload(c) = 0 /\ flagRetry' = TRUE /\ SeeIf(TRUE, "lost")
                \/ ~Suitable(c) /\ SeeIf(TRUE, "lost") /\ UNCHANGED flagRetry
             /\ Goto(w, "fail")
             /\ UNCHANGED payload
    /\ UNCHANGED <<client, queued, offset, response, retries, removal, firmware, channel,
                   faults>>

\* Mistake: the size of the last fragment is not cut.
FragmentUncut(w) ==
    /\ pc[w] = "frag"
    /\ offset[w] < Image
    /\ Send(w, [cmd |-> "frag", off |-> offset[w], size |-> payload[w],
                last |-> ~(offset[w] + payload[w] < Image)], "ack", "wait_frag")

\* One turn of the loops of ish_fw_xfer_ishtp and ish_fw_xfer_direct_dma
Fragment(w) ==
    /\ pc[w] = "frag"
    /\ offset[w] < Image
    /\ LET last == ~(offset[w] + payload[w] < Image)
           size == IF last THEN Image - offset[w] ELSE payload[w]
       IN  Send(w, [cmd |-> "frag", off |-> offset[w], size |-> size, last |-> last], "ack",
                "wait_frag")

FragmentsDone(w) ==
    /\ pc[w] = "frag"
    /\ offset[w] >= Image
    /\ Goto(w, "start")
    /\ UNCHANGED <<client, queued, locals, data, removal, firmware, channel, history>>

Acked(w) ==
    /\ pc[w] \in {"wait_frag", "wait_start"}
    /\ response.received /\ ~response.error
    /\ IF pc[w] = "wait_frag"
       THEN /\ offset' = [offset EXCEPT ![w] = Smallest(@ + payload[w], Image)]
            /\ Goto(w, "frag")
       ELSE /\ Goto(w, "idle")
            /\ UNCHANGED offset
    /\ UNCHANGED <<client, queued, payload, data, removal, firmware, channel, history>>

\* No answer in time, or an error after it; a start is not tried again.  An
\* answer that is still to come is late.
Coming == cb /\ cl = "live" /\ (fromShim # <<>> \/ (shim = "up" /\ toShim # <<>>))

\* Mistake: a load that was not answered is not tried again.
UnansweredGivesUp(w) ==
    /\ Waiting(w)
    /\ ~response.received \/ response.error
    /\ IF Coming THEN Fault ELSE UNCHANGED faults
    /\ SeeIf(pc[w] = "wait_start", "lost")
    /\ Goto(w, "fail")
    /\ UNCHANGED <<client, queued, locals, data, removal, firmware, channel>>

Unanswered(w) ==
    /\ Waiting(w)
    /\ ~response.received \/ response.error
    /\ IF Coming THEN Fault ELSE UNCHANGED faults
    /\ flagRetry' = (flagRetry \/ pc[w] # "wait_start")
    /\ SeeIf(pc[w] = "wait_start", "lost")
    /\ Goto(w, "fail")
    /\ UNCHANGED <<client, queued, locals, response, retries, removal, firmware, channel>>

\* end_error
Fail(w) ==
    /\ pc[w] = "fail"
    /\ Goto(w, "idle")
    /\ retries' = IF flagRetry THEN retries + 1 ELSE retries
    /\ shim' = IF flagRetry /\ retries < MaxAttempts THEN "down" ELSE shim
    /\ UNCHANGED <<client, queued, locals, response, flagRetry, removal, image, channel,
                   faults, seen>>

Load(w) == \/ Open(w) \/ Query(w) \/ Queried(w) \/ Fragment(w) \/ FragmentsDone(w)
           \/ Start(w) \/ Acked(w) \/ Unanswered(w) \/ Fail(w)
-----------------------------------------------------------------------------
(***************************************************************************)
(* reset_handler, and loader_ishtp_cl_remove                               *)
(***************************************************************************)
Free ==
    /\ pc["reset"] = "free"
    /\ cl' = "freed"
    /\ gone' = Removing
    /\ Goto("reset", "connect")
    /\ seen' = seen \cup If(Removing, "replaced") \cup Use
    /\ UNCHANGED <<bound, cb, queued, locals, data, remover, firmware, channel, faults>>

\* Mistake: the pointer to the freed client is kept when the shim is gone.
ConnectKeeps ==
    /\ pc["reset"] = "connect"
    /\ IF shim = "up" THEN /\ cl' = "live" /\ cb' = TRUE
                           /\ Goto("reset", "open")
                      ELSE Goto("reset", "idle") /\ UNCHANGED <<cl, cb>>
    /\ UNCHANGED <<bound, queued, locals, data, removal, firmware, channel, history>>

\* A new client is allocated, linked and connected.
Connect ==
    /\ pc["reset"] = "connect"
    /\ \/ /\ shim = "up"
          /\ cl' = "live" /\ cb' = TRUE
          /\ Goto("reset", "open")
          /\ UNCHANGED <<faults, seen>>
       \/ /\ shim # "up"
          /\ cl' = "unlinked"
          /\ Goto("reset", "idle")
          /\ UNCHANGED <<cb, faults, seen>>
       \/ /\ Fault
          /\ cl' \in {"freed", "unlinked"}
          /\ Goto("reset", "idle")
          /\ SeeIf(TRUE, "unmade")
          /\ UNCHANGED cb
    /\ UNCHANGED <<bound, queued, locals, data, removal, firmware, channel>>

\* The client is looked up before the works are cancelled.
RemoveBegins ==
    /\ remover = "no" /\ bound
    /\ Fault
    /\ remover' = "load"
    /\ cb' = FALSE
    /\ seen' = seen \cup If(pc["reset"] = "connect", "replaced") \cup Use
    /\ UNCHANGED <<bound, cl, works, data, gone, firmware, channel>>

\* cancel_work_sync takes a work that is queued and waits for one that runs.
Cancel(w, from, to) ==
    /\ remover = from /\ pc[w] = "idle"
    /\ remover' = to
    /\ queued' = queued \ {w}
    /\ UNCHANGED <<client, pc, locals, data, gone, firmware, channel, history>>

Deinit ==
    /\ remover = "deinit"
    /\ remover' = "done"
    /\ bound' = FALSE /\ cb' = FALSE /\ cl' = "freed"
    /\ SeeIf(gone \/ cl = "freed", "oops")
    /\ UNCHANGED <<works, data, gone, firmware, channel, faults>>

Remove == \/ Cancel("load", "load", "reset") \/ Cancel("reset", "reset", "deinit") \/ Deinit
-----------------------------------------------------------------------------
Bus == BusRemove \/ DeviceReset \/ Probe

ResetHandler == Free \/ Connect

\* The first use of a freed client ends the behaviour.
Next == /\ "oops" \notin seen
        /\ \/ FwResets \/ Bus \/ ShimHandles \/ ShimRefuses \/ EventCb
           \/ \E w \in Works : Begin(w) \/ Load(w)
           \/ ResetHandler \/ RemoveBegins \/ Remove

Spec == Init /\ [][Next]_vars

\* Work items run, waits end, and the firmware boots and answers.
FairSpec == /\ Spec
            /\ WF_vars(Bus) /\ WF_vars(ShimHandles) /\ WF_vars(EventCb)
            /\ WF_vars(ResetHandler)
            /\ \A w \in Works : WF_vars(Begin(w) \/ Load(w))
-----------------------------------------------------------------------------
End(m) == m.off + m.size

\* The image from its beginning to its end, and only the last fragment is last
Whole(s) ==
    /\ s # <<>>
    /\ s[1].off = 0
    /\ \A i \in 1 .. Len(s) : /\ s[i].last <=> i = Len(s)
                              /\ i > 1 => s[i].off = End(s[i - 1])
    /\ End(s[Len(s)]) = Image

(***************************************************************************)
(* Main firmware is started only from a whole image, fragment after        *)
(* fragment to its end, whatever resets, refusals and late answers came in *)
(* between, unless the two works loaded at a time through the one client   *)
(* and the one response they share, or a load began with two answers of    *)
(* former ones still to come.                                              *)
(***************************************************************************)
StartedWhole == shim = "main" => Whole(image) \/ seen \cap {"both", "late"} # {}

(***************************************************************************)
(* loader_ishtp_cl is never used or freed again after it was freed, by the *)
(* works, a removal or a reset by the bus, unless both works ran at a      *)
(* time, the bus scheduled the reset work after the removal had cancelled  *)
(* it, that work replaced the client under a removal or a reset, or could  *)
(* not allocate a new one.                                                 *)
(***************************************************************************)
NoOops == "oops" \in seen => seen \cap {"both", "raced", "replaced", "unmade"} # {}

(***************************************************************************)
(* A load that fails resets the firmware and is tried again by the reset   *)
(* work, until main firmware runs or the retries are used, unless one of   *)
(* the failures came that the driver does not retry, a removal, or a race. *)
(***************************************************************************)
Recovers == <>[](shim = "main" \/ retries > MaxAttempts \/ remover # "no" \/ seen \ {"late"} # {})
=============================================================================
