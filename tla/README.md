# Specifications of the PSE driver and the ISHTP stack

This directory holds TLA+ specifications of the code in `src/`: the driver of
`/dev/pse` (`src/src/pse.c`), the Intel ISH transport it runs on
(`src/src/intel-ish-hid-linux-6.5` and `-5.15`), the other client drivers of
that transport, and the example programs. TLC checks the specifications on
small instances; TLAPS proves the theorems of the section "What is proved" for
instances of any size.

`PROJECT.json` holds, for the definitions of each module, the lines of code they
stand for, and lists the runs, the plausible mistakes each property detects,
the hazards of the code and the theorems.

## The two trees

The tree holds the ISHTP stack twice, for kernels 5.15 and 6.5. Unless a path
says otherwise `client.c` and the like name the files of the 6.5 tree.
Compared function by function, what is modelled is the same code in both, with
these exceptions:

| Where 5.15 differs | In the model |
|---|---|
| a message of several fragments is sent one fragment at a time, the next when the last went to the doorbell (`client.c`, `ipc_tx_callback`) | both ways, in `ClientTx` (`Old...`) |
| the DMA buffer of the firmware loader is allocated by `kmalloc`, for 0 bytes too | the 6.5 form (see Known defects) |
| no one cancels the work of a firmware reset; `ishtp_cl_bus_match` does not test `fw_client` | not modelled |
| initialisation of GUIDs, wakeup by GPE, the clock synchronization message | data |

In the map, an operator that stands for a whole function names the function in the
5.15 tree, and the actions into which it is cut name their lines in the 6.5
tree.

## The system

```
 examples/*.c     HID core        request_firmware
     |                |                  |
  pse.c      ishtp-hid(-client).c   ishtp-fw-loader.c     client drivers
     |                |                  |
     +------ client.c, client-buffers.c -+                connections
     |       bus.c (devices, event work)                  bus
     |       hbm.c (handshake, connect, flow control)     bus messages
     +------ ipc.c, pci-ish.c ------------                mailbox, doorbell
                      |
                  ISH / PSE firmware
```

Down the stack, a call ends in `write_ipc_to_queue`, which puts an IPC message
into a list and writes it to the mailbox when the doorbell is free. Up the
stack, the interrupt (`ish_irq_handler`) runs `ishtp_recv`, which either
updates a client's lists in interrupt context and schedules the event work of
its device, which calls the driver's `event_cb`; or puts a bus message into a
FIFO that a work item empties. A firmware reset arrives as an interrupt and is
handled by a work item that empties the queue, disconnects all clients, removes
or resets the devices of the bus and starts the handshake over. The drivers
wait for answers with timeouts, on flags that the interrupt or the event work
sets.

### Inventory

| Component | State | Operations | What is hard | What makes it correct |
|---|---|---|---|---|
| IPC transmit queue (`ipc.c`) | free and processing lists of write buffers, doorbell, mailbox | `write_ipc_to_queue`, `write_ipc_from_queue`, RX_CMPL, reset work, disable | queueing and draining are separate critical sections, run by threads, interrupt and reset work | no buffer lost, order kept, an unread message never overwritten, no message stranded, nothing stale after a reset |
| Interrupt, reset and power registers (`ipc.c`) | `suspend_flag`, `resume_flag`, `recvd_hw_ready`, registers | irq handler, `ish_wakeup`, `_ish_hw_reset`, `ish_hw_start` | unlocked doorbell write on resume, waits with timeouts | a handshake with the hardware ends or is given up |
| Bus messages (`hbm.c`, `init.c`) | `hbm_state`, `dev_state`, FIFO of received messages, one work item, table of firmware clients | start, enumerate, properties, connect, disconnect, flow control | a reset frees the table under the work; one message per run of it; no retry | the bus comes up with the devices the firmware named |
| Bus and devices (`bus.c`) | `device_list`, `reference_count`, `event_cb`, `event_work` | add and remove devices, bind, event work, reset of all devices | list lock dropped during the walk, callbacks cancelled while they run | each firmware client has one device, none is used after removal |
| Connections (`client.c`) | `cl_list`, host ids, `open_handle_count`, state of each client | link, connect, disconnect, unlink, free | answers that race with timeouts, resets and frees | ids unique, list holds live clients only, a connected client has its rings |
| Receive path (`client.c`, `client-buffers.c`, `hbm.c`) | free, read and in-process list of read buffers, credit counter | `recv_ishtp_cl_msg`, `recv_ishtp_cl_msg_dma`, `read_start`, `io_rb_recycle`, `rx_get_rb` | interrupt and recycling threads both send flow control | one grant at a time, every grant has a buffer, no buffer lost |
| Transmit path (`client.c`, `hbm.c`) | TX ring and list, `sending`, `tx_offs`, credit of the firmware | `ishtp_cl_send`, `ipc_tx_send`, flow control received | sender and interrupt both send from the list | one message per credit, fragments in order, nothing stuck |
| PSE read and event (`pse.c`) | `pse_rb` (one buffer, mutex, wait queue, exception) | `read`, `event_cb` | look at the buffer without the lock, partial reads, one-message callback | every message read once, whole and in order |
| PSE open to remove (`pse.c`) | `pse_dev.cl`, `pse_dev.cl_device` | `open`, `ioctl`, `release`, `probe`, `remove`, `reset` | files share one client pointer; a reset removes the device under an open file | no use of a freed client, reset never blocked |
| HID client (`ishtp-hid-client.c`, `ishtp-hid.c`) | enumeration flags, `cur_hid_dev`, `request_done`, `raw_buf`, `suspended` | receive loop, enumeration with retries, requests, reset work, suspend, resume | one completion flag for all requests of a device, late answers | every wait ends with its own answer, descriptors at their device |
| Firmware loader (`ishtp-fw-loader.c`) | `response`, `flag_retry`, retry count | query, transfer, start, reset work, probe, remove | late responses, two work items, retries by resetting the firmware | main firmware started only from a whole image; failed loads tried again |
| PCI and power (`pci-ish.c`) | resume work, device state | suspend, resume work, probe, remove | 25 and 50 ms waits for an RX_CMPL that does not say what was read | the firmware is told before the system sleeps; a resume ends with a running stack |
| Example programs (`examples/`) | place in the sequence of commands | command and response; CAN, PWM, LED, DIO, version, automotive | no response is compared with its command | programs and PSE stay in step; devices left disabled |
| DMA buffers (`dma-if.c`) | map of slots | take and release slots | slot arithmetic | no slot given twice |
| Makefiles, DKMS, install script | none | | | |

## The modules

| Module | Models | Extends |
|---|---|---|
| `IpcChannel` | what the transmit queue promises: messages accepted, then read once and in order, or discarded by a reset | |
| `IpcQueue` | the transmit queue: lists, doorbell, interrupt, reset work, device disable | |
| `HbmHandshake` | from a booting firmware to a bus with one device per client: reset work, FIFO, bottom half, probe and resume thread | |
| `ClientRx` | receive path of one connected client, for any driver | |
| `HidRx` | `ClientRx` with the callback of the HID client | `ClientRx` |
| `PseRx` | `ClientRx` with the callback and the read call of the PSE driver | `ClientRx` |
| `ClientTx` | transmit path of one connected client, in both trees | |
| `PseLifecycle` | open, connect, release, remove, probe of the PSE driver with the connection code it calls | |
| `FwLoader` | the firmware loader, its two works, and the shim it talks to | |
| `HidRequests` | enumeration, requests, reset work and suspend gate of the HID client | |
| `PowerFlow` | suspend and resume through PCI device, HID client, bus messages and doorbell | |
| `PseApp` | the example programs on top of the driver | |
| `IpcQueueProofs`, `ClientTxProofs`, `HbmHandshakeProofs`, `FwLoaderProofs`, `HidRequestsProofs`, `PowerFlowProofs` | theorems | their module |
| `ReceiveProofs` | theorems on the receive path and its two drivers | `HidRx`, `PseRx` |
| `PseProofs` | theorems on the life of the PSE's client and on the examples | `PseLifecycle`, `PseApp` |
| `MCIpcQueue`, `MCClientRx` | symmetry sets for TLC | |
| `MCFwLoader` | what the shim may answer, for TLC | `FwLoader` |

Each action stands for code that runs without another context seeing it half
done: a critical section of a spinlock, or a single access to a shared variable
that no lock protects. Where the code accesses a shared variable outside its
lock, the accesses are separate actions; `pc` (or `rd`, `bh`, `rst`, `rw`,
`task`, `req`) holds the place of each context. The operators marked "mistake"
are not part of any specification: each replaces one operator and makes one
property fail, which shows that the property depends on that code.

Where the code has a window in which something goes wrong, a *history* variable
or a mark in `seen` records that the window was hit, and properties say what
holds otherwise. A mark that excuses is set by the race itself (a read gave up
on an answer that was under way; two threads were in the call), never by its
consequence; a mark that a property forbids (`oops`, `mixed`, `dead`, `bad`,
`overwritten`) is set by the consequence. No guard reads a mark, but
`PseLifecycle` and `FwLoader` stop at the first `oops`: after a use of freed
memory nothing can be said.

### IpcQueue

`Enqueue` is `write_ipc_to_queue`: take a buffer, fill it, append it. `Drain`
is `write_ipc_from_queue`, which looks at the doorbell and the list again in
its own critical section. The interrupt clears the doorbell of the other side
and drains; the reset work splices the list back, tells the bus, waits for the
input to be ready, and acknowledges. Messages are numbered; contents, the clock
synchronization and counters are left out. The firmware (external) reads the
mailbox, rings `RX_CMPL`, and resets at any time. Reset notifications coalesce,
as work items do. `ackLost` records that an acknowledgement found no buffer or
no ready input: the code drops it.

`IpcChannel` keeps a sequence of accepted messages, read or discarded in order.
It is all the other modules assume of the queue.

### HbmHandshake

`Firmware` boots, notifies, reads and answers, names any subset of its clients
after each boot, and, within `MaxFaults`, refuses or says something out of
turn. `Rst...` is the reset work: it clears queue and FIFO, walks the device
list (`Kept` are the clients whose driver holds a reference, so that the device
survives), frees `fw_clients`, acknowledges, waits, and sends the start
request. `Bh...` is `bh_hbm_work_fn`, one message per run, cut where the
dispatch can be overtaken by the reset work: nothing keeps the two apart.
`starter` is `ish_init`, in the probe or in a resume, which waits first for
`recvd_hw_ready` and then for `hbm_state`. A device knows whether its
`fw_client` pointer is alive, NULL or freed. `BhAdd` may fail, as
`ishtp_bus_new_client` may (`bus.c:656-671`), and `hbm.c:210` goes on all the same:
`unadded` has the clients that the present enumeration added no device for.

Left out: the DMA messages (`ishtp_use_dma` is off by default), and the
contents of the properties.

### ClientRx, HidRx, PseRx

`ClientRx` has one client whose buffers (`Rbs`) are in `freeRbs`, `readList`,
`inProcess`, in the driver's hands (`held`) or in the hands of a context that
moves one (`mine`). `Receive` is the interrupt in `recv_ishtp_cl_msg`, cut
where it leaves `read_list_spinlock` or touches `out_flow_ctrl_creds`, whose
decrement is not atomic against `ishtp_hbm_cl_flow_control_req` and takes no
`fc_spinlock`: `RecvDecTorn` gives it the values a torn read-modify-write has.
`RecvDma` is a message that arrives whole by DMA. `FlowControlReq` writes the
message and counts it afterwards, in one critical section that the firmware can
answer in the middle of. `IpcMayFail` lets the write fail: the context then
undoes its read (`client.c:498`), which takes its buffer off whatever list it is
on by then. `undone` records that it was no longer in the read list (`strayed`)
or was the one the firmware was filling (`robbed`).

In `ClientRx` the driver takes a message whenever there is one and recycles
whenever it likes. `HidRx` replaces that by `ish_cl_event_cb`, `PseRx` by
`ishtp_pse_event_cb` and `ishtp_pse_read`; both are shown to be drivers that
`ClientRx` allows (`ImplementsClientRx`), so what holds of `ClientRx` holds of
both. In `PseRx` a fragment is the unit of a partial read, the threads share one
open file and its position, and `MaxUnread` bounds how far the firmware may be
ahead of the user.

`Long` names the messages that may have more than one fragment. Assumed: the
connection stays up, one client uses the device's read list, messages fit the
buffers.

### ClientTx

Threads call `ishtp_cl_send`; `Isr` handles a flow-control message and sends
the next message itself. Take a ring entry, queue it, look at the credit, reset
`tx_offs`, send fragments: these are separate actions because the code does
them under different locks or none. `Window` is the number of messages the
firmware may have granted, so that the code path for an extra one runs. At most
one fault (a fragment that finds no IPC buffer, or a disconnection) happens in
a behaviour; messages have at least one fragment, as those of all callers do.
`tree` chooses the code: in the 5.15 tree `OldTake`, `OldAdvance` and `OldWrite` send one
fragment and `OldCallback` is the IPC queue calling for the next; a behaviour of
that tree is followed until two contexts send at a time (`crossed`), after
which anything may be sent.

### PseLifecycle

Users open, connect, read and close; `Ev` is the event work; `Bus` is the work
that handles a reset and the enumeration that follows. `cl` is `pse_dev.cl` and
`rbOf` the client whose buffer is in `pse_rb.rb`. An open takes no lock, and
every call of the other operations reads `pse_dev.cl` again, so there is a step
from each such read to the next: release and `ishtp_pse_remove` go through
`Disconnect`, `UnlinkId`, `UnlinkList`, `FlushQueues` and `Free` (`TakeDown`),
each on whatever client is in `cl` at that time; `ishtp_cl_unlink` is two steps,
for its two locks. The ioctl stores the address and the state and calls
`ishtp_cl_connect` on what may be three clients. An open links the client it
allocated or the one in `cl`, and after a failed link frees the one in `cl`;
the link fails for want of a device (`OpenLinkDisabled`, which `refused`
counts), of a client, a handle or an id (`OpenLinkRefused`).

A client that was freed is never allocated again, so a dangling pointer is
recognisable; the first use of one, or of NULL, sets `oops` and ends the
behaviour. So does an open that links a client another open has already linked
(`cl_list` is then corrupt). `raced` records that an open linked or freed the
client of another one, linked one after a release had unlinked the one it had,
or that the probe initialized a mutex somebody held; `hindered` has the clients
that were connected by a late answer or have no rings, until they leave that
connection.

The driver never calls `ishtp_get_device`, so a warm reset removes its device
(`bus.c:756`) and `ishtp_pse_remove` runs; `ishtp_pse_reset` and its work
(`pse.c:410-486`, `639-649`) are never reached and not modelled. The one-second
wait for transmission in release is left out: it always ends. `MaxReqs` bounds
the requests under way, `Callers` names the threads that connect and `Senders`
the clients that the firmware sends messages to.

### FwLoader

The two works `load` and `reset` run the same operations (`Load`): open the
image, query, send fragments by DMA or ISHTP, start, and on a failure reset the
firmware with `flag_retry`. They share `response`, whose `of` is the work whose
buffer it points to. `EventCb` is the callback, `ResetHandler` the reset work's replacement
of the client, `Remove` the unbinding (`gone` says that the client it looked up before
it waits for the works is no longer there), `Bus` what the bus does at a firmware
reset: the shim's device is removed or reset, and probed again. Sizes are in small units;
`DmaPayload` and `Payload` are the code's arithmetic, roundings included.
`Coming` (external) says that an answer is under way when a wait ends.

### HidRequests

`task` is `hid_ishtp_cl_init`, called by the probe or by the reset work, with
its retries; `req` the place of each thread in `ishtp_raw_request`,
`ishtp_hid_request` and `ishtp_wait_for_response`. `ProcessRecv` handles one
message: what it does depends on shared flags only, as in the code.
`request_done[d]` and `raw[d]` name the request that set the flag and the one
whose buffer receives data, so that a mix-up is visible. The receive loop itself
is `HidRx`.

`device` says what becomes of the bus device. The probe takes its reference at
its end (`GetDevice`, `ishtp-hid-client.c:849`); a reset of the firmware before that,
or after a failed probe, removes the device (`RemoveClients`, `RemoveDevice`)
and the next enumeration probes a new one (`FwBoots`); after it, the device is
kept and the reset work runs. The firmware may come back with other devices, or the
bus fail to add the device. `Link`, `Connect` and `NotFound` are the three ways
in which the first part of an initialization ends: a firmware client that is not
found leaves the client linked, and a second link of it, like a client that the
reset work frees and cannot replace (`ResetBegins`), is as far as the model
follows (`task.pc = "dead"`). A signal passes a closed gate (`LinkSignal`), and
a suspend may come at any time.

### PowerFlow

`pm` is where the PM core is; `Suspend...`, `Resume` and `Handler...` are the
callbacks and the resume work; `HidWorks` the HID client's own resume work. The
doorbell and the list are those of `IpcQueue`, with messages told apart by what
they say. `void` is the doorbell that `ish_wakeup` rings without a message, looking
at nothing. D0i3 or D3 is a choice, with everything that follows.

### PseApp

Each program is data: the commands it needs, its main part, what it does before
it closes the file, and whether it stops at an error. `candump` handles a
signal, which makes it leave its loop or never begin it; the others install no
handler, so that a signal kills them where they are (`killed`). A command is
`Send`, `ReadHeader` and `ReadBody` of `examples/pse.c`; the driver
keeps one message for the reader and leaves others in the list, as in `PseRx`.

## The runs

| Run | Instance | What it shows | States |
|---|---|---|---|
| `ipc_queue` | one sender, interrupt, reset work, two buffers, two messages, two resets | buffers conserved, no lost wakeup, nothing stale before an acknowledgement, the list drains, implements `IpcChannel` (order, nothing overwritten) | 261,000 |
| `hbm_handshake` | two clients, one of them kept, a FIFO of two, one reset or resume by itself, one fault | devices exactly as named, no use of a freed table, the driver goes on only after a start was accepted, the bus comes up; except for a device that could not be made | 814,000 |
| `client_rx` | four buffers, two recycling contexts, four messages, the second and third of up to two fragments, requests may fail | one grant at a time; buffers conserved, and one waiting for each grant, until an undone read takes a buffer off another list; communication goes on unless an early answer or a refused request hindered it | 1,580,000 |
| `hid_rx` | two buffers, the opener and the worker, five messages | no event lost, all messages processed, a driver that `ClientRx` allows | 79,000 |
| `pse_rx` | two readers of one open file, two buffers, two messages of up to two fragments, reads of nothing, requests may fail | no buffer lost, no data out of order and no NULL unless readers overlap, every message read unless one was left, a driver that `ClientRx` allows | 226,000 |
| `client_tx` | two senders, interrupt, ring of two, three messages of up to two fragments, both trees | ring conserved, a credit per message, every message sent; fragments in order | 906,000 |
| `pse_lifecycle` | two users, one of which connects, two clients, one of them sent messages, one reset, two requests under way | links and host ids exact and every client that can be unlinked counted, until contexts race for `pse_dev.cl`; connected clients usable; the reset completes | 986,000 |
| `pse_lifecycle_oops` | one user, one reset | **violated**: a client that could not be linked stays in `pse_dev.cl` after it was freed | |
| `fw_loader` | image of 3, DMA and ISHTP, four kinds of shim, one retry, two faults | started only from a whole image, client never used after it was freed, failed loads tried again | 362,000 |
| `hid_requests` | up to two devices, two threads, up to two requests, and up to three requests, resets, suspends and failures together | descriptors at their device, own answers, reset for a bad packet only without devices, initialized again in the end | 982,000 |
| `power_flow` | two suspends, two other messages, one fault | asleep only when told, nothing overwritten, awake again | 179,000 |
| `pse_app` | eight programs, rings of two, two faults | in step with the PSE, devices left disabled by a program that comes to its end | 19,000 |

Each property states its exceptions; the next section says which defects they
stand for.

### Bounds, and why they are enough

Two buffers, clients or threads are the least that let one be in use while
another is handled, and the real sizes are close: the PSE uses rings of two,
the loader of one. Four buffers and two recycling contexts in `client_rx` are
the least with which the undoing of a read takes a buffer that another
context's credit has used, and let the free, read and in-process list be
non-empty together; two of its four messages may have two fragments, and the
undoing that takes too much is reached. In `pse_lifecycle` one thread connects
and both open and close, and the firmware sends messages to one client; what a
second connecting thread and more messages add is in the theorems. Messages of
one fragment and of two reach first and last fragment, together and apart, and
a read that is continued by another. Two resets make one arrive while another
is handled. `creds` has its 256 values in `ClientRx` and `ClientTx`: wrapping
below 0 happens. `hid_rx` and `client_tx` send more messages than there are
buffers, so that their rings wrap around. In `fw_loader` the image is larger
than a fragment and not a multiple of it, and of the four kinds of shim one has
a DMA buffer, one has none, one takes ISHTP, and one has no room. One retry is
enough for a load that begins with what the former left. The bound on faults
lets one failure meet everything else; two, where a run has them, let a second
one meet its repair. Symmetry is used in runs that check no liveness only.

### Fairness

- Contexts in the kernel run on: weak fairness of each thread's steps inside a
  call, of interrupts, and of work items that are scheduled.
- A mutex or a spinlock is handed to whoever waits for it, which Linux mutexes
  guarantee and which spinlocks held for a few instructions do in effect:
  strong fairness of taking it. `PseLifecycle` needs no more than that a mutex that
  stays free is taken: a release follows an open, and the number of clients
  bounds the opens.
- Timeouts expire: weak fairness of the actions that end a wait.
- The firmware boots, reads its mailbox and answers only where a property is
  about what the host then owes, and in `HidRequests` the bus then removes and
  probes devices; nothing is assumed of the firmware in `PseLifecycle`.
  Where it may also not answer in time, a wait may end first.
- A suspended system wakes up again, in `PowerFlow` and `HidRequests`.
- A user calls nothing out of fairness, except in `PseRx`, where the property
  is about an application that goes on reading, and not always nothing.

## Known defects

What the exceptions of the properties stand for. The run `pse_lifecycle_oops`
shows the one that contradicts a comment in the source; the others are seen
by removing the exception from the property.

- `pse.c:113`: a client that could not be linked is freed and stays in
  `pse_dev.cl` (`NoUseAfterFree`).
- `pse.c:104`: two opens overwrite each other's client. After three that overlap, a
  client that was never linked is released. It still has the host id 0, and
  `ishtp_cl_unlink` gives back a handle that another client counted
  (`client.c:236`); so `open_handle_count` may be smaller than the number of
  linked clients, and `LinksExact` bounds it from below by the clients that can
  still be unlinked. The same call takes whatever client has the id 0
  off `cl_list`, although `client.c:242` says that it "checks that 'cl' is actually linked
  into device's structure": it compares ids only.
- `pse.c:258-260`, `614-616`: unlink, flush and free each read `pse_dev.cl` again, and
  an open takes no lock. One that links its client between the first and the last
  has it freed in `cl_list` (`raced`), where the interrupt and the next reset find it.
- `pse.c:113`: `kfree` reads `pse_dev.cl` again too, and so frees the client of
  another open (`raced`). `pse.c:578`: a probe initializes `pse_rb.lock` while a
  release may hold it (`raced`).
- `pse.c:159`: with two readers of one file the second finds the buffer gone
  (`overlapped`).
- `pse.c:387`: the second of two messages in a row stays in the list: the event
  is scheduled only for a list that was empty (`left`).
- `hbm.c:288`: an answer before its request is counted leaves the credit wrong
  for good: communication dries up (`raced`). A refused request is not sent again (`refused`).
- `client.c:732`: `tx_offs` is reset in the middle of a message: its first
  fragment goes out twice (`rewound`). A fragment that finds no IPC buffer is lost
  (`dropped`); in the 5.15 tree two senders mix messages (`crossed`).
- `client.c:373`, `411`: an answer after its wait leaves a connected client
  without rings; so does a failed allocation (`hindered`). `client.c:197`: a link
  of a disabled device counts a handle for good (`refused`).
- `client.c:498`: the read of a refused FC is undone, although another context's
  credit may have used its buffer meanwhile: `list_del` then takes it off
  whatever list it is on, and the buffer can be in two places (`strayed`), or it
  takes the buffer that the firmware is filling (`robbed`). It needs four
  buffers and two contexts that recycle.
- `hbm.c:210`: a device that cannot be made (`bus.c:656-671`) is missing until the
  next reset, and nobody is told (`unadded`).
- `hbm.c:862`: of two messages before one run of the work, one waits for a
  third. `bus.c:766`: the reset work frees the table under a dispatch
  (`overtaken`); a reset that catches the dispatch of the start response can
  leave the handshake restarting for ever. No message or wait of the handshake is
  retried (`hindered`).
- Firmware loader: the probe's and the reset's work share one response
  (`both`); answers carry no number, so that a load behind two messages of
  former ones takes theirs (`late`); a reset can be scheduled after the removal cancelled it (`raced`); removal
  and reset look the client up at once (`ishtp-fw-loader.c:1001`, `1029`), so that the
  reset work can free it before they use it (`replaced`); a failed allocation leaves a
  dangling pointer (`unmade`); an error response is waited for to the
  end of the timeout (`lost`). `MAX_LOAD_ATTEMPTS` gives up to four loads, although
  `ishtp-fw-loader.c:813` speaks of three. A DMA limit below a cache line
  rounds to 0: in 6.5 the allocation fails, in 5.15 fragments of no bytes follow
  for ever.
- HID: a late answer completes the next request, or goes to a buffer that is
  gone (`late`); a descriptor is stored at the device asked last, whatever it
  names; `enum_devices_done` survives a reset, so that a firmware without HID
  devices is reset again and again (`empty`) and one with other devices keeps the old
  count (`changed`). A reset work that cannot allocate a client
  (`ishtp-hid-client.c:767`) leaves the freed one in `drvdata` and `client_data`. A
  firmware client that is not found (`668`) leaves its client linked, and the
  retry links it a second time. A signal ends the wait at a closed gate as if
  it were open (`468-480`). A failed probe leaves HID devices registered whose
  `client_data` is freed, and a removal frees it under requests that wait.
- Power: an RX_CMPL of an earlier message is taken for the answer (`stale`);
  a second suspend meets the works of the first resume (`raced`); RESUME may be
  overwritten by `ish_wakeup` when the firmware is slow (`slow`).
- Examples: after a read that timed out, or a body nobody reads, every response
  is taken for that of a later command (`late`, `extra`). A signal that kills `can`,
  `cansend` or `pwm` between enabling and disabling leaves the device enabled (`killed`).

## What is proved

Every theorem is proved for all values of the constants: any number of threads,
buffers, clients, messages, resets and faults.

| Component | Theorems (and the property of a run that each states) |
|---|---|
| `IpcQueue` | `TypeCorrect`; `BuffersAreConserved` (`BuffersConserved`); `MessagesInOrder`; `WakeupNeverLost` (`NoLostWakeup`); `ResetLeavesNothingStale` (`NoStaleAtAck`); `DoorbellRespected`, an action property; `QueueIsChannel` (`ImplementsChannel`), the refinement |
| `ClientRx` | `TypeCorrect`; `OneFc` (`SingleFc`); `CreditsTrue`; `NeverRunsDry` (`NeverDryUnlessHindered`); `RbsNeverLost` (`RbsConserved`); `GrantedMeansBuffer` (`GrantHasBuffer`); `MessagesWaitWhole` |
| `HidRx` | `HidImplementsClientRx` (`ImplementsClientRx`); `EventsKept` (`NoEventLost`); `HidRbsNeverLost` (`RbsConserved`) |
| `PseRx` | `PseImplementsClientRx` (`ImplementsClientRx`); `PseTypeCorrect`; `DriverHoldsOne` (`HoldsWhatItShows`); `ReaderFindsBuffer` (`NoNullRead`); `UserReadsInOrder` (`ReadInOrder`); `PseRbsNeverLost` (`RbsConserved`); `PseGrantedMeansBuffer` (`GrantHasBuffer`) |
| `ClientTx` | `TypeCorrect`; `TxBufsNeverLost` (`TxBufsConserved`); `NoMessageUnpaid` (`CreditPerMessage`); `FragmentsKeepOrder` (`FragmentsUnlessRewound`) |
| `PseLifecycle` | `LinksAlwaysExact` (`LinksExact`); `ConnectedHasRings` (`ReadyUnlessHindered`) |
| `HbmHandshake` | `HandshakeTypes`; `StartedByFirmware` (`StartMeansStarted`, an action property); `TableNeverNull` (`NoUseAfterFree`); `BusAsEnumerated` (`DevicesExact`) |
| `FwLoader` | `StartedFromWhole` (`StartedWhole`); `FreedUnused` (`NoOops`) |
| `HidRequests` | `HidRequestInvariant`; `DescriptorsBelong` (`DescriptorsRight`); `AnswersBelong` (`OwnAnswers`); `OnlyEmptyResets` (`ResetsForCause`) |
| `PowerFlow` | `PowerInvariant`; `SleepsAfterTelling` (`SleepsTold`); `NeverOverwritten` (`NothingOverwritten`) |
| `PseApp` | `AppInvariant`; `StaysInStep` (`InStep`); `EndsDisabled` (`LeftDisabled`) |

The assumptions are the named ones of the modules: contexts are distinct, the
mark for "nobody" is none of them, sets of buffers and clients are finite, a
ring of read buffers is not empty, bounds are natural numbers, the FIFO of bus
messages holds more than one. TLC evaluates them in every run.

*The queue.* The list and the free list partition the buffers and have no
repetition; moving a buffer keeps that. Order needs that the
messages in the list are increasing and later than the one in the mailbox.
`NoLostWakeup` is inductive together with the facts on when the doorbell is
busy. The conjunction is `IInv`. The action property on the doorbell follows
from the guard that all its writers share, with the invariant that says where the
writers are. For the refinement, `ChannelSimulates` shows for each step of the queue what
becomes of the doorbell's message followed by the list: it grows at
the end, loses its first, is purged while a reset is on, or stays.

*The credit.* `SingleFc` is not inductive: nothing in it says why a context
about to write a request finds no grant. `FcInv` adds `LabelsOK` (which labels
a context may have: only the interrupt receives), `FcMutex` (one context holds
`fc_spinlock`) and `CreditInv`, which relates the counter to the grants
depending on where the lock's holder and the interrupt are. The one
way the counter goes wrong is an answer before the count. `OneFc` holds even
then: the counter may be left at 1 or 255 with nothing granted, which only
keeps the host from sending; outside the lock it is never 0 while the firmware
has a grant.

*Communication goes on.* `DryInv` says who sends the next FC when the firmware has
no grant: with a free buffer, some context that is serving one or will look
for one; with none, the interrupt or the driver, who have the buffers. It
needs the ring not to be empty, which `RingAssumption` states.

*The read buffers.* `RbsConserved` is inductive until a read is undone whose
buffer is no longer in the read list (`strayed`): the two lemmas `HandTakes` and
`HandDrops` say what the set of carried buffers becomes, the list lemmas the
rest. `GrantHasBuffer` is not: a context that has
listed a buffer and not yet sent its FC will make a grant. `BufferPerGrant`
counts those contexts: the read list has an entry for each of them and for each
grant, and an undone read takes one context and one entry off. So it holds for
refused FCs as well, whichever buffer is taken, as long as the lists are sound.
`MessagesWaitWhole` needs what every buffer on its way holds (`ContentInv`): the list
entries wait empty, but for the first, which has the fragments received so far; what the
interrupt carries is the last message; what waits for the driver are the
messages before it, whole, in order.

*The drivers.* A step of `HidRx` or `PseRx` is a step of `ClientRx` or leaves its
variables alone; that a recycled buffer is one of the ring follows from the
type invariant. For `DriverHoldsOne`, `PseInv` adds that the readers at the copy
own `pse_rb.lock` and that the driver has nothing while a reader recycles.
`ReaderFindsBuffer` holds because, until two threads are in the call at once, the one
past the wait is the only one that can empty `pse_rb.rb` (`OnlyReader`).
`UserReadsInOrder` combines all of it: the next fragment the user must get is at
the place `pse_rb` shows, or it is the first of the messages that wait
(`GotInv`), and those are whole and in order.

*Sending.* `LockInv` says what `tx_list_spinlock` and the flag `sending` protect. A
message takes its credit when it is started and reaches the wire later, so
`CreditPerMessage` is not inductive; `PaidInv` counts the message being sent
and what a context has in its hand as paid for. `OrderInv` says for each label how
far a context's place in the message (`tx_offs`, the head of the list) is behind
or ahead of the wire; in the 5.15 tree it needs that one context at most
follows a message (`OneFollower`), which is what `crossed` gives up.

*The client of the PSE driver.* `LinkInv` says what holds until `raced` is set:
whoever takes a client down owns `pse_rb.lock` (`MutexHeld`), so that one context at
a time is between the two sections of an unlinking; every open under way has a
client of its own, which is not linked (`OpensApart`); a client never linked has the host
id 0 (`FreshIds`); after the list `pse_dev.cl` is not a linked client, so that
what is freed is not in `cl_list` (`TakenOff`); and a client in `pse_dev.cl` that
has an id without being linked, of a failed link, has a handle of its own
(`FailedCounted`). An equality of the handle count and the list, which one
expects and which two users do not violate, is not provable: with three it is
false (see Known defects). `ReadyInv` follows the reset: the device is disabled from the
flush to the enumeration (`DisabledInv`), no client stays connected after the
flush (`FlushedInv`), and an answer is for a client whose opener waits or which has
its rings, or is marked (`AnsweredReady`).

*The handshake.* Each property has an invariant of the form "the history says that
it may not hold, or ...". `StartInv`: until a start was accepted nothing that is in
the FIFO or being dispatched can move the state past it. `OopsInv`: while a
reset is about to free the table nothing that would use it is left in the FIFO, the bottom half or
the firmware (`SilentReset`), and a dispatch that uses it finds it (`TableHeld`). `DevInv`: a reset is ahead, or the devices
and the table are right for each phase of the enumeration (`TablesRight`: before
the answer, at each client's properties, while a device is added, and when done),
a client for which the adding failed aside.

*The loader.* `WholeInv` follows each message of a load. The shim's side says that a
start on the way is the next thing the shim reads, with a whole image stored, and
that a query answered last leaves nothing stored. The work's side (`Loading`)
says for each label what is under way: no more than one message of a former
attempt before the query, and, once the query was answered, only the fragment
at `offset` or its acknowledgement, with all before it stored. The attempt to
prove it showed that `StartedWhole` does not hold for every load, as it does on
the instance of the run: answers carry no number, and a load that begins behind two
messages of former ones can take their acknowledgement for its own. That is
the mark `late`. `OopsInv` says who can have a freed client: the reset work
before it reconnects, and a removal that is over; and that a removal finds the works stopped,
one after the other. Its first form excused every removal; without that
excuse the stale look-up of the client showed (`replaced`, see Known defects).

*Requests of the HID client.* All is said of `Way`, what the firmware has sent
followed by what it has yet to read: the packets in the order in which the driver will
have them. At most one of them is a descriptor, the one asked for, and it comes after
every enumeration (`AskedInv`, `EnumInv`); hence what `process_recv` stores at
`cur_hid_dev` belongs there (`StoredInv`), and an enumeration is answered before a
descriptor is. So the driver takes an answer for a bad packet only from a
firmware without devices, even when it asked twice or gave up.
`CallInv` says that a request has the flag and the buffer of its device to itself,
and `OwnInv` that each packet of a request on the way has the one thread that waits
for it; both hold until somebody gives up on an answer or two requests of a device overlap.

*Suspend and resume.* `PowerInv` has a part for each set of races. Until a suspend
catches the resume's work, a system that is not awake has nothing running
(`Settled`). While in addition the firmware is not slow, the wait of the resume
is for a message the firmware has yet to read or to acknowledge, so that
`ish_wakeup` is reached only for a firmware that is off (`Resuming`). With own
replies only, `SUSPEND` is ahead, followed by data alone, or the firmware was
told (`Suspending`).

*The examples.* `StepInv`: there is one command at a time, on its way, at the PSE,
or answered. `EndInv`: no command fails but a read, after which the program still
closes its device, and a close that disables is under way or over when the program
comes to its end, which a signal that kills it is not; that every program which
enables a device has such a close is `ProgramOK`, shown of each from its commands.

What is only model-checked, and why:

- liveness and fairness (`QueueDrains`, `AllProcessed`, `EveryMessageRead`,
  `EveryMessageSent`, `ResetCompletes`, `ComesUp`, `Recovers`, `WakesUp`): the
  prover does not handle ENABLED.

## What is not modelled

- `dma-if.c` and the DMA path for sending: `transfer_path` is never set to it
  and `ishtp_use_dma` is off by default, so no slot is ever taken.
- Probe and removal of the PCI device; `ishtp_dev` (`ipc.c:623`) survives it.
- Registration and matching of drivers, uevent, sysfs, the character device's
  registration: kernel plumbing.
- Several clients on the read list of one device; a second connection of the
  same client with the rings and credits of the first; messages larger than
  announced.
- The reset callback of the PSE driver, which nothing reaches; `copy_to_user`
  faults; the wait of a read composed with a release.
- HID: unbinding the driver, several reports in a message, what a request does
  with a client that is freed; malformed packets.
- Formats: HECI, HID reports, bus message layouts, image contents; logging;
  statistics; arguments and output of the examples.
- Makefiles, DKMS, installation.

## Plan

1. *Done:* the queue, the receive path with its two drivers, the transmit path
   of both trees, the life of the PSE's client.
2. *Done:* `HbmHandshake` with devices and reset; `FwLoader`; `HidRequests`;
   `PowerFlow`; `PseApp`.
3. *Done:* theorems on every module; each invariant of a passing run is stated
   by one.
4. A connection over two connects (`client.c:408`): stale credits and second
   rings; composition of `PseRx` with the release of `PseLifecycle`.
5. `DmaSlots`: slot search and release as an algorithm, against a reference
   definition over all small maps.
