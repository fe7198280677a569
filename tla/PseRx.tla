------------------------------- MODULE PseRx -------------------------------
(***************************************************************************)
(* Reading from /dev/pse (pse.c): a ClientRx whose event_cb moves one      *)
(* message into pse_dev.pse_rb.rb, if that is empty, and wakes the readers *)
(* of the device; a reader copies the message out, in one or several       *)
(* calls, and recycles the buffer when all of it was read.                 *)
(*                                                                         *)
(* The look at pse_rb.rb that decides whether a reader waits is made       *)
(* without pse_rb.lock; the lock is taken after the wait.  A fragment is   *)
(* the unit a reader asks for.                                             *)
(***************************************************************************)
EXTENDS ClientRx

CONSTANTS MaxUnread  \* bound: messages sent that the user did not read yet

Readers == Takers  \* threads in the read call, the one that connected included

ASSUME UnreadAssumption == MaxUnread \in Nat \ {0}
ASSUME OwnerAssumption == None \notin Readers  \* an unlocked mutex has no owner

VARIABLES
    pseRb,          \* pse_rb.rb
    waitException,  \* pse_rb.wait_exception
    lock,           \* owner of pse_rb.lock
    inCallback,     \* ishtp_pse_event_cb is running
    rd,             \* where each reader is in ishtp_pse_read
    fpos,           \* position of the open file
    off,            \* *offset, each call's copy of it
    got,            \* history: fragments copied to the user
    msgsRead,       \* history: messages read to their end
    seen            \* history: which of PseMarks happened

places   == <<rd, fpos, off, got, msgsRead>>
readVars == <<places, seen>>
pseVars  == <<vars, pseRb, waitException, lock, inCallback, readVars>>

\* oops: a reader used pse_rb.rb while it was NULL; overlapped: two threads
\* were in the read call; left: the callback left a message in the list.
PseMarks == {"oops", "overlapped", "left"}

See(mark, P) == seen' = IF P THEN seen \cup {mark} ELSE seen

GotoRd(r, label) == rd' = [rd EXCEPT ![r] = label]
-----------------------------------------------------------------------------
PseInit ==
    /\ Init
    /\ pseRb = None
    /\ waitException = FALSE
    /\ lock = None
    /\ inCallback = FALSE
    /\ rd = [r \in Readers |-> "user"]
    /\ fpos = 0
    /\ off = [r \in Readers |-> 0]
    /\ got = <<>>
    /\ msgsRead = 0
    /\ seen = {}

(***************************************************************************)
(* Plausible mistakes, each of which breaks a property below: a callback   *)
(* that replaces an unread message, a read without the wait, a message     *)
(* dropped without recycling it, and a partial read that does not keep its *)
(* place.                                                                  *)
(***************************************************************************)
EventReplaces ==
    /\ inCallback
    /\ lock = None
    /\ pseRb # None
    /\ IF inProcess = <<>> THEN UNCHANGED <<vars, pseRb>>
                            ELSE GetRb /\ pseRb' = Head(inProcess)
    /\ inCallback' = FALSE
    /\ UNCHANGED <<waitException, lock, readVars>>

CallNoWait(r) ==
    /\ rd[r] = "user"
    /\ pc[r] = "idle"
    /\ off' = [off EXCEPT ![r] = fpos]
    /\ GotoRd(r, "lock")
    /\ UNCHANGED <<vars, pseRb, waitException, lock, inCallback, fpos, got, msgsRead, seen>>

RestDrops(r) ==
    /\ rd[r] = "copy"
    /\ pseRb # None
    /\ off[r] <= Len(content[pseRb])
    /\ got' = got \o SubSeq(content[pseRb], off[r] + 1, Len(content[pseRb]))
    /\ held' = held \ {pseRb}
    /\ GotoRd(r, "clear")
    /\ UNCHANGED <<fwVars, freeRbs, readList, inProcess, mine, content, creds, work, pc,
                   pseRb, waitException, lock, inCallback, fpos, off, msgsRead, seen>>

ReturnForgets(r) ==
    /\ rd[r] = "return"
    /\ GotoRd(r, "user")
    /\ UNCHANGED <<vars, pseRb, waitException, lock, inCallback, fpos, off, got, msgsRead, seen>>

(***************************************************************************)
(* ishtp_pse_event_cb, called by the event work.  It fills pse_rb.rb only  *)
(* when that is empty; the message it leaves stays in the list.            *)
(***************************************************************************)
EventStart ==
    /\ ~inCallback
    /\ EventWork
    /\ inCallback' = TRUE
    /\ UNCHANGED <<pseRb, waitException, lock, readVars>>

EventTake ==
    /\ inCallback
    /\ lock = None
    /\ pseRb = None
    /\ IF inProcess = <<>>
       THEN waitException' = TRUE /\ UNCHANGED <<vars, pseRb>>
       ELSE GetRb /\ pseRb' = Head(inProcess) /\ UNCHANGED waitException
    /\ inCallback' = FALSE
    /\ See("left", Len(inProcess) > 1)
    /\ UNCHANGED <<lock, places>>

EventLeaves ==
    /\ inCallback
    /\ lock = None
    /\ pseRb # None
    /\ inCallback' = FALSE
    /\ See("left", inProcess # <<>>)
    /\ UNCHANGED <<vars, pseRb, waitException, lock, places>>

(***************************************************************************)
(* ishtp_pse_read                                                          *)
(***************************************************************************)
ReadCall(r) ==
    /\ rd[r] = "user"
    /\ pc[r] = "idle"
    /\ off' = [off EXCEPT ![r] = fpos]
    /\ IF pseRb = None
       THEN GotoRd(r, "wait") /\ waitException' = FALSE
       ELSE GotoRd(r, "lock") /\ UNCHANGED waitException
    /\ See("overlapped", \E q \in Readers : rd[q] # "user")
    /\ UNCHANGED <<vars, pseRb, lock, inCallback, fpos, got, msgsRead>>

\* The wait ends with a message, with an exception, or with the timeout.
ReadWake(r) ==
    /\ rd[r] = "wait"
    /\ pseRb # None \/ waitException
    /\ GotoRd(r, "woken")
    /\ UNCHANGED <<vars, pseRb, waitException, lock, inCallback, fpos, off, got, msgsRead, seen>>

ReadTimeout(r) ==
    /\ rd[r] = "wait"
    /\ pseRb = None /\ ~waitException
    /\ GotoRd(r, "user")
    /\ UNCHANGED <<vars, pseRb, waitException, lock, inCallback, fpos, off, got, msgsRead, seen>>

\* -EIO when the message is gone.
ReadRecheck(r) ==
    /\ rd[r] = "woken"
    /\ GotoRd(r, IF pseRb = None THEN "user" ELSE "lock")
    /\ UNCHANGED <<vars, pseRb, waitException, lock, inCallback, fpos, off, got, msgsRead, seen>>

ReadLock(r) ==
    /\ rd[r] = "lock"
    /\ lock = None
    /\ lock' = r
    /\ GotoRd(r, "copy")
    /\ UNCHANGED <<vars, pseRb, waitException, inCallback, fpos, off, got, msgsRead, seen>>

ReadNull(r) ==
    /\ rd[r] = "copy"
    /\ pseRb = None
    /\ See("oops", TRUE)
    /\ GotoRd(r, "crashed")
    /\ UNCHANGED <<vars, pseRb, waitException, lock, inCallback, fpos, off, got, msgsRead>>

\* -EMSGSIZE when the user asked for nothing, and no look at the buffer then,
\* or the offset lies behind the message.
ReadRefused(r) ==
    /\ rd[r] = "copy"
    /\ \E length \in 0 .. MaxFrags :
          length = 0 \/ (pseRb # None /\ off[r] > Len(content[pseRb]))
    /\ lock' = None
    /\ GotoRd(r, "user")
    /\ UNCHANGED <<vars, pseRb, waitException, inCallback, fpos, off, got, msgsRead, seen>>

\* Some of the message is copied; what is left is for the next call.
ReadPart(r) ==
    /\ rd[r] = "copy"
    /\ pseRb # None
    /\ \E n \in 1 .. MaxFrags :
          /\ off[r] + n < Len(content[pseRb])
          /\ got' = got \o SubSeq(content[pseRb], off[r] + 1, off[r] + n)
          /\ off' = [off EXCEPT ![r] = @ + n]
    /\ lock' = None
    /\ GotoRd(r, "return")
    /\ UNCHANGED <<vars, pseRb, waitException, inCallback, fpos, msgsRead, seen>>

\* All that is left is copied, and the buffer is recycled under the lock.
ReadRest(r) ==
    /\ rd[r] = "copy"
    /\ pseRb # None
    /\ off[r] <= Len(content[pseRb])
    /\ got' = got \o SubSeq(content[pseRb], off[r] + 1, Len(content[pseRb]))
    /\ RecycleFree(r, pseRb)
    /\ GotoRd(r, "clear")
    /\ UNCHANGED <<pseRb, waitException, lock, inCallback, fpos, off, msgsRead, seen>>

ReadRecycles(r) ==
    /\ rd[r] = "clear"
    /\ Core(r)
    /\ UNCHANGED <<pseRb, waitException, lock, inCallback, readVars>>

ReadClear(r) ==
    /\ rd[r] = "clear"
    /\ pc[r] = "idle"
    /\ pseRb' = None
    /\ lock' = None
    /\ off' = [off EXCEPT ![r] = 0]
    /\ msgsRead' = msgsRead + 1
    /\ GotoRd(r, "return")
    /\ UNCHANGED <<vars, waitException, inCallback, fpos, got, seen>>

\* The system call stores the offset in the file.
ReadReturn(r) ==
    /\ rd[r] = "return"
    /\ fpos' = off[r]
    /\ GotoRd(r, "user")
    /\ UNCHANGED <<vars, pseRb, waitException, lock, inCallback, off, got, msgsRead, seen>>
-----------------------------------------------------------------------------
RecvStep ==
    /\ pc[Isr] = "idle" => Sent < msgsRead + MaxUnread
    /\ Receive \/ FlowControlReq(Isr)
    /\ UNCHANGED <<pseRb, waitException, lock, inCallback, readVars>>

\* ishtp_cl_connect's first ishtp_cl_read_start.
ConnectReads ==
    /\ rd[Opener] = "user"
    /\ Core(Opener)
    /\ UNCHANGED <<pseRb, waitException, lock, inCallback, readVars>>

Event == EventStart \/ EventTake \/ EventLeaves

ReadWithLock(r) == \/ ReadNull(r)
                   \/ ReadRefused(r)
                   \/ ReadPart(r)
                   \/ ReadRest(r)
                   \/ ReadRecycles(r)
                   \/ ReadClear(r)

ReadNoLock(r) == \/ ReadCall(r)
                 \/ ReadWake(r)
                 \/ ReadTimeout(r)
                 \/ ReadRecheck(r)
                 \/ ReadReturn(r)

Read(r) == ReadNoLock(r) \/ ReadLock(r) \/ ReadWithLock(r)

PseNext ==
    \/ RecvStep
    \/ ConnectReads
    \/ Event
    \/ \E r \in Readers : Read(r)

PseSpec == PseInit /\ [][PseNext]_pseVars

\* Every context runs, an application reads something again and again, the firmware
\* sends what it has, and the mutex is handed to whoever waits for it.
PseFairness ==
    /\ WF_pseVars(RecvStep)
    /\ WF_pseVars(ConnectReads)
    /\ SF_pseVars(Event)
    /\ \A r \in Readers : /\ WF_pseVars(ReadNoLock(r))
                          /\ SF_pseVars(ReadLock(r))
                          /\ WF_pseVars(ReadWithLock(r))
                          /\ SF_pseVars(ReadPart(r) \/ ReadRest(r))

PseFairSpec == PseSpec /\ PseFairness
-----------------------------------------------------------------------------
PseTypeOK ==
    /\ TypeOK
    /\ pseRb \in Rbs \cup {None}
    /\ waitException \in BOOLEAN
    /\ lock \in Readers \cup {None}
    /\ inCallback \in BOOLEAN
    /\ rd \in [Readers -> {"user", "wait", "woken", "lock", "copy", "clear", "return", "crashed"}]
    /\ fpos \in Nat
    /\ off \in [Readers -> Nat]
    /\ got \in Seq(Nat \X Nat)
    /\ msgsRead \in Nat
    /\ seen \subseteq PseMarks

(***************************************************************************)
(* The buffer in pse_rb.rb is the driver's only one, except while it is    *)
(* being recycled under the lock: none is taken from the client and then   *)
(* forgotten, and none is used after it was given back.                    *)
(***************************************************************************)
Recycling == \E r \in Readers : rd[r] = "clear"

HoldsWhatItShows ==
    ~Recycling => held = (IF pseRb = None THEN {} ELSE {pseRb})

(***************************************************************************)
(* The user gets the messages complete and in order, each fragment once,   *)
(* however many calls it takes to read one, unless two threads read at a   *)
(* time: they share the position in the file.                              *)
(***************************************************************************)
After(f) == IF f[2] = sizes[f[1]] THEN <<f[1] + 1, 1>> ELSE <<f[1], f[2] + 1>>

GotInOrder ==
    \A i \in DOMAIN got :
        /\ got[i][1] \in 1 .. Sent
        /\ got[i][2] \in 1 .. sizes[got[i][1]]
        /\ got[i] = IF i = 1 THEN <<1, 1>> ELSE After(got[i - 1])

ReadInOrder == "overlapped" \in seen \/ GotInOrder

(***************************************************************************)
(* A reader never finds the buffer gone that made it stop waiting, unless  *)
(* another was in the call: the look at pse_rb.rb is made without the lock *)
(* that is there to "prevent data modification while in use".              *)
(***************************************************************************)
NoNullRead == "oops" \in seen => "overlapped" \in seen

(***************************************************************************)
(* Every message the firmware sent is read in the end by an application    *)
(* that goes on reading, unless the callback left one in the list, to an   *)
(* event that nobody schedules, or two threads read at a time.             *)
(***************************************************************************)
EveryMessageRead ==
    \A m \in 1 .. MaxMsgs :
       Sent >= m ~> msgsRead >= m \/ seen \cap {"left", "overlapped"} # {}
=============================================================================
