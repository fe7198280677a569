-------------------------------- MODULE PseApp --------------------------------
(***************************************************************************)
(* The programs of examples/, which drive the PSE's peripherals through    *)
(* /dev/pse: each is a sequence of commands, a command is one write and    *)
(* the reads of its response (examples/pse.c), and a response names its    *)
(* command but nobody looks: the next message read is taken for it.        *)
(*                                                                         *)
(* The driver holds one message for the reader and leaves the others       *)
(* listed, as PseRx has it.  A response is one message, header and body.   *)
(***************************************************************************)
EXTENDS Naturals, Sequences

CONSTANTS
    TxRing, RxRing,  \* PSE_CL_TX_RING_SIZE, PSE_CL_RX_RING_SIZE
    MaxFaults        \* bound: late, refused, lost, unexpected

ASSUME RingsAssumption == {TxRing, RxRing} \subseteq Nat \ {0}
ASSUME BoundAssumption == MaxFaults \in Nat

\* A command, and whether the program has room for a body (out_body # NULL)
Cmd(name, body) == [name |-> name, body |-> body]

\* What a program does: the commands that must succeed or it ends there; the
\* main part, until a command fails, or whatever fails ("on"), and once or
\* again and again; and what it does before it closes the file.
Program(open, main, on, loop, close) ==
    [open |-> open, main |-> main, on |-> on, loop |-> loop, close |-> close]

CanOpen  == <<Cmd("baud", FALSE), Cmd("enable", FALSE)>>
CanRecv  == Cmd("read", TRUE)
CanSend  == Cmd("write", FALSE)
CanClose == <<Cmd("disable", FALSE)>>

CanProgram == Program(CanOpen \o <<CanSend>>, <<CanRecv>>, FALSE, TRUE, CanClose)
CanDump    == Program(CanOpen, <<CanRecv>>, TRUE, TRUE, CanClose)
CanSender  == Program(CanOpen, <<CanSend>>, FALSE, FALSE, CanClose)
Pwm        == Program(<<Cmd("cycle", FALSE)>>, <<Cmd("enable", FALSE), Cmd("enable", FALSE)>>,
                      FALSE, FALSE, <<Cmd("disable", FALSE)>>)
Led        == Program(<<>>, <<Cmd("set", FALSE), Cmd("clear", FALSE)>>, FALSE, FALSE, <<>>)
Dio        == Program(<<>>, <<Cmd("set", FALSE), Cmd("info", TRUE)>>, TRUE, FALSE, <<>>)
Version    == Program(<<>>, <<Cmd("info", TRUE)>>, FALSE, FALSE, <<>>)
Automotive == Program(<<Cmd("info", TRUE)>>, <<Cmd("info", TRUE), Cmd("info", TRUE)>>,
                      TRUE, FALSE, <<>>)

Programs == {CanProgram, CanDump, CanSender, Pwm, Led, Dio, Version, Automotive}

VARIABLES
    program,         \* which of Programs runs
    part, at, call,  \* where it is: the part, the command in it, the call
    stop,            \* candump's running = 0
    toPse, deviceOn, \* commands on their way; the PSE's device (external)
    rb, list,        \* pse_rb.rb, and the messages event_cb left in the list
    faults, seen     \* what is left of the bound, and history

app     == <<program, part, at>>
driver  == <<rb, list>>
appVars == <<app, call, stop, toPse, deviceOn, driver, faults, seen>>

\* late: a read gave up on a response that was coming; extra: a response had a
\* body nobody wanted; refused, lost: a command that was; mixed: a response to
\* another command was taken for this one's; killed: a signal ended the program.
Marks == {"late", "extra", "refused", "lost", "mixed", "killed"}

Nothing == [mine |-> FALSE, ok |-> FALSE, body |-> FALSE, unread |-> "none"]
Fault == faults > 0 /\ faults' = faults - 1
See(marks) == seen' = seen \cup marks

AppInit ==
    /\ program \in Programs
    /\ part = "open" /\ at = 1 /\ call = "next" /\ stop = FALSE
    /\ toPse = <<>> /\ deviceOn = FALSE
    /\ rb = Nothing /\ list = <<>>
    /\ faults = MaxFaults /\ seen = {}

Current == program[part][at]
-----------------------------------------------------------------------------
(***************************************************************************)
(* PSE (external), and the driver's callback for its response: it takes a  *)
(* message only if it holds none, and is called only for the first.        *)
(***************************************************************************)
Deliver(r) ==
    /\ rb' = IF list = <<>> /\ rb = Nothing THEN r ELSE rb
    /\ list' = IF list = <<>> /\ rb = Nothing THEN list ELSE Append(list, r)

Respond(ok, body) ==
    Deliver([mine |-> Head(toPse).mine, ok |-> ok, body |-> body, unread |-> "header"])

\* The PSE has a read buffer for each message it may send.
Granted == Len(list) + (IF rb = Nothing THEN 0 ELSE 1) < RxRing

\* A read of a CAN frame has a body when there is a frame.
PseExecutes ==
    /\ toPse # <<>> /\ Granted
    /\ toPse' = Tail(toPse)
    /\ LET cmd == Head(toPse).cmd IN
          /\ deviceOn' = CASE cmd.name = "enable"  -> TRUE
                          [] cmd.name = "disable" -> FALSE
                          [] OTHER -> deviceOn
          /\ \/ Respond(TRUE, cmd.body) /\ UNCHANGED <<faults, seen>>
             \/ cmd.name = "read" /\ Respond(TRUE, FALSE) /\ UNCHANGED <<faults, seen>>
             \/ ~cmd.body /\ Respond(TRUE, TRUE) /\ Fault /\ See({"extra"})
    /\ UNCHANGED <<app, call, stop>>

PseRefuses ==
    /\ toPse # <<>> /\ Granted
    /\ Fault
    /\ toPse' = Tail(toPse)
    /\ Respond(FALSE, FALSE)
    /\ See({"refused"})
    /\ UNCHANGED <<app, call, stop, deviceOn>>
-----------------------------------------------------------------------------
(***************************************************************************)
(* pse_command_checked                                                     *)
(***************************************************************************)
\* pse_send_command, which ignores what write returns
Send ==
    /\ call = "next" /\ at <= Len(program[part])
    /\ call' = "header"
    /\ \/ /\ Len(toPse) < TxRing
          /\ toPse' = Append(toPse, [cmd |-> Current, mine |-> TRUE])
          /\ UNCHANGED <<faults, seen>>
       \/ /\ IF Len(toPse) < TxRing THEN Fault ELSE UNCHANGED faults
          /\ See({"lost"})
          /\ UNCHANGED toPse
    /\ UNCHANGED <<app, stop, deviceOn, driver>>

Disowned(s) == [i \in DOMAIN s |-> [s[i] EXCEPT !.mine = FALSE]]

\* The command is over: what still comes of it will be another's.
CommandReturns(result, left) ==
    /\ call' = result
    /\ rb' = [left EXCEPT !.mine = FALSE]
    /\ list' = Disowned(list)
    /\ toPse' = Disowned(toPse)

\* Mistake: a body that is wanted is left unread.
ReadHeaderOnly ==
    /\ call = "header" /\ rb # Nothing
    /\ See(IF rb.mine /\ rb.unread = "header" THEN {} ELSE {"mixed"})
    /\ CommandReturns(IF rb.ok THEN "ok" ELSE "failed",
              IF rb.body /\ rb.unread = "header" THEN [rb EXCEPT !.unread = "body"] ELSE Nothing)
    /\ UNCHANGED <<app, stop, deviceOn, faults>>

\* What is left of a body nobody read is taken for a header, whatever is in it.
ReadHeader ==
    /\ call = "header"
    /\ \/ /\ rb.unread = "header"
          /\ See(IF rb.mine THEN {} ELSE {"mixed"})
          /\ \/ /\ rb.body /\ Current.body
                /\ call' = "body"
                /\ UNCHANGED <<driver, toPse>>
             \/ /\ rb.body /\ ~Current.body
                /\ CommandReturns(IF rb.ok THEN "ok" ELSE "failed", [rb EXCEPT !.unread = "body"])
             \/ /\ ~rb.body
                /\ CommandReturns(IF rb.ok /\ ~Current.body THEN "ok" ELSE "failed", Nothing)
       \/ /\ rb.unread = "body"
          /\ See({"mixed"})
          /\ \E left \in {rb, Nothing}, result \in {"ok", "failed"} : CommandReturns(result, left)
    /\ UNCHANGED <<app, stop, deviceOn, faults>>

ReadBody ==
    /\ call = "body"
    /\ CommandReturns(IF rb.ok THEN "ok" ELSE "failed", Nothing)
    /\ UNCHANGED <<app, stop, deviceOn, faults, seen>>

\* ishtp_pse_read gives up; a signal that interrupts it has the same effect.
ReadTimeout ==
    /\ call = "header" /\ rb = Nothing
    /\ IF toPse # <<>> THEN Fault /\ See({"late"}) ELSE UNCHANGED <<faults, seen>>
    /\ CommandReturns("failed", Nothing)
    /\ UNCHANGED <<app, stop, deviceOn>>
-----------------------------------------------------------------------------
(***************************************************************************)
(* main                                                                    *)
(***************************************************************************)
GoOn(p, i) == part' = p /\ at' = i /\ call' = "next"

\* Mistake: a main part that fails ends the program at once.
CommandOverEnds ==
    /\ call \in {"ok", "failed"}
    /\ IF call = "ok" \/ part = "close" THEN GoOn(part, at + 1)
                                      ELSE call' = "done" /\ UNCHANGED <<part, at>>
    /\ UNCHANGED <<program, stop, toPse, deviceOn, driver, faults, seen>>

CommandOver ==
    /\ call \in {"ok", "failed"}
    /\ \/ /\ call = "ok" \/ part = "close" \/ (part = "main" /\ program.on)
          /\ GoOn(part, at + 1)
       \/ /\ call = "failed" /\ part = "main" /\ ~program.on
          /\ GoOn("close", 1)
       \/ /\ call = "failed" /\ part = "open"
          /\ IF Current = CanSend THEN GoOn("close", 1)
                                  ELSE call' = "done" /\ UNCHANGED <<part, at>>
    /\ UNCHANGED <<program, stop, toPse, deviceOn, driver, faults, seen>>

PartOver ==
    /\ call = "next" /\ at > Len(program[part])
    /\ \/ part = "open" /\ ~stop /\ GoOn("main", 1)
       \/ part = "main" /\ program.loop /\ ~stop /\ GoOn("main", 1)
       \/ /\ part # "close"
          /\ stop \/ (part = "main" /\ ~program.loop)
          /\ GoOn("close", 1)
       \/ part = "close" /\ call' = "done" /\ UNCHANGED <<part, at>>
    /\ UNCHANGED <<program, stop, toPse, deviceOn, driver, faults, seen>>

\* SIGINT, SIGTERM or SIGHUP: only candump has a handler for them.
Signal ==
    /\ call # "done"
    /\ \/ /\ program = CanDump
          /\ stop' = TRUE
          /\ UNCHANGED <<call, seen>>
       \/ /\ program # CanDump
          /\ call' = "done"
          /\ See({"killed"})
          /\ UNCHANGED stop
    /\ UNCHANGED <<app, toPse, deviceOn, driver, faults>>
-----------------------------------------------------------------------------
AppNext ==
    \/ PseExecutes \/ PseRefuses \/ Send \/ ReadHeader \/ ReadBody \/ ReadTimeout
    \/ CommandOver \/ PartOver \/ Signal

AppSpec == AppInit /\ [][AppNext]_appVars
-----------------------------------------------------------------------------
(***************************************************************************)
(* The response a program reads is the response to its last command,       *)
(* though nothing in it is compared, unless a read gave up on one that was *)
(* still to come, or a response had a body the program has no room for.    *)
(***************************************************************************)
InStep == "mixed" \in seen => seen \cap {"late", "extra"} # {}

(***************************************************************************)
(* A program that comes to its end leaves the CAN or PWM device disabled,  *)
(* whichever of its commands fails and, for candump, whenever it is told   *)
(* to stop, unless the PSE refused, lost or was late with one of its       *)
(* commands or sent a body with it.  The others have no handler: a signal  *)
(* ends them where they are, with the device on (killed).                  *)
(***************************************************************************)
LeftDisabled ==
    call = "done" /\ toPse = <<>> /\ deviceOn =>
        seen \cap {"late", "refused", "lost", "extra", "killed"} # {}
=============================================================================
