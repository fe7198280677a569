----------------------------- MODULE IpcChannel -----------------------------
(***************************************************************************)
(* What the host side of the IPC link promises its users: the messages it  *)
(* accepted reach the firmware once each, in the order of acceptance, and  *)
(* an accepted message is dropped only on behalf of a firmware reset.      *)
(*                                                                         *)
(* Messages are numbered by acceptance.  IpcQueue is shown to implement    *)
(* this specification.                                                     *)
(***************************************************************************)
EXTENDS Naturals, Sequences

VARIABLES queue,      \* numbers of the accepted messages the firmware has not read
          count,      \* how many messages were accepted so far
          lastRead,   \* number of the message the firmware read last, 0 if none
          resetting   \* a reset of the firmware has not been acted on yet

vars == <<queue, count, lastRead, resetting>>

Init ==
    /\ queue = <<>>
    /\ count = 0
    /\ lastRead = 0
    /\ resetting = FALSE

Accept ==
    /\ count' = count + 1
    /\ queue' = Append(queue, count')
    /\ UNCHANGED <<lastRead, resetting>>

Read ==
    /\ queue # <<>>
    /\ lastRead' = Head(queue)
    /\ queue' = Tail(queue)
    /\ UNCHANGED <<count, resetting>>

\* The firmware restarts; the message it was about to read may be gone.
Reset ==
    /\ resetting' = TRUE
    /\ queue' \in {queue} \cup (IF queue = <<>> THEN {} ELSE {Tail(queue)})
    /\ UNCHANGED <<count, lastRead>>

\* The host acts on the reset: it drops every message that waits, except
\* the one the firmware may be looking at.
Purge ==
    /\ resetting
    /\ queue' \in {<<>>} \cup (IF queue = <<>> THEN {} ELSE {<<Head(queue)>>})
    /\ resetting' \in BOOLEAN
    /\ UNCHANGED <<count, lastRead>>

Next == Accept \/ Read \/ Reset \/ Purge

Spec == Init /\ [][Next]_vars
=============================================================================
