------------------------- MODULE HbmHandshakeProofs -------------------------
(***************************************************************************)
(* Theorems about HbmHandshake, for any clients of the firmware, any fifo  *)
(* and any number of resets and faults.                                    *)
(*                                                                         *)
(* Each of the three safety properties has an invariant that holds until   *)
(* the history says that it may not: StartInv until a start was accepted   *)
(* or something failed, OopsInv until something failed or a reset overtook *)
(* a dispatch, DevInv until something hindered or a reset overtook.        *)
(***************************************************************************)
EXTENDS HbmHandshake, FiniteSetTheorems, WellFoundedInduction, SequenceTheorems, TLAPS

Commands == {"none", "RESET_ACK", "QUERY", "START_REQ", "START_RES", "ENUM_REQ", "PROP_REQ",
             "PROPS_RES", "ADD", "STOP_REQ", "STOP_RES", "FW_STOP_REQ", "UNKNOWN", "OOPS"}

HbmStates == {"IDLE", "START", "STARTED", "ENUM_CLIENTS", "CLIENT_PROPERTIES", "WORKING", "STOPPED"}

Numbered == [cmd : Commands, arg : Nat \cup {-1}]
Message  == Numbered \cup [cmd : {"ENUM_RES"}, arg : SUBSET Clients]

\* What the firmware sends, and the interrupt puts into the fifo.
Answers == {"START_RES", "ENUM_RES", "PROPS_RES", "STOP_RES", "UNKNOWN", "FW_STOP_REQ"}
Answer  == {m \in Message : m.cmd \in Answers}

LabelTypes ==
    /\ devState \in {"INITIALIZING", "RESETTING", "INIT_CLIENTS", "ENABLED", "DISABLED"}
    /\ hbmState \in HbmStates
    /\ rst \in {"idle", "walk", "free", "ack", "ready", "start"}
    /\ starter \in {"hw", "hbm", "giveup", "done"}
    /\ fw \in {"down", "notify", "ready"}

FlagTypes == queued \in BOOLEAN /\ rstQueued \in BOOLEAN /\ hwReady \in BOOLEAN

HistoryTypes == resets \in Nat /\ faults \in 0 .. MaxFaults /\ seen \subseteq Marks

MessageTypes == fifo \in Seq(Answer) /\ bh \in Message /\ toFw \in Seq(Numbered)

TableTypes ==
    /\ map \subseteq Clients /\ table \in Seq(Nat) /\ index \in Nat /\ pres \in Nat
    /\ device \in [Clients -> {"none", "null", "live", "freed"}]

TypeInv == LabelTypes /\ FlagTypes /\ HistoryTypes /\ MessageTypes /\ TableTypes
-----------------------------------------------------------------------------
LEMMA Messages ==
    /\ Idle \in Message
    /\ \A n \in Nat \cup {-1}, c \in Commands : Msg(c, n) \in Numbered /\ Msg(c, n) \in Message
    /\ \A S \in SUBSET Clients : Msg("ENUM_RES", S) \in Message
    /\ \A m \in Message : /\ m.cmd = "ENUM_RES" => m.arg \in SUBSET Clients
                          /\ m.cmd # "ENUM_RES" => m \in Numbered /\ m.arg \in Nat \cup {-1}
BY DEF Idle, Msg, Message, Numbered, Commands

LEMMA TypeInit == Init => TypeInv
<1> SUFFICES ASSUME Init PROVE TypeInv
  OBVIOUS
<1>1. LabelTypes /\ FlagTypes
  BY DEF Init, LabelTypes, FlagTypes, HbmStates
<1>2. HistoryTypes
  BY BoundAssumption DEF Init, HistoryTypes
<1>3. MessageTypes
  BY Messages DEF Init, MessageTypes
<1>4. TableTypes
  BY DEF Init, TableTypes
<1>5. QED
  BY <1>1, <1>2, <1>3, <1>4 DEF TypeInv

LEMMA LabelStep == LabelTypes /\ [Next]_vars => LabelTypes'
<1> SUFFICES ASSUME LabelTypes, [Next]_vars PROVE LabelTypes'
  OBVIOUS
<1> USE DEF LabelTypes, HbmStates, states, rstVars, init, fwVars
<1>1. CASE FwNotify
  BY <1>1 DEF FwNotify
<1>2. CASE FwReads
  BY <1>2 DEF FwReads
<1>3. CASE FwAnswers
  BY <1>3 DEF FwAnswers, RecvHbm
<1>4. CASE FwRefuses
  BY <1>4 DEF FwRefuses, RecvHbm
<1>5. CASE FwUnsolicited
  BY <1>5 DEF FwUnsolicited, RecvHbm
<1>6. CASE FwResets
  BY <1>6 DEF FwResets
<1>7. CASE RstClear
  BY <1>7 DEF RstClear
<1>8. CASE RstWalk
  BY <1>8 DEF RstWalk
<1>9. CASE RstFree
  BY <1>9 DEF RstFree
<1>10. CASE RstAck
  BY <1>10 DEF RstAck
<1>11. CASE RstDead
  BY <1>11 DEF RstDead
<1>12. CASE RstReady
  BY <1>12 DEF RstReady
<1>13. CASE RstStart
  BY <1>13 DEF RstStart, RequestFails
<1>14. CASE BhTake
  BY <1>14 DEF BhTake
<1>15. CASE BhStart
  BY <1>15 DEF BhStart, HwReset
<1>16. CASE BhEnumReq
  BY <1>16 DEF BhEnumReq, RequestFails
<1>17. CASE BhEnum
  BY <1>17 DEF BhEnum, HwReset, RequestFails
<1>18. CASE BhProps
  BY <1>18 DEF BhProps, HwReset
<1>19. CASE BhPropReq
  BY <1>19 DEF BhPropReq, RequestFails
<1>20. CASE BhPropsDone
  BY <1>20 DEF BhPropsDone
<1>21. CASE BhAdd
  BY <1>21 DEF BhAdd
<1>22. CASE BhOops
  BY <1>22 DEF BhOops
<1>23. CASE BhStop
  BY <1>23 DEF BhStop, HwReset
<1>24. CASE BhOther
  BY <1>24 DEF BhOther
<1>25. CASE HwStarted
  BY <1>25 DEF HwStarted
<1>26. CASE HbmStarted
  BY <1>26 DEF HbmStarted
<1>27. CASE StartTimeout
  BY <1>27 DEF StartTimeout
<1>28. CASE StartGiveUp
  BY <1>28 DEF StartGiveUp
<1>29. CASE Resume
  BY <1>29 DEF Resume
<1>30. CASE UNCHANGED vars
  BY <1>30 DEF vars
<1>31. QED
  BY <1>1, <1>2, <1>3, <1>4, <1>5, <1>6, <1>7, <1>8, <1>9, <1>10, <1>11, <1>12, <1>13, <1>14, <1>15, <1>16, <1>17, <1>18, <1>19, <1>20, <1>21, <1>22, <1>23, <1>24, <1>25, <1>26, <1>27, <1>28, <1>29, <1>30
     DEF Next, Firmware, ResetWork, BottomHalf, Starter

LEMMA ResetHistory ==
    ASSUME HistoryTypes, HwReset
    PROVE  faults' \in 0 .. MaxFaults /\ seen' \subseteq Marks
<1>1. CASE UNCHANGED <<faults, seen>>
  BY <1>1 DEF HistoryTypes
<1>2. CASE Fault /\ See({"hindered"})
  <2>1. faults > 0 /\ faults' = faults - 1 /\ faults \in 0 .. MaxFaults
    BY <1>2 DEF Fault, HistoryTypes
  <2>2. seen' \subseteq Marks
    BY <1>2 DEF See, Marks, HistoryTypes
  <2>3. QED
    BY <2>1, <2>2, BoundAssumption
<1>3. QED
  BY <1>1, <1>2 DEF HwReset

LEMMA HistoryStep == HistoryTypes /\ [Next]_vars => HistoryTypes'
<1> SUFFICES ASSUME HistoryTypes, [Next]_vars PROVE HistoryTypes'
  OBVIOUS
<1> USE DEF HistoryTypes, history, See, SeeIf, Marks, Fault
<1>1. CASE FwNotify
  BY <1>1 DEF FwNotify
<1>2. CASE FwReads
  BY <1>2 DEF FwReads
<1>3. CASE FwAnswers
  BY <1>3 DEF FwAnswers, RecvHbm
<1>4. CASE FwRefuses
  BY <1>4, BoundAssumption DEF FwRefuses, RecvHbm
<1>5. CASE FwUnsolicited
  BY <1>5, BoundAssumption DEF FwUnsolicited, RecvHbm
<1>6. CASE FwResets
  BY <1>6 DEF FwResets
<1>7. CASE RstClear
  BY <1>7 DEF RstClear
<1>8. CASE RstWalk
  BY <1>8 DEF RstWalk
<1>9. CASE RstFree
  BY <1>9 DEF RstFree
<1>10. CASE RstAck
  BY <1>10 DEF RstAck
<1>11. CASE RstDead
  BY <1>11 DEF RstDead
<1>12. CASE RstReady
  BY <1>12 DEF RstReady
<1>13. CASE RstStart
  BY <1>13, BoundAssumption DEF RstStart, RequestFails
<1>14. CASE BhTake
  BY <1>14 DEF BhTake
<1>15. CASE BhStart
  <2>1. CASE HwReset
    BY <1>15, <2>1, ResetHistory DEF BhStart
  <2>2. CASE ~HwReset
    BY <1>15, <2>2 DEF BhStart
  <2>3. QED
    BY <2>1, <2>2
<1>16. CASE BhEnumReq
  BY <1>16, BoundAssumption DEF BhEnumReq, RequestFails
<1>17. CASE BhEnum
  <2>1. CASE HwReset
    BY <1>17, <2>1, ResetHistory DEF BhEnum
  <2>2. CASE ~HwReset
    <3>1. /\ faults' = faults \/ (faults > 0 /\ faults' = faults - 1)
          /\ UNCHANGED <<resets, seen>>
      BY <1>17, <2>2 DEF BhEnum, RequestFails
    <3>2. faults' \in 0 .. MaxFaults
      BY <3>1, BoundAssumption
    <3>3. QED
      BY <3>1, <3>2
  <2>3. QED
    BY <2>1, <2>2
<1>18. CASE BhProps
  BY <1>18, ResetHistory DEF BhProps
<1>19. CASE BhPropReq
  BY <1>19, BoundAssumption DEF BhPropReq, RequestFails
<1>20. CASE BhPropsDone
  BY <1>20 DEF BhPropsDone
<1>21. CASE BhAdd
  <2>1. faults' = faults \/ (faults > 0 /\ faults' = faults - 1)
    BY <1>21 DEF BhAdd
  <2>2. UNCHANGED <<resets, seen>>
    BY <1>21 DEF BhAdd
  <2>3. faults' \in 0 .. MaxFaults
    BY <2>1, BoundAssumption
  <2>4. QED
    BY <2>2, <2>3
<1>22. CASE BhOops
  BY <1>22 DEF BhOops
<1>23. CASE BhStop
  <2>1. CASE HwReset
    BY <1>23, <2>1, ResetHistory DEF BhStop
  <2>2. CASE ~HwReset
    <3>1. /\ faults > 0 /\ faults' = faults - 1 /\ seen' = seen \cup {"hindered"}
          /\ resets' = resets
      BY <1>23, <2>2 DEF BhStop
    <3>2. faults' \in 0 .. MaxFaults
      BY <3>1, BoundAssumption
    <3>3. QED
      BY <3>1, <3>2
  <2>3. QED
    BY <2>1, <2>2
<1>24. CASE BhOther
  BY <1>24 DEF BhOther
<1>25. CASE HwStarted
  BY <1>25 DEF HwStarted
<1>26. CASE HbmStarted
  BY <1>26 DEF HbmStarted
<1>27. CASE StartTimeout
  BY <1>27 DEF StartTimeout
<1>28. CASE StartGiveUp
  BY <1>28 DEF StartGiveUp
<1>29. CASE Resume
  BY <1>29 DEF Resume
<1>30. CASE UNCHANGED vars
  BY <1>30 DEF vars
<1>31. QED
  BY <1>1, <1>2, <1>3, <1>4, <1>5, <1>6, <1>7, <1>8, <1>9, <1>10, <1>11, <1>12, <1>13, <1>14, <1>15, <1>16, <1>17, <1>18, <1>19, <1>20, <1>21, <1>22, <1>23, <1>24, <1>25, <1>26, <1>27, <1>28, <1>29, <1>30
     DEF Next, Firmware, ResetWork, BottomHalf, Starter

(***************************************************************************)
(* The messages: what is written, received and read stays a list of        *)
(* messages of the same kind.                                              *)
(***************************************************************************)
LEMMA Queues ==
    ASSUME NEW S, NEW s \in Seq(S)
    PROVE  /\ \A m \in S : Append(s, m) \in Seq(S)
           /\ s # <<>> => Head(s) \in S /\ Tail(s) \in Seq(S)
           /\ <<>> \in Seq(S)
<1>1. \A m \in S : Append(s, m) \in Seq(S)
  OBVIOUS
<1>2. s # <<>> => Head(s) \in S /\ Tail(s) \in Seq(S)
  OBVIOUS
<1>3. QED
  BY <1>1, <1>2

LEMMA Received ==
    ASSUME NEW S, fifo \in Seq(S), NEW m \in S, RecvHbm(m)
    PROVE  fifo' \in Seq(S) /\ bh' = bh
BY Queues DEF RecvHbm

LEMMA RepliesTyped ==
    ASSUME NEW q \in Numbered, NEW m \in Replies(q)
    PROVE  /\ m \in Answer /\ m.cmd \in {"START_RES", "ENUM_RES", "PROPS_RES", "STOP_RES"}
           /\ m.cmd = "START_RES" => m.arg = 0
           /\ q.cmd \in {"START_REQ", "PROP_REQ"} =>
                  m.cmd \in {"START_RES", "PROPS_RES"} /\ [m EXCEPT !.arg = -1] = Msg(m.cmd, -1)
           /\ q.cmd \notin {"RESET_ACK", "QUERY"}
<1>1. q.arg \in Nat \cup {-1}
  BY DEF Numbered
<1>2. \/ q.cmd = "START_REQ" /\ m = Msg("START_RES", 0)
      \/ q.cmd = "ENUM_REQ" /\ \E S \in SUBSET Clients : m = Msg("ENUM_RES", S)
      \/ q.cmd = "PROP_REQ" /\ m = Msg("PROPS_RES", q.arg)
      \/ q.cmd = "STOP_REQ" /\ m = Msg("STOP_RES", 0)
  BY DEF Replies
<1>3. m \in Message
  BY <1>1, <1>2, Messages DEF Commands
<1>4. m.cmd \in {"START_RES", "ENUM_RES", "PROPS_RES", "STOP_RES"}
  BY <1>2 DEF Msg
<1>5. m \in Answer
  BY <1>3, <1>4 DEF Answer, Answers
<1>6. QED
  BY <1>2, <1>5 DEF Msg

LEMMA Unsolicited ==
    ASSUME NEW m \in {Msg("UNKNOWN", 0), Msg("FW_STOP_REQ", 0), Msg("START_RES", 0),
                      Msg("ENUM_RES", Clients)}
    PROVE  m \in Answer
<1>1. m \in Message
  BY Messages DEF Commands
<1>2. m.cmd \in Answers
  BY DEF Answers, Msg
<1>3. QED
  BY <1>1, <1>2 DEF Answer

LEMMA FirstLeast ==
    ASSUME NEW n \in Nat, map \subseteq Clients, Following(n) # {}
    PROVE  /\ First(Following(n)) \in map /\ First(Following(n)) \in Nat
           /\ First(Following(n)) >= n
           /\ \A c \in map : c >= n => First(Following(n)) <= c
<1> DEFINE R == OpToRel(<, Nat)
<1>1. IsWellFoundedOn(R, Nat)
  BY NatLessThanWellFounded
<1>2. \A x, y \in Nat : y < x => <<y, x>> \in R
  BY DEF OpToRel
<1> HIDE DEF R
<1>3. Following(n) \subseteq Nat
  BY ClientsAssumption DEF Following
<1>4. PICK x \in Following(n) : \A y \in Following(n) : ~ (<<y, x>> \in R)
  BY <1>1, <1>3, WFMin
<1>5. ASSUME NEW y \in Following(n) PROVE x <= y
  <2>1. x \in Nat /\ y \in Nat /\ ~ (<<y, x>> \in R)
    BY <1>3, <1>4
  <2>2. ~ (y < x)
    BY <1>2, <2>1
  <2>3. QED
    BY <2>1, <2>2
<1>6. First(Following(n)) \in Following(n) /\ \A d \in Following(n) : First(Following(n)) <= d
  BY <1>4, <1>5 DEF First
<1>7. QED
  BY <1>3, <1>6 DEF Following

LEMMA MessageStep == TypeInv /\ [Next]_vars => MessageTypes'
<1> SUFFICES ASSUME TypeInv, [Next]_vars PROVE MessageTypes'
  OBVIOUS
<1>0. fifo \in Seq(Answer) /\ bh \in Message /\ toFw \in Seq(Numbered) /\ pres \in Nat
  BY DEF TypeInv, MessageTypes, TableTypes
<1>1. CASE UNCHANGED <<fifo, bh, toFw>>
  BY <1>0, <1>1 DEF MessageTypes
<1>2. CASE FwReads \/ FwAnswers \/ FwRefuses
  <2>1. toFw # <<>> /\ toFw' = Tail(toFw) /\ Head(toFw) \in Numbered
    BY <1>0, <1>2, Queues DEF FwReads, FwAnswers, FwRefuses
  <2>2. toFw' \in Seq(Numbered)
    BY <1>0, <2>1, Queues
  <2>3. fifo' \in Seq(Answer) /\ bh' = bh
    <3>1. CASE FwReads
      BY <1>0, <3>1 DEF FwReads, bhVars
    <3>2. CASE FwAnswers
      BY <1>0, <2>1, <3>2, Received, RepliesTyped DEF FwAnswers
    <3>3. CASE FwRefuses
      <4>1. PICK m \in Replies(Head(toFw)) : RecvHbm([m EXCEPT !.arg = -1])
        BY <3>3 DEF FwRefuses
      <4>2. [m EXCEPT !.arg = -1] \in Answer
        <5>1. m.cmd \in {"START_RES", "PROPS_RES"} /\ [m EXCEPT !.arg = -1] = Msg(m.cmd, -1)
          BY <2>1, <3>3, RepliesTyped DEF FwRefuses
        <5>2. Msg(m.cmd, -1) \in Message
          BY <5>1, Messages DEF Commands
        <5>3. QED
          BY <5>1, <5>2 DEF Answer, Answers, Msg
      <4>3. QED
        BY <1>0, <4>1, <4>2, Received
    <3>4. QED
      BY <1>2, <3>1, <3>2, <3>3
  <2>4. QED
    BY <1>0, <2>2, <2>3 DEF MessageTypes
<1>3. CASE FwUnsolicited
  BY <1>0, <1>3, Received, Unsolicited DEF FwUnsolicited, fwVars, MessageTypes
<1>4. CASE RstClear
  BY <1>0, <1>4, Queues DEF RstClear, MessageTypes
<1>5. CASE RstAck \/ RstStart \/ HbmStarted
  <2>1. UNCHANGED <<fifo, bh>>
    BY <1>5 DEF RstAck, RstStart, HbmStarted, bhVars
  <2>2. toFw' = toFw \/ \E c \in Commands : toFw' = Append(toFw, Msg(c, 0))
    BY <1>5 DEF RstAck, RstStart, HbmStarted, Write, Commands, fwVars
  <2>3. QED
    BY <1>0, <2>1, <2>2, Queues, Messages DEF MessageTypes
<1>6. CASE BhTake
  BY <1>0, <1>6, Queues, Messages DEF BhTake, fwVars, MessageTypes, Answer
<1>7. CASE BottomHalf /\ ~BhTake
  <2>1. fifo' = fifo
    BY <1>7 DEF BottomHalf, BhStart, BhEnumReq, BhEnum, BhProps, BhPropReq, BhPropsDone, BhAdd,
                BhOops, BhStop, BhOther
  <2>2. bh' = bh \/ bh' = Idle \/ \E c \in Commands, n \in Nat \cup {-1} : bh' = Msg(c, n)
    BY <1>0, <1>7 DEF BottomHalf, BhStart, BhEnumReq, BhEnum, BhProps, BhPropReq, BhPropsDone, BhAdd,
                BhOops, BhStop, BhOther, Done, Commands
  <2>3. \/ toFw' = toFw
        \/ At("ENUM_REQ") /\ toFw' = Append(toFw, bh)
        \/ toFw' = Append(toFw, Msg("STOP_REQ", 0))
        \/ Following(index) # {} /\ toFw' = Append(toFw, Msg("PROP_REQ", First(Following(index))))
    BY <1>7 DEF BottomHalf, BhStart, BhEnumReq, BhEnum, BhProps, BhPropReq, BhPropsDone, BhAdd,
                BhOops, BhStop, BhOther, Write, fwVars
  <2>4. bh' \in Message
    BY <1>0, <2>2, Messages
  <2>5. toFw' \in Seq(Numbered)
    <3>1. At("ENUM_REQ") => bh \in Numbered
      BY <1>0, Messages DEF At
    <3>2. Following(index) # {} => First(Following(index)) \in Nat
      BY FirstLeast DEF TypeInv, TableTypes
    <3>3. QED
      BY <1>0, <2>3, <3>1, <3>2, Queues, Messages DEF Commands
  <2>6. QED
    BY <1>0, <2>1, <2>4, <2>5 DEF MessageTypes
<1>8. QED
  <2>1. CASE FwNotify \/ FwResets \/ RstWalk \/ RstFree \/ RstDead \/ RstReady
    BY <1>1, <2>1 DEF FwNotify, FwResets, RstWalk, RstFree, RstDead, RstReady, bhVars, fwVars
  <2>2. CASE HwStarted \/ StartTimeout \/ StartGiveUp \/ Resume \/ UNCHANGED vars
    BY <1>1, <2>2 DEF HwStarted, StartTimeout, StartGiveUp, Resume, bhVars, fwVars, vars
  <2>3. QED
    BY <1>2, <1>3, <1>4, <1>5, <1>6, <1>7, <2>1, <2>2 DEF Next, Firmware, ResetWork, BottomHalf, Starter

(***************************************************************************)
(* The tables.                                                             *)
(***************************************************************************)
TableKeepers ==
    \/ FwNotify \/ FwReads \/ FwAnswers \/ FwRefuses \/ FwUnsolicited \/ FwResets
    \/ RstClear \/ RstAck \/ RstDead \/ RstReady \/ RstStart
    \/ BhTake \/ BhStart \/ BhEnumReq \/ BhOops \/ BhStop \/ BhOther
    \/ HwStarted \/ HbmStarted \/ StartTimeout \/ StartGiveUp \/ Resume \/ UNCHANGED vars

LEMMA TablesKept == TableKeepers => UNCHANGED <<tabVars, device, unadded>>
BY DEF TableKeepers, FwNotify, FwReads, FwAnswers, FwRefuses, FwUnsolicited, FwResets, RstClear, RstAck,
       RstDead, RstReady, RstStart, BhTake, BhStart, BhEnumReq, BhOops, BhStop, BhOther, HwStarted,
       HbmStarted, StartTimeout, StartGiveUp, Resume, vars

\* A new table: one entry for each client of the answer.
LEMMA NewTable ==
    ASSUME NEW S \in SUBSET Clients, NEW t, t = [i \in 1 .. Cardinality(S) |-> 0]
    PROVE  t \in Seq(Nat) /\ (S # {} => Len(t) > 0)
<1>1. IsFiniteSet(S) /\ Cardinality(S) \in Nat /\ (S # {} => Cardinality(S) # 0)
  BY ClientsAssumption, FS_Subset, FS_CardinalityType, FS_EmptySet
<1>2. QED
  BY <1>1

LEMMA TableStep == TypeInv /\ [Next]_vars => TableTypes'
<1> SUFFICES ASSUME TypeInv, [Next]_vars PROVE TableTypes'
  OBVIOUS
<1>0. /\ map \subseteq Clients /\ table \in Seq(Nat) /\ index \in Nat /\ pres \in Nat
      /\ device \in [Clients -> {"none", "null", "live", "freed"}]
      /\ bh \in Message
  BY DEF TypeInv, TableTypes, MessageTypes
<1>1. CASE TableKeepers
  BY <1>0, <1>1, TablesKept DEF TableTypes, tabVars
<1>2. CASE RstWalk
  <2>1. device' \in [Clients -> {"none", "null", "live", "freed"}] /\ UNCHANGED tabVars
    BY <1>0, <1>2 DEF RstWalk
  <2>2. QED
    BY <1>0, <2>1 DEF TableTypes, tabVars
<1>3. CASE RstFree
  <2>1. device' \in [Clients -> {"none", "null", "live", "freed"}]
    BY <1>0, <1>3 DEF RstFree
  <2>2. map' = {} /\ table' = <<>> /\ index' = 0 /\ pres' = 0
    BY <1>3 DEF RstFree
  <2>3. QED
    BY <2>1, <2>2, EmptySeq DEF TableTypes
<1>4. CASE BhEnum
  <2>1. bh.arg \in SUBSET Clients
    BY <1>0, <1>4, Messages DEF BhEnum, At
  <2>2. /\ map' = bh.arg /\ device' = device
        /\ index' = index \/ index' = 0
        /\ pres' = pres \/ pres' = 0
        /\ table' = table \/ table' = <<>> \/ table' = [i \in 1 .. Cardinality(bh.arg) |-> 0]
    BY <1>4 DEF BhEnum
  <2>3. table' \in Seq(Nat)
    <3>1. CASE table' = [i \in 1 .. Cardinality(bh.arg) |-> 0]
      BY <2>1, <3>1, NewTable, Zenon
    <3>2. CASE table' = table \/ table' = <<>>
      BY <1>0, <3>2, EmptySeq
    <3>3. QED
      BY <2>2, <3>1, <3>2
  <2>4. QED
    BY <1>0, <2>1, <2>2, <2>3 DEF TableTypes
<1>5. CASE BhProps
  BY <1>0, <1>5 DEF BhProps, TableTypes
<1>6. CASE BhPropReq
  <2> DEFINE c == First(Following(index))
  <2>1. c \in Nat
    BY <1>0, <1>6, FirstLeast DEF BhPropReq
  <2>2. /\ table' = [table EXCEPT ![pres + 1] = c] /\ UNCHANGED <<map, pres, device>>
        /\ index' = index \/ index' = c
    BY <1>6 DEF BhPropReq
  <2> HIDE DEF c
  <2>3. table' \in Seq(Nat)
    <3>1. pres + 1 \in 1 .. Len(table)
      BY <1>0, <1>6 DEF BhPropReq
    <3>2. QED
      BY <1>0, <2>1, <2>2, <3>1
  <2>4. QED
    BY <1>0, <2>1, <2>2, <2>3 DEF TableTypes
<1>7. CASE BhPropsDone
  BY <1>0, <1>7 DEF BhPropsDone, TableTypes
<1>8. CASE BhAdd
  BY <1>0, <1>8 DEF BhAdd, TableTypes
<1>9. QED
  BY <1>1, <1>2, <1>3, <1>4, <1>5, <1>6, <1>7, <1>8
     DEF Next, Firmware, ResetWork, BottomHalf, Starter, TableKeepers

LEMMA FlagStep == FlagTypes /\ [Next]_vars => FlagTypes'
<1> SUFFICES ASSUME FlagTypes, [Next]_vars PROVE FlagTypes'
  OBVIOUS
<1> USE DEF FlagTypes, bhVars, rstVars, init
<1>1. CASE Firmware \/ FwRefuses \/ FwUnsolicited \/ FwResets
  BY <1>1 DEF Firmware, FwNotify, FwReads, FwAnswers, FwRefuses, FwUnsolicited, FwResets, RecvHbm
<1>2. CASE ResetWork
  BY <1>2 DEF ResetWork, RstClear, RstWalk, RstFree, RstAck, RstDead, RstReady, RstStart
<1>3. CASE BottomHalf
  BY <1>3 DEF BottomHalf, BhTake, BhStart, BhEnumReq, BhEnum, BhProps, BhPropReq, BhPropsDone, BhAdd,
              BhOops, BhStop, BhOther
<1>4. CASE Starter \/ StartTimeout \/ Resume \/ UNCHANGED vars
  BY <1>4 DEF Starter, HwStarted, HbmStarted, StartGiveUp, StartTimeout, Resume, vars
<1>5. QED
  BY <1>1, <1>2, <1>3, <1>4 DEF Next

LEMMA TypeStep == TypeInv /\ [Next]_vars => TypeInv'
BY LabelStep, FlagStep, HistoryStep, MessageStep, TableStep DEF TypeInv

(***************************************************************************)
(* Every variable keeps its type: no message of another kind gets into a   *)
(* queue, and no index leaves its range, in any run of the handshake.      *)
(***************************************************************************)
THEOREM HandshakeTypes == Spec => []TypeInv
BY TypeInit, TypeStep, PTL DEF Spec
-----------------------------------------------------------------------------
(***************************************************************************)
(* What happened is not forgotten.                                         *)
(***************************************************************************)
Faulted == faults < MaxFaults

LEMMA FaultSeen == ASSUME HistoryTypes, Fault PROVE Faulted'
BY BoundAssumption DEF HistoryTypes, Fault, Faulted

LEMMA HistoryGrows ==
    ASSUME HistoryTypes, [Next]_vars
    PROVE  seen \subseteq seen' /\ (Faulted => Faulted')
<1>0. faults \in Int /\ MaxFaults \in Int
  BY BoundAssumption DEF HistoryTypes
<1>1. faults' = faults \/ faults' = faults - 1
  BY DEF Next, Firmware, FwNotify, FwReads, FwAnswers, FwRefuses, FwUnsolicited, FwResets, ResetWork,
         RstClear, RstWalk, RstFree, RstAck, RstDead, RstReady, RstStart, BottomHalf, BhTake, BhStart,
         BhEnumReq, BhEnum, BhProps, BhPropReq, BhPropsDone, BhAdd, BhOops, BhStop, BhOther, Starter,
         HwStarted, HbmStarted, StartGiveUp, StartTimeout, Resume, HwReset, RequestFails, Fault,
         history, vars
<1>2. \/ seen' = seen
      \/ \E P, mark : SeeIf(P, mark)
      \/ \E marks : See(marks)
  <2>1. CASE Firmware \/ FwRefuses \/ FwUnsolicited \/ FwResets
    BY <2>1 DEF Firmware, FwNotify, FwReads, FwAnswers, FwRefuses, FwUnsolicited, FwResets, RecvHbm,
                history
  <2>2. CASE ResetWork
    BY <2>2 DEF ResetWork, RstClear, RstWalk, RstFree, RstAck, RstDead, RstReady, RstStart, history
  <2>3. CASE BottomHalf
    BY <2>3 DEF BottomHalf, BhTake, BhStart, BhEnumReq, BhEnum, BhProps, BhPropReq, BhPropsDone, BhAdd,
                BhOops, BhStop, BhOther, HwReset, history
  <2>4. CASE Starter \/ StartTimeout \/ Resume \/ UNCHANGED vars
    BY <2>4 DEF Starter, HwStarted, HbmStarted, StartGiveUp, StartTimeout, Resume, history, vars
  <2>5. QED
    BY <2>1, <2>2, <2>3, <2>4 DEF Next
<1>3. seen \subseteq seen'
  BY <1>2 DEF SeeIf, See
<1>4. Faulted => Faulted'
  BY <1>0, <1>1 DEF Faulted
<1>5. QED
  BY <1>3, <1>4
-----------------------------------------------------------------------------
(***************************************************************************)
(* Before any start was accepted, and while nothing failed, no message is  *)
(* there that carries the handshake further.                               *)
(***************************************************************************)
Harmless == {m \in Message : /\ m.cmd \in {"none", "START_RES", "ENUM_RES", "PROPS_RES", "STOP_RES"}
                             /\ m.cmd = "START_RES" => m.arg # -1}

NotBegun == ~Begun(hbmState) /\ bh \in Harmless /\ fifo \in Seq(Harmless)

StartInv == "served" \in seen \/ Faulted \/ NotBegun

LEMMA BegunStates ==
    /\ ~Begun("IDLE") /\ ~Begun("START")
    /\ Begun("ENUM_CLIENTS") /\ Begun("CLIENT_PROPERTIES")
<1>1. Order.IDLE = 0
  BY DEF Order
<1>2. Order.START = 1
  BY DEF Order
<1>3. Order.ENUM_CLIENTS = 3
  BY DEF Order
<1>4. Order.CLIENT_PROPERTIES = 4
  BY DEF Order
<1>5. QED
  BY <1>1, <1>2, <1>3, <1>4 DEF Begun

LEMMA HarmlessReplies ==
    ASSUME NEW q \in Numbered, NEW m \in Replies(q)
    PROVE  m \in Harmless
<1>1. m \in Message
  BY RepliesTyped DEF Answer
<1>2. m.cmd \in {"START_RES", "ENUM_RES", "PROPS_RES", "STOP_RES"}
  BY RepliesTyped
<1>3. m.cmd = "START_RES" => m.arg = 0
  BY RepliesTyped
<1>4. QED
  BY <1>1, <1>2, <1>3 DEF Harmless

LEMMA NotBegunStep ==
    ASSUME TypeInv, NotBegun, [Next]_vars, "served" \notin seen', ~Faulted'
    PROVE  NotBegun'
<1>0. /\ HistoryTypes /\ MessageTypes /\ ~Fault
      /\ ~Begun(hbmState) /\ bh \in Harmless /\ fifo \in Seq(Harmless)
      /\ Idle \in Harmless
  BY FaultSeen, Messages DEF TypeInv, NotBegun, Harmless, Idle, Msg
<1>1. /\ bh.cmd \in {"none", "START_RES", "ENUM_RES", "PROPS_RES", "STOP_RES"}
      /\ bh.cmd = "START_RES" => bh.arg # -1
  BY <1>0 DEF Harmless
<1>2. CASE FwAnswers
  <2>1. toFw # <<>> /\ toFw \in Seq(Numbered)
    BY <1>0, <1>2 DEF FwAnswers, MessageTypes
  <2>2. Head(toFw) \in Numbered
    BY <2>1, Queues
  <2>3. fifo' \in Seq(Harmless) /\ bh' = bh
    BY <1>0, <1>2, <2>2, HarmlessReplies, Received DEF FwAnswers
  <2>4. QED
    BY <1>0, <1>2, <2>3 DEF FwAnswers, states, NotBegun
<1>3. CASE RstClear
  BY <1>0, <1>3, Queues DEF RstClear, NotBegun
<1>4. CASE RstReady \/ RstStart
  BY <1>0, <1>4, BegunStates DEF RstReady, RstStart, RequestFails, bhVars, NotBegun
<1>5. CASE BhTake
  BY <1>0, <1>5, Queues DEF BhTake, states, NotBegun
<1>6. CASE BhStart
  BY <1>0, <1>1, <1>6 DEF BhStart, HwReset, See, Done, At, NotBegun
<1>7. CASE BhEnum
  BY <1>0, <1>7, BegunStates DEF BhEnum, InTurn, Done, NotBegun
<1>8. CASE BhProps
  BY <1>0, <1>8, BegunStates DEF BhProps, Expected, InTurn, Done, NotBegun
<1>9. CASE BhStop
  BY <1>0, <1>9 DEF BhStop, Done, NotBegun
<1>10. CASE BhEnumReq \/ BhPropReq \/ BhPropsDone \/ BhAdd \/ BhOops \/ BhOther
  BY <1>1, <1>10 DEF BhEnumReq, BhPropReq, BhPropsDone, BhAdd, BhOops, BhOther, At
<1>11. CASE StartGiveUp
  BY <1>0, <1>11, BegunStates DEF StartGiveUp, bhVars, NotBegun
<1>12. CASE FwRefuses \/ FwUnsolicited
  BY <1>0, <1>12 DEF FwRefuses, FwUnsolicited
<1>13. CASE UNCHANGED <<hbmState, bh, fifo>>
  BY <1>0, <1>13 DEF NotBegun
<1>14. QED
  <2>1. CASE FwNotify \/ FwReads \/ FwResets \/ RstWalk \/ RstFree \/ RstAck \/ RstDead
    BY <1>13, <2>1 DEF FwNotify, FwReads, FwResets, RstWalk, RstFree, RstAck, RstDead, states, bhVars
  <2>2. CASE HwStarted \/ HbmStarted \/ StartTimeout \/ Resume \/ UNCHANGED vars
    BY <1>13, <2>2 DEF HwStarted, HbmStarted, StartTimeout, Resume, states, bhVars, vars
  <2>3. QED
    BY <1>2, <1>3, <1>4, <1>5, <1>6, <1>7, <1>8, <1>9, <1>10, <1>11, <1>12, <2>1, <2>2
       DEF Next, Firmware, ResetWork, BottomHalf, Starter

LEMMA StartStep == TypeInv /\ StartInv /\ [Next]_vars => StartInv'
<1> SUFFICES ASSUME TypeInv, StartInv, [Next]_vars PROVE StartInv'
  OBVIOUS
<1>1. seen \subseteq seen' /\ (Faulted => Faulted')
  BY HistoryGrows DEF TypeInv
<1>2. QED
  BY <1>1, NotBegunStep DEF StartInv

LEMMA StartInit == Init => StartInv
<1> SUFFICES ASSUME Init PROVE NotBegun
  BY DEF StartInv
<1>1. hbmState = "IDLE" /\ fifo = <<>> /\ bh = Idle
  BY DEF Init
<1>2. Idle \in Harmless /\ <<>> \in Seq(Harmless)
  BY Messages, EmptySeq DEF Harmless, Idle, Msg
<1>3. QED
  BY <1>1, <1>2, BegunStates DEF NotBegun

(***************************************************************************)
(* The driver goes on only after the firmware accepted a start, whatever   *)
(* resets come between, unless the system resumed or something failed.     *)
(***************************************************************************)
THEOREM StartedByFirmware == Spec => StartMeansStarted
<1> DEFINE Step == starter = "hbm" /\ starter' = "done"
                       => "served" \in seen \/ "resumed" \in seen \/ Faulted
<1>1. TypeInv /\ StartInv /\ [Next]_vars => [Step]_vars
  <2> SUFFICES ASSUME TypeInv, StartInv, Next, starter = "hbm", starter' = "done"
               PROVE  "served" \in seen \/ Faulted
    OBVIOUS
  <2>1. HbmStarted
    BY DEF Next, Firmware, FwNotify, FwReads, FwAnswers, FwRefuses, FwUnsolicited, FwResets, ResetWork,
           RstClear, RstWalk, RstFree, RstAck, RstDead, RstReady, RstStart, BottomHalf, BhTake, BhStart,
           BhEnumReq, BhEnum, BhProps, BhPropReq, BhPropsDone, BhAdd, BhOops, BhStop, BhOther, Starter,
           HwStarted, StartGiveUp, StartTimeout, Resume, init
  <2>2. QED
    BY <2>1 DEF HbmStarted, StartInv, NotBegun
<1>2. Spec => [][Step]_vars
  BY <1>1, TypeInit, TypeStep, StartInit, StartStep, PTL DEF Spec
<1>3. QED
  BY <1>2 DEF StartMeansStarted, Faulted
-----------------------------------------------------------------------------
(***************************************************************************)
(* While nothing failed and no reset work began in the middle of a         *)
(* dispatch: a dispatch that will use the table finds entries in it, and   *)
(* the reset work frees it only while nothing is there to be dispatched.   *)
(***************************************************************************)
Mute == {m \in Numbered : m.cmd \in {"RESET_ACK", "QUERY"}}

TableHeld ==
    /\ At("PROP_REQ") => Len(table) > 0 \/ (Following(index) = {} /\ pres = 0)
    /\ At("ADD") => Len(table) > 0 \/ (bh.arg = 0 /\ pres > 0)

SilentReset == rst \in {"walk", "free"} => fifo = <<>> /\ bh = Idle /\ toFw \in Seq(Mute)

OopsInv == "overtaken" \in seen \/ Faulted \/
               ("oops" \notin seen /\ TableHeld /\ SilentReset)

LEMMA MuteReplies == \A m \in Mute : Replies(m) = {}
BY DEF Mute, Replies

LEMMA SilentStep ==
    ASSUME TypeInv, SilentReset, [Next]_vars, "overtaken" \notin seen', ~Faulted'
    PROVE  SilentReset'
<1> SUFFICES ASSUME rst' \in {"walk", "free"}
             PROVE  fifo' = <<>> /\ bh' = Idle /\ toFw' \in Seq(Mute)
  BY DEF SilentReset
<1>0. HistoryTypes /\ ~Fault
  BY FaultSeen DEF TypeInv
<1>1. CASE RstClear
  BY <1>1, EmptySeq DEF RstClear, SeeIf, See
<1>2. CASE ~RstClear
  <2>1. rst \in {"walk", "free"}
    BY <1>2 DEF Next, Firmware, FwNotify, FwReads, FwAnswers, FwRefuses, FwUnsolicited, FwResets, ResetWork,
         RstWalk, RstFree, RstAck, RstDead, RstReady, RstStart, BottomHalf, BhTake, BhStart,
         BhEnumReq, BhEnum, BhProps, BhPropReq, BhPropsDone, BhAdd, BhOops, BhStop, BhOther, Starter,
         HwStarted, HbmStarted, StartGiveUp, StartTimeout, Resume, rstVars, vars
  <2>2. fifo = <<>> /\ bh = Idle /\ toFw \in Seq(Mute)
    BY <2>1 DEF SilentReset
  <2>3. CASE FwReads
    BY <2>2, <2>3, Queues DEF FwReads, bhVars
  <2>4. CASE FwAnswers
    <3>1. Head(toFw) \in Mute
      BY <2>2, <2>4, Queues DEF FwAnswers
    <3>2. QED
      BY <3>1, <2>4, MuteReplies DEF FwAnswers
  <2>5. CASE FwRefuses \/ FwUnsolicited
    BY <1>0, <2>5 DEF FwRefuses, FwUnsolicited
  <2>6. CASE BottomHalf
    <3>1. BhTake
      BY <2>2, <2>6 DEF BottomHalf, BhStart, BhEnumReq, BhEnum, BhProps, BhPropReq, BhPropsDone, BhAdd,
                        BhOops, BhStop, BhOther, At, Idle, Msg
    <3>2. QED
      BY <2>2, <3>1 DEF BhTake, fwVars
  <2>7. CASE HbmStarted
    <3>1. Msg("QUERY", 0) \in Mute
      BY Messages DEF Mute, Msg, Numbered, Commands
    <3>2. QED
      BY <2>2, <2>7, <3>1, Queues DEF HbmStarted, Write, bhVars
  <2>8. CASE FwNotify \/ FwResets \/ RstWalk \/ HwStarted \/ StartTimeout \/ StartGiveUp \/ Resume \/ UNCHANGED vars
    BY <2>2, <2>8 DEF FwNotify, FwResets, RstWalk, HwStarted, StartTimeout, StartGiveUp, Resume, bhVars,
                      fwVars, vars
  <2>9. CASE RstFree \/ RstAck \/ RstDead \/ RstReady \/ RstStart
    BY <2>1, <2>9 DEF RstFree, RstAck, RstDead, RstReady, RstStart
  <2>10. QED
    BY <1>2, <2>3, <2>4, <2>5, <2>6, <2>7, <2>8, <2>9 DEF Next, Firmware, ResetWork, Starter
<1>3. QED
  BY <1>1, <1>2

LEMMA HeldStep ==
    ASSUME TypeInv, TableHeld, SilentReset, [Next]_vars, "overtaken" \notin seen', ~Faulted'
    PROVE  TableHeld'
<1>0. /\ HistoryTypes /\ ~Fault /\ bh \in Message /\ fifo \in Seq(Answer)
      /\ table \in Seq(Nat) /\ index \in Nat /\ pres \in Nat
  BY FaultSeen DEF TypeInv, MessageTypes, TableTypes
<1>1. CASE UNCHANGED <<bh, table, map, index, pres>>
  BY <1>1 DEF TableHeld, At, Following
<1>2. CASE bh'.cmd \notin {"PROP_REQ", "ADD"}
  BY <1>2 DEF TableHeld, At
<1>3. CASE RstFree
  BY <1>2, <1>3 DEF RstFree, SilentReset, bhVars, Idle, Msg
<1>4. CASE BhTake
  <2>1. fifo # <<>> => Head(fifo) \in Answer
    BY <1>0, Queues
  <2>2. bh' = Idle \/ bh' \in Answer
    BY <1>4, <2>1 DEF BhTake
  <2>3. QED
    BY <1>2, <2>2 DEF Answer, Answers, Idle, Msg
<1>5. CASE BhEnum
  <2>1. CASE ~Done
    <3>1. /\ map' = bh.arg /\ index' = 0 /\ pres' = 0 /\ bh' = Msg("PROP_REQ", 0)
          /\ table' = [i \in 1 .. Cardinality(bh.arg) |-> 0]
      BY <1>0, <1>5, <2>1 DEF BhEnum, RequestFails
    <3>2. bh.arg \in SUBSET Clients
      BY <1>0, <1>5, Messages DEF BhEnum, At
    <3>3. CASE bh.arg = {}
      BY <3>1, <3>3 DEF TableHeld, At, Following, Msg
    <3>4. CASE bh.arg # {}
      <4>1. Len(table') > 0
        BY <3>1, <3>2, <3>4, NewTable, Zenon
      <4>2. QED
        BY <3>1, <4>1 DEF TableHeld, At, Msg
    <3>5. QED
      BY <3>3, <3>4
  <2>2. CASE Done
    BY <1>2, <2>2 DEF Done, Idle, Msg
  <2>3. QED
    BY <2>1, <2>2
<1>6. CASE BhProps
  <2>1. CASE Expected(bh.arg)
    <3>1. Len(table) > 0 /\ table' = table /\ bh' = Msg("PROP_REQ", 0)
      BY <1>0, <1>6, <2>1, LenProperties DEF BhProps, Expected
    <3>2. QED
      BY <3>1 DEF TableHeld, At, Msg
  <2>2. CASE Done
    BY <1>2, <2>2 DEF Done, Idle, Msg
  <2>3. QED
    BY <1>6, <2>1, <2>2 DEF BhProps
<1>7. CASE BhPropsDone
  <2>1. /\ At("PROP_REQ") /\ Following(index) = {} /\ table' = table /\ pres' = 1
        /\ bh' = Msg("ADD", pres)
    BY <1>7 DEF BhPropsDone
  <2>2. Len(table) > 0 \/ pres = 0
    BY <2>1 DEF TableHeld
  <2>3. QED
    BY <2>1, <2>2 DEF TableHeld, At, Msg
<1>8. CASE BhAdd
  <2>1. CASE Done
    BY <1>2, <2>1 DEF Done, Idle, Msg
  <2>2. CASE pres' = pres + 1 /\ UNCHANGED bh
    BY <1>0, <1>8, <2>2 DEF BhAdd, TableHeld, At
  <2>3. QED
    BY <1>8, <2>1, <2>2 DEF BhAdd
<1>9. CASE BhStart \/ BhEnumReq \/ BhPropReq \/ BhStop \/ BhOther \/ BhOops
  BY <1>2, <1>9 DEF BhStart, BhEnumReq, BhPropReq, BhStop, BhOther, BhOops, Done, Idle, Msg
<1>10. CASE FwNotify \/ FwReads \/ FwAnswers \/ FwRefuses \/ FwUnsolicited \/ FwResets
  BY <1>1, <1>10 DEF FwNotify, FwReads, FwAnswers, FwRefuses, FwUnsolicited, FwResets, RecvHbm, bhVars,
                     tabVars
<1>11. CASE RstClear \/ RstWalk \/ RstAck \/ RstDead \/ RstReady \/ RstStart
  BY <1>1, <1>11 DEF RstClear, RstWalk, RstAck, RstDead, RstReady, RstStart, bhVars, tabVars
<1>12. CASE HwStarted \/ HbmStarted \/ StartTimeout \/ StartGiveUp \/ Resume \/ UNCHANGED vars
  BY <1>1, <1>12 DEF HwStarted, HbmStarted, StartTimeout, StartGiveUp, Resume, bhVars, tabVars, vars
<1>13. QED
  BY <1>3, <1>4, <1>5, <1>6, <1>7, <1>8, <1>9, <1>10, <1>11, <1>12
     DEF Next, Firmware, ResetWork, BottomHalf, Starter

LEMMA NoOopsStep ==
    ASSUME TypeInv, "oops" \notin seen, TableHeld, [Next]_vars
    PROVE  "oops" \notin seen'
<1>0. table \in Seq(Nat) /\ pres \in Nat
  BY DEF TypeInv, TableTypes
<1>1. ~BhOops
  <2> SUFFICES ASSUME BhOops PROVE FALSE
    OBVIOUS
  <2>1. Len(table) = 0
    BY EmptySeq DEF BhOops
  <2>2. CASE At("PROP_REQ")
    BY <2>1, <2>2 DEF BhOops, TableHeld, At
  <2>3. CASE At("ADD")
    BY <1>0, <2>1, <2>3 DEF BhOops, TableHeld, At
  <2>4. QED
    BY <2>2, <2>3 DEF BhOops
<1>2. seen' \subseteq seen \cup {"served", "resumed", "hindered", "overtaken"}
  <2> USE DEF SeeIf, See, history
  <2>1. CASE Firmware \/ FwRefuses \/ FwUnsolicited \/ FwResets
    BY <2>1 DEF Firmware, FwNotify, FwReads, FwAnswers, FwRefuses, FwUnsolicited, FwResets, RecvHbm
  <2>2. CASE ResetWork
    BY <2>2 DEF ResetWork, RstClear, RstWalk, RstFree, RstAck, RstDead, RstReady, RstStart
  <2>3. CASE BottomHalf
    BY <1>1, <2>3 DEF BottomHalf, BhTake, BhStart, BhEnumReq, BhEnum, BhProps, BhPropReq, BhPropsDone, BhAdd,
                BhStop, BhOther, HwReset
  <2>4. CASE Starter \/ StartTimeout \/ Resume \/ UNCHANGED vars
    BY <2>4 DEF Starter, HwStarted, HbmStarted, StartGiveUp, StartTimeout, Resume, vars
  <2>5. QED
    BY <2>1, <2>2, <2>3, <2>4 DEF Next
<1>3. QED
  BY <1>2

LEMMA OopsStep == TypeInv /\ OopsInv /\ [Next]_vars => OopsInv'
<1> SUFFICES ASSUME TypeInv, OopsInv, [Next]_vars PROVE OopsInv'
  OBVIOUS
<1>1. seen \subseteq seen' /\ (Faulted => Faulted')
  BY HistoryGrows DEF TypeInv
<1>2. QED
  BY <1>1, NoOopsStep, HeldStep, SilentStep DEF OopsInv

LEMMA OopsInit == Init => OopsInv
BY DEF Init, OopsInv, TableHeld, SilentReset, At, Idle, Msg

(***************************************************************************)
(* dev->fw_clients is never used while it is NULL, unless a reset work     *)
(* freed it in the middle of a dispatch or something failed before.        *)
(***************************************************************************)
THEOREM TableNeverNull == Spec => []NoUseAfterFree
<1>1. OopsInv => NoUseAfterFree
  BY DEF OopsInv, NoUseAfterFree, Faulted
<1>2. QED
  BY <1>1, TypeInit, TypeStep, OopsInit, OopsStep, PTL DEF Spec
-----------------------------------------------------------------------------
(***************************************************************************)
(* While nothing was lost, delayed or overtaken: the tables and the        *)
(* devices agree with the point the handshake has reached, unless a reset  *)
(* is on its way that will clear them.                                     *)
(***************************************************************************)
Clean == seen \cap {"overtaken", "hindered"} = {}

Live == {c \in Clients : device[c] = "live"}
Entries(n) == {table[i] : i \in 1 .. n}
Distinct(n) == \A i, j \in 1 .. n : table[i] = table[j] => i = j

ResetAhead == fw = "down" \/ rstQueued \/ rst \in {"walk", "free"}

\* Nothing is dispatched that would carry on a handshake of before the reset.
Resetting == rst \in {"walk", "free", "ack", "ready"} =>
                 devState = "RESETTING" /\ bh.cmd \notin {"ENUM_REQ", "PROP_REQ", "ADD"}

\* The table holds the clients below index, to be asked for the next one.
Enumerated == pres <= Len(table) /\ Entries(pres) = {c \in map : c < index} /\ Distinct(pres)

\* The client at index was asked for its properties.
Asked == /\ pres < Len(table) /\ table[pres + 1] = index /\ index \in map
         /\ Entries(pres) = {c \in map : c < index} /\ Distinct(pres)

\* Devices were added for the entries before pres, or could not be.
Adding == /\ pres > 0 /\ bh.arg \in Nat /\ pres <= bh.arg + 1 /\ bh.arg <= Len(table)
          /\ Entries(bh.arg) = map /\ Distinct(bh.arg)
          /\ Live = Entries(pres - 1) \ unadded
          /\ unadded \subseteq Entries(pres - 1)

TablesRight ==
    /\ devState \in {"RESETTING", "INIT_CLIENTS"} => Live = {}
    /\ bh.cmd \in {"ENUM_REQ", "PROP_REQ"} => devState = "INIT_CLIENTS"
    /\ At("PROP_REQ") => Enumerated
    /\ devState = "INIT_CLIENTS" /\ hbmState = "CLIENT_PROPERTIES" /\ ~At("PROP_REQ") => Asked
    /\ At("ADD") => devState = "ENABLED" /\ Adding
    /\ devState = "ENABLED" /\ ~At("ADD") => Live = map \ unadded

DevInv == Clean => /\ starter # "giveup"
                   /\ Resetting
                   /\ ResetAhead \/ TablesRight

\* A reset that fails hinders.
LEMMA ResetComes == Clean' /\ (HwReset \/ RequestFails) => fw' = "down"
BY DEF Clean, HwReset, RequestFails, See

LEMMA CleanStep ==
    ASSUME TypeInv, [Next]_vars, Clean'
    PROVE  Clean /\ ~BhOops /\ ~StartTimeout
<1>1. seen \subseteq seen'
  BY HistoryGrows DEF TypeInv
<1>2. ~BhOops /\ ~StartTimeout
  BY DEF Clean, BhOops, StartTimeout, See
<1>3. QED
  BY <1>1, <1>2 DEF Clean

\* A bottom half takes a message of the firmware, never the rest of a dispatch.
LEMMA Taken ==
    ASSUME TypeInv, BhTake
    PROVE  bh.cmd = "none" /\ bh'.cmd \in Answers \cup {"none"}
<1>1. fifo # <<>> => Head(fifo) \in Answer
  BY Queues DEF TypeInv, MessageTypes
<1>2. bh' = Idle \/ bh' \in Answer
  BY <1>1 DEF BhTake
<1>3. QED
  BY <1>2 DEF BhTake, Answer, Idle, Msg

LEMMA ResettingStep ==
    ASSUME TypeInv, starter # "giveup", Resetting, [Next]_vars, Clean'
    PROVE  Resetting'
<1> SUFFICES ASSUME rst' \in {"walk", "free", "ack", "ready"}
             PROVE  devState' = "RESETTING" /\ bh'.cmd \notin {"ENUM_REQ", "PROP_REQ", "ADD"}
  BY DEF Resetting
<1>1. CASE RstClear
  <2>1. bh = Idle
    BY <1>1 DEF RstClear, Clean, SeeIf, See
  <2>2. QED
    BY <1>1, <2>1 DEF RstClear, Idle, Msg
<1>2. CASE ~RstClear
  <2>1. rst \in {"walk", "free", "ack", "ready"}
    BY <1>2 DEF Next, Firmware, FwNotify, FwReads, FwAnswers, FwRefuses, FwUnsolicited, FwResets, ResetWork,
         RstWalk, RstFree, RstAck, RstDead, RstReady, RstStart, BottomHalf, BhTake, BhStart,
         BhEnumReq, BhEnum, BhProps, BhPropReq, BhPropsDone, BhAdd, BhOops, BhStop, BhOther, Starter,
         HwStarted, HbmStarted, StartGiveUp, StartTimeout, Resume, rstVars, vars
  <2>2. devState = "RESETTING" /\ bh.cmd \notin {"ENUM_REQ", "PROP_REQ", "ADD"}
    BY <2>1 DEF Resetting
  <2>3. CASE Firmware \/ FwRefuses \/ FwUnsolicited \/ FwResets
    BY <2>2, <2>3 DEF Firmware, FwNotify, FwReads, FwAnswers, FwRefuses, FwUnsolicited, FwResets, RecvHbm,
                      states, bhVars
  <2>4. CASE ResetWork
    BY <1>2, <2>2, <2>4 DEF ResetWork, RstWalk, RstFree, RstAck, RstDead, RstReady, RstStart, states, bhVars
  <2>5. CASE BhTake
    BY <2>2, <2>5, Taken DEF BhTake, states, Answers
  <2>6. CASE BhStart
    BY <2>2, <2>6 DEF BhStart, InTurn, HwReset, Done, Idle, Msg
  <2>7. CASE BhEnum
    BY <2>2, <2>7 DEF BhEnum, InTurn, HwReset, Done, Idle, Msg
  <2>8. CASE BhProps
    BY <2>2, <2>8 DEF BhProps, Expected, InTurn, HwReset, Done, Idle, Msg
  <2>9. CASE BhStop \/ BhOther
    BY <2>2, <2>9 DEF BhStop, BhOther, HwReset, Done, Idle, Msg, See, Clean
  <2>10. CASE BhEnumReq \/ BhPropReq \/ BhPropsDone \/ BhAdd \/ BhOops
    BY <2>2, <2>10, CleanStep DEF BhEnumReq, BhPropReq, BhPropsDone, BhAdd, At
  <2>11. CASE HwStarted \/ HbmStarted \/ StartTimeout \/ StartGiveUp \/ Resume \/ UNCHANGED vars
    BY <2>2, <2>11 DEF HwStarted, HbmStarted, StartTimeout, StartGiveUp, Resume, states, bhVars, vars
  <2>12. QED
    BY <2>3, <2>4, <2>5, <2>6, <2>7, <2>8, <2>9, <2>10, <2>11 DEF Next, BottomHalf, Starter
<1>3. QED
  BY <1>1, <1>2

\* A reset that is on its way gets to freeing the tables.
LEMMA AheadStep == ResetAhead /\ [Next]_vars => ResetAhead' \/ RstFree
<1> SUFFICES ASSUME ResetAhead, [Next]_vars, ~RstFree PROVE ResetAhead'
  OBVIOUS
<1> USE DEF ResetAhead, fwVars, rstVars
<1>1. CASE Firmware \/ FwRefuses \/ FwUnsolicited \/ FwResets
  BY <1>1 DEF Firmware, FwNotify, FwReads, FwAnswers, FwRefuses, FwUnsolicited, FwResets
<1>2. CASE ResetWork
  BY <1>2 DEF ResetWork, RstClear, RstWalk, RstAck, RstDead, RstReady, RstStart, RequestFails
<1>3. CASE BottomHalf
  BY <1>3 DEF BottomHalf, BhTake, BhStart, BhEnumReq, BhEnum, BhProps, BhPropReq, BhPropsDone, BhAdd,
              BhOops, BhStop, BhOther, HwReset, RequestFails
<1>4. CASE Starter \/ StartTimeout \/ Resume \/ UNCHANGED vars
  BY <1>4 DEF Starter, HwStarted, HbmStarted, StartGiveUp, StartTimeout, Resume, vars
<1>5. QED
  BY <1>1, <1>2, <1>3, <1>4 DEF Next

LEMMA Freed ==
    ASSUME Resetting, RstFree
    PROVE  TablesRight'
<1>1. devState' = "RESETTING" /\ bh'.cmd \notin {"ENUM_REQ", "PROP_REQ", "ADD"}
  BY DEF Resetting, RstFree, states, bhVars
<1>2. Live' = {}
  BY DEF RstFree, Live
<1>3. QED
  BY <1>1, <1>2 DEF TablesRight, At
-----------------------------------------------------------------------------
(***************************************************************************)
(* The steps of the handshake keep the tables right.                       *)
(***************************************************************************)
LEMMA RightKept ==
    ASSUME TablesRight, UNCHANGED <<tabVars, device, unadded>>,
           UNCHANGED <<devState, bh>> \/
               (devState' = devState /\ bh.cmd \notin {"ENUM_REQ", "PROP_REQ", "ADD"}
                    /\ bh'.cmd \notin {"ENUM_REQ", "PROP_REQ", "ADD"}),
           hbmState' = hbmState \/ hbmState' # "CLIENT_PROPERTIES"
    PROVE  TablesRight'
<1>1. /\ Live' = Live /\ map' = map
      /\ Enumerated' <=> Enumerated
      /\ Asked' <=> Asked
      /\ unadded' = unadded
  BY DEF Live, Enumerated, Asked, Entries, Distinct, tabVars
<1>2. bh' = bh => (Adding' <=> Adding)
  BY DEF Live, Adding, Entries, Distinct, tabVars
<1>3. QED
  BY <1>1, <1>2 DEF TablesRight, At

LEMMA RightEnum ==
    ASSUME TypeInv, TablesRight, BhEnum, InTurn("ENUM_CLIENTS"), bh' = Msg("PROP_REQ", 0),
           UNCHANGED devState, index' = 0, pres' = 0
    PROVE  TablesRight'
<1>1. /\ devState' = "INIT_CLIENTS" /\ Live = {} /\ Live' = Live
      /\ map' \subseteq Nat /\ table' \in Seq(Nat)
      /\ bh'.cmd = "PROP_REQ"
  <2>1. bh.arg \in SUBSET Clients
    BY Messages DEF TypeInv, MessageTypes, BhEnum, At
  <2>2. table' \in Seq(Nat)
    <3>1. CASE table' = [i \in 1 .. Cardinality(bh.arg) |-> 0]
      BY <2>1, <3>1, NewTable, Zenon
    <3>2. CASE table' = <<>>
      BY <3>2, EmptySeq
    <3>3. QED
      BY <3>1, <3>2 DEF BhEnum, Done, Idle, Msg
  <2>3. device' = device /\ map' = bh.arg
    BY DEF BhEnum
  <2>4. QED
    BY <2>1, <2>2, <2>3, ClientsAssumption DEF TablesRight, InTurn, Live, Msg
<1>2. Enumerated'
  <2>1. pres' = 0 /\ 0 <= Len(table')
    BY <1>1, LenProperties
  <2>2. Entries(pres)' = {} /\ Distinct(pres)'
    BY <2>1 DEF Entries, Distinct
  <2>3. {c \in map' : c < index'} = {}
    <3>1. \A c \in map' : ~ (c < 0)
      BY <1>1
    <3>2. index' = 0
      OBVIOUS
    <3>3. QED
      BY <3>1, <3>2
  <2>4. QED
    BY <2>1, <2>2, <2>3 DEF Enumerated
<1>3. QED
  BY <1>1, <1>2 DEF TablesRight, At

LEMMA RightProps ==
    ASSUME TypeInv, TablesRight, BhProps, Expected(bh.arg)
    PROVE  TablesRight'
<1>0. table \in Seq(Nat) /\ index \in Nat /\ pres \in Nat /\ map \subseteq Nat
  BY ClientsAssumption DEF TypeInv, TableTypes
<1>1. /\ index' = index + 1 /\ pres' = pres + 1 /\ bh'.cmd = "PROP_REQ"
      /\ UNCHANGED <<devState, map, table, device>>
      /\ devState = "INIT_CLIENTS" /\ hbmState = "CLIENT_PROPERTIES" /\ ~At("PROP_REQ")
  BY DEF BhProps, Expected, InTurn, Msg, At
<1>2. Asked /\ Live = {} /\ Live' = Live
  BY <1>1 DEF TablesRight, Live
<1>3. pres' <= Len(table')
  BY <1>0, <1>1, <1>2, LenProperties DEF Asked
<1>4. Entries(pres)' = Entries(pres) \cup {table[pres + 1]}
  BY <1>0, <1>1 DEF Entries
<1>5. {c \in map : c < index + 1} = {c \in map : c < index} \cup {index}
  <2>1. \A c \in map : c < index + 1 <=> (c < index \/ c = index)
    BY <1>0
  <2>2. index \in map
    BY <1>2 DEF Asked
  <2>3. QED
    BY <2>1, <2>2
<1>6. Enumerated'
  <2>1. Distinct(pres) /\ index \notin Entries(pres) /\ table[pres + 1] = index
    BY <1>0, <1>2 DEF Asked
  <2>2. Distinct(pres)'
    BY <1>0, <1>1, <2>1 DEF Distinct, Entries
  <2>3. QED
    BY <1>1, <1>2, <1>3, <1>4, <1>5, <2>2 DEF Enumerated, Asked
<1>7. QED
  BY <1>1, <1>2, <1>6 DEF TablesRight, At

LEMMA RightPropReq ==
    ASSUME TypeInv, TablesRight, BhPropReq, UNCHANGED devState, index' = First(Following(index))
    PROVE  TablesRight'
<1> DEFINE c == First(Following(index))
<1>0. table \in Seq(Nat) /\ index \in Nat /\ pres \in Nat /\ map \subseteq Nat /\ map \subseteq Clients
  BY ClientsAssumption DEF TypeInv, TableTypes
<1>1. /\ index' = c /\ table' = [table EXCEPT ![pres + 1] = c] /\ bh'.cmd = "none"
      /\ pres < Len(table) /\ UNCHANGED <<devState, map, pres, device>> /\ At("PROP_REQ")
  BY DEF BhPropReq, Done, Idle, Msg
<1>2. /\ c \in map /\ c \in Nat /\ c >= index
      /\ \A d \in map : d >= index => c <= d
  BY <1>0, FirstLeast DEF BhPropReq
<1>3. devState = "INIT_CLIENTS" /\ Enumerated /\ Live = {} /\ Live' = Live
  BY <1>1 DEF TablesRight, Live, At
<1> HIDE DEF c
<1>4. /\ Len(table') = Len(table) /\ table'[pres + 1] = c
      /\ \A i \in 1 .. pres : table'[i] = table[i]
  BY <1>0, <1>1, <1>2
<1>5. Entries(pres)' = Entries(pres) /\ (Distinct(pres)' <=> Distinct(pres))
  BY <1>1, <1>4 DEF Entries, Distinct
<1>6. {d \in map : d < c} = {d \in map : d < index}
  <2>1. \A d \in map : d < c <=> d < index
    BY <1>0, <1>2
  <2>2. QED
    BY <2>1
<1>7. Asked'
  BY <1>1, <1>2, <1>3, <1>4, <1>5, <1>6 DEF Asked, Enumerated
<1>8. QED
  BY <1>1, <1>3, <1>7 DEF TablesRight, At

LEMMA RightPropsDone ==
    ASSUME TypeInv, TablesRight, BhPropsDone
    PROVE  TablesRight'
<1>0. table \in Seq(Nat) /\ index \in Nat /\ pres \in Nat /\ map \subseteq Nat
  BY ClientsAssumption DEF TypeInv, TableTypes
<1>1. /\ devState' = "ENABLED" /\ pres' = 1 /\ bh'.cmd = "ADD" /\ bh'.arg = pres
      /\ UNCHANGED <<map, table, device>> /\ At("PROP_REQ") /\ Following(index) = {}
  BY DEF BhPropsDone, Msg
<1>2. Enumerated /\ Live = {} /\ Live' = Live
  BY <1>1 DEF TablesRight, Live, At
<1>3. Entries(pres) = map
  <2>1. \A c \in map : c < index
    BY <1>0, <1>1 DEF Following
  <2>2. QED
    BY <1>2, <2>1 DEF Enumerated
<1>4. /\ Entries(bh.arg)' = Entries(pres) /\ Entries(pres - 1)' = {} /\ unadded' = {}
      /\ Distinct(bh.arg)' <=> Distinct(pres)
  BY <1>0, <1>1 DEF Entries, Distinct, BhPropsDone
<1>5. Adding'
  BY <1>0, <1>1, <1>2, <1>3, <1>4 DEF Adding, Enumerated
<1>6. QED
  BY <1>1, <1>5 DEF TablesRight, At

LEMMA RightAdd ==
    ASSUME TypeInv, TablesRight, BhAdd
    PROVE  TablesRight'
<1>0. /\ table \in Seq(Nat) /\ pres \in Nat /\ map \subseteq Clients
      /\ device \in [Clients -> {"none", "null", "live", "freed"}]
  BY DEF TypeInv, TableTypes
<1>1. /\ devState = "ENABLED" /\ Adding /\ At("ADD")
      /\ UNCHANGED <<devState, map, table>>
  BY DEF BhAdd, TablesRight, states
<1>2. CASE pres <= bh.arg
  <2> DEFINE t == table[pres]
  <2>1. /\ pres' = pres + 1 /\ bh' = bh /\ pres \in 1 .. bh.arg
        /\ \/ device' = [device EXCEPT ![t] = "live"] /\ unadded' = unadded
           \/ device' = device /\ unadded' = unadded \cup {t}
    BY <1>0, <1>1, <1>2 DEF BhAdd, Adding
  <2>2. t \in Clients
    BY <1>0, <1>1, <2>1 DEF Adding, Entries
  <2>3. t \notin Entries(pres - 1)
    BY <1>0, <1>1, <2>1 DEF Adding, Entries, Distinct
  <2>4. Entries(pres - 1)' = Entries(pres - 1) \cup {t}
    BY <1>0, <1>1, <2>1 DEF Entries
  <2>5. Entries(bh.arg)' = Entries(bh.arg) /\ (Distinct(bh.arg)' <=> Distinct(bh.arg))
    BY <1>1, <2>1 DEF Entries, Distinct
  <2> HIDE DEF t
  <2>6. /\ Live' = Entries(pres - 1)' \ unadded'
        /\ unadded' \subseteq Entries(pres - 1)'
    <3>1. Live = Entries(pres - 1) \ unadded /\ unadded \subseteq Entries(pres - 1)
      BY <1>1 DEF Adding
    <3>2. CASE device' = [device EXCEPT ![t] = "live"] /\ unadded' = unadded
      <4>1. Live' = Live \cup {t}
        BY <1>0, <2>2, <3>2 DEF Live
      <4>2. QED
        BY <2>3, <2>4, <3>1, <3>2, <4>1
    <3>3. CASE device' = device /\ unadded' = unadded \cup {t}
      <4>1. Live' = Live
        BY <3>3 DEF Live
      <4>2. QED
        BY <2>3, <2>4, <3>1, <3>3, <4>1
    <3>4. QED
      BY <2>1, <3>2, <3>3
  <2>7. Adding'
    BY <1>0, <1>1, <2>1, <2>5, <2>6 DEF Adding
  <2>8. QED
    BY <1>1, <2>1, <2>7 DEF TablesRight, At
<1>3. CASE pres > bh.arg
  <2>1. bh'.cmd = "none" /\ UNCHANGED <<device, unadded>>
    BY <1>0, <1>1, <1>3 DEF BhAdd, Adding, Done, Idle, Msg
  <2>2. pres - 1 = bh.arg
    BY <1>0, <1>1, <1>3 DEF Adding
  <2>3. Live = map \ unadded
    BY <1>1, <2>2 DEF Adding
  <2>4. QED
    BY <1>1, <2>1, <2>3 DEF TablesRight, At, Live
<1>4. QED
  BY <1>0, <1>1, <1>2, <1>3 DEF Adding

LEMMA RightStep ==
    ASSUME TypeInv, starter # "giveup", Resetting, TablesRight, ~ResetAhead, [Next]_vars, Clean'
    PROVE  ResetAhead' \/ TablesRight'
<1> SUFFICES ASSUME ~ResetAhead' PROVE TablesRight'
  OBVIOUS
<1>0. /\ fw # "down" /\ rstQueued = FALSE /\ rst \notin {"walk", "free"} /\ fw' # "down"
      /\ ~HwReset /\ ~RequestFails /\ ~BhOops /\ ~StartTimeout
  BY ResetComes, CleanStep DEF ResetAhead, TypeInv, FlagTypes
<1>1. CASE FwReads \/ FwAnswers \/ FwRefuses \/ FwUnsolicited
  BY <1>1, RightKept DEF FwReads, FwAnswers, FwRefuses, FwUnsolicited, RecvHbm, states, bhVars
<1>2. CASE FwNotify \/ FwResets \/ RstClear \/ RstWalk \/ RstFree \/ Resume
  BY <1>0, <1>2 DEF FwNotify, FwResets, RstClear, RstWalk, RstFree, Resume
<1>3. CASE RstAck \/ RstDead
  BY <1>3, RightKept DEF RstAck, RstDead, states, bhVars
<1>4. CASE RstReady
  <2>1. devState = "RESETTING" /\ bh.cmd \notin {"ENUM_REQ", "PROP_REQ", "ADD"}
    BY <1>4 DEF RstReady, Resetting
  <2>2. /\ devState' = "INIT_CLIENTS" /\ hbmState' = "START" /\ bh' = bh /\ Live' = Live
    BY <1>4 DEF RstReady, bhVars, Live
  <2>3. QED
    BY <2>1, <2>2 DEF TablesRight, At
<1>5. CASE RstStart
  BY <1>0, <1>5, RightKept DEF RstStart, bhVars
<1>6. CASE BhTake
  <2>1. bh.cmd = "none" /\ bh'.cmd \in Answers \cup {"none"}
    BY <1>6, Taken
  <2>2. UNCHANGED <<tabVars, device, unadded, devState, hbmState>>
    BY <1>6 DEF BhTake, states
  <2>3. QED
    BY <2>1, <2>2, RightKept DEF Answers
<1>7. CASE BhStart
  <2>1. CASE bh.arg # -1
    <3>1. /\ devState = "INIT_CLIENTS" /\ devState' = devState /\ hbmState' = "STARTED"
          /\ bh'.cmd = "ENUM_REQ" /\ Live' = Live
      BY <1>0, <1>7, <2>1 DEF BhStart, InTurn, Msg, Live
    <3>2. QED
      BY <3>1 DEF TablesRight, At
  <2>2. CASE bh.arg = -1
    <3>1. /\ bh.cmd = "START_RES" /\ bh'.cmd = "none" /\ hbmState' = "STOPPED"
          /\ UNCHANGED <<tabVars, device, unadded, devState>>
      BY <1>7, <2>2 DEF BhStart, At, Done, Idle, Msg
    <3>2. QED
      BY <3>1, RightKept
  <2>3. QED
    BY <2>1, <2>2
<1>8. CASE BhEnumReq
  <2>1. /\ At("ENUM_REQ") /\ bh'.cmd = "none" /\ hbmState' = "ENUM_CLIENTS"
        /\ UNCHANGED <<tabVars, device, unadded, devState>>
    BY <1>0, <1>8 DEF BhEnumReq, Done, Idle, Msg
  <2>2. devState = "INIT_CLIENTS" /\ Live = {} /\ Live' = Live
    BY <2>1 DEF TablesRight, At, Live
  <2>3. QED
    BY <2>1, <2>2 DEF TablesRight, At
<1>9. CASE BhEnum
  BY <1>0, <1>9, RightEnum DEF BhEnum
<1>10. CASE BhProps
  BY <1>0, <1>10, RightProps DEF BhProps
<1>11. CASE BhPropReq
  BY <1>0, <1>11, RightPropReq DEF BhPropReq
<1>12. CASE BhPropsDone
  BY <1>12, RightPropsDone
<1>13. CASE BhAdd
  BY <1>13, RightAdd
<1>14. CASE BhStop
  BY <1>0, <1>14 DEF BhStop, See, Clean
<1>15. CASE BhOther
  <2>1. At("UNKNOWN") /\ hbmState' = hbmState /\ bh'.cmd = "none"
        /\ UNCHANGED <<tabVars, device, unadded, devState>>
    BY <1>15 DEF BhOther, SeeIf, See, Clean, Done, Idle, Msg
  <2>2. QED
    BY <2>1, RightKept DEF At
<1>16. CASE HwStarted \/ HbmStarted \/ UNCHANGED vars
  BY <1>16, RightKept DEF HwStarted, HbmStarted, states, bhVars, vars
<1>17. CASE StartGiveUp
  BY <1>17 DEF StartGiveUp
<1>18. QED
  BY <1>0, <1>1, <1>2, <1>3, <1>4, <1>5, <1>6, <1>7, <1>8, <1>9, <1>10, <1>11, <1>12, <1>13, <1>14, <1>15,
     <1>16, <1>17
     DEF Next, Firmware, ResetWork, BottomHalf, Starter

LEMMA DevStep == TypeInv /\ DevInv /\ [Next]_vars => DevInv'
<1> SUFFICES ASSUME TypeInv, DevInv, [Next]_vars, Clean'
             PROVE  starter' # "giveup" /\ Resetting' /\ (ResetAhead' \/ TablesRight')
  BY DEF DevInv
<1>1. /\ ~StartTimeout
      /\ starter # "giveup" /\ Resetting /\ (ResetAhead \/ TablesRight)
  BY CleanStep DEF DevInv
<1>2. starter' # "giveup"
  <2>1. CASE Starter \/ Resume \/ UNCHANGED vars
    BY <1>1, <2>1 DEF Starter, HwStarted, HbmStarted, StartGiveUp, Resume, init, vars
  <2>2. starter' = starter \/ Starter \/ Resume \/ UNCHANGED vars
    BY <1>1 DEF Next, Firmware, FwNotify, FwReads, FwAnswers, FwRefuses, FwUnsolicited, FwResets, ResetWork,
         RstClear, RstWalk, RstFree, RstAck, RstDead, RstReady, RstStart, BottomHalf, BhTake, BhStart,
         BhEnumReq, BhEnum, BhProps, BhPropReq, BhPropsDone, BhAdd, BhOops, BhStop, BhOther, init
  <2>3. QED
    BY <1>1, <2>1, <2>2
<1>3. Resetting'
  BY <1>1, ResettingStep
<1>4. ResetAhead' \/ TablesRight'
  BY <1>1, AheadStep, Freed, RightStep
<1>5. QED
  BY <1>2, <1>3, <1>4

LEMMA DevInit == Init => DevInv
BY DEF Init, DevInv, Resetting, ResetAhead

(***************************************************************************)
(* When the dust has settled, the bus has a live device for exactly those  *)
(* of the clients the firmware named last whose device could be made,      *)
(* whatever resets it went through, unless something hindered or overtook. *)
(***************************************************************************)
THEOREM BusAsEnumerated == Spec => []DevicesExact
<1>1. TypeInv /\ DevInv => DevicesExact
  <2> SUFFICES ASSUME TypeInv, DevInv, Up, Clean, NEW c \in Clients
               PROVE  device[c] = "live" <=> c \in map \ unadded
    BY DEF DevicesExact, Clean
  <2>1. ~ResetAhead /\ devState = "ENABLED" /\ ~At("ADD")
    BY DEF Up, ResetAhead, At, Idle, Msg
  <2>2. Live = map \ unadded
    BY <2>1 DEF DevInv, TablesRight
  <2>3. QED
    BY <2>2 DEF Live
<1>2. QED
  BY <1>1, TypeInit, TypeStep, DevInit, DevStep, PTL DEF Spec
=============================================================================
