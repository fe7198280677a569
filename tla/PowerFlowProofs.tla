---------------------------- MODULE PowerFlowProofs ----------------------------
(***************************************************************************)
(* Theorems on suspend and resume: the system does not sleep in D0i3       *)
(* before the firmware read SUSPEND, and ish_wakeup finds nothing at the   *)
(* doorbell, unless one of the races of PowerFlow took place.              *)
(*                                                                         *)
(* PowerInv has a part for each set of races: what holds until a suspend   *)
(* catches the work of a resume (Settled), where the work of a resume is   *)
(* as long as the firmware is not slow either (Resuming), and where        *)
(* SUSPEND is between the host and the firmware (Suspending).              *)
(***************************************************************************)
EXTENDS PowerFlow, SequenceTheorems, TLAPS

PowerTypes ==
    /\ pm \in {"on", "suspend", "suspWait", "D0i3", "D3"}
    /\ suspend_flag \in BOOLEAN /\ resume_flag \in BOOLEAN
    /\ resumeWork \in BOOLEAN
    /\ rw \in {"idle", "send", "wait", "init"}
    /\ doorbell \in Messages \cup {"free"}
    /\ list \in Seq(Messages)
    /\ rxCmpl \subseteq Messages
    /\ fw \in {"up", "off", "booting"}
    /\ told \in {"SUSPEND", "RESUME"}
    /\ seen \subseteq Marks

\* A suspend that did not catch a resume has the firmware up and nothing running.
Settled ==
    /\ pm # "on" => ~resumeWork /\ rw = "idle"
    /\ pm \in {"suspend", "suspWait", "D0i3"} => fw = "up"
    /\ pm = "D3" => fw = "off"

\* A message that the firmware has yet to read
OnWay(m) == doorbell = m \/ \E i \in DOMAIN list : list[i] = m

\* While the resume's work waits, the firmware was told or will boot.
Resuming ==
    /\ pm = "D0i3" => ~suspend_flag
    /\ resumeWork => rw = "idle" /\ (fw = "off" \/ (fw = "up" /\ ~suspend_flag))
    /\ rw \in {"send", "wait"} => fw = "up"
    /\ rw = "wait" /\ resume_flag => OnWay("RESUME") \/ "RESUME" \in rxCmpl
    /\ rw = "init" => fw = "off"

NoSuspend == ~OnWay("SUSPEND") /\ "SUSPEND" \notin rxCmpl

OnlyData == \A i \in DOMAIN list : list[i] = "data"

\* What follows SUSPEND is data.
SuspendFinal ==
    /\ doorbell = "SUSPEND" => OnlyData
    /\ \A i, j \in DOMAIN list : list[i] = "SUSPEND" /\ i < j => list[j] = "data"

SuspendComing == OnWay("SUSPEND") /\ "SUSPEND" \notin rxCmpl

SuspendTold == told = "SUSPEND" /\ doorbell \in {"free", "data"} /\ OnlyData

Suspending ==
    /\ pm \in {"on", "suspend"} /\ fw = "up" => NoSuspend
    /\ pm = "suspWait" /\ suspend_flag => SuspendFinal /\ (SuspendComing \/ SuspendTold)
    /\ pm = "D0i3" \/ (pm = "suspWait" /\ ~suspend_flag) => SuspendTold /\ NoSuspend

Unraced  == "raced" \notin seen
Prompt   == seen \cap {"slow", "raced"} = {}
OwnReply == seen \cap {"stale", "raced", "subscribed"} = {}

PowerInv ==
    /\ PowerTypes
    /\ Unraced => Settled
    /\ Prompt => Resuming /\ "overwritten" \notin seen
    /\ OwnReply => Suspending
-----------------------------------------------------------------------------
\* Places of a list
LEMMA Indices ==
    \A n \in Nat :
        /\ \A i \in 1 .. n : i = n \/ (i \in 1 .. n - 1 /\ i + 1 \in 1 .. n /\ 1 < i + 1)
        /\ \A i \in 1 .. n - 1 : i \in 1 .. n /\ i + 1 \in 1 .. n
        /\ \A i, j \in 1 .. n : i < j => i \in 1 .. n - 1 /\ i + 1 < j + 1
OBVIOUS

(***************************************************************************)
(* ishtp_write_message puts a message behind the others, and the first of  *)
(* them to the doorbell if that is free.                                   *)
(***************************************************************************)
LEMMA WriteCases ==
    ASSUME PowerTypes, NEW m \in Messages, Write(m)
    PROVE  /\ doorbell' \in Messages
           /\ list' \in Seq(Messages)
           /\ DOMAIN list = 1 .. Len(list) /\ Len(list) \in Nat
           /\ \/ /\ doorbell # "free" /\ doorbell' = doorbell
                 /\ DOMAIN list' = 1 .. Len(list) + 1
                 /\ \A i \in 1 .. Len(list) : list'[i] = list[i]
                 /\ list'[Len(list) + 1] = m
              \/ /\ doorbell = "free" /\ Len(list) = 0
                 /\ doorbell' = m /\ DOMAIN list' = {}
              \/ /\ doorbell = "free" /\ Len(list) > 0
                 /\ doorbell' = list[1]
                 /\ DOMAIN list' = 1 .. Len(list)
                 /\ \A i \in 1 .. Len(list) - 1 : list'[i] = list[i + 1]
                 /\ list'[Len(list)] = m
<1> DEFINE n == Len(list)
           w == Append(list, m)
<1>1. /\ list \in Seq(Messages) /\ n \in Nat /\ DOMAIN list = 1 .. n
      /\ doorbell \in Messages \cup {"free"}
    BY LenProperties DEF PowerTypes
<1>2. /\ w \in Seq(Messages) /\ Len(w) = n + 1
      /\ \A i \in 1 .. n : w[i] = list[i]
      /\ w[n + 1] = m
      /\ w # <<>>
      /\ DOMAIN w = 1 .. n + 1
    BY <1>1, AppendProperties, LenProperties
<1>3. CASE doorbell # "free"
    <2>1. doorbell' = doorbell /\ list' = w
        BY <1>3 DEF Write
    <2> QED
        BY <1>1, <1>2, <1>3, <2>1
<1>4. CASE doorbell = "free"
    <2>1. doorbell' = Head(w) /\ list' = Tail(w)
        BY <1>4 DEF Write
    <2>2. /\ Head(w) = w[1] /\ Tail(w) \in Seq(Messages) /\ Len(Tail(w)) = n
          /\ \A i \in 1 .. n : Tail(w)[i] = w[i + 1]
        BY <1>1, <1>2, HeadTailProperties
    <2>3. DOMAIN Tail(w) = 1 .. n /\ w[1] \in Messages
        BY <1>1, <1>2, <2>2, LenProperties, ElementOfSeq
    <2> HIDE DEF w
    <2>4. CASE n = 0
        BY <1>1, <1>2, <1>4, <2>1, <2>2, <2>3, <2>4
    <2>5. CASE n > 0
        <3>1. w[1] = list[1] /\ w[n + 1] = m /\ n \in 1 .. n
            BY <1>1, <1>2, <2>5
        <3>2. \A i \in 1 .. n - 1 : i \in 1 .. n /\ i + 1 \in 1 .. n
            BY <1>1
        <3>3. \A i \in 1 .. n - 1 : Tail(w)[i] = list[i + 1]
            BY <3>2, <2>2, <1>2
        <3> QED
            BY <1>1, <1>4, <2>1, <2>2, <2>3, <2>5, <3>1, <3>3
    <2> QED
        BY <2>4, <2>5, <1>1
<1> QED
    BY <1>3, <1>4

(***************************************************************************)
(* Nothing that was to be read is lost by it.                              *)
(***************************************************************************)
LEMMA WriteOnWay ==
    ASSUME PowerTypes, NEW m \in Messages, Write(m), NEW x \in Messages
    PROVE  OnWay(x)' <=> OnWay(x) \/ x = m
<1> DEFINE n == Len(list)
<1>1. x # "free"
    BY DEF Messages
<1>2. /\ doorbell' \in Messages
      /\ DOMAIN list = 1 .. n /\ n \in Nat
    BY WriteCases
<1>3. CASE /\ doorbell # "free" /\ doorbell' = doorbell
           /\ DOMAIN list' = 1 .. n + 1
           /\ \A i \in 1 .. n : list'[i] = list[i]
           /\ list'[n + 1] = m
    BY <1>1, <1>2, <1>3 DEF OnWay
<1>4. CASE doorbell = "free" /\ n = 0 /\ doorbell' = m /\ DOMAIN list' = {}
    BY <1>1, <1>2, <1>4 DEF OnWay
<1>5. CASE /\ doorbell = "free" /\ n > 0
           /\ doorbell' = list[1]
           /\ DOMAIN list' = 1 .. n
           /\ \A i \in 1 .. n - 1 : list'[i] = list[i + 1]
           /\ list'[n] = m
    <2>1. 1 \in 1 .. n /\ n \in 1 .. n
        BY <1>2, <1>5
    <2>2. \A i \in 1 .. n : i = n \/ i \in 1 .. n - 1
        BY <1>2, Indices
    <2>3. \A i \in 1 .. n - 1 : i \in 1 .. n /\ i + 1 \in 1 .. n
        BY <1>2
    <2>4. \A i \in 1 .. n : i = 1 \/ (i - 1 \in 1 .. n - 1 /\ (i - 1) + 1 = i)
        BY <1>2
    <2>5. ASSUME OnWay(x)' PROVE OnWay(x) \/ x = m
        BY <1>2, <1>5, <2>1, <2>2, <2>3, <2>5 DEF OnWay
    <2>6. ASSUME OnWay(x) PROVE OnWay(x)'
        <3>1. PICK i \in 1 .. n : list[i] = x
            BY <1>1, <1>2, <1>5, <2>6 DEF OnWay
        <3>2. CASE i = 1
            BY <3>1, <3>2, <1>5 DEF OnWay
        <3>3. CASE i # 1
            <4>1. list'[i - 1] = x /\ i - 1 \in 1 .. n
                BY <3>1, <3>3, <2>3, <2>4, <1>5
            <4> QED
                BY <4>1, <1>5 DEF OnWay
        <3> QED
            BY <3>2, <3>3
    <2>7. OnWay(m)'
        BY <1>5, <2>1 DEF OnWay
    <2> QED
        BY <2>5, <2>6, <2>7
<1> QED
    BY <1>3, <1>4, <1>5, WriteCases

(***************************************************************************)
(* Data behind a SUSPEND, and a SUSPEND behind others, leave it final.     *)
(***************************************************************************)
LEMMA WriteFinal ==
    ASSUME PowerTypes, NEW m \in Messages, Write(m),
           (SuspendFinal /\ m = "data") \/ (m = "SUSPEND" /\ ~OnWay("SUSPEND"))
    PROVE  SuspendFinal'
<1> DEFINE n == Len(list)
<1>1. DOMAIN list = 1 .. n /\ n \in Nat
    BY WriteCases
<1>2. CASE /\ doorbell # "free" /\ doorbell' = doorbell
           /\ DOMAIN list' = 1 .. n + 1
           /\ \A i \in 1 .. n : list'[i] = list[i]
           /\ list'[n + 1] = m
    <2>1. \A i \in 1 .. n + 1 : i = n + 1 \/ i \in 1 .. n
        BY <1>1
    <2>2. \A i, j \in 1 .. n + 1 : i < j => i \in 1 .. n
        BY <1>1
    <2>3. CASE SuspendFinal /\ m = "data"
        BY <1>1, <1>2, <2>1, <2>2, <2>3 DEF SuspendFinal, OnlyData
    <2>4. CASE m = "SUSPEND" /\ ~OnWay("SUSPEND")
        BY <1>1, <1>2, <2>1, <2>2, <2>4 DEF SuspendFinal, OnWay
    <2> QED
        BY <2>3, <2>4
<1>3. CASE doorbell = "free" /\ n = 0 /\ doorbell' = m /\ DOMAIN list' = {}
    BY <1>3 DEF SuspendFinal, OnlyData
<1>4. CASE /\ doorbell = "free" /\ n > 0
           /\ doorbell' = list[1]
           /\ DOMAIN list' = 1 .. n
           /\ \A i \in 1 .. n - 1 : list'[i] = list[i + 1]
           /\ list'[n] = m
    <2>1. \A i \in 1 .. n : i = n \/ (i \in 1 .. n - 1 /\ i + 1 \in 1 .. n /\ 1 < i + 1)
        BY <1>1, Indices
    <2>2. \A i, j \in 1 .. n : i < j => i \in 1 .. n - 1 /\ i + 1 < j + 1
        BY <1>1
    <2>3. 1 \in 1 .. n
        BY <1>1, <1>4
    <2>4. CASE SuspendFinal /\ m = "data"
        <3>1. \A i, j \in 1 .. n : list[i] = "SUSPEND" /\ i < j => list[j] = "data"
            BY <1>1, <2>4 DEF SuspendFinal
        <3>2. doorbell' = "SUSPEND" => \A i \in 1 .. n : list'[i] = "data"
            BY <1>4, <2>1, <2>3, <2>4, <3>1
        <3>3. ASSUME NEW i \in 1 .. n, NEW j \in 1 .. n, list'[i] = "SUSPEND", i < j
              PROVE  list'[j] = "data"
            <4>1. i \in 1 .. n - 1 /\ i + 1 < j + 1 /\ i + 1 \in 1 .. n
                BY <2>1, <2>2, <3>3
            <4>2. list[i + 1] = "SUSPEND"
                BY <4>1, <1>4, <3>3
            <4>3. CASE j = n
                BY <4>3, <1>4, <2>4
            <4>4. CASE j # n
                <5>1. j \in 1 .. n - 1 /\ j + 1 \in 1 .. n
                    BY <4>4, <2>1
                <5> QED
                    BY <5>1, <4>1, <4>2, <3>1, <1>4
            <4> QED
                BY <4>3, <4>4
        <3> QED
            BY <1>4, <3>2, <3>3 DEF SuspendFinal, OnlyData
    <2>5. CASE m = "SUSPEND" /\ ~OnWay("SUSPEND")
        <3>1. \A i \in 1 .. n : list[i] # "SUSPEND"
            BY <1>1, <2>5 DEF OnWay
        <3>2. doorbell' # "SUSPEND" /\ \A i \in 1 .. n - 1 : list'[i] # "SUSPEND"
            BY <1>4, <2>1, <2>3, <3>1
        <3> QED
            BY <1>4, <2>2, <3>2 DEF SuspendFinal
    <2> QED
        BY <2>4, <2>5
<1> QED
    BY <1>2, <1>3, <1>4, WriteCases

\* Where only data waits, only data follows.
LEMMA WriteData ==
    ASSUME PowerTypes, Write("data"), doorbell \in {"free", "data"}, OnlyData
    PROVE  doorbell' \in {"free", "data"} /\ OnlyData'
<1> DEFINE n == Len(list)
<1>1. "data" \in Messages
    BY DEF Messages
<1>2. DOMAIN list = 1 .. n /\ n \in Nat
    BY <1>1, WriteCases
<1>3. CASE /\ doorbell # "free" /\ doorbell' = doorbell
           /\ DOMAIN list' = 1 .. n + 1
           /\ \A i \in 1 .. n : list'[i] = list[i]
           /\ list'[n + 1] = "data"
    BY <1>2, <1>3 DEF OnlyData
<1>4. CASE doorbell = "free" /\ n = 0 /\ doorbell' = "data" /\ DOMAIN list' = {}
    BY <1>4 DEF OnlyData
<1>5. CASE /\ doorbell = "free" /\ n > 0
           /\ doorbell' = list[1]
           /\ DOMAIN list' = 1 .. n
           /\ \A i \in 1 .. n - 1 : list'[i] = list[i + 1]
           /\ list'[n] = "data"
    <2>1. 1 \in 1 .. n
        BY <1>2, <1>5
    <2>2. \A i \in 1 .. n : i = n \/ (i \in 1 .. n - 1 /\ i + 1 \in 1 .. n)
        BY <1>2, Indices
    <2> QED
        BY <1>2, <1>5, <2>1, <2>2 DEF OnlyData
<1> QED
    BY <1>1, <1>3, <1>4, <1>5, WriteCases

(***************************************************************************)
(* The interrupt's drain takes the first message of the list to a free     *)
(* doorbell: everything stays on its way, in its order.                    *)
(***************************************************************************)
LEMMA DrainKeeps ==
    ASSUME PowerTypes, doorbell = "free", list # <<>>,
           doorbell' = Head(list), list' = Tail(list)
    PROVE  /\ doorbell' \in Messages
           /\ list' \in Seq(Messages)
           /\ \A x \in Messages : OnWay(x)' <=> OnWay(x)
           /\ SuspendFinal => SuspendFinal'
           /\ OnlyData => doorbell' = "data" /\ OnlyData'
<1> DEFINE n == Len(list)
<1>1. /\ list \in Seq(Messages) /\ n \in Nat /\ DOMAIN list = 1 .. n
    BY LenProperties DEF PowerTypes
<1>2. n > 0
    BY <1>1, EmptySeq
<1>3. /\ doorbell' = list[1] /\ list' \in Seq(Messages) /\ Len(list') = n - 1
      /\ \A i \in 1 .. n - 1 : list'[i] = list[i + 1]
    BY <1>1, HeadTailProperties
<1>4. DOMAIN list' = 1 .. n - 1 /\ list[1] \in Messages /\ 1 \in 1 .. n
    BY <1>1, <1>2, <1>3, LenProperties, ElementOfSeq
<1> HIDE DEF n
<1>5. \A i \in 1 .. n - 1 : i \in 1 .. n /\ i + 1 \in 1 .. n /\ 1 < i + 1
    BY <1>1
<1>6. \A i \in 1 .. n : i = 1 \/ (i - 1 \in 1 .. n - 1 /\ (i - 1) + 1 = i)
    BY <1>1
<1>7. ASSUME NEW x \in Messages PROVE OnWay(x)' <=> OnWay(x)
    <2>1. x # "free"
        BY DEF Messages
    <2>2. OnWay(x)' => OnWay(x)
        BY <1>1, <1>3, <1>4, <1>5 DEF OnWay
    <2>3. ASSUME NEW i \in 1 .. n, list[i] = x PROVE OnWay(x)'
        BY <1>3, <1>4, <1>6, <2>3 DEF OnWay
    <2> QED
        BY <1>1, <2>1, <2>2, <2>3 DEF OnWay
<1>8. ASSUME SuspendFinal PROVE SuspendFinal'
    <2>1. \A i, j \in 1 .. n : list[i] = "SUSPEND" /\ i < j => list[j] = "data"
        BY <1>1, <1>8 DEF SuspendFinal
    <2>2. list[1] = "SUSPEND" => \A i \in 1 .. n - 1 : list[i + 1] = "data"
        BY <1>4, <1>5, <2>1
    <2>3. \A i, j \in 1 .. n - 1 : i < j => i + 1 < j + 1
        BY <1>1
    <2>4. \A i, j \in 1 .. n - 1 : list'[i] = "SUSPEND" /\ i < j => list'[j] = "data"
        BY <1>3, <1>5, <2>1, <2>3
    <2> QED
        BY <1>3, <1>4, <2>2, <2>4 DEF SuspendFinal, OnlyData
<1>9. ASSUME OnlyData PROVE doorbell' = "data" /\ OnlyData'
    BY <1>1, <1>3, <1>4, <1>5, <1>9 DEF OnlyData
<1> QED
    BY <1>3, <1>4, <1>7, <1>8, <1>9
-----------------------------------------------------------------------------
(***************************************************************************)
(* Marks are never taken back.                                             *)
(***************************************************************************)
LEMMA SeenGrows == Next => seen \subseteq seen'
BY DEF Next, SendData, FwSubscribes, FwReads, IrqRxCmpl, FwBoots, Suspend, HidSuspend,
       SuspendD0i3, SuspendD3, SuspendAcked, Resume, Handler, HandlerStart, HandlerSend,
       HandlerAcked, HandlerInit, Timeout, SuspendTimeout, HandlerTimeout, HidTimeout,
       HidWorks, HidResumed, HidReset, SeeIf, GiveUp

\* The system starts running, with nothing on its way.
LEMMA PowerInit == Init => PowerInv
<1> SUFFICES ASSUME Init PROVE PowerInv
    OBVIOUS
<1>1. list \in Seq(Messages) /\ DOMAIN list = {}
    BY EmptySeq DEF Init
<1>2. PowerTypes
    BY <1>1 DEF Init, PowerTypes
<1>3. Settled
    BY DEF Init, Settled
<1>4. Resuming /\ "overwritten" \notin seen
    BY DEF Init, Resuming
<1>5. NoSuspend
    BY <1>1 DEF Init, NoSuspend, OnWay
<1>6. Suspending
    BY <1>5 DEF Init, Suspending
<1> QED
    BY <1>2, <1>3, <1>4, <1>6 DEF PowerInv

(***************************************************************************)
(* Types.                                                                  *)
(***************************************************************************)
LEMMA PowerTypesStep == PowerTypes /\ Next => PowerTypes'
<1> SUFFICES ASSUME PowerTypes, Next PROVE PowerTypes'
    OBVIOUS
<1> USE DEF PowerTypes
<1>1. "data" \in Messages /\ "RESUME" \in Messages /\ "SUSPEND" \in Messages /\ "void" \in Messages
    BY DEF Messages
<1>2. \A m \in Messages : Write(m) => doorbell' \in Messages /\ list' \in Seq(Messages)
    BY WriteCases
<1>3. \A P \in BOOLEAN, m \in Marks : SeeIf(P, m) => seen' \subseteq Marks
    BY DEF SeeIf
<1>4. /\ "stale" \in Marks /\ "slow" \in Marks /\ "raced" \in Marks
      /\ "overwritten" \in Marks /\ "subscribed" \in Marks
    BY DEF Marks
<1>5. \A P \in BOOLEAN : GiveUp(P) => seen' \subseteq Marks
    BY <1>3, <1>4 DEF GiveUp
<1>6. CASE SendData
    BY <1>1, <1>2, <1>6 DEF SendData, flags, work
<1>7. CASE FwSubscribes
    <2>1. seen' \subseteq Marks
        BY <1>4, <1>7 DEF FwSubscribes, SeeIf
    <2> QED
        BY <1>1, <1>2, <1>7, <2>1 DEF FwSubscribes, flags, work
<1>8. CASE FwReads
    <2>1. told' \in {"SUSPEND", "RESUME"}
        BY <1>8 DEF FwReads
    <2>2. rxCmpl' \subseteq Messages /\ doorbell' = "free"
        BY <1>8 DEF FwReads
    <2> QED
        BY <1>8, <2>1, <2>2 DEF FwReads, flags, work
<1>9. CASE IrqRxCmpl
    <2>1. doorbell' \in Messages \cup {"free"} /\ list' \in Seq(Messages)
        BY <1>9, DrainKeeps DEF IrqRxCmpl
    <2>2. seen' \subseteq Marks
        BY <1>4, <1>9 DEF IrqRxCmpl, SeeIf
    <2> QED
        BY <1>9, <2>1, <2>2 DEF IrqRxCmpl, flags, work
<1>10. CASE FwBoots
    BY <1>10, EmptySeq DEF FwBoots, flags, work
<1>11. CASE HidSuspend
    <2>1. seen' \subseteq Marks
        BY <1>4, <1>11 DEF HidSuspend, SeeIf
    <2> QED
        BY <1>11, <2>1 DEF HidSuspend, flags, work, channel
<1>12. CASE SuspendD0i3
    BY <1>1, <1>2, <1>12 DEF SuspendD0i3, work
<1>13. CASE SuspendD3 \/ SuspendAcked \/ Resume
    BY <1>13 DEF SuspendD3, SuspendAcked, Resume, flags, work, channel
<1>14. CASE HandlerStart \/ HandlerAcked
    BY <1>14 DEF HandlerStart, HandlerAcked, flags, channel
<1>15. CASE HandlerSend
    BY <1>1, <1>2, <1>15 DEF HandlerSend, flags
<1>16. CASE HandlerInit
    <2>1. seen' \subseteq Marks
        BY <1>4, <1>16 DEF HandlerInit, SeeIf
    <2> QED
        BY <1>1, <1>16, <2>1 DEF HandlerInit, flags
<1>17. CASE Timeout
    <2>1. seen' \subseteq Marks
        BY <1>5, <1>17 DEF Timeout, SuspendTimeout, HandlerTimeout, HidTimeout
    <2> QED
        BY <1>17, <2>1 DEF Timeout, SuspendTimeout, HandlerTimeout, HidTimeout, flags, work, channel
<1>18. CASE HidWorks
    BY <1>18 DEF HidWorks, HidResumed, HidReset, flags, work, channel
<1> QED
    BY <1>6, <1>7, <1>8, <1>9, <1>10, <1>11, <1>12, <1>13, <1>14, <1>15, <1>16, <1>17, <1>18
       DEF Next, Suspend, Handler

(***************************************************************************)
(* A suspend that marks nothing finds the firmware up and no work running. *)
(***************************************************************************)
LEMMA SettledStep == PowerTypes /\ (Unraced => Settled) /\ Next => (Unraced' => Settled')
<1> SUFFICES ASSUME PowerTypes, Unraced => Settled, Next, Unraced' PROVE Settled'
    OBVIOUS
<1>1. Unraced
    BY SeenGrows DEF Unraced
<1>2. Settled
    BY <1>1
<1> USE DEF Settled
<1>3. CASE SendData
    BY <1>2, <1>3 DEF SendData, work
<1>11. CASE FwSubscribes
    BY <1>2, <1>11 DEF FwSubscribes, work
<1>12. CASE FwReads
    BY <1>2, <1>12 DEF FwReads, work
<1>4. CASE IrqRxCmpl
    BY <1>2, <1>4 DEF IrqRxCmpl, work
<1>5. CASE FwBoots
    BY <1>2, <1>5 DEF FwBoots, work
<1>6. CASE HidSuspend
    <2>1. ~(Working \/ fw # "up")
        BY <1>6 DEF HidSuspend, SeeIf, Unraced
    <2> QED
        BY <1>6, <2>1 DEF HidSuspend, Working, work, PowerTypes
<1>7. CASE SuspendD0i3 \/ SuspendD3 \/ SuspendAcked \/ Resume
    BY <1>2, <1>7 DEF SuspendD0i3, SuspendD3, SuspendAcked, Resume, work
<1>8. CASE Handler
    BY <1>2, <1>8 DEF Handler, HandlerStart, HandlerSend, HandlerAcked, HandlerInit
<1>9. CASE SuspendTimeout
    BY <1>2, <1>9 DEF SuspendTimeout, work
<1>13. CASE HandlerTimeout
    BY <1>2, <1>13 DEF HandlerTimeout
<1>14. CASE HidTimeout
    BY <1>2, <1>14 DEF HidTimeout, work
<1>10. CASE HidWorks
    BY <1>2, <1>10 DEF HidWorks, HidResumed, HidReset, work
<1> QED
    BY <1>3, <1>11, <1>12, <1>4, <1>5, <1>6, <1>7, <1>8, <1>9, <1>13, <1>14, <1>10
       DEF Next, Suspend, Timeout

\* What is on its way stays there while nobody touches the doorbell and the list.
LEMMA OnWayKept == UNCHANGED <<doorbell, list>> => \A x \in Messages : OnWay(x)' <=> OnWay(x)
BY DEF OnWay

(***************************************************************************)
(* The work of a resume: until a suspend catches it or the firmware is too *)
(* slow for it, ish_init runs only for a firmware that is off.             *)
(***************************************************************************)
LEMMA ResumingStep ==
    ASSUME PowerTypes, Settled, Resuming, "overwritten" \notin seen, Next, Prompt'
    PROVE  Resuming' /\ "overwritten" \notin seen'
<1> DEFINE Told == OnWay("RESUME") \/ "RESUME" \in rxCmpl
<1>1. "data" \in Messages /\ "RESUME" \in Messages /\ "SUSPEND" \in Messages
    BY DEF Messages
<1>2. \A m \in Messages : Write(m) => (OnWay("RESUME")' <=> OnWay("RESUME") \/ m = "RESUME")
    BY <1>1, WriteOnWay
<1>3. UNCHANGED <<doorbell, list>> => (OnWay("RESUME")' <=> OnWay("RESUME"))
    BY <1>1, OnWayKept
<1>4. /\ pm = "D0i3" => ~suspend_flag
      /\ resumeWork => rw = "idle" /\ (fw = "off" \/ (fw = "up" /\ ~suspend_flag))
      /\ rw \in {"send", "wait"} => fw = "up"
      /\ rw = "wait" /\ resume_flag => Told
      /\ rw = "init" => fw = "off"
    BY DEF Resuming
<1>5. /\ pm # "on" => ~resumeWork /\ rw = "idle"
      /\ pm \in {"suspend", "suspWait", "D0i3"} => fw = "up"
      /\ pm = "D3" => fw = "off"
    BY DEF Settled
<1> HIDE DEF Told
<1>6. CASE SendData \/ FwSubscribes
    <2>1. "overwritten" \notin seen'
        BY <1>6 DEF SendData, FwSubscribes, SeeIf
    <2>2. Told => Told'
        BY <1>1, <1>2, <1>6 DEF SendData, FwSubscribes, Told
    <2>3. UNCHANGED <<pm, suspend_flag, resume_flag, resumeWork, rw, fw>>
        BY <1>6 DEF SendData, FwSubscribes, flags, work
    <2> QED
        BY <1>4, <2>1, <2>2, <2>3 DEF Resuming, Told
<1>7. CASE FwReads
    <2>1. Told => Told'
        BY <1>7 DEF FwReads, Told, OnWay
    <2>2. UNCHANGED <<pm, suspend_flag, resume_flag, resumeWork, rw, fw, seen>>
        BY <1>7 DEF FwReads, flags, work
    <2> QED
        BY <1>4, <2>1, <2>2 DEF Resuming, Told
<1>8. CASE IrqRxCmpl
    <2>1. ~suspend_flag' /\ ~resume_flag' /\ "overwritten" \notin seen'
        BY <1>8 DEF IrqRxCmpl, SeeIf
    <2>2. UNCHANGED <<pm, resumeWork, rw, fw>>
        BY <1>8 DEF IrqRxCmpl, work
    <2> QED
        BY <1>4, <2>1, <2>2 DEF Resuming
<1>9. CASE FwBoots
    BY <1>4, <1>9 DEF FwBoots, Resuming, flags, work
<1>10. CASE HidSuspend
    <2>1. ~(Working \/ fw # "up")
        BY <1>10 DEF HidSuspend, SeeIf, Prompt
    <2>2. "overwritten" \notin seen'
        BY <1>10 DEF HidSuspend, SeeIf
    <2> QED
        BY <1>4, <1>10, <2>1, <2>2 DEF HidSuspend, Working, work, Resuming
<1>11. CASE SuspendD0i3
    BY <1>5, <1>11 DEF SuspendD0i3, work, Resuming
<1>12. CASE SuspendD3 \/ SuspendAcked
    BY <1>5, <1>12 DEF SuspendD3, SuspendAcked, flags, work, Resuming
<1>13. CASE Resume
    BY <1>4, <1>5, <1>13 DEF Resume, Resuming
<1>14. CASE HandlerStart
    <2>1. UNCHANGED <<pm, suspend_flag, fw, seen>> /\ ~resumeWork' /\ rw' # "wait"
        BY <1>14 DEF HandlerStart, flags
    <2>2. fw = "off" \/ (fw = "up" /\ ~suspend_flag)
        BY <1>4, <1>14 DEF HandlerStart
    <2>3. rw' = "send" => fw = "up"
        BY <1>14 DEF HandlerStart
    <2>4. rw' = "init" => fw = "off"
        BY <1>14, <2>2 DEF HandlerStart
    <2> QED
        BY <1>4, <2>1, <2>3, <2>4 DEF Resuming
<1>15. CASE HandlerSend
    <2>1. OnWay("RESUME")'
        BY <1>1, <1>2, <1>15 DEF HandlerSend
    <2>2. UNCHANGED <<pm, suspend_flag, resumeWork, fw, seen>> /\ rw = "send" /\ rw' = "wait"
        BY <1>15 DEF HandlerSend, flags
    <2> QED
        BY <1>4, <2>1, <2>2 DEF Resuming
<1>16. CASE HandlerAcked
    BY <1>4, <1>16 DEF HandlerAcked, flags, Resuming
<1>17. CASE HandlerInit
    <2>1. fw = "off" /\ rw' = "idle"
        BY <1>4, <1>17 DEF HandlerInit
    <2>2. "overwritten" \notin seen'
        BY <1>17, <2>1 DEF HandlerInit, SeeIf
    <2>3. UNCHANGED <<pm, suspend_flag, resume_flag, resumeWork>> /\ ~resumeWork
        BY <1>4, <1>17 DEF HandlerInit, flags
    <2> QED
        BY <1>4, <2>1, <2>2, <2>3 DEF Resuming
<1>18. CASE SuspendTimeout
    <2>1. rw = "idle" /\ ~resumeWork /\ UNCHANGED <<rw, resumeWork, suspend_flag, resume_flag>>
        BY <1>5, <1>18 DEF SuspendTimeout, flags, work
    <2>2. pm' = "D3" /\ "overwritten" \notin seen'
        BY <1>18 DEF SuspendTimeout, GiveUp, SeeIf
    <2> QED
        BY <2>1, <2>2 DEF Resuming
<1>19. CASE HandlerTimeout
    <2>1. ~Coming /\ UNCHANGED seen
        BY <1>19 DEF HandlerTimeout, GiveUp, SeeIf, Prompt
    <2>2. fw = "up" /\ Told
        BY <1>4, <1>19 DEF HandlerTimeout
    <2>3. doorbell # "free" \/ list # <<>> \/ rxCmpl # {}
        BY <2>2, EmptySeq DEF Told, OnWay
    <2> QED
        BY <2>1, <2>2, <2>3 DEF Coming
<1>20. CASE HidTimeout
    <2>1. UNCHANGED <<pm, suspend_flag, resume_flag, resumeWork, rw, fw, doorbell, list, rxCmpl>>
        BY <1>20 DEF HidTimeout, flags, work, channel
    <2>2. "overwritten" \notin seen'
        BY <1>20 DEF HidTimeout, GiveUp, SeeIf
    <2>3. Told' <=> Told
        BY <1>3, <2>1 DEF Told
    <2> QED
        BY <1>4, <2>1, <2>2, <2>3 DEF Resuming, Told
<1>21. CASE HidWorks
    <2>1. UNCHANGED <<pm, suspend_flag, resume_flag, resumeWork, rw, fw, doorbell, list, rxCmpl, seen>>
        BY <1>21 DEF HidWorks, HidResumed, HidReset, flags, work, channel
    <2>2. Told' <=> Told
        BY <1>3, <2>1 DEF Told
    <2> QED
        BY <1>4, <2>1, <2>2 DEF Resuming, Told
<1> QED
    BY <1>6, <1>7, <1>8, <1>9, <1>10, <1>11, <1>12, <1>13, <1>14, <1>15, <1>16, <1>17, <1>18,
       <1>19, <1>20, <1>21 DEF Next, Suspend, Handler, Timeout

(***************************************************************************)
(* SUSPEND, from the bus to the acknowledgement.                           *)
(***************************************************************************)
LEMMA SuspendingStep ==
    ASSUME PowerTypes, Settled, Suspending, Next, OwnReply'
    PROVE  Suspending'
<1>1. "data" \in Messages /\ "RESUME" \in Messages /\ "SUSPEND" \in Messages /\ "void" \in Messages
    BY DEF Messages
<1>2. \A m \in Messages : Write(m) => (OnWay("SUSPEND")' <=> OnWay("SUSPEND") \/ m = "SUSPEND")
    BY <1>1, WriteOnWay
<1>3. UNCHANGED <<doorbell, list>> => (OnWay("SUSPEND")' <=> OnWay("SUSPEND"))
    BY <1>1, OnWayKept
<1>4. /\ pm \in {"on", "suspend"} /\ fw = "up" => NoSuspend
      /\ pm = "suspWait" /\ suspend_flag => SuspendFinal /\ (SuspendComing \/ SuspendTold)
      /\ pm = "D0i3" \/ (pm = "suspWait" /\ ~suspend_flag) => SuspendTold /\ NoSuspend
    BY DEF Suspending
<1>5. /\ pm # "on" => ~resumeWork /\ rw = "idle"
      /\ pm \in {"suspend", "suspWait", "D0i3"} => fw = "up"
      /\ pm = "D3" => fw = "off"
    BY DEF Settled
<1>6. ASSUME UNCHANGED <<doorbell, list, rxCmpl, told>>
      PROVE  /\ NoSuspend' <=> NoSuspend
             /\ SuspendFinal' <=> SuspendFinal
             /\ SuspendComing' <=> SuspendComing
             /\ SuspendTold' <=> SuspendTold
    BY <1>6 DEF NoSuspend, SuspendFinal, SuspendComing, SuspendTold, OnWay, OnlyData
<1>7. CASE SendData
    <2>1. Write("data") /\ UNCHANGED <<pm, suspend_flag, fw, rxCmpl, told>>
        BY <1>7 DEF SendData, flags
    <2>2. NoSuspend => NoSuspend'
        BY <1>1, <1>2, <2>1 DEF NoSuspend
    <2>3. SuspendFinal => SuspendFinal'
        BY <1>1, <2>1, WriteFinal
    <2>4. SuspendComing => SuspendComing'
        BY <1>1, <1>2, <2>1 DEF SuspendComing
    <2>5. SuspendTold => SuspendTold'
        BY <2>1, WriteData DEF SuspendTold
    <2> QED
        BY <1>4, <2>1, <2>2, <2>3, <2>4, <2>5 DEF Suspending
<1>8. CASE FwSubscribes
    BY <1>8 DEF FwSubscribes, SeeIf, OwnReply
<1>9. CASE FwReads
    <2>1. /\ UNCHANGED <<pm, suspend_flag, fw, list>>
          /\ doorbell' = "free"
          /\ rxCmpl' = rxCmpl \cup {doorbell}
          /\ told' = IF doorbell \in {"SUSPEND", "RESUME"} THEN doorbell ELSE told
        BY <1>9 DEF FwReads, flags
    <2>2. NoSuspend => NoSuspend'
        BY <2>1 DEF NoSuspend, OnWay
    <2>3. SuspendFinal => SuspendFinal'
        BY <2>1 DEF SuspendFinal
    <2>4. SuspendTold => SuspendTold'
        BY <2>1 DEF SuspendTold, OnlyData
    <2>5. SuspendFinal /\ SuspendComing => SuspendComing' \/ SuspendTold'
        <3>1. CASE doorbell = "SUSPEND"
            BY <2>1, <3>1 DEF SuspendFinal, SuspendTold, OnlyData
        <3>2. CASE doorbell # "SUSPEND"
            BY <2>1, <3>2 DEF SuspendComing, OnWay
        <3> QED
            BY <3>1, <3>2
    <2> QED
        BY <1>4, <2>1, <2>2, <2>3, <2>4, <2>5 DEF Suspending
<1>10. CASE IrqRxCmpl
    <2>1. /\ UNCHANGED <<pm, fw, told>>
          /\ ~suspend_flag' /\ rxCmpl' = {}
          /\ suspend_flag => "SUSPEND" \in rxCmpl
        BY <1>10 DEF IrqRxCmpl, SeeIf, OwnReply
    <2>2. \/ UNCHANGED <<doorbell, list>>
          \/ doorbell = "free" /\ list # <<>> /\ doorbell' = Head(list) /\ list' = Tail(list)
        BY <1>10 DEF IrqRxCmpl
    <2>3. OnWay("SUSPEND")' <=> OnWay("SUSPEND")
        BY <1>1, <1>3, <2>2, DrainKeeps
    <2>4. NoSuspend => NoSuspend'
        BY <2>1, <2>3 DEF NoSuspend
    <2>5. SuspendTold => SuspendTold'
        <3>1. CASE UNCHANGED <<doorbell, list>>
            BY <2>1, <3>1 DEF SuspendTold, OnlyData
        <3>2. CASE doorbell = "free" /\ list # <<>> /\ doorbell' = Head(list) /\ list' = Tail(list)
            BY <2>1, <3>2, DrainKeeps DEF SuspendTold
        <3> QED
            BY <2>2, <3>1, <3>2
    <2>6. SuspendTold => ~OnWay("SUSPEND")
        BY DEF SuspendTold, OnWay, OnlyData
    <2>7. pm = "suspWait" => SuspendTold
        BY <1>4, <2>1 DEF SuspendComing
    <2>8. pm = "suspWait" => SuspendTold' /\ NoSuspend'
        BY <2>1, <2>3, <2>5, <2>6, <2>7 DEF NoSuspend
    <2> QED
        BY <1>4, <2>1, <2>4, <2>5, <2>8 DEF Suspending
<1>11. CASE FwBoots
    <2>1. NoSuspend'
        BY <1>11, EmptySeq DEF FwBoots, NoSuspend, OnWay
    <2>2. pm' = pm /\ pm \notin {"suspWait", "D0i3"}
        BY <1>5, <1>11 DEF FwBoots
    <2> QED
        BY <2>1, <2>2 DEF Suspending
<1>12. CASE HidSuspend
    <2>1. UNCHANGED <<doorbell, list, rxCmpl, told, fw>> /\ pm = "on" /\ pm' = "suspend"
        BY <1>12 DEF HidSuspend, channel
    <2> QED
        BY <1>4, <1>6, <2>1 DEF Suspending
<1>13. CASE SuspendD0i3
    <2>1. /\ pm = "suspend" /\ pm' = "suspWait" /\ suspend_flag' = TRUE
          /\ Write("SUSPEND") /\ UNCHANGED rxCmpl
        BY <1>13 DEF SuspendD0i3
    <2>2. NoSuspend
        BY <1>4, <1>5, <2>1
    <2>3. SuspendFinal'
        BY <1>1, <2>1, <2>2, WriteFinal DEF NoSuspend
    <2>4. SuspendComing'
        BY <1>1, <1>2, <2>1, <2>2 DEF NoSuspend, SuspendComing
    <2> QED
        BY <2>1, <2>3, <2>4 DEF Suspending
<1>14. CASE SuspendAcked
    <2>1. /\ pm = "suspWait" /\ ~suspend_flag /\ pm' = "D0i3"
          /\ UNCHANGED <<doorbell, list, rxCmpl, told>>
        BY <1>14 DEF SuspendAcked, channel
    <2> QED
        BY <1>4, <1>6, <2>1 DEF Suspending
<1>15. CASE SuspendD3 \/ SuspendTimeout
    <2>1. pm' = "D3"
        BY <1>15 DEF SuspendD3, SuspendTimeout
    <2> QED
        BY <2>1 DEF Suspending
<1>16. CASE Resume
    <2>1. /\ pm \in {"D0i3", "D3"} /\ pm' = "on"
          /\ UNCHANGED <<doorbell, list, rxCmpl, told, fw>>
        BY <1>16 DEF Resume, channel
    <2>2. fw = "up" => NoSuspend
        BY <1>4, <1>5, <2>1
    <2> QED
        BY <1>6, <2>1, <2>2 DEF Suspending
<1>17. CASE HandlerStart \/ HandlerAcked \/ HandlerTimeout \/ HidTimeout \/ HidWorks
    <2>1. UNCHANGED <<pm, suspend_flag, fw, doorbell, list, rxCmpl, told>>
        BY <1>17 DEF HandlerStart, HandlerAcked, HandlerTimeout, HidTimeout, HidWorks, HidResumed,
                     HidReset, flags, channel
    <2> QED
        BY <1>4, <1>6, <2>1 DEF Suspending
<1>18. CASE HandlerSend
    <2>1. /\ pm = "on" /\ pm' = "on" /\ Write("RESUME")
          /\ UNCHANGED <<rxCmpl, fw>>
        BY <1>5, <1>18 DEF HandlerSend, PowerTypes
    <2>2. NoSuspend => NoSuspend'
        BY <1>1, <1>2, <2>1 DEF NoSuspend
    <2> QED
        BY <1>4, <2>1, <2>2 DEF Suspending
<1>19. CASE HandlerInit
    <2>1. pm = "on" /\ pm' = "on" /\ doorbell' = "void" /\ UNCHANGED <<list, rxCmpl>>
        BY <1>5, <1>19 DEF HandlerInit, PowerTypes
    <2>2. fw' = "up" => fw = "up"
        BY <1>19 DEF HandlerInit
    <2>3. NoSuspend => NoSuspend'
        BY <2>1 DEF NoSuspend, OnWay
    <2> QED
        BY <1>4, <2>1, <2>2, <2>3 DEF Suspending
<1> QED
    BY <1>7, <1>8, <1>9, <1>10, <1>11, <1>12, <1>13, <1>14, <1>15, <1>16, <1>17, <1>18, <1>19
       DEF Next, Suspend, Handler, Timeout
-----------------------------------------------------------------------------
(***************************************************************************)
(* PowerInv holds in every state.                                          *)
(***************************************************************************)
THEOREM PowerInvariant == Spec => []PowerInv
<1>1. PowerInv /\ [Next]_vars => PowerInv'
    <2> SUFFICES ASSUME PowerInv, [Next]_vars PROVE PowerInv'
        OBVIOUS
    <2>1. CASE Next
        <3>1. PowerTypes' /\ (Unraced' => Settled')
            BY <2>1, PowerTypesStep, SettledStep DEF PowerInv
        <3>2. ASSUME Prompt' PROVE Resuming' /\ "overwritten" \notin seen'
            <4>1. Prompt /\ Unraced
                BY <2>1, <3>2, SeenGrows DEF Prompt, Unraced
            <4> QED
                BY <2>1, <3>2, <4>1, ResumingStep DEF PowerInv
        <3>3. ASSUME OwnReply' PROVE Suspending'
            <4>1. OwnReply /\ Unraced
                BY <2>1, <3>3, SeenGrows DEF OwnReply, Unraced
            <4> QED
                BY <2>1, <3>3, <4>1, SuspendingStep DEF PowerInv
        <3> QED
            BY <3>1, <3>2, <3>3 DEF PowerInv
    <2>2. CASE UNCHANGED vars
        <3> USE <2>2 DEF vars, flags, hid, work, channel, bounds
        <3>1. PowerTypes' <=> PowerTypes
            BY DEF PowerTypes
        <3>2. (Settled' <=> Settled) /\ (Unraced' <=> Unraced)
            BY DEF Settled, Unraced
        <3>3. (Resuming' <=> Resuming) /\ (Prompt' <=> Prompt)
            BY DEF Resuming, Prompt, OnWay
        <3>4. (Suspending' <=> Suspending) /\ (OwnReply' <=> OwnReply)
            BY DEF Suspending, OwnReply, NoSuspend, SuspendFinal, SuspendComing, SuspendTold,
                   OnlyData, OnWay
        <3> QED
            BY <3>1, <3>2, <3>3, <3>4 DEF PowerInv
    <2> QED
        BY <2>1, <2>2
<1> QED
    BY <1>1, PowerInit, PTL DEF Spec

(***************************************************************************)
(* The system sleeps in D0i3 only after the firmware read SUSPEND, for any *)
(* number of suspends, messages and faults, unless another message's       *)
(* RX_CMPL was taken for its own, a former resume was under way, or the    *)
(* firmware subscribed.                                                    *)
(***************************************************************************)
THEOREM SleepsAfterTelling == Spec => []SleepsTold
<1>1. PowerInv => SleepsTold
    BY DEF PowerInv, SleepsTold, OwnReply, Suspending, SuspendTold
<1> QED
    BY <1>1, PowerInvariant, PTL

(***************************************************************************)
(* ish_wakeup overwrites no message of a live firmware that was not too    *)
(* slow and whose resume no suspend caught.                                *)
(***************************************************************************)
THEOREM NeverOverwritten == Spec => []NothingOverwritten
<1>1. PowerInv => NothingOverwritten
    BY DEF PowerInv, NothingOverwritten, Prompt
<1> QED
    BY <1>1, PowerInvariant, PTL
=============================================================================
