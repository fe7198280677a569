--------------------------- MODULE HidRequestsProofs ---------------------------
(***************************************************************************)
(* Theorems on the requests of the HID client: the descriptors stored for  *)
(* a device are its own, a request takes no answer of another one and no   *)
(* dead buffer unless somebody had given up or two requests overlapped,    *)
(* and only a firmware without HID devices is reset for a bad packet.      *)
(*                                                                         *)
(* All of it is about Way, the packets in the order in which the driver    *)
(* will have them.  StoredInv says what each step of hid_ishtp_cl_init has *)
(* stored; it rests on AskedInv, that at most one descriptor packet is on  *)
(* the way, and that it is the one waited for.  EnumInv says where an      *)
(* enumeration can still be on the way; a firmware without devices ends    *)
(* it, for its answers are bad.  CallInv and OwnInv tie each request on    *)
(* the way to the one thread that waits for it, as long as nobody gave up. *)
(***************************************************************************)
EXTENDS HidRequests, SequenceTheorems, TLAPS

Packet == [cmd : {"enum"}, dev : {0}, id : 0 .. MaxDevs]
            \cup [cmd : Kinds, dev : Devs, id : {0}]
            \cup [cmd : {"get", "set"}, dev : Devs, id : Nat]
Ended  == {"hold", "idle", "failed", "dead"}
Places == {"connect", "lookup", "relink", "enum", "enumWait", "descr", "descrWait", "probe",
           "done", "fail"} \cup Ended
Task   == [pc : Places, reset : BOOLEAN, cur : Nat, kind : Kinds, waits : Nat, tries : Nat]
Asking == [kind : {"raw", "get", "set"}, dev : Devs, id : Nat,
           pc : {"link", "send", "link2", "wait", "clear"}]

QueueTypes == toFw \in Seq(Packet) /\ fromFw \in Seq(Packet)

TableTypes ==
    /\ fwDevs \in 0 .. MaxDevs
    /\ init_done \in BOOLEAN /\ enum_devices_done \in BOOLEAN
    /\ descr_done \in [Kinds -> BOOLEAN]
    /\ hid_dev_count \in 0 .. MaxDevs /\ num_hid_devices \in 0 .. MaxDevs
    /\ descr \in [Kinds -> [Devs -> Nat]]
    /\ hubs \subseteq Devs

CallTypes ==
    /\ req \in [Threads -> Asking \cup {NoCall}]
    /\ request_done \in [Devs -> Nat] /\ raw \in [Devs -> Nat]
    /\ calls \in Nat

HidTypes == QueueTypes /\ task \in Task /\ TableTypes /\ CallTypes

\* The packets on their way, in the order in which the driver will have them
Way == fromFw \o toFw

\* No packet survives the connection, which lives only with the firmware.
Connection ==
    /\ fw # "up" => ~connected
    /\ ~connected => toFw = <<>> /\ fromFw = <<>>

\* A device that was removed has no work and no task, and begins anew.
GoneInv ==
    /\ device # "held" => ~work
    /\ device = "gone" => task.pc = "idle" /\ ~init_done

DescrOK(k, i) == descr[k][i] = i
StoredTo(n)   == \A k \in Kinds, i \in 1 .. n : DescrOK(k, i)

Enumerating  == task.pc \in {"descr", "descrWait", "probe"}
Initializing == \/ Enumerating
                \/ task.pc \in {"lookup", "relink", "enum", "enumWait", "done", "fail"}

\* What the steps of the initialization have stored so far
StoredInv ==
    /\ Initializing => ~init_done
    /\ task.pc = "connect" /\ init_done => num_hid_devices = 0
    /\ Enumerating => /\ task.cur \in 1 .. num_hid_devices
                      /\ StoredTo(task.cur - 1)
                      /\ task.kind = "report" => DescrOK("hid", task.cur)
    /\ task.pc = "probe" => task.kind = "report" /\ DescrOK("report", task.cur)
    /\ task.pc = "descrWait" /\ descr_done[task.kind] => DescrOK(task.kind, task.cur)
    /\ task.pc = "done" \/ (task.pc \in Ended /\ init_done) => StoredTo(num_hid_devices)

\* One descriptor packet at a time is on the way, the one waited for.
AskedInv ==
    /\ \A i \in DOMAIN Way : Way[i].cmd \in Kinds =>
          /\ task.pc \in {"descrWait", "fail"}
          /\ task.pc = "descrWait" => /\ Way[i].cmd = task.kind /\ Way[i].dev = task.cur
                                      /\ ~descr_done[task.kind]
    /\ \A i, j \in DOMAIN Way : i < j /\ Way[i].cmd \in Kinds => Way[j].cmd \notin Kinds

\* An enumeration precedes the descriptors, and is over when one is stored.
EnumInv ==
    /\ enum_devices_done => hid_dev_count > 0
    /\ \A i, j \in DOMAIN Way : i < j /\ Way[i].cmd \in Kinds => Way[j].cmd # "enum"
    /\ \A i \in DOMAIN Way : Way[i].cmd = "enum" =>
          \/ task.pc \in {"enumWait", "fail"}
          \/ task.pc = "descr" /\ task.kind = "hid" /\ task.cur = 1
          \/ task.pc = "descrWait" /\ task.kind = "hid" /\ task.cur = 1 /\ ~descr_done["hid"]
    /\ "bad" \notin seen

\* The request that a packet belongs to waits for it.
Owned(m) ==
    /\ request_done[m.dev] = 0
    /\ \E t \in Threads : /\ req[t].id = m.id /\ req[t].dev = m.dev
                          /\ req[t].pc \in {"link2", "wait"}
                          /\ m.cmd = "get" => req[t].kind \in {"raw", "get"}

Requests == {"get", "set"}

\* A request has its device to itself, and its buffers.
CallInv ==
    /\ \A t \in Threads : req[t] # NoCall =>
          /\ req[t].id > calls
          /\ request_done[req[t].dev] \in {0, req[t].id}
          /\ req[t].pc \in {"link", "send"} => request_done[req[t].dev] = 0
          /\ req[t].kind = "raw" => raw[req[t].dev] = req[t].id
          /\ req[t].kind = "get" => raw[req[t].dev] = 0
    /\ \A t, u \in Threads :
          req[t] # NoCall /\ t # u => req[u].dev # req[t].dev /\ req[u].id # req[t].id

\* Every request on the way is waited for, and none is there twice.
OwnInv ==
    /\ \A i \in DOMAIN Way : Way[i].cmd \in Requests => Owned(Way[i])
    /\ \A i, j \in DOMAIN Way :
          i < j /\ Way[i].cmd \in Requests /\ Way[j].cmd \in Requests => Way[i].id # Way[j].id

NoneLate == seen \cap {"late", "overlapped"} = {}
NoneMixed == seen \cap {"mixed", "dead"} = {}

HidReqInv ==
    /\ HidTypes
    /\ Connection
    /\ GoneInv
    /\ StoredInv
    /\ AskedInv
    /\ "empty" \in seen \/ EnumInv
    /\ NoneLate => CallInv /\ OwnInv /\ NoneMixed
-----------------------------------------------------------------------------
(***************************************************************************)
(* The packets on their way.  Sent ones come last, the driver has the      *)
(* first, the end of the connection drops all, and the firmware keeps the  *)
(* order, drops some, and says in an answer to "enum" what it has.         *)
(***************************************************************************)
LEMMA WayTypes ==
    ASSUME HidTypes
    PROVE  /\ Way \in Seq(Packet) /\ Len(Way) \in Nat /\ DOMAIN Way = 1 .. Len(Way)
           /\ \A i \in DOMAIN Way : Way[i] \in Packet
<1>1. toFw \in Seq(Packet) /\ fromFw \in Seq(Packet)
    BY DEF HidTypes, QueueTypes
<1>2. Way \in Seq(Packet)
    BY <1>1, ConcatProperties DEF Way
<1>3. Len(Way) \in Nat /\ DOMAIN Way = 1 .. Len(Way)
    BY <1>2, LenProperties
<1> QED
    BY <1>2, <1>3, ElementOfSeq

LEMMA WaySame ==
    ASSUME UNCHANGED <<toFw, fromFw>>
    PROVE  Way' = Way
BY DEF Way

\* The end of the connection drops every packet.
LEMMA WayDropped ==
    ASSUME toFw' = <<>>, fromFw' = <<>>
    PROVE  DOMAIN Way' = {} /\ toFw' \in Seq(Packet) /\ fromFw' \in Seq(Packet)
<1>1. <<>> \in Seq(Packet) /\ Len(<<>>) = 0
    BY EmptySeq
<1>2. Way' = <<>>
    BY <1>1, ConcatEmptySeq DEF Way
<1> QED
    BY <1>1, <1>2

LEMMA WaySent ==
    ASSUME HidTypes, NEW m \in Packet, toFw' = Append(toFw, m), fromFw' = fromFw
    PROVE  /\ toFw' \in Seq(Packet)
           /\ DOMAIN Way = 1 .. Len(Way) /\ Len(Way) \in Nat
           /\ DOMAIN Way' = 1 .. Len(Way) + 1
           /\ \A i \in 1 .. Len(Way) : Way'[i] = Way[i]
           /\ Way'[Len(Way) + 1] = m
<1>1. toFw \in Seq(Packet) /\ fromFw \in Seq(Packet)
    BY DEF HidTypes, QueueTypes
<1>2. Way \in Seq(Packet) /\ Len(Way) \in Nat /\ DOMAIN Way = 1 .. Len(Way)
    BY WayTypes
<1>3. Append(toFw, m) = toFw \o <<m>> /\ Append(toFw, m) \in Seq(Packet) /\ <<m>> \in Seq(Packet)
    BY <1>1, AppendIsConcat, AppendProperties
<1>4. Way' = Way \o <<m>>
    BY <1>1, <1>3, ConcatAssociative DEF Way
<1>5. Way' = Append(Way, m)
    BY <1>2, <1>4, AppendIsConcat
<1>6. /\ Append(Way, m) \in Seq(Packet) /\ Len(Append(Way, m)) = Len(Way) + 1
      /\ \A i \in 1 .. Len(Way) : Append(Way, m)[i] = Way[i]
      /\ Append(Way, m)[Len(Way) + 1] = m
    BY <1>2, AppendProperties
<1>7. DOMAIN Append(Way, m) = 1 .. Len(Way) + 1
    BY <1>6, LenProperties
<1> QED
    BY <1>1, <1>2, <1>3, <1>5, <1>6, <1>7

LEMMA WayTaken ==
    ASSUME HidTypes, Received, Take
    PROVE  /\ fromFw' \in Seq(Packet)
           /\ Len(Way) \in Nat \ {0} /\ DOMAIN Way = 1 .. Len(Way)
           /\ Message = Way[1] /\ Message \in Packet
           /\ DOMAIN Way' = 1 .. Len(Way) - 1
           /\ \A i \in 1 .. Len(Way) - 1 : Way'[i] = Way[i + 1]
<1> DEFINE a == Len(fromFw)
           b == Len(toFw)
<1>1. toFw \in Seq(Packet) /\ fromFw \in Seq(Packet) /\ fromFw # <<>> /\ a \in Nat /\ b \in Nat
    BY LenProperties DEF HidTypes, QueueTypes, Received
<1>2. a \in Nat \ {0}
    BY <1>1, EmptySeq
<1>3. /\ Way \in Seq(Packet) /\ Len(Way) = a + b
      /\ \A i \in 1 .. a + b : Way[i] = IF i <= a THEN fromFw[i] ELSE toFw[i - a]
    BY <1>1, ConcatProperties DEF Way
<1>4. /\ Tail(fromFw) \in Seq(Packet) /\ Len(Tail(fromFw)) = a - 1
      /\ \A i \in 1 .. a - 1 : Tail(fromFw)[i] = fromFw[i + 1]
      /\ Head(fromFw) \in Packet
    BY <1>1, HeadTailProperties
<1>5. Head(fromFw) = fromFw[1]
    BY <1>1
<1>6. Way' = Tail(fromFw) \o toFw /\ fromFw' = Tail(fromFw)
    BY DEF Way, Take
<1>7. /\ Way' \in Seq(Packet) /\ Len(Way') = (a - 1) + b
      /\ \A i \in 1 .. (a - 1) + b :
            Way'[i] = IF i <= a - 1 THEN Tail(fromFw)[i] ELSE toFw[i - (a - 1)]
    BY <1>1, <1>4, <1>6, ConcatProperties
<1>8. DOMAIN Way = 1 .. Len(Way) /\ DOMAIN Way' = 1 .. Len(Way')
    BY <1>3, <1>7, LenProperties
<1>9. Message = fromFw[1]
    BY <1>5 DEF Message
<1> HIDE DEF a, b
<1>10. ASSUME NEW i \in 1 .. (a + b) - 1
       PROVE  Way'[i] = Way[i + 1]
    <2>1. i \in 1 .. (a - 1) + b /\ i + 1 \in 1 .. a + b /\ (i <= a - 1 <=> i + 1 <= a)
        BY <1>1, <1>2
    <2>2. CASE i <= a - 1
        <3>1. Way'[i] = Tail(fromFw)[i] /\ Way[i + 1] = fromFw[i + 1]
            BY <1>3, <1>7, <2>1, <2>2
        <3>2. i \in 1 .. a - 1
            BY <1>2, <2>2
        <3> QED
            BY <1>4, <3>1, <3>2
    <2>3. CASE ~(i <= a - 1)
        <3>1. Way'[i] = toFw[i - (a - 1)] /\ Way[i + 1] = toFw[(i + 1) - a]
            BY <1>3, <1>7, <2>1, <2>3
        <3>2. i - (a - 1) = (i + 1) - a
            BY <1>2
        <3> QED
            BY <3>1, <3>2
    <2> QED
        BY <2>2, <2>3
<1>11. 1 \in 1 .. a + b /\ 1 <= a /\ (a - 1) + b = (a + b) - 1 /\ a + b \in Nat \ {0}
    BY <1>1, <1>2
<1>12. Way[1] = fromFw[1]
    BY <1>3, <1>11
<1> QED
    BY <1>3, <1>4, <1>5, <1>6, <1>7, <1>8, <1>9, <1>10, <1>11, <1>12

\* The same without arithmetic
LEMMA WayGrows ==
    ASSUME HidTypes, NEW m \in Packet, toFw' = Append(toFw, m), fromFw' = fromFw
    PROVE  /\ \A i \in DOMAIN Way' : (i \in DOMAIN Way /\ Way'[i] = Way[i]) \/ Way'[i] = m
           /\ \A i, j \in DOMAIN Way' : i < j => i \in DOMAIN Way /\ Way'[i] = Way[i]
BY WaySent

\* process_recv has the first packet on the way.
LEMMA FirstOnWay ==
    ASSUME HidTypes, fromFw # <<>> PROVE 1 \in DOMAIN Way /\ Message = Way[1]
<1>1. toFw \in Seq(Packet) /\ fromFw \in Seq(Packet) /\ Len(fromFw) \in Nat /\ Len(toFw) \in Nat
    BY LenProperties DEF HidTypes, QueueTypes
<1>2. Len(fromFw) # 0
    BY <1>1, EmptySeq
<1>3. /\ Way \in Seq(Packet) /\ Len(Way) = Len(fromFw) + Len(toFw)
      /\ \A i \in 1 .. Len(fromFw) + Len(toFw) :
            Way[i] = IF i <= Len(fromFw) THEN fromFw[i] ELSE toFw[i - Len(fromFw)]
    BY <1>1, ConcatProperties DEF Way
<1>4. 1 \in 1 .. Len(fromFw) + Len(toFw) /\ 1 <= Len(fromFw)
    BY <1>1, <1>2
<1>5. DOMAIN Way = 1 .. Len(Way) /\ Way[1] = fromFw[1]
    BY <1>3, <1>4, LenProperties
<1> QED
    BY <1>1, <1>3, <1>4, <1>5 DEF Message

LEMMA WayShifts ==
    ASSUME HidTypes, Received, Take
    PROVE  /\ 1 \in DOMAIN Way /\ Message = Way[1] /\ Message \in Packet
           /\ \A i \in DOMAIN Way' : i + 1 \in DOMAIN Way /\ Way'[i] = Way[i + 1] /\ 1 < i + 1
           /\ \A i, j \in DOMAIN Way' : i < j => i + 1 < j + 1
BY WayTaken

Kept(m, n) == m.cmd = n.cmd /\ m.dev = n.dev /\ (m.cmd # "enum" => m.id = n.id)

\* The firmware answers in order and changes nothing but what "enum" says.
LEMMA WayAnswered ==
    ASSUME HidTypes, FwAnswers
    PROVE  /\ toFw' \in Seq(Packet) /\ fromFw' \in Seq(Packet)
           /\ \E f \in [DOMAIN Way' -> DOMAIN Way] :
                 /\ \A i, j \in DOMAIN Way' : i < j => f[i] < f[j]
                 /\ \A i \in DOMAIN Way' : Kept(Way'[i], Way[f[i]])
           /\ DOMAIN Way' \subseteq Nat /\ DOMAIN Way \subseteq Nat
<1> DEFINE m == Head(toFw)
           x == IF m.cmd = "enum" THEN [m EXCEPT !.id = fwDevs] ELSE m
           a == Len(fromFw)
           b == Len(toFw)
<1>1. /\ toFw \in Seq(Packet) /\ fromFw \in Seq(Packet) /\ toFw # <<>> /\ a \in Nat /\ b \in Nat
      /\ fwDevs \in 0 .. MaxDevs
    BY LenProperties DEF HidTypes, QueueTypes, TableTypes, FwAnswers
<1>2. b \in Nat \ {0}
    BY <1>1, EmptySeq
<1>3. /\ Way \in Seq(Packet) /\ Len(Way) = a + b
      /\ \A i \in 1 .. a + b : Way[i] = IF i <= a THEN fromFw[i] ELSE toFw[i - a]
    BY <1>1, ConcatProperties DEF Way
<1>4. /\ Tail(toFw) \in Seq(Packet) /\ Len(Tail(toFw)) = b - 1
      /\ \A i \in 1 .. b - 1 : Tail(toFw)[i] = toFw[i + 1]
      /\ m \in Packet
    BY <1>1, HeadTailProperties
<1>5. m = toFw[1]
    BY <1>1
<1>6. x \in Packet /\ Kept(x, m)
    <2>1. CASE m.cmd = "enum"
        <3>1. m \in [cmd : {"enum"}, dev : {0}, id : 0 .. MaxDevs]
            BY <1>4, <2>1 DEF Packet, Kinds
        <3>2. x = [cmd |-> "enum", dev |-> 0, id |-> fwDevs]
            BY <2>1, <3>1
        <3> QED
            BY <1>1, <2>1, <3>1, <3>2 DEF Packet, Kept
    <2>2. CASE m.cmd # "enum"
        BY <1>4, <2>2 DEF Kept
    <2> QED
        BY <2>1, <2>2
<1>7. DOMAIN Way = 1 .. a + b
    BY <1>3, LenProperties
<1>8. toFw' = Tail(toFw) /\ (fromFw' = fromFw \/ fromFw' = Append(fromFw, x))
    BY DEF FwAnswers
<1> HIDE DEF m, x, a, b
<1>9. CASE fromFw' = fromFw
    <2> DEFINE f == [i \in 1 .. (a + b) - 1 |-> IF i <= a THEN i ELSE i + 1]
    <2>1. Way' = fromFw \o Tail(toFw)
        BY <1>8, <1>9 DEF Way
    <2>2. /\ Way' \in Seq(Packet) /\ Len(Way') = a + (b - 1)
          /\ \A i \in 1 .. a + (b - 1) :
                Way'[i] = IF i <= a THEN fromFw[i] ELSE Tail(toFw)[i - a]
        <3>1. fromFw \in Seq(Packet) /\ Tail(toFw) \in Seq(Packet)
            BY <1>1, <1>4
        <3>2. Len(fromFw) = a /\ Len(Tail(toFw)) = b - 1
            BY <1>4 DEF a
        <3> QED
            BY <2>1, <3>1, <3>2, ConcatProperties
    <2>3. DOMAIN Way' = 1 .. (a + b) - 1
        BY <1>1, <1>2, <2>2, LenProperties
    <2>4. f \in [1 .. (a + b) - 1 -> 1 .. a + b]
        BY <1>1, <1>2
    <2>5. \A i, j \in 1 .. (a + b) - 1 : i < j => f[i] < f[j]
        BY <1>1, <1>2
    <2>6. ASSUME NEW i \in 1 .. (a + b) - 1
          PROVE  Way'[i] = Way[f[i]]
        <3>1. i \in 1 .. a + (b - 1) /\ i \in 1 .. a + b /\ i + 1 \in 1 .. a + b
            BY <1>1, <1>2
        <3>2. CASE i <= a
            BY <1>3, <2>2, <3>1, <3>2
        <3>3. CASE ~(i <= a)
            <4>1. Way'[i] = Tail(toFw)[i - a]
                BY <2>2, <3>1, <3>3
            <4>2. i - a \in 1 .. b - 1 /\ (i - a) + 1 = (i + 1) - a /\ ~(i + 1 <= a)
                BY <1>1, <1>2, <3>3
            <4>3. Way'[i] = toFw[(i + 1) - a]
                BY <1>4, <4>1, <4>2
            <4>4. Way[i + 1] = toFw[(i + 1) - a]
                BY <1>3, <3>1, <4>2
            <4> QED
                BY <3>3, <4>3, <4>4
        <3> QED
            BY <3>2, <3>3
    <2>7. 1 .. a + b \subseteq Nat /\ 1 .. (a + b) - 1 \subseteq Nat
        BY <1>1
    <2>8. \A i \in 1 .. (a + b) - 1 : Kept(Way'[i], Way[f[i]])
        BY <2>6 DEF Kept
    <2>9. \E g \in [DOMAIN Way' -> DOMAIN Way] :
             /\ \A i, j \in DOMAIN Way' : i < j => g[i] < g[j]
             /\ \A i \in DOMAIN Way' : Kept(Way'[i], Way[g[i]])
        <3> HIDE DEF f
        <3> QED
            BY <1>7, <2>3, <2>4, <2>5, <2>8
    <2> QED
        BY <1>1, <1>4, <1>7, <1>8, <1>9, <2>3, <2>7, <2>9
<1>10. CASE fromFw' = Append(fromFw, x)
    <2> DEFINE f == [i \in 1 .. a + b |-> i]
    <2>1. Way' = Append(fromFw, x) \o Tail(toFw)
        BY <1>8, <1>10 DEF Way
    <2>2. /\ Append(fromFw, x) \in Seq(Packet) /\ Len(Append(fromFw, x)) = a + 1
          /\ \A i \in 1 .. a : Append(fromFw, x)[i] = fromFw[i]
          /\ Append(fromFw, x)[a + 1] = x
        BY <1>1, <1>6, AppendProperties DEF a
    <2>3. /\ Way' \in Seq(Packet) /\ Len(Way') = (a + 1) + (b - 1)
          /\ \A i \in 1 .. (a + 1) + (b - 1) :
                Way'[i] = IF i <= a + 1 THEN Append(fromFw, x)[i] ELSE Tail(toFw)[i - (a + 1)]
        BY <1>4, <2>1, <2>2, ConcatProperties
    <2>4. DOMAIN Way' = 1 .. a + b /\ (a + 1) + (b - 1) = a + b
        BY <1>1, <1>2, <2>3, LenProperties
    <2>5. f \in [1 .. a + b -> 1 .. a + b] /\ 1 .. a + b \subseteq Nat
        BY <1>1, <1>2
    <2>6. \A i, j \in 1 .. a + b : i < j => f[i] < f[j]
        BY <1>1, <1>2
    <2>7. ASSUME NEW i \in 1 .. a + b
          PROVE  Kept(Way'[i], Way[i])
        <3>1. CASE i <= a
            <4>1. i <= a + 1 /\ i \in 1 .. a
                BY <1>1, <3>1
            <4>2. Way'[i] = fromFw[i] /\ Way[i] = fromFw[i]
                BY <1>3, <2>2, <2>3, <2>4, <3>1, <4>1
            <4> QED
                BY <4>2 DEF Kept
        <3>2. CASE i = a + 1
            <4>1. ~(i <= a) /\ i - a = 1 /\ i <= a + 1
                BY <1>1, <3>2
            <4>2. Way'[i] = x /\ Way[i] = m
                BY <1>3, <1>5, <2>2, <2>3, <2>4, <3>2, <4>1
            <4> QED
                BY <1>6, <4>2
        <3>3. CASE ~(i <= a + 1)
            <4>1. /\ i - (a + 1) \in 1 .. b - 1 /\ (i - (a + 1)) + 1 = i - a
                  /\ ~(i <= a)
                BY <1>1, <1>2, <3>3
            <4>2. Way'[i] = Tail(toFw)[i - (a + 1)] /\ Way[i] = toFw[i - a]
                BY <1>3, <2>3, <2>4, <3>3, <4>1
            <4>3. Way'[i] = Way[i]
                BY <1>4, <4>1, <4>2
            <4> QED
                BY <4>3 DEF Kept
        <3> QED
            BY <1>1, <3>1, <3>2, <3>3
    <2>8. \A i \in 1 .. a + b : Kept(Way'[i], Way[f[i]])
        BY <2>7
    <2>9. \E g \in [DOMAIN Way' -> DOMAIN Way] :
             /\ \A i, j \in DOMAIN Way' : i < j => g[i] < g[j]
             /\ \A i \in DOMAIN Way' : Kept(Way'[i], Way[g[i]])
        <3> HIDE DEF f
        <3> QED
            BY <1>7, <2>4, <2>5, <2>6, <2>8
    <2> QED
        BY <1>4, <1>7, <1>8, <1>10, <2>2, <2>4, <2>5, <2>9
<1> QED
    BY <1>8, <1>9, <1>10
-----------------------------------------------------------------------------
(***************************************************************************)
(* Type correctness                                                        *)
(***************************************************************************)
LEMMA Bounds == MaxDevs \in Nat /\ MaxCalls \in Nat
BY BoundsAssumption DEF BoundsAssumption

\* The first state has the types.
LEMMA TypesInit == ASSUME Init PROVE HidTypes
<1>1. MaxDevs \in Nat /\ MaxCalls \in Nat
    BY Bounds
<1>2. <<>> \in Seq(Packet)
    BY EmptySeq
<1>3. QueueTypes
    BY <1>2 DEF Init, QueueTypes
<1>4. task \in Task
    BY DEF Init, FirstProbe, Task, Places, Kinds
<1>5. TableTypes
    <2>1. descr \in [Kinds -> [Devs -> Nat]] /\ descr_done \in [Kinds -> BOOLEAN]
        BY DEF Init
    <2>2. hid_dev_count \in 0 .. MaxDevs /\ num_hid_devices \in 0 .. MaxDevs
        BY <1>1 DEF Init
    <2> QED
        BY <2>1, <2>2 DEF Init, TableTypes
<1>6. CallTypes
    BY <1>1 DEF Init, CallTypes
<1> QED
    BY <1>3, <1>4, <1>5, <1>6 DEF HidTypes

\* Whatever the driver sends is a packet.
LEMMA PacketsMade ==
    ASSUME HidTypes, StoredInv
    PROVE  /\ Msg("enum", 0, 0) \in Packet
           /\ task.pc = "descr" => Msg(task.kind, task.cur, 0) \in Packet
           /\ \A t \in Threads : req[t].pc = "send" =>
                 Msg(IF req[t].kind = "set" THEN "set" ELSE "get", req[t].dev, req[t].id) \in Packet
<1>1. Msg("enum", 0, 0) \in Packet
    <2>1. 0 \in 0 .. MaxDevs
        BY Bounds
    <2>2. Msg("enum", 0, 0) \in [cmd : {"enum"}, dev : {0}, id : 0 .. MaxDevs]
        BY <2>1 DEF Msg
    <2> QED
        BY <2>2 DEF Packet
<1>2. ASSUME task.pc = "descr"
      PROVE  Msg(task.kind, task.cur, 0) \in Packet
    <2>1. task.kind \in Kinds
        BY DEF HidTypes, Task
    <2>2. task.cur \in Devs
        BY <1>2, Bounds DEF HidTypes, TableTypes, StoredInv, Enumerating, Devs
    <2>3. Msg(task.kind, task.cur, 0) \in [cmd : Kinds, dev : Devs, id : {0}]
        BY <2>1, <2>2 DEF Msg
    <2> QED
        BY <2>3 DEF Packet
<1>3. ASSUME NEW t \in Threads, req[t].pc = "send"
      PROVE  Msg(IF req[t].kind = "set" THEN "set" ELSE "get", req[t].dev, req[t].id) \in Packet
    <2>1. req[t] \in Asking
        BY <1>3 DEF HidTypes, CallTypes, NoCall
    <2>2. req[t].dev \in Devs /\ req[t].id \in Nat
        BY <2>1 DEF Asking
    <2>3. \A c \in {"get", "set"} :
             Msg(c, req[t].dev, req[t].id) \in [cmd : {"get", "set"}, dev : Devs, id : Nat]
        BY <2>2 DEF Msg
    <2> QED
        BY <2>3 DEF Packet
<1> QED
    BY <1>1, <1>2, <1>3

\* The queues hold packets.
LEMMA QueuesNext ==
    ASSUME HidTypes, StoredInv, Next PROVE QueueTypes'
<1> SUFFICES toFw' \in Seq(Packet) /\ fromFw' \in Seq(Packet)
    BY DEF QueueTypes
<1>1. toFw \in Seq(Packet) /\ fromFw \in Seq(Packet) /\ <<>> \in Seq(Packet)
    BY EmptySeq DEF HidTypes, QueueTypes
<1>2. CASE FwAnswers
    BY <1>2, WayAnswered
<1>3. CASE FwResets \/ RecvBad
    BY <1>1, <1>3 DEF FwResets, RecvBad, Restart
<1>4. CASE RecvEnum \/ RecvDescr \/ RecvAnswer
    <2>1. Received /\ Take
        BY <1>4 DEF RecvEnum, RecvDescr, RecvAnswer
    <2> QED
        BY <1>1, <2>1, WayTaken DEF Take
<1>5. CASE ResetBegins \/ Connect \/ InitFails
    BY <1>1, <1>5 DEF ResetBegins, Connect, InitFails, Fails
<1>6. CASE EnumSend
    BY <1>1, <1>6, PacketsMade, WaySent DEF EnumSend, Ask, Fails
<1>7. CASE DescrSend
    BY <1>1, <1>7, PacketsMade, WaySent DEF DescrSend, Ask, Fails
<1>8. CASE EnumTimeout
    BY <1>1, <1>8, PacketsMade, WaySent DEF EnumTimeout
<1>9. CASE \/ EnumDone \/ DescrDone \/ ProbeHid \/ InitDone \/ DescrTimeout
           \/ Link \/ NotFound \/ GetDevice
    BY <1>1, <1>9 DEF EnumDone, DescrDone, ProbeHid, InitDone, DescrTimeout, Link, NotFound,
                      GetDevice, link
<1>10. CASE Bus \/ FwBoots \/ FwBootsWithout \/ Suspend \/ Resume
    BY <1>1, <1>10 DEF Bus, RemoveClients, RemoveDevice, FwBoots, FwBootsWithout, Suspend, Resume,
                       link
<1>11. ASSUME NEW t \in Threads, Request(t)
       PROVE  toFw' \in Seq(Packet) /\ fromFw' \in Seq(Packet)
    <2>1. CASE RequestSend(t)
        BY <1>1, <2>1, PacketsMade, WaySent DEF RequestSend
    <2>2. CASE ~RequestSend(t)
        BY <1>1, <1>11, <2>2
           DEF Request, Call, LinkReady, LinkSignal, LinkTimeout, Answered, RequestReturns,
               Unanswered, link
    <2> QED
        BY <2>1, <2>2
<1> QED
    BY <1>2, <1>3, <1>4, <1>5, <1>6, <1>7, <1>8, <1>9, <1>10, <1>11
       DEF Next, ProcessRecv, ClInit, Timeout

\* The updates of the record of hid_ishtp_cl_init
LEMMA TaskUpdates ==
    ASSUME NEW r \in Task, NEW l \in Places
    PROVE  /\ r.pc \in Places
           /\ [r EXCEPT !.pc = l] \in Task
           /\ [r EXCEPT !.pc = l, !.tries = @ + 1] \in Task
           /\ [r EXCEPT !.pc = l, !.reset = TRUE, !.tries = 1] \in Task
           /\ [r EXCEPT !.pc = l, !.waits = 0] \in Task
           /\ [r EXCEPT !.waits = @ + 1, !.pc = l] \in Task
           /\ [r EXCEPT !.pc = l, !.cur = 1, !.kind = "hid"] \in Task
           /\ [r EXCEPT !.pc = l, !.kind = "hid", !.cur = @ + 1] \in Task
           /\ [r EXCEPT !.pc = l, !.kind = "report"] \in Task
<1>1. "hid" \in Kinds /\ "report" \in Kinds /\ 0 \in Nat /\ 1 \in Nat /\ TRUE \in BOOLEAN
    BY DEF Kinds
<1>2. \A n \in Nat : n + 1 \in Nat
    OBVIOUS
<1>3. /\ [r EXCEPT !.pc = l] \in Task
      /\ [r EXCEPT !.pc = l, !.tries = @ + 1] \in Task
      /\ [r EXCEPT !.pc = l, !.reset = TRUE, !.tries = 1] \in Task
    BY <1>1, <1>2 DEF Task
<1>4. /\ [r EXCEPT !.pc = l, !.waits = 0] \in Task
      /\ [r EXCEPT !.waits = @ + 1, !.pc = l] \in Task
    BY <1>1, <1>2 DEF Task
<1>5. /\ [r EXCEPT !.pc = l, !.cur = 1, !.kind = "hid"] \in Task
      /\ [r EXCEPT !.pc = l, !.kind = "hid", !.cur = @ + 1] \in Task
      /\ [r EXCEPT !.pc = l, !.kind = "report"] \in Task
    BY <1>1, <1>2 DEF Task
<1> QED
    BY <1>3, <1>4, <1>5 DEF Task

\* The record of hid_ishtp_cl_init keeps its type.
LEMMA TaskNext ==
    ASSUME HidTypes, StoredInv, Next PROVE task' \in Task
<1>1. task \in Task
    BY DEF HidTypes
<1>2. CASE UNCHANGED task
    BY <1>1, <1>2
<1>3. \A l \in Places : Goto(l) => task' \in Task
    BY <1>1, TaskUpdates DEF Goto
<1>4. \A l \in Places : Retry(l) => task' \in Task
    <2>1. "failed" \in Places
        BY DEF Places, Ended
    <2> QED
        BY <1>1, <2>1, TaskUpdates DEF Retry
<1>5. NextDevice => task' \in Task
    <2>1. "descr" \in Places /\ "done" \in Places
        BY DEF Places
    <2> QED
        BY <1>1, <1>3, <2>1, TaskUpdates DEF NextDevice
<1>6. CASE Link \/ Connect \/ NotFound \/ InitFails
    <2>1. "connect" \in Places /\ "relink" \in Places /\ "lookup" \in Places
        BY DEF Places
    <2>2. "enum" \in Places /\ "dead" \in Places
        BY DEF Places, Ended
    <2>3. CASE Link
        <3>1. Goto("lookup") \/ Goto("dead") \/ Retry("connect") \/ Retry("relink")
            BY <2>3 DEF Link
        <3> QED
            BY <1>3, <1>4, <2>1, <2>2, <3>1
    <2>4. CASE Connect \/ NotFound \/ InitFails
        <3>1. Goto("enum") \/ Retry("connect") \/ Retry("relink")
            BY <2>4 DEF Connect, NotFound, InitFails, Fails
        <3> QED
            BY <1>3, <1>4, <2>1, <2>2, <3>1
    <2> QED
        BY <1>6, <2>3, <2>4
<1>7. CASE ResetBegins
    <2>1. "connect" \in Places /\ "dead" \in Places
        BY DEF Places, Ended
    <2> QED
        BY <1>1, <1>3, <1>7, <2>1, TaskUpdates DEF ResetBegins
<1>8. CASE EnumSend \/ DescrSend
    BY <1>1, <1>3, <1>4, <1>8, TaskUpdates DEF EnumSend, DescrSend, Ask, Fails, Places
<1>9. CASE EnumDone
    BY <1>1, <1>9, TaskUpdates DEF EnumDone, Places
<1>10. CASE EnumTimeout
    <2>1. PICK l \in Places : task' = [task EXCEPT !.waits = @ + 1, !.pc = l]
        BY <1>1, <1>10, TaskUpdates DEF EnumTimeout, Places
    <2> QED
        BY <1>1, <2>1, TaskUpdates
<1>11. CASE InitDone \/ DescrTimeout \/ GetDevice
    BY <1>3, <1>11 DEF InitDone, DescrTimeout, GetDevice, Places, Ended
<1>12. CASE DescrDone \/ ProbeHid
    BY <1>1, <1>3, <1>5, <1>12, TaskUpdates DEF DescrDone, ProbeHid, Places
<1>13. CASE RemoveDevice \/ FwBoots
    <2>1. FirstProbe \in Task /\ "idle" \in Places
        BY DEF FirstProbe, Task, Places, Ended, Kinds
    <2>2. [FirstProbe EXCEPT !.pc = "idle"] \in Task
        BY <2>1, TaskUpdates
    <2>3. task' \in {[FirstProbe EXCEPT !.pc = "idle"], FirstProbe, task}
        BY <1>13 DEF RemoveDevice, FwBoots, Announced
    <2> QED
        BY <1>1, <2>1, <2>2, <2>3
<1> QED
    BY <1>2, <1>6, <1>7, <1>8, <1>9, <1>10, <1>11, <1>12, <1>13
       DEF Next, Bus, RemoveClients, FwBootsWithout, ProcessRecv, ClInit, Timeout, Request,
           FwAnswers, FwResets, RecvBad,
           RecvEnum, RecvDescr, RecvAnswer, Suspend, Resume, Call, LinkReady, LinkSignal,
           LinkTimeout,
           RequestSend, Answered, RequestReturns, Unanswered

\* The devices and their descriptors keep their types.
LEMMA TableNext ==
    ASSUME HidTypes, StoredInv, Next PROVE TableTypes'
<1>1. TableTypes /\ task \in Task /\ MaxDevs \in Nat
    BY Bounds DEF HidTypes
<1>2. CASE UNCHANGED <<fwDevs, flags, table>>
    BY <1>1, <1>2 DEF TableTypes, flags, table
<1>3. CASE FwBoots
    BY <1>1, <1>3 DEF FwBoots, TableTypes, flags, table
<1>4. CASE RecvEnum
    <2>1. Message \in Packet /\ Message.cmd = "enum"
        BY <1>4, WayTaken DEF RecvEnum
    <2>2. Message.id \in 0 .. MaxDevs
        BY <2>1 DEF Packet, Kinds
    <2> QED
        BY <1>1, <1>4, <2>2 DEF RecvEnum, TableTypes, firmware
<1>5. CASE RecvDescr
    <2>1. Message \in Packet /\ Message.cmd \in Kinds
        BY <1>5, WayTaken DEF RecvDescr
    <2>2. Message.dev \in Nat
        BY <2>1 DEF Packet, Kinds, Devs
    <2>3. descr' \in [Kinds -> [Devs -> Nat]] /\ descr_done' \in [Kinds -> BOOLEAN]
        BY <1>1, <1>5, <2>1, <2>2 DEF RecvDescr, TableTypes
    <2> QED
        BY <1>1, <1>5, <2>3 DEF RecvDescr, TableTypes, firmware
<1>6. CASE Link \/ InitDone
    BY <1>1, <1>6 DEF Link, InitDone, TableTypes, firmware, table
<1>7. CASE EnumDone \/ ResetBegins
    BY <1>1, <1>7 DEF EnumDone, ResetBegins, TableTypes, firmware, flags
<1>8. CASE DescrSend
    BY <1>1, <1>8 DEF DescrSend, TableTypes, Task, firmware, table
<1>9. CASE ProbeHid
    <2>1. task.cur \in Devs
        BY <1>1, <1>9 DEF ProbeHid, StoredInv, Enumerating, TableTypes, Devs
    <2> QED
        BY <1>1, <1>9, <2>1 DEF ProbeHid, TableTypes, firmware, flags
<1>10. CASE RemoveDevice
    <2>1. descr' \in [Kinds -> [Devs -> Nat]] /\ descr_done' \in [Kinds -> BOOLEAN]
        BY <1>10 DEF RemoveDevice
    <2>2. hid_dev_count' \in 0 .. MaxDevs /\ num_hid_devices' \in 0 .. MaxDevs
        BY <1>1, <1>10 DEF RemoveDevice
    <2> QED
        BY <1>1, <1>10, <2>1, <2>2 DEF RemoveDevice, TableTypes
<1> QED
    BY <1>2, <1>3, <1>4, <1>5, <1>6, <1>7, <1>8, <1>9, <1>10
       DEF Next, Bus, RemoveClients, FwBootsWithout, ProcessRecv, ClInit, Timeout, Request,
           FwAnswers, FwResets, RecvBad, RecvAnswer, Connect, NotFound, GetDevice, EnumSend,
           DescrDone, InitFails, EnumTimeout, DescrTimeout, Suspend, Resume, Call,
           LinkReady, LinkSignal, LinkTimeout, RequestSend, Answered, RequestReturns, Unanswered,
           Restart, firmware

\* The requests of user threads keep their types.
LEMMA CallTypesNext ==
    ASSUME HidTypes, StoredInv, Next PROVE CallTypes'
<1>1. CallTypes /\ TableTypes
    BY DEF HidTypes
<1>2. CASE UNCHANGED <<requests, calls>>
    BY <1>1, <1>2 DEF CallTypes, requests
<1>3. CASE RecvAnswer
    <2>1. Message \in Packet /\ Message.cmd \in {"get", "set"}
        BY <1>3, WayTaken DEF RecvAnswer
    <2>2. Message.id \in Nat
        BY <2>1 DEF Packet, Kinds
    <2>3. request_done' \in [Devs -> Nat]
        BY <1>1, <1>3, <2>2 DEF RecvAnswer, CallTypes
    <2> QED
        BY <1>1, <1>3, <2>3 DEF RecvAnswer, CallTypes
<1>4. ASSUME NEW t \in Threads, Request(t)
      PROVE  CallTypes'
    <2>1. CASE Call(t)
        <3>1. PICK d \in hubs, kind \in {"raw", "get", "set"} :
                /\ req' = [req EXCEPT ![t] = [kind |-> kind, dev |-> d, id |-> calls,
                                              pc |-> "link"]]
                /\ request_done' = [request_done EXCEPT ![d] = 0]
                /\ raw' = [raw EXCEPT ![d] = CASE kind = "raw" -> calls
                                               [] kind = "get" -> 0
                                               [] kind = "set" -> @]
            BY <2>1 DEF Call
        <3>2. calls \in Nat \ {0} /\ calls' = calls - 1 /\ d \in Devs
            BY <1>1, <2>1 DEF Call, CallTypes, TableTypes
        <3>3. [kind |-> kind, dev |-> d, id |-> calls, pc |-> "link"] \in Asking
            BY <3>2 DEF Asking
        <3>4. req' \in [Threads -> Asking \cup {NoCall}] /\ request_done' \in [Devs -> Nat]
            BY <1>1, <3>1, <3>3 DEF CallTypes
        <3>5. raw' \in [Devs -> Nat]
            BY <1>1, <3>1, <3>2 DEF CallTypes
        <3> QED
            BY <3>2, <3>4, <3>5 DEF CallTypes
    <2>2. ASSUME NEW l \in {"send", "link2", "wait", "clear"}, Step(t, l), req[t] # NoCall
          PROVE  req' \in [Threads -> Asking \cup {NoCall}]
        <3>1. req[t] \in Asking
            BY <1>1, <2>2 DEF CallTypes
        <3>2. [req[t] EXCEPT !.pc = l] \in Asking
            BY <3>1 DEF Asking
        <3> QED
            BY <1>1, <2>2, <3>2 DEF CallTypes, Step
    <2>3. CASE LinkReady(t) \/ LinkSignal(t)
        <3>1. req[t] # NoCall
            BY <2>3 DEF LinkReady, LinkSignal, NoCall
        <3> QED
            BY <1>1, <2>2, <2>3, <3>1 DEF LinkReady, LinkSignal, CallTypes
    <2>4. CASE LinkTimeout(t)
        <3>1. req[t] # NoCall
            BY <2>4 DEF LinkTimeout, NoCall
        <3>2. req' \in [Threads -> Asking \cup {NoCall}]
            BY <1>1, <2>2, <2>4, <3>1 DEF LinkTimeout, CallTypes
        <3> QED
            BY <1>1, <2>4, <3>2 DEF LinkTimeout, CallTypes
    <2>5. CASE RequestSend(t)
        <3>1. req[t] # NoCall
            BY <2>5 DEF RequestSend, NoCall
        <3> QED
            BY <1>1, <2>2, <2>5, <3>1 DEF RequestSend, CallTypes
    <2>6. CASE Answered(t)
        <3>1. req[t] # NoCall
            BY <2>6 DEF Answered, NoCall
        <3> QED
            BY <1>1, <2>2, <2>6, <3>1 DEF Answered, CallTypes
    <2>7. CASE RequestReturns(t)
        BY <1>1, <2>7 DEF RequestReturns, CallTypes
    <2>8. CASE Unanswered(t)
        BY <1>1, <2>8 DEF Unanswered, CallTypes
    <2> QED
        BY <1>4, <2>1, <2>3, <2>4, <2>5, <2>6, <2>7, <2>8 DEF Request
<1>5. CASE RemoveDevice
    BY <1>1, <1>5 DEF RemoveDevice, CallTypes
<1> QED
    BY <1>2, <1>3, <1>4, <1>5
       DEF Next, Bus, RemoveClients, ProcessRecv, ClInit, Timeout, FwAnswers, FwResets, FwBoots,
           FwBootsWithout, RecvBad, RecvEnum, RecvDescr, ResetBegins, Link, Connect, NotFound,
           GetDevice, EnumSend, EnumDone, DescrSend, DescrDone, ProbeHid,
           InitFails, InitDone, EnumTimeout, DescrTimeout, Suspend, Resume
-----------------------------------------------------------------------------
(***************************************************************************)
(* Nothing is on its way without a connection.                             *)
(***************************************************************************)
LEMMA ConnectionNext ==
    ASSUME Connection, Next PROVE Connection'
<1>1. CASE FwAnswers
    BY <1>1 DEF FwAnswers, Connection, firmware
<1>2. CASE FwResets \/ Bus \/ FwBoots \/ FwBootsWithout
    BY <1>2 DEF FwResets, Bus, RemoveClients, RemoveDevice, FwBoots, FwBootsWithout, Restart,
                Connection, link
<1>3. CASE ProcessRecv
    BY <1>3 DEF ProcessRecv, RecvBad, RecvEnum, RecvDescr, RecvAnswer, Received, Take, Restart,
                Connection, firmware
<1>4. CASE ResetBegins \/ Connect \/ InitFails
    BY <1>4 DEF ResetBegins, Connect, InitFails, Fails, Connection, firmware
<1>5. CASE EnumSend \/ DescrSend
    BY <1>5 DEF EnumSend, DescrSend, Ask, Fails, Connection, firmware
<1>6. CASE \/ EnumDone \/ DescrDone \/ ProbeHid \/ InitDone \/ DescrTimeout
           \/ Link \/ NotFound \/ GetDevice
    BY <1>6 DEF EnumDone, DescrDone, ProbeHid, InitDone, DescrTimeout, Link, NotFound, GetDevice,
                Connection, link, firmware
<1>7. CASE EnumTimeout
    BY <1>7 DEF EnumTimeout, Connection, firmware
<1>8. CASE Suspend \/ Resume
    BY <1>8 DEF Suspend, Resume, Connection, link, firmware
<1>9. ASSUME NEW t \in Threads, Request(t)
      PROVE  Connection'
    <2>1. CASE RequestSend(t)
        BY <2>1 DEF RequestSend, Connection, firmware
    <2>2. CASE UNCHANGED <<fw, connected, toFw, fromFw>>
        BY <2>2 DEF Connection
    <2> QED
        BY <1>9, <2>1, <2>2 DEF Request, Call, LinkReady, LinkSignal, LinkTimeout, Answered,
                                RequestReturns,
                                Unanswered, link, firmware
<1> QED
    BY <1>1, <1>2, <1>3, <1>4, <1>5, <1>6, <1>7, <1>8, <1>9 DEF Next, ClInit, Timeout

\* Only a reset of the firmware probes a removed device again.
LEMMA GoneNext ==
    ASSUME HidTypes, GoneInv, Next PROVE GoneInv'
<1>1. task \in Task
    BY DEF HidTypes
<1>2. CASE UNCHANGED <<device, task, work, init_done>>
    BY <1>2 DEF GoneInv
<1>3. CASE RemoveClients
    BY <1>3 DEF RemoveClients, GoneInv, flags
<1>4. CASE RemoveDevice
    BY <1>4 DEF RemoveDevice, FirstProbe, GoneInv
<1>5. CASE FwBoots
    BY <1>5 DEF FwBoots, Announced, GoneInv, flags
<1>6. CASE ResetBegins \/ GetDevice
    BY <1>6 DEF ResetBegins, GetDevice, GoneInv, firmware, flags
<1>7. CASE ClInit /\ ~ResetBegins /\ ~GetDevice
    <2>1. task.pc # "idle" /\ UNCHANGED <<device, work>>
        BY <1>7 DEF ClInit, Link, Connect, NotFound, EnumSend, EnumDone, DescrSend, DescrDone,
                    ProbeHid, InitFails, InitDone, firmware
    <2> QED
        BY <2>1 DEF GoneInv
<1>8. CASE Timeout
    <2>1. task.pc # "idle" /\ UNCHANGED <<device, work>>
        BY <1>8 DEF Timeout, EnumTimeout, DescrTimeout, firmware
    <2> QED
        BY <2>1 DEF GoneInv
<1>9. ASSUME NEW t \in Threads, Request(t)
      PROVE  UNCHANGED <<device, task, work, init_done>>
    BY <1>9 DEF Request, Call, LinkReady, LinkSignal, LinkTimeout, RequestSend, Answered,
                RequestReturns, Unanswered, firmware, flags
<1>10. CASE \/ FwAnswers \/ FwResets \/ FwBootsWithout \/ ProcessRecv \/ Suspend \/ Resume
    BY <1>2, <1>10 DEF FwAnswers, FwResets, FwBootsWithout, ProcessRecv, RecvBad, RecvEnum,
                       RecvDescr, RecvAnswer, Suspend, Resume, firmware, flags
<1> QED
    BY <1>2, <1>3, <1>4, <1>5, <1>6, <1>7, <1>8, <1>9, <1>10 DEF Next, Bus

(***************************************************************************)
(* The descriptors are stored where they belong.                           *)
(***************************************************************************)
LEMMA StoredNext ==
    ASSUME HidTypes, GoneInv, StoredInv, AskedInv, Next PROVE StoredInv'
<1>1. task \in Task /\ num_hid_devices \in Nat /\ TableTypes /\ MaxDevs \in Nat
    BY Bounds DEF HidTypes, TableTypes
<1>2. ASSUME UNCHANGED descr, NEW n \in Nat
      PROVE  StoredTo(n)' <=> StoredTo(n)
    BY <1>2 DEF StoredTo, DescrOK
<1>3. StoredTo(0)
    BY DEF StoredTo
<1>4. CASE UNCHANGED <<task, init_done, num_hid_devices, descr, descr_done>>
    BY <1>4 DEF StoredInv, Enumerating, Initializing, StoredTo, DescrOK
<1>5. ASSUME NEW l \in {"connect", "relink"}, Retry(l),
             UNCHANGED <<num_hid_devices, descr, init_done>>,
             task.pc = l \/ Initializing
      PROVE  StoredInv'
    <2>1. task'.pc \in {l, "failed"}
        BY <1>1, <1>5 DEF Retry, Task
    <2>2. init_done' => l = "connect" /\ num_hid_devices' = 0
        BY <1>5 DEF StoredInv, Initializing
    <2>3. StoredTo(0)'
        BY <1>3, <1>5 DEF StoredTo, DescrOK
    <2> QED
        BY <2>1, <2>2, <2>3 DEF StoredInv, Enumerating, Initializing, Ended
<1>6. ASSUME task'.pc \in {"lookup", "enum", "enumWait", "fail", "dead"}, ~init_done'
      PROVE  StoredInv'
    BY <1>6 DEF StoredInv, Enumerating, Initializing, Ended
<1>7. CASE RecvDescr
    <2>1. /\ Message \in Packet /\ Message = Way[1] /\ 1 \in DOMAIN Way /\ Message.cmd \in Kinds
        BY <1>7, WayTaken DEF RecvDescr
    <2>2. /\ task.pc \in {"descrWait", "fail"}
          /\ task.pc = "descrWait" => Message.cmd = task.kind /\ Message.dev = task.cur
        BY <2>1 DEF AskedInv
    <2>3. UNCHANGED <<task, init_done, num_hid_devices>> /\ ~init_done
        BY <1>7 DEF RecvDescr
    <2>4. CASE task.pc = "fail"
        BY <1>6, <2>3, <2>4
    <2>5. CASE task.pc = "descrWait"
        <3>1. descr' = [descr EXCEPT ![task.kind][task.cur] = task.cur]
            BY <1>7, <2>2, <2>5 DEF RecvDescr
        <3>2. /\ task.cur \in 1 .. num_hid_devices /\ StoredTo(task.cur - 1)
              /\ task.kind = "report" => DescrOK("hid", task.cur)
            BY <2>5 DEF StoredInv, Enumerating
        <3>3. task.cur \in Devs /\ task.kind \in Kinds
            BY <1>1, <3>2 DEF Task, TableTypes, Devs
        <3>4. \A k \in Kinds, i \in Devs : descr'[k][i] = IF k = task.kind /\ i = task.cur
                                                          THEN i ELSE descr[k][i]
            BY <1>1, <3>1, <3>3 DEF TableTypes
        <3>5. DescrOK(task.kind, task.cur)'
            BY <2>3, <3>3, <3>4 DEF DescrOK
        <3>6. task.kind = "report" => DescrOK("hid", task.cur)'
            BY <2>3, <3>2, <3>3, <3>4 DEF DescrOK, Kinds
        <3>7. 1 .. task.cur - 1 \subseteq Devs
            BY <1>1, <3>2, <3>3 DEF Devs
        <3>8. StoredTo(task.cur - 1)'
            BY <2>3, <3>2, <3>4, <3>7 DEF StoredTo, DescrOK
        <3> QED
            BY <2>3, <2>5, <3>2, <3>5, <3>6, <3>8 DEF StoredInv, Enumerating, Initializing
    <2> QED
        BY <2>2, <2>4, <2>5
<1>8. CASE ResetBegins
    <2>1. CASE num_hid_devices' = 0 /\ task' = [task EXCEPT !.pc = "connect", !.reset = TRUE, !.tries = 1]
        <3>1. task'.pc = "connect"
            BY <1>1, <2>1 DEF Task
        <3> QED
            BY <2>1, <3>1 DEF StoredInv, Enumerating, Initializing, Ended
    <2>2. CASE Goto("dead") /\ UNCHANGED num_hid_devices
        <3>1. task'.pc = "dead" /\ task.pc \in Ended /\ UNCHANGED <<init_done, descr>>
            BY <1>1, <1>8, <2>2 DEF ResetBegins, Goto, Task, Ended, flags
        <3> QED
            BY <2>2, <3>1 DEF StoredInv, Enumerating, Initializing, Ended, StoredTo, DescrOK
    <2> QED
        BY <1>8, <2>1, <2>2 DEF ResetBegins
<1>9. CASE Link \/ Connect \/ NotFound
    <2>1. UNCHANGED <<num_hid_devices, descr>>
        BY <1>9 DEF Link, Connect, NotFound, table
    <2>2. CASE Link
        <3>1. CASE Goto("lookup") /\ init_done' = FALSE
            BY <1>1, <1>6, <3>1 DEF Goto, Task
        <3>2. CASE task.pc # "connect" /\ Goto("dead") /\ UNCHANGED init_done
            BY <1>1, <1>6, <2>2, <3>2 DEF Link, Goto, Task, StoredInv, Initializing
        <3>3. CASE Retry(task.pc) /\ UNCHANGED init_done
            BY <1>5, <2>1, <2>2, <3>3 DEF Link
        <3> QED
            BY <2>2, <3>1, <3>2, <3>3 DEF Link
    <2>3. CASE Connect \/ NotFound
        <3>1. UNCHANGED init_done /\ ~init_done /\ Initializing
            BY <2>3 DEF Connect, NotFound, StoredInv, Initializing, flags
        <3>2. CASE Goto("enum")
            BY <1>1, <1>6, <3>1, <3>2 DEF Goto, Task
        <3>3. CASE Retry("connect") \/ Retry("relink")
            BY <1>5, <2>1, <3>1, <3>3
        <3> QED
            BY <2>3, <3>2, <3>3 DEF Connect, NotFound, Fails
    <2> QED
        BY <1>9, <2>2, <2>3
<1>10. CASE EnumSend
    <2>1. Initializing /\ ~init_done /\ UNCHANGED <<init_done, num_hid_devices, descr>>
        BY <1>10 DEF EnumSend, StoredInv, Initializing, flags, table
    <2>2. CASE task'.pc = "enumWait"
        BY <1>6, <2>1, <2>2
    <2>3. CASE Fails
        BY <1>5, <2>1, <2>3 DEF Fails
    <2> QED
        BY <1>1, <1>10, <2>2, <2>3 DEF EnumSend, Ask, Task
<1>11. CASE EnumDone
    <2>1. ~init_done' /\ UNCHANGED descr /\ num_hid_devices' = hid_dev_count
        BY <1>11 DEF EnumDone, StoredInv, Initializing, flags
    <2>2. CASE hid_dev_count = 0
        <3>1. task'.pc = "done"
            BY <1>1, <1>11, <2>2 DEF EnumDone, Task
        <3>2. StoredTo(0)'
            BY <1>3, <2>1 DEF StoredTo, DescrOK
        <3> QED
            BY <2>1, <2>2, <3>1, <3>2 DEF StoredInv, Enumerating, Initializing
    <2>3. CASE hid_dev_count # 0
        <3>1. task'.pc = "descr" /\ task'.cur = 1 /\ task'.kind = "hid"
            BY <1>1, <1>11, <2>3 DEF EnumDone, Task
        <3>2. 1 \in 1 .. num_hid_devices' /\ task'.cur - 1 = 0
            BY <1>1, <2>1, <2>3, <3>1 DEF TableTypes
        <3>3. StoredTo(task.cur - 1)'
            BY <1>3, <2>1, <3>2 DEF StoredTo, DescrOK
        <3> QED
            BY <2>1, <3>1, <3>2, <3>3 DEF StoredInv, Enumerating, Initializing
    <2> QED
        BY <2>2, <2>3
<1>12. CASE DescrSend
    <2>1. /\ Enumerating /\ Initializing /\ ~init_done /\ UNCHANGED <<init_done, num_hid_devices, descr>>
          /\ task.kind \in Kinds
        BY <1>1, <1>12 DEF DescrSend, StoredInv, Initializing, Enumerating, table, Task
    <2>2. CASE Goto("descrWait")
        <3>1. task'.pc = "descrWait" /\ task'.cur = task.cur /\ task'.kind = task.kind
            BY <1>1, <2>2 DEF Goto, Task
        <3>2. ~descr_done'[task'.kind]
            BY <1>1, <1>12, <2>1, <3>1 DEF DescrSend, TableTypes
        <3>3. /\ task'.cur \in 1 .. num_hid_devices'
              /\ StoredTo(task.cur - 1)'
              /\ task'.kind = "report" => DescrOK("hid", task.cur)'
            BY <2>1, <3>1 DEF StoredInv, StoredTo, DescrOK
        <3> QED
            BY <2>1, <3>1, <3>2, <3>3 DEF StoredInv, Enumerating, Initializing
    <2>3. CASE Fails
        BY <1>5, <2>1, <2>3 DEF Fails
    <2> QED
        BY <1>12, <2>2, <2>3 DEF DescrSend, Ask
<1>13. ASSUME NextDevice, Enumerating, task.kind = "report", DescrOK("report", task.cur),
              UNCHANGED <<init_done, num_hid_devices, descr>>
       PROVE  StoredInv'
    <2>1. /\ ~init_done' /\ task.cur \in 1 .. num_hid_devices /\ StoredTo(task.cur - 1)
          /\ DescrOK("hid", task.cur)
        BY <1>13 DEF StoredInv, Initializing
    <2>2. \A i \in 1 .. task.cur : i \in 1 .. task.cur - 1 \/ i = task.cur
        BY <1>1 DEF Task
    <2>3. StoredTo(task.cur)
        BY <1>13, <2>1, <2>2 DEF StoredTo, Kinds
    <2>4. CASE task.cur < num_hid_devices
        <3>1. task'.pc = "descr" /\ task'.cur = task.cur + 1 /\ task'.kind = "hid"
            BY <1>1, <1>13, <2>4 DEF NextDevice, Task
        <3>2. task'.cur - 1 = task.cur /\ task'.cur \in 1 .. num_hid_devices'
            BY <1>1, <1>13, <2>1, <2>4, <3>1 DEF Task
        <3>3. StoredTo(task.cur - 1)'
            BY <1>13, <2>3, <3>2 DEF StoredTo, DescrOK
        <3> QED
            BY <2>1, <3>1, <3>2, <3>3 DEF StoredInv, Enumerating, Initializing
    <2>5. CASE ~(task.cur < num_hid_devices)
        <3>1. task'.pc = "done" /\ task.cur = num_hid_devices
            BY <1>1, <1>13, <2>1, <2>5 DEF NextDevice, Goto, Task
        <3>2. StoredTo(num_hid_devices)'
            BY <1>13, <2>3, <3>1 DEF StoredTo, DescrOK
        <3> QED
            BY <2>1, <3>1, <3>2 DEF StoredInv, Enumerating, Initializing
    <2> QED
        BY <2>4, <2>5
<1>14. CASE DescrDone
    <2>1. /\ Enumerating /\ ~init_done /\ UNCHANGED <<init_done, num_hid_devices, descr>>
          /\ task.kind \in Kinds /\ DescrOK(task.kind, task.cur)
        BY <1>1, <1>14 DEF DescrDone, StoredInv, Initializing, Enumerating, flags, table, Task
    <2>2. /\ task.cur \in 1 .. num_hid_devices /\ StoredTo(task.cur - 1)
          /\ task.kind = "report" => DescrOK("hid", task.cur)
        BY <2>1 DEF StoredInv
    <2>3. CASE task.kind = "hid"
        <3>1. task'.pc = "descr" /\ task'.cur = task.cur /\ task'.kind = "report"
            BY <1>1, <1>14, <2>3 DEF DescrDone, Task
        <3>2. StoredTo(task.cur - 1)' /\ DescrOK("hid", task.cur)'
            BY <2>1, <2>2, <2>3, <3>1 DEF StoredTo, DescrOK
        <3> QED
            BY <2>1, <2>2, <3>1, <3>2 DEF StoredInv, Enumerating, Initializing
    <2>4. CASE task.kind # "hid" /\ task.reset
        BY <1>13, <1>14, <2>1, <2>4 DEF DescrDone, Kinds
    <2>5. CASE task.kind # "hid" /\ ~task.reset
        <3>1. task'.pc = "probe" /\ task'.cur = task.cur /\ task'.kind = "report" /\ task.kind = "report"
            BY <1>1, <1>14, <2>1, <2>5 DEF DescrDone, Goto, Task, Kinds
        <3>2. /\ StoredTo(task.cur - 1)'
              /\ DescrOK("hid", task.cur)' /\ DescrOK("report", task.cur)'
            BY <2>1, <2>2, <3>1 DEF StoredTo, DescrOK
        <3> QED
            BY <2>1, <2>2, <3>1, <3>2 DEF StoredInv, Enumerating, Initializing
    <2> QED
        BY <2>3, <2>4, <2>5
<1>15. CASE ProbeHid
    <2>1. /\ Enumerating /\ ~init_done /\ UNCHANGED <<init_done, num_hid_devices, descr>>
          /\ task.kind = "report" /\ DescrOK("report", task.cur)
        BY <1>15 DEF ProbeHid, StoredInv, Initializing, Enumerating, flags
    <2>2. CASE NextDevice
        BY <1>13, <2>1, <2>2
    <2>3. CASE Goto("fail")
        BY <1>1, <1>6, <2>1, <2>3 DEF Goto, Task
    <2> QED
        BY <1>15, <2>2, <2>3 DEF ProbeHid
<1>16. CASE InitFails
    BY <1>5, <1>16 DEF InitFails, Fails, Initializing, flags, table
<1>17. CASE InitDone
    <2>1. /\ task'.pc \in {"idle", "hold"} /\ UNCHANGED <<num_hid_devices, descr>>
          /\ StoredTo(num_hid_devices)
        BY <1>1, <1>17 DEF InitDone, Goto, Task, table, StoredInv
    <2> QED
        BY <2>1 DEF StoredInv, Enumerating, Initializing, StoredTo, DescrOK
<1>18. CASE EnumTimeout \/ DescrTimeout
    <2>1. ~init_done'
        BY <1>18 DEF EnumTimeout, DescrTimeout, StoredInv, Initializing, Enumerating, flags
    <2>2. task'.pc \in {"enumWait", "fail"}
        BY <1>1, <1>18 DEF EnumTimeout, DescrTimeout, Goto, Task
    <2> QED
        BY <1>6, <2>1, <2>2
<1>19. ASSUME NEW t \in Threads, Request(t)
       PROVE  UNCHANGED <<task, init_done, num_hid_devices, descr, descr_done>>
    BY <1>19 DEF Request, Call, LinkReady, LinkSignal, LinkTimeout, RequestSend, Answered,
                 RequestReturns,
                 Unanswered, flags, table
<1>20. CASE \/ FwAnswers \/ FwResets \/ RemoveClients \/ FwBootsWithout \/ RecvBad \/ RecvEnum
            \/ RecvAnswer \/ Suspend \/ Resume
    BY <1>4, <1>20 DEF FwAnswers, FwResets, RemoveClients, FwBootsWithout, RecvBad, RecvEnum,
                       RecvAnswer, Suspend, Resume, flags, table
<1>21. CASE GetDevice
    <2>1. /\ task'.pc = "idle" /\ task.pc \in Ended
          /\ UNCHANGED <<init_done, num_hid_devices, descr>>
        BY <1>1, <1>21 DEF GetDevice, Goto, Task, Ended, flags, table
    <2> QED
        BY <2>1 DEF StoredInv, Enumerating, Initializing, Ended, StoredTo, DescrOK
<1>22. CASE RemoveDevice
    <2>1. task'.pc = "idle" /\ ~init_done'
        BY <1>22 DEF RemoveDevice, FirstProbe
    <2> QED
        BY <2>1 DEF StoredInv, Enumerating, Initializing, Ended
<1>23. CASE FwBoots
    <2>1. CASE device = "gone"
        <3>1. task'.pc = "connect" /\ ~init_done' /\ UNCHANGED init_done
            BY <1>23, <2>1 DEF FwBoots, Announced, FirstProbe, GoneInv, flags
        <3> QED
            BY <3>1 DEF StoredInv, Enumerating, Initializing, Ended
    <2>2. CASE device # "gone"
        BY <1>4, <1>23, <2>2 DEF FwBoots, Announced, flags, table
    <2> QED
        BY <2>1, <2>2
<1> QED
    BY <1>4, <1>7, <1>8, <1>9, <1>10, <1>11, <1>12, <1>14, <1>15, <1>16, <1>17, <1>18, <1>19, <1>20,
       <1>21, <1>22, <1>23
       DEF Next, Bus, ProcessRecv, ClInit, Timeout
-----------------------------------------------------------------------------
(***************************************************************************)
(* One descriptor is asked for at a time.                                  *)
(***************************************************************************)
LEMMA AskedNext ==
    ASSUME HidTypes, GoneInv, StoredInv, AskedInv, Next PROVE AskedInv'
<1> DEFINE NoKinds == \A i \in DOMAIN Way : Way[i].cmd \notin Kinds
<1>1. /\ task \in Task
      /\ "enum" \notin Kinds /\ "get" \notin Kinds /\ "set" \notin Kinds
    BY DEF HidTypes, Kinds
<1>2. NoKinds' => AskedInv'
    BY DEF AskedInv
<1>3. task.pc \notin {"descrWait", "fail"} => NoKinds
    BY DEF AskedInv
<1>4. ASSUME toFw' = <<>>, fromFw' = <<>>
      PROVE  AskedInv'
    BY <1>2, <1>4, WayDropped
<1>5. ASSUME UNCHANGED <<toFw, fromFw, task, descr_done>>
      PROVE  AskedInv'
    BY <1>5, WaySame DEF AskedInv
<1>6. ASSUME UNCHANGED <<toFw, fromFw>>, NoKinds
      PROVE  AskedInv'
    <2>1. NoKinds'
        BY <1>6, WaySame
    <2> QED
        BY <1>2, <2>1
<1>7. ASSUME NEW m \in Packet, m.cmd \notin Kinds, toFw' = Append(toFw, m), fromFw' = fromFw,
             NoKinds
      PROVE  AskedInv'
    <2>1. NoKinds'
        BY <1>7, WayGrows
    <2> QED
        BY <1>2, <2>1
<1>8. CASE FwAnswers
    <2>1. PICK f \in [DOMAIN Way' -> DOMAIN Way] :
             /\ \A i, j \in DOMAIN Way' : i < j => f[i] < f[j]
             /\ \A i \in DOMAIN Way' : Kept(Way'[i], Way[f[i]])
        BY <1>8, WayAnswered
    <2>2. UNCHANGED <<task, descr_done>>
        BY <1>8 DEF FwAnswers, flags
    <2> QED
        BY <2>1, <2>2 DEF AskedInv, Kept
<1>9. CASE FwResets \/ RecvBad \/ ResetBegins
    BY <1>4, <1>9 DEF FwResets, RecvBad, ResetBegins, Restart
<1>10. CASE RecvEnum \/ RecvAnswer
    <2>1. Received /\ Take /\ UNCHANGED <<task, descr_done>>
        BY <1>10 DEF RecvEnum, RecvAnswer, flags
    <2>2. /\ \A i \in DOMAIN Way' : i + 1 \in DOMAIN Way /\ Way'[i] = Way[i + 1]
          /\ \A i, j \in DOMAIN Way' : i < j => i + 1 < j + 1
        BY <2>1, WayShifts
    <2> QED
        BY <2>1, <2>2 DEF AskedInv
<1>11. CASE RecvDescr
    <2>1. Received /\ Take /\ Message.cmd \in Kinds
        BY <1>11 DEF RecvDescr
    <2>2. /\ 1 \in DOMAIN Way /\ Way[1].cmd \in Kinds
          /\ \A i \in DOMAIN Way' : i + 1 \in DOMAIN Way /\ Way'[i] = Way[i + 1] /\ 1 < i + 1
        BY <2>1, WayShifts
    <2>3. NoKinds'
        BY <2>2 DEF AskedInv
    <2> QED
        BY <1>2, <2>3
<1>12. CASE Link \/ Connect \/ NotFound
    <2>1. NoKinds
        BY <1>3, <1>12 DEF Link, Connect, NotFound
    <2> QED
        BY <1>4, <1>6, <1>12, <2>1 DEF Link, Connect, NotFound, Fails, link
<1>13. CASE EnumSend
    <2>1. NoKinds /\ Msg("enum", 0, 0) \in Packet /\ Msg("enum", 0, 0).cmd \notin Kinds
        BY <1>1, <1>3, <1>13, PacketsMade DEF EnumSend, Msg
    <2> QED
        BY <1>4, <1>7, <1>13, <2>1 DEF EnumSend, Ask, Fails
<1>14. CASE EnumTimeout
    <2>1. NoKinds /\ Msg("enum", 0, 0) \in Packet /\ Msg("enum", 0, 0).cmd \notin Kinds
        BY <1>1, <1>3, <1>14, PacketsMade DEF EnumTimeout, Msg
    <2> QED
        BY <1>6, <1>7, <1>14, <2>1 DEF EnumTimeout
<1>15. CASE DescrSend
    <2> DEFINE m == Msg(task.kind, task.cur, 0)
    <2>1. NoKinds /\ m \in Packet /\ m.cmd = task.kind /\ m.dev = task.cur
        BY <1>3, <1>15, PacketsMade DEF DescrSend, Msg
    <2> HIDE DEF m
    <2>2. CASE toFw' = Append(toFw, m) /\ fromFw' = fromFw /\ Goto("descrWait")
        <3>1. task'.pc = "descrWait" /\ task'.cur = task.cur /\ task'.kind = task.kind
            BY <1>1, <2>2 DEF Goto, Task
        <3>2. ~descr_done'[task'.kind]
            BY <1>1, <1>15, <3>1 DEF DescrSend, HidTypes, TableTypes, Task
        <3>3. /\ \A i \in DOMAIN Way' : Way'[i].cmd \in Kinds => Way'[i] = m
              /\ \A i, j \in DOMAIN Way' : i < j => Way'[i].cmd \notin Kinds
            BY <2>1, <2>2, WayGrows
        <3> QED
            BY <2>1, <3>1, <3>2, <3>3 DEF AskedInv
    <2>3. CASE Fails
        BY <1>4, <2>3 DEF Fails
    <2> QED
        BY <1>15, <2>2, <2>3 DEF DescrSend, Ask, m
<1>16. CASE EnumDone \/ ProbeHid \/ InitDone \/ GetDevice \/ RemoveDevice
    <2>1. NoKinds /\ UNCHANGED <<toFw, fromFw>>
        BY <1>3, <1>16 DEF EnumDone, ProbeHid, InitDone, GetDevice, RemoveDevice, link
    <2> QED
        BY <1>6, <2>1
<1>17. CASE DescrDone
    <2>1. NoKinds /\ UNCHANGED <<toFw, fromFw>>
        BY <1>17 DEF DescrDone, AskedInv, link
    <2> QED
        BY <1>6, <2>1
<1>18. CASE InitFails
    BY <1>4, <1>18 DEF InitFails, Fails
<1>19. CASE DescrTimeout
    <2>1. task'.pc = "fail" /\ UNCHANGED <<toFw, fromFw>>
        BY <1>1, <1>19 DEF DescrTimeout, Goto, Task, link
    <2> QED
        BY <2>1, WaySame DEF AskedInv
<1>20. CASE FwBoots \/ FwBootsWithout \/ RemoveClients \/ Suspend \/ Resume
    <2>1. UNCHANGED <<toFw, fromFw, descr_done>>
        BY <1>20 DEF FwBoots, FwBootsWithout, RemoveClients, Suspend, Resume, link, flags
    <2>2. UNCHANGED task \/ (FwBoots /\ device = "gone")
        BY <1>20 DEF FwBoots, Announced, FwBootsWithout, RemoveClients, Suspend, Resume
    <2>3. CASE FwBoots /\ device = "gone"
        BY <1>3, <1>6, <2>1, <2>3 DEF GoneInv
    <2> QED
        BY <1>5, <2>1, <2>2, <2>3
<1>21. ASSUME NEW t \in Threads, Request(t)
       PROVE  AskedInv'
    <2>1. CASE RequestSend(t) /\ ~UNCHANGED toFw
        <3> DEFINE m == Msg(IF req[t].kind = "set" THEN "set" ELSE "get", req[t].dev, req[t].id)
        <3>1. /\ toFw' = Append(toFw, m) /\ UNCHANGED <<fromFw, task, descr_done>>
              /\ m \in Packet /\ m.cmd \notin Kinds
            BY <1>1, <2>1, PacketsMade DEF RequestSend, Msg, flags
        <3> HIDE DEF m
        <3>2. /\ \A i \in DOMAIN Way' : (i \in DOMAIN Way /\ Way'[i] = Way[i]) \/ Way'[i] = m
              /\ \A i, j \in DOMAIN Way' : i < j => i \in DOMAIN Way /\ Way'[i] = Way[i]
            BY <3>1, WayGrows
        <3> QED
            BY <3>1, <3>2 DEF AskedInv
    <2>2. CASE UNCHANGED <<toFw, fromFw, task, descr_done>>
        BY <1>5, <2>2
    <2> QED
        BY <1>21, <2>1, <2>2 DEF Request, Call, LinkReady, LinkSignal, LinkTimeout, RequestSend,
                                 Answered,
                                 RequestReturns, Unanswered, link, flags
<1> QED
    BY <1>8, <1>9, <1>10, <1>11, <1>12, <1>13, <1>14, <1>15, <1>16, <1>17, <1>18, <1>19, <1>20, <1>21
       DEF Next, Bus, ProcessRecv, ClInit, Timeout
-----------------------------------------------------------------------------
(***************************************************************************)
(* No answer to the enumeration comes when none is under way.              *)
(***************************************************************************)
Harmless == {"late", "overlapped", "changed", "empty", "unadded", "unresumed", "failed"}

Calm == seen \subseteq seen' /\ seen' \subseteq seen \cup Harmless

\* The races each step may mark
LEMMA MarksMade ==
    ASSUME Next
    PROVE  \/ Calm
           \/ RecvBad /\ seen' = seen \cup {"bad"}
           \/ RecvAnswer /\ seen' = seen \cup {"dead"}
           \/ \E t \in Threads : Answered(t) /\ seen' = seen \cup {"mixed"}
<1>1. ASSUME UNCHANGED seen
      PROVE  Calm
    BY <1>1 DEF Calm
<1>2. \A mark \in Harmless : See({mark}) => Calm
    BY DEF See, Calm
<1>3. GiveUp => Calm
    BY <1>1, <1>2 DEF GiveUp, Harmless
<1>4. /\ Failed => Calm
      /\ \A broken \in BOOLEAN : FailsIf(broken) => Calm
    BY <1>1, <1>2 DEF Failed, FailsIf, Harmless
<1>5. CASE FwAnswers \/ FwResets \/ Bus \/ FwBoots \/ FwBootsWithout
    BY <1>1, <1>2, <1>5 DEF FwAnswers, FwResets, Bus, RemoveClients, RemoveDevice, FwBoots,
                            FwBootsWithout, Harmless
<1>6. CASE RecvEnum \/ RecvDescr
    BY <1>1, <1>2, <1>6 DEF RecvEnum, RecvDescr, SeeIf, See, Harmless
<1>7. CASE RecvBad
    BY <1>7 DEF RecvBad, See
<1>8. CASE RecvAnswer
    BY <1>1, <1>8 DEF RecvAnswer, SeeIf, See
<1>9. CASE ResetBegins \/ EnumDone \/ DescrDone \/ ProbeHid \/ InitDone \/ NotFound \/ GetDevice
    BY <1>1, <1>4, <1>9 DEF ResetBegins, EnumDone, DescrDone, ProbeHid, InitDone, NotFound,
                            GetDevice
<1>10. CASE Link \/ Connect \/ InitFails
    BY <1>1, <1>4, <1>10 DEF Link, Connect, InitFails
<1>11. CASE EnumSend \/ DescrSend
    BY <1>1, <1>4, <1>11 DEF EnumSend, DescrSend, Ask
<1>12. CASE Timeout
    BY <1>3, <1>12 DEF Timeout, EnumTimeout, DescrTimeout
<1>13. CASE Suspend \/ Resume
    BY <1>1, <1>2, <1>13 DEF Suspend, Resume, Harmless
<1>14. ASSUME NEW t \in Threads, Request(t)
       PROVE  Calm \/ (Answered(t) /\ seen' = seen \cup {"mixed"})
    <2>1. CASE Call(t)
        BY <1>1, <1>2, <2>1 DEF Call, SeeIf, See, Harmless
    <2>2. CASE LinkReady(t) \/ LinkSignal(t) \/ RequestSend(t) \/ RequestReturns(t)
        BY <1>1, <2>2 DEF LinkReady, LinkSignal, RequestSend, RequestReturns
    <2>3. CASE LinkTimeout(t) \/ Unanswered(t)
        BY <1>1, <1>3, <2>3 DEF LinkTimeout, Unanswered
    <2>4. CASE Answered(t)
        BY <1>1, <2>4 DEF Answered, SeeIf, See
    <2> QED
        BY <1>14, <2>1, <2>2, <2>3, <2>4 DEF Request
<1> QED
    BY <1>5, <1>6, <1>7, <1>8, <1>9, <1>10, <1>11, <1>12, <1>13, <1>14 DEF Next, ProcessRecv, ClInit

\* EnumInv holds until a firmware without devices has been asked.
LEMMA EnumNext ==
    ASSUME HidTypes, GoneInv, StoredInv, AskedInv, Next, "empty" \in seen \/ EnumInv
    PROVE  "empty" \in seen' \/ EnumInv'
<1> SUFFICES ASSUME "empty" \notin seen' PROVE EnumInv'
    OBVIOUS
<1> DEFINE NoEnum  == \A i \in DOMAIN Way : Way[i].cmd # "enum"
           NoKinds == \A i \in DOMAIN Way : Way[i].cmd \notin Kinds
           Found   == enum_devices_done => hid_dev_count > 0
<1>1. /\ task \in Task /\ TableTypes
      /\ "enum" \notin Kinds /\ "get" \notin Kinds /\ "set" \notin Kinds
    BY DEF HidTypes, Kinds
<1>2. EnumInv
    BY MarksMade DEF Calm
<1>3. ~RecvBad
    <2> SUFFICES ASSUME RecvBad PROVE FALSE
        OBVIOUS
    <2>1. fromFw # <<>> /\ init_done /\ Message.cmd \in {"enum", "hid", "report"}
        BY DEF RecvBad, Received
    <2>2. 1 \in DOMAIN Way /\ Message = Way[1]
        BY FirstOnWay, <2>1
    <2>3. CASE Message.cmd = "enum"
        BY <1>2, <2>1, <2>2, <2>3 DEF EnumInv, StoredInv, Initializing, Enumerating
    <2>4. CASE Message.cmd \in Kinds
        BY <2>1, <2>2, <2>4 DEF AskedInv, StoredInv, Initializing, Enumerating
    <2> QED
        BY <2>1, <2>3, <2>4 DEF Kinds
<1>4. "bad" \notin seen'
    BY <1>2, <1>3, MarksMade DEF Calm, Harmless, EnumInv
<1>5. NoEnum' /\ Found' => EnumInv'
    BY <1>4 DEF EnumInv
<1>6. Found /\ (UNCHANGED <<enum_devices_done, hid_dev_count>> => Found')
    BY <1>2 DEF EnumInv
<1>7. task.pc \notin {"descrWait", "fail"} => NoKinds
    BY DEF AskedInv
<1>8. ASSUME toFw' = <<>>, fromFw' = <<>>, Found'
      PROVE  EnumInv'
    BY <1>5, <1>8, WayDropped
<1>9. ASSUME UNCHANGED <<toFw, fromFw, task, descr_done>>, Found'
      PROVE  EnumInv'
    BY <1>2, <1>4, <1>9, WaySame DEF EnumInv
<1>10. ASSUME UNCHANGED <<toFw, fromFw>>, NoEnum, Found'
       PROVE  EnumInv'
    <2>1. NoEnum'
        BY <1>10, WaySame
    <2> QED
        BY <1>5, <1>10, <2>1
<1>11. CASE FwAnswers
    <2>1. PICK f \in [DOMAIN Way' -> DOMAIN Way] :
             /\ \A i, j \in DOMAIN Way' : i < j => f[i] < f[j]
             /\ \A i \in DOMAIN Way' : Kept(Way'[i], Way[f[i]])
        BY <1>11, WayAnswered
    <2>2. UNCHANGED <<task, descr_done>> /\ Found'
        BY <1>6, <1>11 DEF FwAnswers, flags, table
    <2> QED
        BY <1>2, <1>4, <2>1, <2>2 DEF EnumInv, Kept
<1>12. CASE FwResets \/ ResetBegins
    <2>1. Found'
        BY <1>6, <1>12 DEF FwResets, ResetBegins, flags, table
    <2> QED
        BY <1>8, <1>12, <2>1 DEF FwResets, ResetBegins, Restart
<1>13. CASE RecvEnum \/ RecvAnswer
    <2>1. Received /\ Take /\ UNCHANGED <<task, descr_done>>
        BY <1>13 DEF RecvEnum, RecvAnswer, flags
    <2>2. /\ \A i \in DOMAIN Way' : i + 1 \in DOMAIN Way /\ Way'[i] = Way[i + 1]
          /\ \A i, j \in DOMAIN Way' : i < j => i + 1 < j + 1
          /\ Message \in Packet
        BY <2>1, WayShifts
    <2>3. Found'
        <3>1. CASE RecvAnswer
            BY <1>6, <3>1 DEF RecvAnswer, flags, table
        <3>2. CASE RecvEnum
            <4>1. Message.id \in Nat /\ hid_dev_count' = Message.id
                BY <2>2, <3>2, Bounds DEF RecvEnum, Packet, Kinds
            <4>2. Message.id # 0
                BY <3>2 DEF RecvEnum, SeeIf, See
            <4> QED
                BY <4>1, <4>2
        <3> QED
            BY <1>13, <3>1, <3>2
    <2> QED
        BY <1>2, <1>4, <2>1, <2>2, <2>3 DEF EnumInv
<1>14. CASE RecvDescr
    <2>1. Received /\ Take /\ Message.cmd \in Kinds /\ Found'
        BY <1>6, <1>14 DEF RecvDescr
    <2>2. /\ 1 \in DOMAIN Way /\ Way[1].cmd \in Kinds
          /\ \A i \in DOMAIN Way' : i + 1 \in DOMAIN Way /\ Way'[i] = Way[i + 1] /\ 1 < i + 1
        BY <2>1, WayShifts
    <2>3. NoEnum'
        BY <1>2, <2>2 DEF EnumInv
    <2> QED
        BY <1>5, <2>1, <2>3
<1>15. CASE Link \/ Connect \/ NotFound
    <2>1. NoEnum /\ Found'
        BY <1>2, <1>6, <1>15 DEF Link, Connect, NotFound, EnumInv, flags, table
    <2> QED
        BY <1>8, <1>10, <1>15, <2>1 DEF Link, Connect, NotFound, Fails, link
<1>16. ASSUME toFw' = Append(toFw, Msg("enum", 0, 0)), fromFw' = fromFw, NoKinds, Found',
              task'.pc \in {"enumWait", "fail"}
       PROVE  EnumInv'
    <2>1. Msg("enum", 0, 0) \in Packet
        BY PacketsMade
    <2>2. \A i, j \in DOMAIN Way' : i < j => Way'[i].cmd \notin Kinds
        BY <1>16, <2>1, WayGrows
    <2> QED
        BY <1>4, <1>16, <2>2 DEF EnumInv
<1>17. CASE EnumSend
    <2>1. NoKinds /\ Found'
        BY <1>6, <1>7, <1>17 DEF EnumSend, flags, table
    <2>2. CASE Fails
        BY <1>8, <2>1, <2>2 DEF Fails
    <2>3. CASE task' = [task EXCEPT !.pc = "enumWait", !.waits = 0]
        <3>1. task'.pc = "enumWait"
            BY <1>1, <2>3 DEF Task
        <3> QED
            BY <1>8, <1>16, <1>17, <2>1, <3>1 DEF EnumSend, Ask, Fails
    <2> QED
        BY <1>17, <2>2, <2>3 DEF EnumSend, Ask
<1>18. CASE EnumTimeout
    <2>1. NoKinds /\ Found' /\ task'.pc \in {"enumWait", "fail"}
        BY <1>1, <1>6, <1>7, <1>18 DEF EnumTimeout, flags, table, Task
    <2>2. CASE UNCHANGED toFw
        BY <1>2, <1>4, <1>18, <2>1, <2>2, WaySame DEF EnumTimeout, EnumInv
    <2> QED
        BY <1>16, <1>18, <2>1, <2>2 DEF EnumTimeout
<1>19. CASE EnumDone
    <2>1. /\ UNCHANGED <<toFw, fromFw, hid_dev_count, enum_devices_done>>
          /\ hid_dev_count # 0 /\ Found'
        BY <1>1, <1>6, <1>19 DEF EnumDone, link, flags, TableTypes
    <2>2. task'.pc = "descr" /\ task'.cur = 1 /\ task'.kind = "hid"
        BY <1>1, <1>19, <2>1 DEF EnumDone, Task
    <2> QED
        BY <1>2, <1>4, <2>1, <2>2, WaySame DEF EnumInv
<1>20. CASE DescrSend
    <2> DEFINE m == Msg(task.kind, task.cur, 0)
    <2>1. NoKinds /\ Found' /\ m \in Packet /\ m.cmd # "enum"
        BY <1>1, <1>6, <1>7, <1>20, PacketsMade DEF DescrSend, Msg, table, Task
    <2> HIDE DEF m
    <2>2. CASE toFw' = Append(toFw, m) /\ fromFw' = fromFw /\ Goto("descrWait")
        <3>1. task'.pc = "descrWait" /\ task'.cur = task.cur /\ task'.kind = task.kind
            BY <1>1, <2>2 DEF Goto, Task
        <3>2. ~descr_done'[task'.kind]
            BY <1>1, <1>20, <3>1 DEF DescrSend, TableTypes, Task
        <3>3. /\ \A i \in DOMAIN Way' : Way'[i].cmd = "enum" => i \in DOMAIN Way /\ Way'[i] = Way[i]
              /\ \A i, j \in DOMAIN Way' : i < j => Way'[i].cmd \notin Kinds
            BY <2>1, <2>2, WayGrows
        <3>4. \A i \in DOMAIN Way : Way[i].cmd = "enum" => task.kind = "hid" /\ task.cur = 1
            BY <1>2, <1>20 DEF EnumInv, DescrSend
        <3> QED
            BY <1>4, <2>1, <3>1, <3>2, <3>3, <3>4 DEF EnumInv
    <2>3. CASE Fails
        BY <1>8, <2>1, <2>3 DEF Fails
    <2> QED
        BY <1>20, <2>2, <2>3 DEF DescrSend, Ask, m
<1>21. CASE ProbeHid \/ InitDone \/ GetDevice \/ RemoveDevice
    <2>1. NoEnum /\ UNCHANGED <<toFw, fromFw>>
        BY <1>2, <1>21 DEF ProbeHid, InitDone, GetDevice, RemoveDevice, EnumInv, link
    <2>2. Found'
        BY <1>6, <1>21 DEF ProbeHid, InitDone, GetDevice, RemoveDevice, flags, table
    <2> QED
        BY <1>10, <2>1, <2>2
<1>22. CASE DescrDone
    <2>1. NoEnum /\ UNCHANGED <<toFw, fromFw>> /\ Found'
        BY <1>2, <1>6, <1>22 DEF DescrDone, EnumInv, link, flags, table
    <2> QED
        BY <1>10, <2>1
<1>23. CASE InitFails
    BY <1>6, <1>8, <1>23 DEF InitFails, Fails, flags, table
<1>24. CASE DescrTimeout
    <2>1. task'.pc = "fail" /\ UNCHANGED <<toFw, fromFw>> /\ Found'
        BY <1>1, <1>6, <1>24 DEF DescrTimeout, Goto, Task, link, flags, table
    <2> QED
        BY <1>2, <1>4, <2>1, WaySame DEF EnumInv
<1>25. CASE FwBoots \/ FwBootsWithout \/ RemoveClients \/ Suspend \/ Resume
    <2>1. UNCHANGED <<toFw, fromFw, descr_done>> /\ Found'
        BY <1>6, <1>25 DEF FwBoots, FwBootsWithout, RemoveClients, Suspend, Resume, link, flags,
                           table
    <2>2. UNCHANGED task \/ (FwBoots /\ device = "gone")
        BY <1>25 DEF FwBoots, Announced, FwBootsWithout, RemoveClients, Suspend, Resume
    <2>3. CASE FwBoots /\ device = "gone"
        <3>1. NoEnum
            BY <1>2, <2>3 DEF GoneInv, EnumInv
        <3> QED
            BY <1>10, <2>1, <3>1
    <2> QED
        BY <1>9, <2>1, <2>2, <2>3
<1>26. ASSUME NEW t \in Threads, Request(t)
       PROVE  EnumInv'
    <2>1. CASE RequestSend(t) /\ ~UNCHANGED toFw
        <3> DEFINE m == Msg(IF req[t].kind = "set" THEN "set" ELSE "get", req[t].dev, req[t].id)
        <3>1. /\ toFw' = Append(toFw, m) /\ UNCHANGED <<fromFw, task, descr_done>> /\ Found'
              /\ m \in Packet /\ m.cmd \notin Kinds /\ m.cmd # "enum"
            BY <1>1, <1>6, <2>1, PacketsMade DEF RequestSend, Msg, flags, table
        <3> HIDE DEF m
        <3>2. /\ \A i \in DOMAIN Way' : (i \in DOMAIN Way /\ Way'[i] = Way[i]) \/ Way'[i] = m
              /\ \A i, j \in DOMAIN Way' : i < j => i \in DOMAIN Way /\ Way'[i] = Way[i]
            BY <3>1, WayGrows
        <3> QED
            BY <1>2, <1>4, <3>1, <3>2 DEF EnumInv
    <2>2. CASE UNCHANGED <<toFw, fromFw, task, descr_done, enum_devices_done, hid_dev_count>>
        BY <1>6, <1>9, <2>2
    <2> QED
        BY <1>26, <2>1, <2>2 DEF Request, Call, LinkReady, LinkSignal, LinkTimeout, RequestSend,
                                 Answered,
                                 RequestReturns, Unanswered, link, flags, table
<1> QED
    BY <1>3, <1>11, <1>12, <1>13, <1>14, <1>15, <1>17, <1>18, <1>19, <1>20, <1>21, <1>22, <1>23,
       <1>24, <1>25, <1>26
       DEF Next, Bus, ProcessRecv, ClInit, Timeout
-----------------------------------------------------------------------------
(***************************************************************************)
(* While nobody gives up on an answer that is coming and no two threads    *)
(* ask one device, each answer finds the request it belongs to.            *)
(***************************************************************************)
LEMMA GivenUpRightly ==
    ASSUME HidTypes, Connection, GiveUp, NoneLate' PROVE DOMAIN Way = {}
<1>1. toFw \in Seq(Packet) /\ fromFw \in Seq(Packet)
    BY DEF HidTypes, QueueTypes
<1>2. ~Coming
    BY DEF GiveUp, See, NoneLate
<1>3. toFw = <<>> /\ fromFw = <<>>
    <2>1. CASE fw = "up"
        BY <1>1, <1>2, <2>1, ConcatEqualIffEmpty DEF Coming
    <2>2. CASE fw # "up"
        BY <2>2 DEF Connection
    <2> QED
        BY <2>1, <2>2
<1>4. Way = <<>> /\ Len(<<>>) = 0
    BY <1>1, <1>3, ConcatEmptySeq, EmptySeq DEF Way
<1> QED
    BY <1>4, WayTypes

\* Steps that are not a request's: its packets stay, go or are answered.
LEMMA OthersNext ==
    ASSUME HidTypes, StoredInv, Next, \A t \in Threads : ~Request(t),
           UNCHANGED <<requests, calls>>, CallInv, OwnInv
    PROVE  CallInv' /\ OwnInv'
<1>1. UNCHANGED <<req, request_done, raw, calls>>
    BY DEF requests
<1>2. CallInv'
    BY <1>1 DEF CallInv
<1> SUFFICES OwnInv'
    BY <1>2
<1>3. ASSUME toFw' = <<>>, fromFw' = <<>>
      PROVE  OwnInv'
    BY <1>3, WayDropped DEF OwnInv
<1>4. ASSUME UNCHANGED <<toFw, fromFw>>
      PROVE  OwnInv'
    BY <1>1, <1>4, WaySame DEF OwnInv, Owned
<1>5. ASSUME NEW m \in Packet, m.cmd \notin Requests, toFw' = Append(toFw, m), fromFw' = fromFw
      PROVE  OwnInv'
    <2>1. /\ \A i \in DOMAIN Way' : (i \in DOMAIN Way /\ Way'[i] = Way[i]) \/ Way'[i] = m
          /\ \A i, j \in DOMAIN Way' : i < j => i \in DOMAIN Way /\ Way'[i] = Way[i]
        BY <1>5, WayGrows
    <2> QED
        BY <1>1, <1>5, <2>1 DEF OwnInv, Owned
<1>6. CASE FwAnswers
    <2>1. PICK f \in [DOMAIN Way' -> DOMAIN Way] :
             /\ \A i, j \in DOMAIN Way' : i < j => f[i] < f[j]
             /\ \A i \in DOMAIN Way' : Kept(Way'[i], Way[f[i]])
        BY <1>6, WayAnswered
    <2>2. \A i \in DOMAIN Way' : Way'[i].cmd \in Requests =>
             Way[f[i]].cmd \in Requests /\ Way'[i].id = Way[f[i]].id
        BY <2>1 DEF Kept, Requests
    <2> QED
        BY <1>1, <2>1, <2>2 DEF OwnInv, Owned, Kept
<1>7. CASE FwResets \/ RecvBad \/ ResetBegins \/ InitFails
    BY <1>3, <1>7 DEF FwResets, RecvBad, ResetBegins, InitFails, Restart, Fails
<1>8. CASE RecvEnum \/ RecvDescr \/ RecvAnswer
    <2>1. Received /\ Take
        BY <1>8 DEF RecvEnum, RecvDescr, RecvAnswer
    <2>2. /\ \A i \in DOMAIN Way' : i + 1 \in DOMAIN Way /\ Way'[i] = Way[i + 1]
          /\ \A i, j \in DOMAIN Way' : i < j => i + 1 < j + 1
        BY <2>1, WayShifts
    <2> QED
        BY <1>1, <2>2 DEF OwnInv, Owned
<1>9. CASE Connect \/ Link \/ NotFound \/ GetDevice
    BY <1>3, <1>4, <1>9 DEF Connect, Link, NotFound, GetDevice, Fails, link
<1>10. Msg("enum", 0, 0) \in Packet /\ Msg("enum", 0, 0).cmd \notin Requests
    BY PacketsMade DEF Msg, Requests
<1>11. CASE EnumSend \/ EnumTimeout
    BY <1>3, <1>4, <1>5, <1>10, <1>11 DEF EnumSend, EnumTimeout, Ask, Fails
<1>12. CASE DescrSend
    <2>1. Msg(task.kind, task.cur, 0) \in Packet /\ Msg(task.kind, task.cur, 0).cmd \notin Requests
        BY <1>12, PacketsMade DEF DescrSend, Msg, Requests, HidTypes, Task, Kinds
    <2> QED
        BY <1>3, <1>5, <1>12, <2>1 DEF DescrSend, Ask, Fails
<1>13. CASE EnumDone \/ DescrDone \/ ProbeHid \/ InitDone \/ DescrTimeout
    BY <1>4, <1>13 DEF EnumDone, DescrDone, ProbeHid, InitDone, DescrTimeout, link
<1>14. CASE Bus \/ FwBoots \/ FwBootsWithout \/ Suspend \/ Resume
    BY <1>4, <1>14 DEF Bus, RemoveClients, RemoveDevice, FwBoots, FwBootsWithout, Suspend, Resume,
                       link
<1> QED
    BY <1>2, <1>6, <1>7, <1>8, <1>9, <1>11, <1>12, <1>13, <1>14
       DEF Next, ProcessRecv, ClInit, Timeout

\* An answer completes the wait of its own request.
LEMMA AnswerNext ==
    ASSUME HidTypes, CallInv, OwnInv, RecvAnswer
    PROVE  CallInv' /\ OwnInv' /\ UNCHANGED seen
<1> DEFINE m == Message
<1>1. Received /\ Take /\ m.cmd \in Requests /\ UNCHANGED <<req, raw, calls>>
    BY DEF RecvAnswer, Requests
<1>2. /\ 1 \in DOMAIN Way /\ Way[1] = m /\ m \in Packet
      /\ \A i \in DOMAIN Way' : i + 1 \in DOMAIN Way /\ Way'[i] = Way[i + 1] /\ 1 < i + 1
      /\ \A i, j \in DOMAIN Way' : i < j => i + 1 < j + 1
    BY <1>1, WayShifts
<1>3. CallTypes /\ m.dev \in Devs
    BY <1>1, <1>2 DEF HidTypes, Packet, Kinds, Requests
<1>4. PICK t \in Threads : /\ req[t].id = m.id /\ req[t].dev = m.dev
                           /\ req[t].pc \in {"link2", "wait"}
                           /\ m.cmd = "get" => req[t].kind \in {"raw", "get"}
    BY <1>1, <1>2 DEF OwnInv, Owned
<1>5. req[t] # NoCall
    BY <1>4 DEF NoCall
<1>6. \A e \in Devs : request_done'[e] = request_done[e] \/ (e = m.dev /\ request_done'[e] = m.id)
    BY <1>3 DEF RecvAnswer, CallTypes
<1> HIDE DEF m
<1>7. \A u \in Threads : req[u] # NoCall => req[u].dev \in Devs
    BY <1>3 DEF CallTypes, Asking
<1>8. \A u \in Threads : u # t /\ req[u] # NoCall => request_done'[req[u].dev] = request_done[req[u].dev]
    BY <1>4, <1>5, <1>6, <1>7 DEF CallInv
<1>9. CallInv'
    BY <1>1, <1>4, <1>5, <1>6, <1>7, <1>8 DEF CallInv
<1>10. ASSUME NEW i \in DOMAIN Way, 1 < i, Way[i].cmd \in Requests
       PROVE  request_done'[Way[i].dev] = 0
    <2>1. Way[i].id # m.id /\ request_done[Way[i].dev] = 0
        BY <1>1, <1>2, <1>10 DEF OwnInv, Owned
    <2>2. PICK u \in Threads : /\ req[u].id = Way[i].id /\ req[u].dev = Way[i].dev
                               /\ req[u].pc \in {"link2", "wait"}
        BY <1>10 DEF OwnInv, Owned
    <2>3. u # t /\ req[u] # NoCall
        BY <1>4, <2>1, <2>2 DEF NoCall
    <2> QED
        BY <1>8, <2>1, <2>2, <2>3
<1>11. OwnInv'
    BY <1>1, <1>2, <1>10 DEF OwnInv, Owned
<1>12. UNCHANGED seen
    <2>1. m.cmd = "get" /\ raw[m.dev] # 0 => req[t].id = raw[m.dev]
        BY <1>4, <1>5 DEF CallInv
    <2> QED
        BY <2>1 DEF RecvAnswer, SeeIf, See, Running, m
<1> QED
    BY <1>9, <1>11, <1>12

LEMMA StepOf ==
    ASSUME CallTypes, NEW t \in Threads, req[t] # NoCall, NEW l, Step(t, l)
    PROVE  \A u \in Threads :
              /\ req'[u].kind = req[u].kind /\ req'[u].dev = req[u].dev /\ req'[u].id = req[u].id
              /\ req'[u].pc = (IF u = t THEN l ELSE req[u].pc)
              /\ req'[u] # NoCall => req[u] # NoCall
BY DEF CallTypes, Step, Asking, NoCall

\* A call that steps on, with nothing new on its way
LEMMA StepNext ==
    ASSUME HidTypes, CallInv, OwnInv, NEW t \in Threads, NEW l \in {"send", "link2", "wait", "clear"},
           Step(t, l), req[t] # NoCall, UNCHANGED <<toFw, fromFw, request_done, raw, calls>>,
           l = "send" => req[t].pc = "link",
           req[t].pc \in {"link2", "wait"} => l = "wait" \/ request_done[req[t].dev] # 0
    PROVE  CallInv' /\ OwnInv'
<1>1. CallTypes
    BY DEF HidTypes
<1>2. \A u \in Threads :
         /\ req'[u].kind = req[u].kind /\ req'[u].dev = req[u].dev /\ req'[u].id = req[u].id
         /\ req'[u].pc = (IF u = t THEN l ELSE req[u].pc)
         /\ req'[u] # NoCall => req[u] # NoCall
    BY <1>1, StepOf
<1>3. CallInv'
    BY <1>2 DEF CallInv
<1>4. ASSUME NEW i \in DOMAIN Way, Way[i].cmd \in Requests
      PROVE  \E u \in Threads : /\ req'[u].id = Way[i].id /\ req'[u].dev = Way[i].dev
                                /\ req'[u].pc \in {"link2", "wait"}
                                /\ Way[i].cmd = "get" => req'[u].kind \in {"raw", "get"}
    <2>1. /\ request_done[Way[i].dev] = 0
          /\ \E u \in Threads : /\ req[u].id = Way[i].id /\ req[u].dev = Way[i].dev
                                /\ req[u].pc \in {"link2", "wait"}
                                /\ Way[i].cmd = "get" => req[u].kind \in {"raw", "get"}
        BY <1>4 DEF OwnInv, Owned
    <2> QED
        BY <1>2, <2>1
<1>5. OwnInv'
    BY <1>4, WaySame DEF OwnInv, Owned
<1> QED
    BY <1>3, <1>5

\* A call that ends, when no answer to it can come any more
LEMMA EndNext ==
    ASSUME HidTypes, CallInv, OwnInv, NEW t \in Threads, req' = [req EXCEPT ![t] = NoCall],
           req[t] # NoCall,
           UNCHANGED <<toFw, fromFw, raw, calls>>,
           request_done' \in {request_done, [request_done EXCEPT ![req[t].dev] = 0]},
           DOMAIN Way = {} \/ req[t].pc = "clear"
    PROVE  CallInv' /\ OwnInv'
<1>1. CallTypes
    BY DEF HidTypes
<1>2. req'[t] = NoCall /\ \A u \in Threads : u # t => req'[u] = req[u]
    BY <1>1 DEF CallTypes
<1>3. \A u \in Threads : req[u] # NoCall => req[u].dev \in Devs /\ req[u].id \in Nat
    BY <1>1 DEF CallTypes, Asking
<1>4. NoCall.dev = 0 /\ NoCall.id = 0 /\ calls \in Nat /\ 0 \notin Devs
    BY <1>1 DEF NoCall, CallTypes, Devs
<1>5. \A e \in Devs : request_done'[e] = request_done[e] \/ request_done'[e] = 0
    BY <1>1 DEF CallTypes
<1>6. CallInv'
    <2>1. \A u \in Threads : req[u] # NoCall => req[u].id > calls /\ req[u].id # 0
        BY <1>3, <1>4 DEF CallInv
    <2>2. \A u \in Threads : req'[u] # NoCall => u # t /\ req'[u] = req[u]
        BY <1>2
    <2>3. \A u \in Threads : req'[u] # NoCall =>
             /\ req'[u].id > calls'
             /\ request_done'[req'[u].dev] \in {0, req'[u].id}
             /\ req'[u].pc \in {"link", "send"} => request_done'[req'[u].dev] = 0
             /\ req'[u].kind = "raw" => raw'[req'[u].dev] = req'[u].id
             /\ req'[u].kind = "get" => raw'[req'[u].dev] = 0
        BY <1>3, <1>5, <2>2 DEF CallInv
    <2>4. \A u, v \in Threads :
             req'[u] # NoCall /\ u # v => req'[v].dev # req'[u].dev /\ req'[v].id # req'[u].id
        BY <1>2, <1>3, <1>4, <2>1, <2>2 DEF CallInv
    <2> QED
        BY <2>3, <2>4 DEF CallInv
<1>7. ASSUME NEW i \in DOMAIN Way, Way[i].cmd \in Requests
      PROVE  Owned(Way[i])'
    <2>1. req[t].pc = "clear" /\ request_done[Way[i].dev] = 0 /\ Way[i].dev \in Devs
        BY <1>7, WayTypes DEF OwnInv, Owned, Packet, Kinds, Requests
    <2>2. request_done'[Way[i].dev] = 0
        BY <1>5, <2>1
    <2>3. Way' = Way
        BY WaySame
    <2> QED
        BY <1>2, <1>7, <2>1, <2>2, <2>3 DEF OwnInv, Owned
<1>8. OwnInv'
    BY <1>7, WaySame DEF OwnInv
<1> QED
    BY <1>6, <1>8

\* A request begins only on a device that has none.
LEMMA CallNext ==
    ASSUME HidTypes, CallInv, OwnInv, NEW t \in Threads, Call(t), NoneLate'
    PROVE  CallInv' /\ OwnInv'
<1>1. PICK d \in hubs, kind \in {"raw", "get", "set"} :
        /\ req' = [req EXCEPT ![t] = [kind |-> kind, dev |-> d, id |-> calls, pc |-> "link"]]
        /\ request_done' = [request_done EXCEPT ![d] = 0]
        /\ raw' = [raw EXCEPT ![d] = CASE kind = "raw" -> calls
                                       [] kind = "get" -> 0
                                       [] kind = "set" -> @]
        /\ SeeIf(\E u \in Threads : req[u].dev = d, "overlapped")
    BY DEF Call
<1>2. CallTypes /\ d \in Devs /\ calls \in Nat /\ calls > 0 /\ calls' = calls - 1 /\ req[t] = NoCall
    BY <1>1 DEF HidTypes, TableTypes, CallTypes, Call
<1>3. \A u \in Threads : req[u].dev # d
    BY <1>1 DEF SeeIf, See, NoneLate
<1>4. /\ req'[t] = [kind |-> kind, dev |-> d, id |-> calls, pc |-> "link"]
      /\ \A u \in Threads : u # t => req'[u] = req[u]
    BY <1>1, <1>2 DEF CallTypes
<1>5. /\ request_done'[d] = 0
      /\ kind = "raw" => raw'[d] = calls
      /\ kind = "get" => raw'[d] = 0
      /\ \A e \in Devs : e # d => request_done'[e] = request_done[e] /\ raw'[e] = raw[e]
    BY <1>1, <1>2 DEF CallTypes
<1>6. \A u \in Threads : req[u] # NoCall => req[u].dev \in Devs /\ req[u].id \in Nat
    BY <1>2 DEF CallTypes, Asking
<1>7. \A u \in Threads : req[u].id # calls
    <2>1. NoCall.id = 0
        BY DEF NoCall
    <2> QED
        BY <1>2, <1>6, <2>1 DEF CallInv
<1>8. \A u \in Threads : req'[u] # NoCall =>
         /\ req'[u].id > calls'
         /\ request_done'[req'[u].dev] \in {0, req'[u].id}
         /\ req'[u].pc \in {"link", "send"} => request_done'[req'[u].dev] = 0
         /\ req'[u].kind = "raw" => raw'[req'[u].dev] = req'[u].id
         /\ req'[u].kind = "get" => raw'[req'[u].dev] = 0
    <2> TAKE u \in Threads
    <2>1. CASE u = t
        BY <1>2, <1>4, <1>5, <2>1
    <2>2. CASE u # t
        <3>1. req'[u] = req[u] /\ req[u].dev # d
            BY <1>3, <1>4, <2>2
        <3>2. req[u] # NoCall => request_done'[req[u].dev] = request_done[req[u].dev]
                                 /\ raw'[req[u].dev] = raw[req[u].dev]
            BY <1>5, <1>6, <3>1
        <3> QED
            BY <1>2, <1>6, <3>1, <3>2 DEF CallInv
    <2> QED
        BY <2>1, <2>2
<1>9. \A u, v \in Threads :
         req'[u] # NoCall /\ u # v => req'[v].dev # req'[u].dev /\ req'[v].id # req'[u].id
    BY <1>3, <1>4, <1>7 DEF CallInv
<1>10. CallInv'
    BY <1>8, <1>9 DEF CallInv
<1>11. Way' = Way
    BY WaySame DEF Call, link
<1>12. ASSUME NEW i \in DOMAIN Way, Way[i].cmd \in Requests
       PROVE  Owned(Way[i])'
    <2>1. PICK u \in Threads : /\ req[u].id = Way[i].id /\ req[u].dev = Way[i].dev
                               /\ req[u].pc \in {"link2", "wait"}
                               /\ Way[i].cmd = "get" => req[u].kind \in {"raw", "get"}
        BY <1>12 DEF OwnInv, Owned
    <2>2. u # t /\ req[u] # NoCall
        BY <1>2, <2>1 DEF NoCall
    <2>3. Way[i].dev \in Devs /\ Way[i].dev # d
        BY <1>3, <1>6, <2>1, <2>2
    <2>4. request_done'[Way[i].dev] = 0
        BY <1>5, <1>12, <2>3 DEF OwnInv, Owned
    <2> QED
        BY <1>4, <1>11, <2>1, <2>2, <2>4 DEF Owned
<1>13. OwnInv'
    BY <1>11, <1>12 DEF OwnInv
<1> QED
    BY <1>10, <1>13

\* A request sends the one packet it will own.
LEMMA SendNext ==
    ASSUME HidTypes, StoredInv, CallInv, OwnInv, NEW t \in Threads, RequestSend(t)
    PROVE  CallInv' /\ OwnInv'
<1>1. CallTypes /\ req[t] # NoCall /\ req[t].pc = "send" /\ Step(t, "link2")
    BY DEF RequestSend, HidTypes, NoCall
<1>2. UNCHANGED <<fromFw, request_done, raw, calls>>
    BY DEF RequestSend
<1>3. CASE UNCHANGED toFw
    BY <1>1, <1>2, <1>3, StepNext
<1>4. CASE ~UNCHANGED toFw
    <2> DEFINE m == Msg(IF req[t].kind = "set" THEN "set" ELSE "get", req[t].dev, req[t].id)
    <2>1. toFw' = Append(toFw, m) /\ m \in Packet
        BY <1>1, <1>4, PacketsMade DEF RequestSend
    <2>2. /\ m.dev = req[t].dev /\ m.id = req[t].id
          /\ m.cmd = "get" => req[t].kind # "set"
        BY DEF Msg
    <2>3. req[t].kind # "set" => req[t].kind \in {"raw", "get"}
        BY <1>1 DEF CallTypes, Asking
    <2> HIDE DEF m
    <2>4. /\ \A i \in DOMAIN Way' : (i \in DOMAIN Way /\ Way'[i] = Way[i]) \/ Way'[i] = m
          /\ \A i, j \in DOMAIN Way' : i < j => i \in DOMAIN Way /\ Way'[i] = Way[i]
        BY <1>2, <2>1, WayGrows
    <2>5. \A u \in Threads :
             /\ req'[u].kind = req[u].kind /\ req'[u].dev = req[u].dev /\ req'[u].id = req[u].id
             /\ req'[u].pc = (IF u = t THEN "link2" ELSE req[u].pc)
             /\ req'[u] # NoCall => req[u] # NoCall
        BY <1>1, StepOf
    <2>6. CallInv'
        BY <1>2, <2>5 DEF CallInv
    <2>7. request_done'[m.dev] = 0
        BY <1>1, <1>2, <2>2 DEF CallInv
    <2>8. \A i \in DOMAIN Way : Way[i].cmd \in Requests => Way[i].id # m.id
        BY <1>1, <2>2 DEF OwnInv, Owned, CallInv
    <2>9. ASSUME NEW n, n.cmd \in Requests, Owned(n) \/ n = m
          PROVE  /\ request_done'[n.dev] = 0
                 /\ \E u \in Threads : /\ req'[u].id = n.id /\ req'[u].dev = n.dev
                                       /\ req'[u].pc \in {"link2", "wait"}
                                       /\ n.cmd = "get" => req'[u].kind \in {"raw", "get"}
        <3>1. CASE Owned(n)
            BY <1>2, <2>5, <3>1 DEF Owned
        <3>2. CASE n = m
            BY <2>2, <2>3, <2>5, <2>7, <3>2
        <3> QED
            BY <2>9, <3>1, <3>2
    <2>10. ASSUME NEW i \in DOMAIN Way', Way'[i].cmd \in Requests
           PROVE  /\ request_done'[Way'[i].dev] = 0
                  /\ \E u \in Threads : /\ req'[u].id = Way'[i].id /\ req'[u].dev = Way'[i].dev
                                        /\ req'[u].pc \in {"link2", "wait"}
                                        /\ Way'[i].cmd = "get" => req'[u].kind \in {"raw", "get"}
        <3>1. Way'[i] = m \/ (i \in DOMAIN Way /\ Way'[i] = Way[i])
            BY <2>4
        <3>2. i \in DOMAIN Way /\ Way'[i] = Way[i] => Owned(Way[i])
            BY <2>10 DEF OwnInv
        <3> QED
            BY <2>9, <2>10, <3>1, <3>2
    <2>11. OwnInv'
        BY <2>4, <2>8, <2>10 DEF OwnInv, Owned
    <2> QED
        BY <2>6, <2>11
<1> QED
    BY <1>3, <1>4

\* The requests own their packets until one of the races takes place.
LEMMA RequestNext ==
    ASSUME HidTypes, Connection, StoredInv, Next, NoneLate', NoneMixed,
           CallInv, OwnInv
    PROVE  CallInv' /\ OwnInv' /\ NoneMixed'
<1>1. ASSUME NEW t \in Threads, Request(t)
      PROVE  CallInv' /\ OwnInv' /\ seen' \subseteq seen \cup Harmless
    <2>1. seen' \subseteq seen \cup Harmless \/ Answered(t)
        <3>1. CASE Call(t)
            BY <3>1 DEF Call, SeeIf, See, Harmless
        <3>2. CASE LinkReady(t) \/ LinkSignal(t) \/ RequestSend(t) \/ RequestReturns(t)
            BY <3>2 DEF LinkReady, LinkSignal, RequestSend, RequestReturns
        <3>3. CASE LinkTimeout(t) \/ Unanswered(t)
            BY <3>3 DEF LinkTimeout, Unanswered, GiveUp, See, Harmless
        <3> QED
            BY <1>1, <3>1, <3>2, <3>3 DEF Request
    <2>2. CASE Call(t)
        <3>1. CallInv' /\ OwnInv'
            BY <2>2, CallNext
        <3>2. ~Answered(t)
            BY <2>2 DEF Call, Answered, NoCall
        <3> QED
            BY <2>1, <3>1, <3>2
    <2>3. CASE LinkReady(t) \/ LinkSignal(t)
        <3>1. /\ req[t] # NoCall
              /\ UNCHANGED <<toFw, fromFw, request_done, raw, calls, seen>>
              /\ \/ req[t].pc = "link" /\ Step(t, "send")
                 \/ req[t].pc = "link2" /\ Step(t, "wait")
            BY <2>3 DEF LinkReady, LinkSignal, NoCall, link
        <3> QED
            BY <3>1, StepNext
    <2>4. CASE LinkTimeout(t)
        <3>1. req[t] # NoCall /\ UNCHANGED <<toFw, fromFw, request_done, raw, calls>>
            BY <2>4 DEF LinkTimeout, NoCall, link
        <3>2. CASE req[t].pc = "link" /\ Step(t, "link2") /\ UNCHANGED seen
            BY <3>1, <3>2, StepNext
        <3>3. CASE req[t].pc = "link2" /\ req' = [req EXCEPT ![t] = NoCall] /\ GiveUp
            <4>1. DOMAIN Way = {}
                BY <3>3, GivenUpRightly
            <4>2. seen' \subseteq seen \cup Harmless
                BY <3>3 DEF GiveUp, See, Harmless
            <4> QED
                BY <3>1, <3>3, <4>1, <4>2, EndNext
        <3> QED
            BY <2>4, <3>2, <3>3 DEF LinkTimeout
    <2>5. CASE RequestSend(t)
        BY <2>5, SendNext DEF RequestSend
    <2>6. CASE Answered(t)
        <3>1. /\ req[t] # NoCall /\ Step(t, "clear") /\ request_done[req[t].dev] # 0
              /\ UNCHANGED <<toFw, fromFw, request_done, raw, calls>>
            BY <2>6 DEF Answered, NoCall, link
        <3>2. request_done[req[t].dev] = req[t].id
            BY <3>1 DEF CallInv
        <3>3. UNCHANGED seen
            BY <2>6, <3>2 DEF Answered, SeeIf, See
        <3> QED
            BY <3>1, <3>3, StepNext
    <2>7. CASE RequestReturns(t)
        <3>1. /\ req[t] # NoCall /\ req[t].pc = "clear" /\ req' = [req EXCEPT ![t] = NoCall]
              /\ request_done' = [request_done EXCEPT ![req[t].dev] = 0]
              /\ UNCHANGED <<toFw, fromFw, raw, calls, seen>>
            BY <2>7 DEF RequestReturns, NoCall, link
        <3> QED
            BY <3>1, EndNext
    <2>8. CASE Unanswered(t)
        <3>1. /\ req[t] # NoCall /\ req' = [req EXCEPT ![t] = NoCall] /\ GiveUp
              /\ UNCHANGED <<toFw, fromFw, request_done, raw, calls>>
            BY <2>8 DEF Unanswered, NoCall, link
        <3>2. DOMAIN Way = {}
            BY <3>1, GivenUpRightly
        <3>3. seen' \subseteq seen \cup Harmless
            BY <3>1 DEF GiveUp, See, Harmless
        <3> QED
            BY <3>1, <3>2, <3>3, EndNext
    <2> QED
        BY <1>1, <2>2, <2>3, <2>4, <2>5, <2>6, <2>7, <2>8 DEF Request
<1>2. CASE \E t \in Threads : Request(t)
    BY <1>1, <1>2 DEF NoneMixed, Harmless
<1>3. CASE RecvAnswer
    BY <1>3, AnswerNext DEF NoneMixed
<1>4. CASE RemoveDevice
    <2>1. DOMAIN Way = {} /\ UNCHANGED <<toFw, fromFw, seen>>
        <3>1. toFw = <<>> /\ fromFw = <<>> /\ UNCHANGED <<toFw, fromFw, seen>>
            BY <1>4 DEF RemoveDevice, Connection
        <3>2. Way = <<>> /\ Len(<<>>) = 0
            BY <3>1, ConcatEmptySeq, EmptySeq DEF Way
        <3> QED
            BY <3>1, <3>2, WayTypes
    <2>2. DOMAIN Way' = {}
        BY <2>1, WaySame
    <2> QED
        BY <1>4, <2>1, <2>2 DEF RemoveDevice, CallInv, OwnInv, NoneMixed
<1>5. CASE ~RecvAnswer /\ ~RemoveDevice /\ \A t \in Threads : ~Request(t)
    <2>1. UNCHANGED <<requests, calls>>
        BY <1>5 DEF Next, Bus, RemoveClients, ProcessRecv, ClInit, Timeout, FwAnswers, FwResets,
                    FwBoots, FwBootsWithout, RecvBad, RecvEnum, RecvDescr, ResetBegins, Link,
                    Connect, NotFound, GetDevice, EnumSend, EnumDone, DescrSend,
                    DescrDone, ProbeHid, InitFails, InitDone, EnumTimeout, DescrTimeout, Suspend,
                    Resume
    <2>2. CallInv' /\ OwnInv'
        BY <1>5, <2>1, OthersNext
    <2>3. \A t \in Threads : ~Answered(t)
        BY <1>5 DEF Request
    <2>4. NoneMixed'
        BY <1>5, <2>3, MarksMade DEF Calm, Harmless, NoneMixed
    <2> QED
        BY <2>2, <2>4
<1> QED
    BY <1>2, <1>3, <1>4, <1>5
-----------------------------------------------------------------------------
(***************************************************************************)
(* The invariant and what follows from it                                  *)
(***************************************************************************)
LEMMA HidReqInit == ASSUME Init PROVE HidReqInv
<1>1. HidTypes
    BY TypesInit
<1>2. toFw = <<>> /\ fromFw = <<>>
    BY DEF Init
<1>3. DOMAIN Way = {}
    <2>1. Way = <<>> /\ Len(<<>>) = 0
        BY <1>2, ConcatEmptySeq, EmptySeq DEF Way
    <2> QED
        BY <1>1, <2>1, WayTypes
<1>4. Connection /\ GoneInv /\ StoredInv
    BY DEF Init, FirstProbe, Connection, GoneInv, StoredInv, Initializing, Enumerating, Ended
<1>5. AskedInv /\ OwnInv
    BY <1>3 DEF AskedInv, OwnInv
<1>6. EnumInv
    BY <1>3 DEF Init, EnumInv
<1>7. CallInv /\ NoneMixed
    BY DEF Init, CallInv, NoneMixed
<1> QED
    BY <1>1, <1>4, <1>5, <1>6, <1>7 DEF HidReqInv

LEMMA HidReqNext == ASSUME HidReqInv, [Next]_vars PROVE HidReqInv'
<1>1. CASE Next
    <2>1. HidTypes'
        BY <1>1, QueuesNext, TaskNext, TableNext, CallTypesNext DEF HidReqInv, HidTypes
    <2>2. Connection' /\ GoneInv' /\ StoredInv' /\ AskedInv'
        BY <1>1, ConnectionNext, GoneNext, StoredNext, AskedNext DEF HidReqInv
    <2>3. "empty" \in seen' \/ EnumInv'
        BY <1>1, EnumNext DEF HidReqInv
    <2>4. NoneLate' => NoneLate
        BY <1>1, MarksMade DEF Calm, NoneLate
    <2>5. NoneLate' => CallInv' /\ OwnInv' /\ NoneMixed'
        BY <1>1, <2>4, RequestNext DEF HidReqInv
    <2> QED
        BY <2>1, <2>2, <2>3, <2>5 DEF HidReqInv
<1>2. CASE UNCHANGED vars
    <2>1. /\ UNCHANGED <<fw, fwDevs, device, connected, toFw, fromFw, task, work>>
          /\ UNCHANGED <<init_done, enum_devices_done>>
          /\ UNCHANGED <<descr_done, hid_dev_count, num_hid_devices, descr, hubs>>
          /\ UNCHANGED <<req, request_done, raw, calls, seen>>
        BY <1>2 DEF vars, firmware, link, flags, table, requests
    <2>2. Way' = Way
        BY <2>1, WaySame
    <2>3. HidTypes'
        BY <2>1 DEF HidReqInv, HidTypes, QueueTypes, TableTypes, CallTypes
    <2>4. Connection' /\ GoneInv' /\ StoredInv'
        BY <2>1 DEF HidReqInv, Connection, GoneInv, StoredInv, Initializing, Enumerating, StoredTo,
                    DescrOK
    <2>5. AskedInv' /\ ("empty" \in seen' \/ EnumInv')
        BY <2>1, <2>2 DEF HidReqInv, AskedInv, EnumInv
    <2>6. NoneLate' => CallInv' /\ OwnInv' /\ NoneMixed'
        BY <2>1, <2>2 DEF HidReqInv, NoneLate, CallInv, OwnInv, Owned, NoneMixed
    <2> QED
        BY <2>3, <2>4, <2>5, <2>6 DEF HidReqInv
<1> QED
    BY <1>1, <1>2

(***************************************************************************)
(* HidReqInv is an invariant of the HID client.                            *)
(***************************************************************************)
THEOREM HidRequestInvariant == Spec => []HidReqInv
BY HidReqInit, HidReqNext, PTL DEF Spec

(***************************************************************************)
(* Whatever resets, failures and timeouts there were, an initialized       *)
(* client has each descriptor at the device it is of, though process_recv  *)
(* stores it at cur_hid_dev (ishtp-hid-client.c).                          *)
(***************************************************************************)
THEOREM DescriptorsBelong == Spec => []DescriptorsRight
<1>1. HidReqInv => DescriptorsRight
    <2> SUFFICES ASSUME HidReqInv, init_done PROVE StoredTo(num_hid_devices)
        BY DEF DescriptorsRight, StoredTo, DescrOK
    <2>1. task.pc \in Places /\ StoredInv
        BY DEF HidReqInv, HidTypes, Task
    <2>2. CASE task.pc = "connect"
        BY <2>1, <2>2 DEF StoredInv, StoredTo
    <2>3. CASE task.pc \in Ended
        BY <2>1, <2>3 DEF StoredInv
    <2> QED
        BY <2>1, <2>2, <2>3 DEF StoredInv, Initializing, Enumerating, Places, Ended
<1> QED
    BY <1>1, HidRequestInvariant, PTL

(***************************************************************************)
(* Threads get the answers to their own requests, and no answer goes to a  *)
(* buffer of a call that has returned, until one of the races takes place. *)
(***************************************************************************)
THEOREM AnswersBelong == Spec => []OwnAnswers
<1>1. HidReqInv => OwnAnswers
    BY DEF HidReqInv, OwnAnswers, NoneLate, NoneMixed
<1> QED
    BY <1>1, HidRequestInvariant, PTL

(***************************************************************************)
(* The driver takes no answer of the enumeration for a bad packet, and so  *)
(* does not reset the firmware, as long as the firmware has HID devices.   *)
(***************************************************************************)
THEOREM OnlyEmptyResets == Spec => []ResetsForCause
<1>1. HidReqInv => ResetsForCause
    BY DEF HidReqInv, ResetsForCause, EnumInv
<1> QED
    BY <1>1, HidRequestInvariant, PTL
=============================================================================
