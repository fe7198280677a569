----------------------------- MODULE FwLoaderProofs -----------------------------
(***************************************************************************)
(* Theorems on the firmware loader: main firmware is started only from a   *)
(* whole image, and no freed client is used.                               *)
(*                                                                         *)
(* WholeInv follows each message of a load: what is under way between the  *)
(* client and the shim, what the shim has stored of the image, and where   *)
(* the running work is.  OopsInv says who may have a freed client.         *)
(***************************************************************************)
EXTENDS FwLoader, SequenceTheorems, TLAPS

Labels  == {"idle", "open", "query", "wait_query", "frag", "wait_frag", "start", "wait_start",
            "fail", "free", "connect"}
Message == [cmd : {"query", "frag", "start"}, off : Nat, size : Nat, last : BOOLEAN]
Answers == {"query", "ack", "refused"}

LoaderTypes ==
    /\ bound \in BOOLEAN
    /\ cl \in {"unlinked", "live", "dead", "freed"}
    /\ pc \in [Works -> Labels]
    /\ queued \subseteq Works
    /\ payload \in [Works -> Nat] /\ offset \in [Works -> Nat]
    /\ response \in [of : Works, kind : {"none", "query", "ack"},
                     error : BOOLEAN, received : BOOLEAN]
    /\ remover \in {"no", "load", "reset", "deinit", "done"} /\ gone \in BOOLEAN
    /\ shim \in {"down", "boot", "up", "main"}
    /\ image \in Seq(Message)
    /\ toShim \in Seq(Message)
    /\ fromShim \in Seq(Answers)
    /\ seen \subseteq Marks

\* One work runs at a time.
OneWork == pc["load"] = "idle" \/ pc["reset"] = "idle"

\* Before the probe there is nothing to run.
Unbound == ~bound /\ remover = "no" => queued = {} /\ \A w \in Works : pc[w] = "idle"

\* While the shim boots no client is connected and nothing is under way.
Booting == shim = "boot" => toShim = <<>> /\ fromShim = <<>> /\ cl # "live"

(***************************************************************************)
(* The shim's side: what it has been asked and answered last.              *)
(***************************************************************************)
\* A start that the shim has not read is the first it will read.
StartNext == \A i \in DOMAIN toShim : toShim[i].cmd = "start" => i = 1 /\ Whole(image)

\* After the last query that was answered nothing was stored, unless it was acknowledged.
QueryFresh ==
    \A i \in DOMAIN fromShim :
        /\ fromShim[i] = "query"
        /\ \A j \in DOMAIN fromShim : j > i => fromShim[j] = "refused"
        => image = <<>>

MainWhole == shim = "main" => Whole(image)

(***************************************************************************)
(* The running work's side.                                                *)
(***************************************************************************)
\* The fragments so far, from the beginning of the image to o
Upto(s, o) ==
    IF s = <<>> THEN o = 0
    ELSE /\ s[1].off = 0
         /\ \A i \in 1 .. Len(s) : /\ s[i].last <=> i = Len(s) /\ o = Image
                                   /\ i > 1 => s[i].off = End(s[i - 1])
         /\ End(s[Len(s)]) = o
         /\ o > 0

\* The query is under way, or its answer; one message of a former attempt is before it.
QueryAhead ==
    /\ Len(toShim) + Len(fromShim) \in 1 .. 2
    /\ IF toShim # <<>> THEN toShim[Len(toShim)].cmd = "query"
                        ELSE fromShim[Len(fromShim)] # "ack"

\* A query was answered; another may still be under way, or its answer.
Asked ==
    /\ image = <<>>
    /\ Len(toShim) + Len(fromShim) < 2
    /\ toShim # <<>> => toShim[1].cmd = "query"
    /\ fromShim # <<>> => fromShim[1] # "ack"

Quiet == toShim = <<>> /\ fromShim = <<>>

\* All fragments before o have arrived.
Loaded(o) == Quiet /\ Upto(image, o)

Following(w) == Smallest(offset[w] + payload[w], Image)

IsFragment(m, w) == /\ m.cmd = "frag" /\ m.off = offset[w] /\ End(m) = Following(w)
                    /\ m.last <=> Following(w) = Image

\* The fragment at offset is under way, or its acknowledgement; or an answer to
\* a query is the first that comes, or a refusal.
FragmentAhead(w) ==
    \/ /\ Len(toShim) = 1 /\ fromShim = <<>>
       /\ IsFragment(toShim[1], w) /\ Upto(image, offset[w])
    \/ /\ Len(toShim) = 2 /\ fromShim = <<>>
       /\ toShim[1].cmd = "query"
    \/ toShim = <<>> /\ fromShim = <<"ack">> /\ Upto(image, Following(w))
    \/ fromShim # <<>> /\ fromShim[1] # "ack"

Fresh    == ~response.error /\ ~response.received
Answered == ~response.error /\ response.received

Loading(w) ==
    /\ pc[w] = "wait_query" /\ Fresh => QueryAhead
    /\ pc[w] = "wait_query" /\ Answered /\ response.kind = "query" => Asked
    /\ pc[w] = "frag" => (offset[w] = 0 /\ Asked) \/ Loaded(offset[w])
    /\ pc[w] = "wait_frag" /\ Fresh => response.kind = "ack" /\ FragmentAhead(w)
    /\ pc[w] = "wait_frag" /\ Answered => Loaded(Following(w))
    /\ pc[w] = "start" => Loaded(Image)

Sizes(w) ==
    /\ pc[w] \in {"query", "wait_query"} => offset[w] = 0
    /\ pc[w] \in {"frag", "wait_frag"} => payload[w] > 0 /\ offset[w] <= Image
    /\ pc[w] = "wait_frag" => offset[w] < Image

Orderly == seen \cap {"both", "late"} = {}

WholeInv ==
    /\ LoaderTypes /\ Booting /\ Unbound /\ QueryFresh
    /\ \A w \in Works : Sizes(w)
    /\ Orderly => /\ OneWork /\ StartNext /\ MainWhole
                  /\ cl = "live" => \A w \in Works : Loading(w)

\* A removal has the works stopped one after the other.
Stopped ==
    /\ remover \in {"reset", "deinit", "done"} => pc["load"] = "idle" /\ "load" \notin queued
    /\ remover \in {"deinit", "done"} => pc["reset"] = "idle" /\ "reset" \notin queued
    /\ remover = "done" => ~bound

OopsInv ==
    seen \cap {"both", "raced", "replaced", "unmade"} = {} =>
        /\ OneWork
        /\ Stopped
        /\ cl = "freed" => pc["reset"] = "connect" \/ remover = "done"
        /\ Removing => pc["reset"] # "connect"
        /\ ~gone
        /\ "oops" \notin seen

\* Sizes are numbers.
LEMMA SizesNat == /\ Image \in Nat /\ Image > 0 /\ CacheLine \in Nat /\ CacheLine > 0
                  /\ IpcPayload \in Nat /\ DmaLimit \in Nat
                  /\ \A c \in Caps : c.buffer \in Nat
BY SizesAssumption, CapsAssumption

\* No step breaks OopsInv.
LEMMA OopsStep ==
    ASSUME LoaderTypes, OopsInv, Next
    PROVE  OopsInv'
<1> USE DEF OopsInv, OneWork, Stopped, Removing, SeeIf, If, Use, Goto, Fault, client, locals,
            works, data, removal, firmware, channel, history, Works
<1> SUFFICES ASSUME seen' \cap {"both", "raced", "replaced", "unmade"} = {}
             PROVE  /\ OneWork' /\ Stopped'
                    /\ (cl = "freed" => pc["reset"] = "connect" \/ remover = "done")'
                    /\ (Removing => pc["reset"] # "connect")'
                    /\ ~gone' /\ "oops" \notin seen'
    OBVIOUS
<1> DEFINE Goal == /\ OneWork' /\ Stopped'
                   /\ (cl = "freed" => pc["reset"] = "connect" \/ remover = "done")'
                   /\ (Removing => pc["reset"] # "connect")'
                   /\ ~gone' /\ "oops" \notin seen'
<1>0. pc \in [Works -> Labels]
    BY DEF LoaderTypes
<1>1. CASE FwResets \/ BusRemove \/ Probe \/ ShimHandles \/ ShimRefuses \/ EventCb
    BY <1>1 DEF FwResets, BusRemove, Probe, ShimHandles, ShimRefuses, EventCb
<1>2. CASE DeviceReset
    BY <1>2 DEF DeviceReset
<1>3. ASSUME NEW w \in Works, Begin(w)
      PROVE  Goal
    BY <1>0, <1>3 DEF Begin
<1>4. ASSUME NEW w \in Works, Load(w)
      PROVE  Goal
    <2>1. ASSUME NEW m, NEW kind, NEW wait, Send(w, m, kind, wait), wait \notin {"idle", "connect"},
                 pc[w] \notin {"idle", "connect"}
          PROVE  Goal
        BY <1>0, <2>1 DEF Send
    <2>2. CASE Query(w) \/ Fragment(w) \/ Start(w)
        BY <2>1, <2>2 DEF Query, Fragment, Start
    <2>3. CASE Open(w) \/ Queried(w) \/ FragmentsDone(w)
        BY <1>0, <2>3 DEF Open, Queried, FragmentsDone
    <2>4. CASE Acked(w) \/ Unanswered(w) \/ Fail(w)
        BY <1>0, <2>4 DEF Acked, Unanswered, Fail, Waiting
    <2> QED
        BY <1>4, <2>2, <2>3, <2>4 DEF Load
<1>5. CASE Free
    BY <1>0, <1>5 DEF Free
<1>6. CASE Connect
    BY <1>0, <1>6 DEF Connect
<1>7. CASE RemoveBegins
    BY <1>7 DEF RemoveBegins
<1>8. CASE Remove
    BY <1>8 DEF Remove, Cancel, Deinit
<1> QED
    BY <1>1, <1>2, <1>3, <1>4, <1>5, <1>6, <1>7, <1>8 DEF Next, Bus, ResetHandler

\* The initial state satisfies the types and OopsInv.
LEMMA LoaderInit == Init => LoaderTypes /\ OopsInv
<1> SUFFICES ASSUME Init PROVE LoaderTypes /\ OopsInv
    OBVIOUS
<1>1. image \in Seq(Message) /\ toShim \in Seq(Message) /\ fromShim \in Seq(Answers)
    BY EmptySeq DEF Init
<1>2. response \in [of : Works, kind : {"none", "query", "ack"},
                    error : BOOLEAN, received : BOOLEAN]
    BY DEF Init, Buffer, Works
<1>3. pc \in [Works -> Labels] /\ payload \in [Works -> Nat] /\ offset \in [Works -> Nat]
    BY DEF Init, Works, Labels
<1>4. LoaderTypes
    BY <1>1, <1>2, <1>3 DEF Init, LoaderTypes, Works
<1>5. OopsInv
    BY DEF Init, OopsInv, OneWork, Stopped, Removing, Works
<1> QED
    BY <1>4, <1>5

\* What a message is made of, for the client's and the shim's steps.
LEMMA SentTypes ==
    ASSUME LoaderTypes, NEW w \in Works, NEW m \in Message, NEW kind \in {"query", "ack"},
           NEW wait \in Labels, Send(w, m, kind, wait)
    PROVE  LoaderTypes'
<1>1. toShim' \in Seq(Message)
    <2>1. toShim \in Seq(Message) /\ Append(toShim, m) \in Seq(Message)
        BY DEF LoaderTypes
    <2>2. toShim' = Append(toShim, m) \/ toShim' = toShim
        BY DEF Send
    <2> QED
        BY <2>1, <2>2
<1>2. response' \in [of : Works, kind : {"none", "query", "ack"},
                     error : BOOLEAN, received : BOOLEAN]
    BY DEF LoaderTypes, Send, Buffer
<1>3. pc' \in [Works -> Labels]
    BY DEF LoaderTypes, Send, Goto, Labels
<1>4. seen' \subseteq Marks
    BY DEF LoaderTypes, Send, SeeIf, If, Use, Marks
<1> QED
    BY <1>1, <1>2, <1>3, <1>4 DEF LoaderTypes, Send, client, locals, removal, firmware

\* The payload of a suitable shim is a number: the rounding to cache lines keeps it one.
LEMMA PayloadNat ==
    ASSUME NEW c \in Caps, Payload(c) > 0
    PROVE  Payload(c) \in Nat
<1>1. ASSUME NEW n \in Nat
      PROVE  n - (n % CacheLine) \in Int
    <2>1. CacheLine \in Nat /\ CacheLine > 0
        BY SizesNat
    <2>2. n % CacheLine \in Int
        BY <2>1
    <2> QED
        BY <2>2
<1>2. c.buffer \in Nat
    BY SizesNat
<1>3. Smallest(Image, Smallest(c.buffer, DmaLimit)) \in Nat
    BY SizesNat, <1>2 DEF Smallest
<1>4. DmaPayload(c) \in Int
    BY <1>1, <1>3 DEF DmaPayload
<1> QED
    BY SizesNat, <1>4 DEF Payload

\* No step breaks the types.
LEMMA TypesStep ==
    ASSUME LoaderTypes, Next, \A w \in Works : Sizes(w)
    PROVE  LoaderTypes'
<1> USE DEF client, locals, works, data, removal, firmware, channel, history
<1>1. CASE FwResets \/ BusRemove
    BY <1>1, EmptySeq DEF LoaderTypes, FwResets, BusRemove
<1>2. CASE DeviceReset \/ Probe
    <2>1. image' \in Seq(Message)
        BY <1>2, EmptySeq DEF DeviceReset, Probe
    <2>2. seen' \subseteq Marks /\ queued' \subseteq Works
        BY <1>2 DEF LoaderTypes, DeviceReset, Probe, SeeIf, If, Use, Marks, Works
    <2> QED
        BY <1>2, <2>1, <2>2 DEF LoaderTypes, DeviceReset, Probe
<1>3. CASE ShimHandles
    <2>1. Head(toShim) \in Message /\ Tail(toShim) \in Seq(Message)
        BY <1>3 DEF LoaderTypes, ShimHandles
    <2>2. image' \in Seq(Message)
        <3>1. CASE Head(toShim).cmd = "query"
            BY <1>3, <3>1, EmptySeq DEF ShimHandles
        <3>2. CASE Head(toShim).cmd = "frag"
            <4>1. image' = Append(image, Head(toShim))
                BY <1>3, <3>2 DEF ShimHandles
            <4> QED
                BY <2>1, <4>1 DEF LoaderTypes
        <3>3. CASE Head(toShim).cmd = "start"
            BY <1>3, <3>3 DEF LoaderTypes, ShimHandles
        <3> QED
            BY <2>1, <3>1, <3>2, <3>3 DEF Message
    <2>3. fromShim' \in Seq(Answers)
        BY <1>3 DEF LoaderTypes, ShimHandles, Answers
    <2> QED
        BY <1>3, <2>1, <2>2, <2>3 DEF LoaderTypes, ShimHandles
<1>4. CASE ShimRefuses
    <2>1. fromShim' \in Seq(Answers) /\ toShim' \in Seq(Message)
        BY <1>4 DEF LoaderTypes, ShimRefuses, Answers
    <2> QED
        BY <1>4, <2>1 DEF LoaderTypes, ShimRefuses
<1>5. CASE EventCb
    <2>1. Head(fromShim) \in Answers /\ Tail(fromShim) \in Seq(Answers)
        BY <1>5 DEF LoaderTypes, EventCb
    <2>2. Head(fromShim) \in {"none", "query", "ack"} \/ ~Good(Head(fromShim))
        BY <2>1 DEF Answers, Good
    <2>3. response' \in [of : Works, kind : {"none", "query", "ack"},
                         error : BOOLEAN, received : BOOLEAN]
        <3>1. CASE Good(Head(fromShim))
            BY <1>5, <2>2, <3>1 DEF LoaderTypes, EventCb
        <3>2. CASE ~Good(Head(fromShim))
            BY <1>5, <3>2 DEF LoaderTypes, EventCb
        <3> QED
            BY <3>1, <3>2
    <2> QED
        BY <1>5, <2>1, <2>3 DEF LoaderTypes, EventCb
<1>6. ASSUME NEW w \in Works, Begin(w)
      PROVE  LoaderTypes'
    <2>1. pc' \in [Works -> Labels]
        BY <1>6 DEF LoaderTypes, Begin, Goto, Labels
    <2>2. seen' \subseteq Marks
        BY <1>6 DEF LoaderTypes, Begin, SeeIf, If, Use, Marks
    <2> QED
        BY <1>6, <2>1, <2>2 DEF LoaderTypes, Begin
<1>7. ASSUME NEW w \in Works, Load(w)
      PROVE  LoaderTypes'
    <2>1. CASE Query(w)
        <3>1. Command("query") \in Message
            BY DEF Command, Message
        <3> QED
            BY <2>1, <3>1, SentTypes DEF Query, Labels
    <2>2. CASE Start(w)
        <3>1. Command("start") \in Message
            BY DEF Command, Message
        <3> QED
            BY <2>2, <3>1, SentTypes DEF Start, Labels
    <2>3. CASE Fragment(w)
        <3> DEFINE last == ~(offset[w] + payload[w] < Image)
                   size == IF last THEN Image - offset[w] ELSE payload[w]
                   m    == [cmd |-> "frag", off |-> offset[w], size |-> size, last |-> last]
        <3>1. offset[w] \in Nat /\ payload[w] \in Nat /\ offset[w] < Image
            BY <2>3 DEF Fragment, LoaderTypes
        <3>2. size \in Nat /\ last \in BOOLEAN
            BY SizesNat, <3>1
        <3>3. m \in Message
            BY <3>1, <3>2 DEF Message
        <3>4. Send(w, m, "ack", "wait_frag")
            BY <2>3 DEF Fragment
        <3> QED
            BY <3>3, <3>4, SentTypes DEF Labels
    <2>4. CASE Open(w)
        <3>1. pc' \in [Works -> Labels]
            BY <2>4 DEF LoaderTypes, Open, Goto, Labels
        <3>2. seen' \subseteq Marks
            BY <2>4 DEF LoaderTypes, Open, SeeIf, If, Use, Marks
        <3> QED
            BY <2>4, <3>1, <3>2 DEF LoaderTypes, Open
    <2>5. CASE Queried(w)
        <3>1. pc' \in [Works -> Labels]
            BY <2>5 DEF LoaderTypes, Queried, Goto, Labels
        <3>2. seen' \subseteq Marks
            BY <2>5 DEF LoaderTypes, Queried, SeeIf, If, Use, Marks
        <3>3. payload' \in [Works -> Nat]
            <4>1. payload \in [Works -> Nat]
                BY DEF LoaderTypes
            <4>2. PICK c \in Caps :
                    \/ /\ Payload(c) > 0
                       /\ payload' = [payload EXCEPT ![w] = Payload(c)]
                    \/ payload' = payload
                BY <2>5 DEF Queried
            <4> QED
                BY <4>1, <4>2, PayloadNat
        <3> QED
            BY <2>5, <3>1, <3>2, <3>3 DEF LoaderTypes, Queried
    <2>6. CASE Acked(w)
        <3>1. pc' \in [Works -> Labels]
            BY <2>6 DEF LoaderTypes, Acked, Goto, Labels
        <3>2. Smallest(offset[w] + payload[w], Image) \in Nat
            BY SizesNat DEF LoaderTypes, Smallest
        <3>3. offset' \in [Works -> Nat]
            BY <2>6, <3>2 DEF LoaderTypes, Acked
        <3> QED
            BY <2>6, <3>1, <3>3 DEF LoaderTypes, Acked
    <2>7. CASE FragmentsDone(w)
        <3>1. pc' \in [Works -> Labels]
            BY <2>7 DEF LoaderTypes, FragmentsDone, Goto, Labels
        <3> QED
            BY <2>7, <3>1 DEF LoaderTypes, FragmentsDone
    <2>8. CASE Unanswered(w)
        <3>1. pc' \in [Works -> Labels]
            BY <2>8 DEF LoaderTypes, Unanswered, Goto, Labels
        <3>2. seen' \subseteq Marks
            BY <2>8 DEF LoaderTypes, Unanswered, SeeIf, If, Use, Marks
        <3> QED
            BY <2>8, <3>1, <3>2 DEF LoaderTypes, Unanswered
    <2>9. CASE Fail(w)
        <3>1. pc' \in [Works -> Labels]
            BY <2>9 DEF LoaderTypes, Fail, Goto, Labels
        <3> QED
            BY <2>9, <3>1 DEF LoaderTypes, Fail
    <2> QED
        BY <1>7, <2>1, <2>2, <2>3, <2>4, <2>5, <2>6, <2>7, <2>8, <2>9 DEF Load
<1>8. CASE ResetHandler
    <2>1. pc' \in [Works -> Labels]
        BY <1>8 DEF LoaderTypes, ResetHandler, Free, Connect, Goto, Labels
    <2>2. seen' \subseteq Marks
        BY <1>8 DEF LoaderTypes, ResetHandler, Free, Connect, SeeIf, If, Use, Marks
    <2> QED
        BY <1>8, <2>1, <2>2 DEF LoaderTypes, ResetHandler, Free, Connect, Removing
<1>9. CASE RemoveBegins \/ Remove
    <2>1. seen' \subseteq Marks
        BY <1>9 DEF LoaderTypes, RemoveBegins, Remove, Cancel, Deinit, SeeIf, If, Use,
                    Marks
    <2> QED
        BY <1>9, <2>1 DEF LoaderTypes, RemoveBegins, Remove, Cancel, Deinit
<1> QED
    BY <1>1, <1>2, <1>3, <1>4, <1>5, <1>6, <1>7, <1>8, <1>9 DEF Next, Bus

(***************************************************************************)
(* What a step does to what the shim was asked and answered.               *)
(***************************************************************************)
\* A fragment that begins where the image ends extends it.
LEMMA UptoAppend ==
    ASSUME NEW s \in Seq(Message), NEW o \in Nat, NEW n \in Nat,
           NEW m \in Message, Upto(s, o), o < Image, o < n,
           m.off = o, End(m) = n, m.last <=> n = Image
    PROVE  Upto(Append(s, m), n)
<1> DEFINE t == Append(s, m)
<1>1. t # <<>> /\ Len(t) = Len(s) + 1 /\ t[Len(t)] = m
    OBVIOUS
<1>2. \A i \in 1 .. Len(s) : t[i] = s[i]
    OBVIOUS
<1>3. CASE s = <<>>
    BY <1>1, <1>3 DEF Upto
<1>4. CASE s # <<>>
    <2>1. Len(s) >= 1
        BY <1>4
    <2>2. t[1].off = 0
        BY <1>2, <1>4, <2>1 DEF Upto
    <2>3. ASSUME NEW i \in 1 .. Len(s)
          PROVE  /\ t[i].last <=> i = Len(t) /\ n = Image
                 /\ i > 1 => t[i].off = End(t[i - 1])
        <3>1. t[i] = s[i] /\ (i > 1 => t[i - 1] = s[i - 1])
            BY <1>2
        <3>2. ~s[i].last /\ (i > 1 => s[i].off = End(s[i - 1]))
            BY <1>4 DEF Upto
        <3> QED
            BY <1>1, <3>1, <3>2
    <2>4. End(s[Len(s)]) = o
        BY <1>4 DEF Upto
    <2>5. t[Len(s)] = s[Len(s)]
        BY <1>2, <2>1
    <2>6. t[Len(t)].off = End(t[Len(t) - 1]) /\ End(t[Len(t)]) = n /\ n > 0
        <3>1. Len(t) - 1 = Len(s)
            BY <1>1
        <3>2. t[Len(t) - 1] = s[Len(s)]
            BY <2>5, <3>1
        <3>3. End(t[Len(t) - 1]) = o /\ t[Len(t)].off = o
            BY <1>1, <2>4, <3>2
        <3> QED
            BY <1>1, <3>3
    <2>7. \A i \in 1 .. Len(t) : /\ t[i].last <=> i = Len(t) /\ n = Image
                                 /\ i > 1 => t[i].off = End(t[i - 1])
        BY <1>1, <2>3, <2>6
    <2> QED
        BY <1>1, <2>2, <2>6, <2>7 DEF Upto
<1> QED
    BY <1>3, <1>4

\* The fragments up to the end of the image are the whole image.
LEMMA UptoImage ==
    ASSUME NEW s \in Seq(Message)
    PROVE  Upto(s, Image) <=> Whole(s)
BY SizesNat DEF Upto, Whole

\* No step breaks QueryFresh: what comes behind an answer is an acknowledgement or a refusal.
LEMMA FreshStep ==
    ASSUME LoaderTypes, QueryFresh, Booting, Next
    PROVE  QueryFresh'
<1> USE DEF client, locals, works, data, removal, firmware, channel, history
<1>0. fromShim \in Seq(Answers) /\ toShim \in Seq(Message)
    BY DEF LoaderTypes
<1>1. CASE ShimHandles
    <2>1. Head(toShim).cmd = "query" => image' = <<>>
        BY <1>1 DEF ShimHandles
    <2>2. CASE Head(toShim).cmd # "query"
        <3>1. fromShim' = Append(fromShim, "ack")
            BY <1>1, <2>2 DEF ShimHandles
        <3>2. Len(fromShim') = Len(fromShim) + 1 /\ fromShim'[Len(fromShim')] = "ack"
            BY <1>0, <3>1
        <3>3. fromShim' \in Seq(Answers)
            BY <1>0, <3>1 DEF Answers
        <3> QED
            BY <3>2, <3>3 DEF QueryFresh
    <2> QED
        BY <2>1, <2>2 DEF QueryFresh
<1>2. CASE ShimRefuses
    <2>1. fromShim' = Append(fromShim, "refused") /\ image' = image
        BY <1>2 DEF ShimRefuses
    <2>2. /\ DOMAIN fromShim' = 1 .. Len(fromShim) + 1
          /\ fromShim'[Len(fromShim) + 1] = "refused"
          /\ \A i \in DOMAIN fromShim : fromShim'[i] = fromShim[i]
          /\ DOMAIN fromShim = 1 .. Len(fromShim)
        BY <1>0, <2>1
    <2>3. Len(fromShim) \in Nat
        BY <1>0
    <2>4. ASSUME NEW i \in DOMAIN fromShim', fromShim'[i] = "query",
                 \A j \in DOMAIN fromShim' : j > i => fromShim'[j] = "refused"
          PROVE  image' = <<>>
        <3>1. i \in DOMAIN fromShim
            BY <2>2, <2>3, <2>4
        <3>2. \A j \in DOMAIN fromShim : j > i => fromShim[j] = "refused"
            BY <2>2, <2>3, <2>4
        <3> QED
            BY <2>1, <2>2, <2>4, <3>1, <3>2 DEF QueryFresh
    <2> QED
        BY <2>4 DEF QueryFresh
<1>3. CASE EventCb
    <2>1. fromShim # <<>> /\ fromShim' = Tail(fromShim) /\ image' = image
        BY <1>3 DEF EventCb
    <2>2. /\ DOMAIN fromShim' = 1 .. Len(fromShim) - 1
          /\ \A i \in DOMAIN fromShim' : fromShim'[i] = fromShim[i + 1]
          /\ DOMAIN fromShim = 1 .. Len(fromShim)
          /\ Len(fromShim) \in Nat
        BY <1>0, <2>1
    <2>4. ASSUME NEW i \in DOMAIN fromShim', fromShim'[i] = "query",
                 \A j \in DOMAIN fromShim' : j > i => fromShim'[j] = "refused"
          PROVE  image' = <<>>
        <3>1. i + 1 \in DOMAIN fromShim
            BY <2>2, <2>4
        <3>2. ASSUME NEW j \in DOMAIN fromShim, j > i + 1
              PROVE  fromShim[j] = "refused"
            <4>1. j - 1 \in DOMAIN fromShim' /\ j - 1 > i /\ (j - 1) + 1 = j
                BY <2>2, <3>2
            <4> QED
                BY <2>2, <2>4, <4>1
        <3> QED
            BY <2>1, <2>2, <2>4, <3>1, <3>2 DEF QueryFresh
    <2> QED
        BY <2>4 DEF QueryFresh
<1>4. CASE Bus
    <2>1. fromShim' = <<>> \/ image' = <<>>
        BY <1>4 DEF Bus, BusRemove, DeviceReset, Probe
    <2>2. DOMAIN <<>> = {}
        OBVIOUS
    <2> QED
        BY <2>1, <2>2 DEF QueryFresh
<1>5. CASE FwResets \/ ResetHandler \/ RemoveBegins \/ Remove
    BY <1>5 DEF FwResets, ResetHandler, Free, Connect, RemoveBegins, Remove,
                Cancel, Deinit, QueryFresh
<1>6. ASSUME NEW w \in Works, Begin(w) \/ Load(w)
      PROVE  fromShim' = fromShim /\ image' = image
    BY <1>6 DEF Begin, Load, Open, Query, Queried, Fragment,
                FragmentsDone, Start, Send, Acked, Unanswered, Fail
<1> QED
    BY <1>1, <1>2, <1>3, <1>4, <1>5, <1>6 DEF Next, QueryFresh

\* No step breaks Booting: only a reset, which drops all messages, makes the shim boot.
LEMMA BootingStep ==
    ASSUME LoaderTypes, Booting, Next
    PROVE  Booting'
<1> USE DEF client, locals, works, data, removal, firmware, channel, history, Booting
<1>1. CASE FwResets \/ Bus \/ ShimHandles \/ ShimRefuses \/ EventCb
    BY <1>1 DEF FwResets, Bus, BusRemove, DeviceReset, Probe, ShimHandles,
                ShimRefuses, EventCb
<1>2. ASSUME NEW w \in Works, Begin(w) \/ Load(w)
      PROVE  Booting'
    BY <1>2 DEF Begin, Load, Open, Query, Queried, Fragment,
                FragmentsDone, Start, Send, Acked, Unanswered, Fail
<1>3. CASE ResetHandler \/ RemoveBegins \/ Remove
    BY <1>3 DEF ResetHandler, Free, Connect, RemoveBegins, Remove, Cancel,
                Deinit
<1> QED
    BY <1>1, <1>2, <1>3 DEF Next

\* No step breaks Unbound: works are scheduled by the probe and later only.
LEMMA UnboundStep ==
    ASSUME LoaderTypes, Unbound, Next
    PROVE  Unbound'
<1> USE DEF client, locals, works, data, removal, firmware, channel, history, Unbound
<1>1. CASE FwResets \/ Bus \/ ShimHandles \/ ShimRefuses \/ EventCb
    BY <1>1 DEF FwResets, Bus, BusRemove, DeviceReset, Probe, ShimHandles,
                ShimRefuses, EventCb
<1>2. ASSUME NEW w \in Works, Begin(w) \/ Load(w)
      PROVE  bound' = bound /\ remover' = remover /\ (w \in queued \/ pc[w] # "idle")
    BY <1>2 DEF Begin, Load, Open, Query, Queried, Fragment, Waiting,
                FragmentsDone, Start, Send, Acked, Unanswered, Fail
<1>3. CASE ResetHandler
    BY <1>3 DEF ResetHandler, Free, Connect, Works
<1>4. CASE RemoveBegins \/ Remove
    BY <1>4 DEF RemoveBegins, Remove, Cancel, Deinit
<1> QED
    BY <1>1, <1>2, <1>3, <1>4 DEF Next

\* No step breaks Sizes.
LEMMA SizesStep ==
    ASSUME LoaderTypes, \A w \in Works : Sizes(w), Next
    PROVE  \A w \in Works : Sizes(w)'
<1> USE DEF client, locals, works, data, removal, firmware, channel, history, Goto
<1>0. /\ pc \in [Works -> Labels]
      /\ payload \in [Works -> Nat] /\ offset \in [Works -> Nat]
      /\ Image \in Nat
    BY SizesNat DEF LoaderTypes
<1>1. CASE FwResets \/ Bus \/ ShimHandles \/ ShimRefuses \/ EventCb
    BY <1>1 DEF FwResets, Bus, BusRemove, DeviceReset, Probe, ShimHandles,
                ShimRefuses, EventCb, Sizes
<1>2. ASSUME NEW w \in Works, Begin(w) \/ Load(w), NEW v \in Works
      PROVE  Sizes(v)'
    <2>1. CASE v # w
        <3>1. pc'[v] = pc[v] /\ payload'[v] = payload[v] /\ offset'[v] = offset[v]
            BY <1>0, <1>2, <2>1
               DEF Begin, Load, Open, Query, Queried, Fragment,
                   FragmentsDone, Start, Send, Acked, Unanswered, Fail
        <3> QED
            BY <3>1 DEF Sizes
    <2>2. CASE v = w
        <3>1. CASE Begin(w) \/ Open(w) \/ FragmentsDone(w) \/ Unanswered(w) \/ Fail(w)
            BY <1>0, <2>2, <3>1 DEF Begin, Open, FragmentsDone, Unanswered, Fail,
                                   Sizes
        <3>2. CASE Query(w) \/ Fragment(w) \/ Start(w)
            BY <1>0, <2>2, <3>2 DEF Query, Fragment, Start, Send, Sizes
        <3>3. CASE Queried(w)
            <4>1. pc[w] = "wait_query" /\ offset' = offset
                BY <3>3 DEF Queried
            <4>2. \/ pc' = [pc EXCEPT ![w] = "fail"]
                  \/ pc' = [pc EXCEPT ![w] = "frag"] /\ payload'[w] > 0
                <5>1. PICK c \in Caps :
                        \/ pc' = [pc EXCEPT ![w] = "fail"]
                        \/ /\ pc' = [pc EXCEPT ![w] = "frag"]
                           /\ Payload(c) > 0
                           /\ payload' = [payload EXCEPT ![w] = Payload(c)]
                    BY <3>3 DEF Queried
                <5> QED
                    BY <1>0, <5>1
            <4> QED
                BY <1>0, <2>2, <4>1, <4>2 DEF Sizes
        <3>4. CASE Acked(w)
            <4>1. Smallest(offset[w] + payload[w], Image) <= Image
                BY <1>0 DEF Smallest
            <4> QED
                BY <1>0, <2>2, <3>4, <4>1 DEF Acked, Sizes
        <3> QED
            BY <1>2, <3>1, <3>2, <3>3, <3>4 DEF Load
    <2> QED
        BY <2>1, <2>2
<1>3. CASE ResetHandler
    BY <1>0, <1>3 DEF ResetHandler, Free, Connect, Sizes
<1>4. CASE RemoveBegins \/ Remove
    BY <1>4 DEF RemoveBegins, Remove, Cancel, Deinit, Sizes
<1> QED
    BY <1>1, <1>2, <1>3, <1>4 DEF Next

(***************************************************************************)
(* While the works are orderly.                                            *)
(***************************************************************************)
Ordered == /\ OneWork /\ StartNext /\ MainWhole
           /\ cl = "live" => \A w \in Works : Loading(w)

\* While one work runs at a time, the others are idle.
LEMMA OthersIdle ==
    ASSUME OneWork, NEW w \in Works, pc[w] # "idle", NEW v \in Works, v # w
    PROVE  pc[v] = "idle"
BY DEF OneWork, Works

\* Arithmetic on how many messages are under way.
LEMMA OneEach == \A i, j \in Nat \ {0} : i + j \in 1 .. 2 => i = 1 /\ j = 1
OBVIOUS

\* The same, when there is one at most.
LEMMA OnlyOne == \A i, j \in Nat : i + j < 2 /\ i >= 1 => i = 1 /\ j = 0
OBVIOUS

\* What Append does to length and elements.
LEMMA Appended ==
    ASSUME NEW s \in Seq(Message), NEW m
    PROVE  /\ Len(Append(s, m)) = Len(s) + 1
           /\ \A i \in 1 .. Len(s) : Append(s, m)[i] = s[i]
OBVIOUS

\* The shim's steps leave the works alone.
LEMMA ShimOrdered ==
    ASSUME LoaderTypes, Ordered, \A w \in Works : Sizes(w),
           ShimHandles \/ ShimRefuses
    PROVE  Ordered'
<1> DEFINE m == Head(toShim)
<1> USE DEF client, locals, works, data, removal, firmware, channel, history
<1>0. /\ fromShim \in Seq(Answers) /\ toShim \in Seq(Message) /\ image \in Seq(Message)
      /\ toShim # <<>> /\ toShim' = Tail(toShim) /\ m \in Message /\ m = toShim[1]
      /\ Len(toShim) \in Nat /\ Len(toShim) >= 1
    BY DEF LoaderTypes, ShimHandles, ShimRefuses
<1>1. /\ Len(toShim') = Len(toShim) - 1
      /\ \A i \in 1 .. Len(toShim') : toShim'[i] = toShim[i + 1]
      /\ DOMAIN toShim' = 1 .. Len(toShim') /\ DOMAIN toShim = 1 .. Len(toShim)
      /\ toShim' = <<>> <=> Len(toShim) = 1
    <2>1. Len(toShim') = Len(toShim) - 1 /\ toShim' \in Seq(Message)
        BY <1>0
    <2>2. \A i \in 1 .. Len(toShim') : toShim'[i] = toShim[i + 1]
        <3>1. toShim \in Seq(Message) /\ toShim # <<>>
            BY <1>0
        <3>2. \A i \in 1 .. Len(Tail(toShim)) : Tail(toShim)[i] = toShim[i + 1]
            BY <3>1, HeadTailProperties, Zenon
        <3>3. toShim' = Tail(toShim)
            BY <1>0
        <3> QED
            BY <3>2, <3>3, Zenon
    <2>3. toShim' = <<>> <=> Len(toShim') = 0
        BY <2>1, EmptySeq
    <2> QED
        BY <1>0, <2>1, <2>2, <2>3
<1>2. \E b \in Answers :
        /\ fromShim' = Append(fromShim, b)
        /\ \/ b = "refused" /\ image' = image /\ shim' # "main"
           \/ b = "query" /\ m.cmd = "query" /\ image' = <<>> /\ shim' # "main"
           \/ b = "ack" /\ m.cmd = "frag" /\ image' = Append(image, m) /\ shim' # "main"
           \/ b = "ack" /\ m.cmd = "start" /\ image' = image
    <2>1. CASE ShimRefuses
        BY <2>1 DEF ShimRefuses, Answers
    <2>2. CASE ShimHandles /\ m.cmd = "query"
        BY <2>2 DEF ShimHandles, Answers
    <2>3. CASE ShimHandles /\ m.cmd = "frag"
        BY <2>3 DEF ShimHandles, Answers
    <2>4. CASE ShimHandles /\ m.cmd = "start"
        BY <2>4 DEF ShimHandles, Answers
    <2> QED
        BY <1>0, <2>1, <2>2, <2>3, <2>4 DEF Message
<1> PICK a \in Answers :
        /\ fromShim' = Append(fromShim, a)
        /\ \/ a = "refused" /\ image' = image /\ shim' # "main"
           \/ a = "query" /\ m.cmd = "query" /\ image' = <<>> /\ shim' # "main"
           \/ a = "ack" /\ m.cmd = "frag" /\ image' = Append(image, m) /\ shim' # "main"
           \/ a = "ack" /\ m.cmd = "start" /\ image' = image
    BY <1>2
<1>3. /\ Len(fromShim') = Len(fromShim) + 1 /\ fromShim' # <<>>
      /\ \A i \in 1 .. Len(fromShim) : fromShim'[i] = fromShim[i]
      /\ fromShim'[Len(fromShim')] = a
    BY <1>0
<1>4. /\ pc' = pc /\ response' = response /\ offset' = offset /\ payload' = payload /\ cl' = cl
    BY DEF ShimHandles, ShimRefuses
<1>5. /\ Len(fromShim) \in Nat
      /\ fromShim = <<>> <=> Len(fromShim) = 0
    BY <1>0
<1>6. StartNext'
    <2> SUFFICES ASSUME NEW i \in DOMAIN toShim', toShim'[i].cmd = "start"
                 PROVE  FALSE
        BY DEF StartNext
    <2>1. i + 1 \in DOMAIN toShim /\ toShim[i + 1].cmd = "start" /\ i + 1 # 1
        BY <1>0, <1>1
    <2> QED
        BY <2>1 DEF Ordered, StartNext
<1>7. MainWhole'
    <2> SUFFICES ASSUME shim' = "main" PROVE Whole(image')
        BY DEF MainWhole, Whole, End
    <2>1. 1 \in DOMAIN toShim /\ toShim[1].cmd = "start" /\ image' = image
        BY <1>0, <1>1
    <2> QED
        BY <2>1 DEF Ordered, StartNext
<1>8. ASSUME cl = "live", NEW w \in Works
      PROVE  Loading(w)'
    <2>0. Loading(w) /\ Sizes(w)
        BY <1>8 DEF Ordered
    <2>1. QueryAhead => QueryAhead'
        <3> SUFFICES ASSUME QueryAhead PROVE QueryAhead'
            OBVIOUS
        <3>1. Len(toShim') + Len(fromShim') = Len(toShim) + Len(fromShim)
            BY <1>0, <1>1, <1>3, <1>5
        <3>2. toShim[Len(toShim)].cmd = "query"
            BY <1>0 DEF QueryAhead
        <3>3. CASE toShim' # <<>>
            <4>1. Len(toShim') \in 1 .. Len(toShim') /\ Len(toShim') + 1 = Len(toShim)
                BY <1>0, <1>1, <3>3
            <4>2. toShim'[Len(toShim')] = toShim[Len(toShim)]
                BY <1>1, <4>1
            <4> QED
                BY <3>1, <3>2, <3>3, <4>2 DEF QueryAhead
        <3>4. CASE toShim' = <<>>
            <4>1. m.cmd = "query"
                BY <1>0, <1>1, <3>2, <3>4
            <4>2. a # "ack"
                BY <4>1
            <4> QED
                BY <1>3, <3>1, <3>4, <4>2 DEF QueryAhead
        <3> QED
            BY <3>3, <3>4
    <2>2. Asked => Asked'
        <3> SUFFICES ASSUME Asked PROVE Asked'
            OBVIOUS
        <3>1. m.cmd = "query" /\ Len(toShim) = 1 /\ Len(fromShim) = 0 /\ image = <<>>
            <4>0. Len(toShim) + Len(fromShim) < 2
                BY DEF Asked
            <4>1. Len(toShim) \in Nat /\ Len(fromShim) \in Nat /\ Len(toShim) >= 1
                BY <1>0, <1>5
            <4>2. Len(toShim) = 1 /\ Len(fromShim) = 0
                BY <4>0, <4>1, OnlyOne
            <4>3. toShim[1].cmd = "query" /\ image = <<>>
                BY <1>0 DEF Asked
            <4>4. m = toShim[1]
                BY <1>0
            <4> QED
                BY <4>2, <4>3, <4>4
        <3>2. toShim' = <<>> /\ Len(toShim') = 0 /\ Len(fromShim') = 1
            BY <1>1, <1>3, <3>1
        <3>3. image' = <<>>
            BY <3>1
        <3>4. fromShim'[1] # "ack"
            BY <1>3, <3>1, <3>2
        <3> QED
            BY <3>2, <3>3, <3>4 DEF Asked
    <2>3. ASSUME NEW o PROVE ~Loaded(o)
        BY <1>0 DEF Loaded, Quiet
    <2>4. ASSUME pc[w] = "wait_frag", FragmentAhead(w)
          PROVE  FragmentAhead(w)'
        <3>1. CASE fromShim # <<>>
            <4>1. fromShim[1] # "ack"
                BY <1>0, <2>4, <3>1 DEF FragmentAhead
            <4>2. fromShim'[1] = fromShim[1]
                BY <1>3, <1>5, <3>1
            <4> QED
                BY <1>3, <4>1, <4>2 DEF FragmentAhead
        <3>2. CASE fromShim = <<>> /\ a # "ack"
            <4>1. fromShim'[1] = a
                BY <1>3, <1>5, <3>2
            <4> QED
                BY <1>3, <3>2, <4>1 DEF FragmentAhead
        <3>3. CASE fromShim = <<>> /\ a = "ack"
            <4>1. Len(toShim) = 1 /\ IsFragment(m, w) /\ Upto(image, offset[w])
                BY <1>0, <2>4, <3>3 DEF FragmentAhead
            <4>2. toShim' = <<>> /\ fromShim' = <<"ack">>
                BY <1>0, <1>1, <3>3, <4>1
            <4>3. image' = Append(image, m)
                BY <3>3, <4>1 DEF IsFragment
            <4>4. offset[w] \in Nat /\ payload[w] \in Nat /\ payload[w] > 0 /\ offset[w] < Image
                BY <2>0, <2>4 DEF LoaderTypes, Sizes
            <4>5. Following(w) \in Nat /\ offset[w] < Following(w)
                BY SizesNat, <4>4 DEF Following, Smallest
            <4>6. Upto(Append(image, m), Following(w))
                BY <1>0, <4>1, <4>4, <4>5, UptoAppend DEF IsFragment
            <4>7. Following(w)' = Following(w)
                BY <1>4 DEF Following
            <4> QED
                BY <4>2, <4>3, <4>6, <4>7 DEF FragmentAhead
        <3> QED
            BY <3>1, <3>2, <3>3
    <2>5. pc[w] = "wait_query" /\ Fresh => QueryAhead'
        BY <2>0, <2>1 DEF Loading
    <2>6. pc[w] = "wait_query" /\ Answered /\ response.kind = "query" => Asked'
        BY <2>0, <2>2 DEF Loading
    <2>7. pc[w] = "frag" => offset[w] = 0 /\ Asked'
        BY <2>0, <2>2, <2>3 DEF Loading
    <2>8. pc[w] = "wait_frag" /\ Fresh => response.kind = "ack" /\ FragmentAhead(w)'
        BY <2>0, <2>4 DEF Loading
    <2>9. ~(pc[w] = "wait_frag" /\ Answered) /\ pc[w] # "start"
        BY <2>0, <2>3 DEF Loading
    <2> QED
        BY <1>4, <2>5, <2>6, <2>7, <2>8, <2>9 DEF Loading, Fresh, Answered
<1> QED
    BY <1>4, <1>6, <1>7, <1>8 DEF Ordered, OneWork

\* The callback takes the first answer.
LEMMA CallbackOrdered ==
    ASSUME LoaderTypes, Ordered, QueryFresh, EventCb
    PROVE  Ordered'
<1> DEFINE a == fromShim[1]
<1> USE DEF client, locals, works, data, removal, firmware, channel, history
<1>0. /\ fromShim \in Seq(Answers) /\ toShim \in Seq(Message) /\ fromShim # <<>>
      /\ fromShim' = Tail(fromShim) /\ toShim' = toShim /\ image' = image
      /\ pc' = pc /\ offset' = offset /\ payload' = payload /\ cl' = cl /\ shim' = shim
    BY DEF LoaderTypes, EventCb
<1>1. a \in Answers /\ a = Head(fromShim)
    BY <1>0
<1>2. /\ Len(fromShim) \in Nat /\ Len(fromShim) >= 1 /\ Len(toShim) \in Nat
      /\ Len(fromShim') = Len(fromShim) - 1
      /\ fromShim' = <<>> <=> Len(fromShim) = 1
      /\ Len(fromShim) > 1 => fromShim'[1] = fromShim[2]
      /\ toShim = <<>> <=> Len(toShim) = 0
    <2>1. /\ Len(fromShim) \in Nat /\ Len(fromShim) >= 1 /\ Len(toShim) \in Nat
          /\ toShim = <<>> <=> Len(toShim) = 0
        BY <1>0, EmptySeq
    <2>2. fromShim' \in Seq(Answers) /\ Len(fromShim') = Len(fromShim) - 1
        BY <1>0
    <2>3. fromShim' = <<>> <=> Len(fromShim') = 0
        BY <2>2, EmptySeq
    <2>4. Len(fromShim) > 1 => fromShim'[1] = fromShim[2]
        BY <1>0, <2>1, <2>2
    <2> QED
        BY <2>1, <2>2, <2>3, <2>4
<1>3. \/ Good(a) /\ response' = [response EXCEPT !.received = TRUE, !.kind = a]
      \/ ~Good(a) /\ response' = [response EXCEPT !.error = TRUE]
    BY <1>1 DEF EventCb
<1>4. response \in [of : Works, kind : {"none", "query", "ack"},
                    error : BOOLEAN, received : BOOLEAN]
    BY DEF LoaderTypes
<1> HIDE DEF a
<1>5. ~Fresh'
    BY <1>3, <1>4 DEF Fresh
<1>6. Answered' => /\ Fresh /\ response'.kind = a /\ a # "refused"
                   /\ a = "query" => response.kind = "query"
    <2> SUFFICES ASSUME Answered' PROVE /\ Fresh /\ response'.kind = a /\ a # "refused"
                                        /\ a = "query" => response.kind = "query"
        OBVIOUS
    <2>1. Good(a) /\ response' = [response EXCEPT !.received = TRUE, !.kind = a]
        BY <1>3, <1>4 DEF Answered
    <2>2. response'.kind = a /\ response'.error = response.error
        BY <1>4, <2>1
    <2> QED
        BY <2>1, <2>2 DEF Answered, Fresh, Good
<1>7. QueryAhead /\ a = "query" => Asked'
    <2> SUFFICES ASSUME QueryAhead, a = "query" PROVE Asked'
        OBVIOUS
    <2>1. Len(toShim) + Len(fromShim) \in 1 .. 2
        BY DEF QueryAhead
    <2>2. Len(toShim') + Len(fromShim') < 2
        BY <1>0, <1>2, <2>1
    <2>3. toShim' # <<>> => toShim'[1].cmd = "query"
        <3> SUFFICES ASSUME toShim # <<>> PROVE toShim[1].cmd = "query"
            BY <1>0
        <3>1. Len(toShim) \in Nat \ {0} /\ Len(fromShim) \in Nat \ {0}
            BY <1>2
        <3>2. Len(toShim) = 1
            BY <2>1, <3>1, OneEach
        <3> QED
            BY <3>2 DEF QueryAhead
    <2>4. fromShim' # <<>> => toShim = <<>> /\ Len(fromShim) = 2 /\ fromShim[2] # "ack"
        <3> SUFFICES ASSUME fromShim' # <<>>
                     PROVE  toShim = <<>> /\ Len(fromShim) = 2 /\ fromShim[2] # "ack"
            OBVIOUS
        <3>1. Len(fromShim) = 2 /\ Len(toShim) = 0
            BY <1>2, <2>1
        <3> QED
            BY <1>2, <3>1 DEF QueryAhead
    <2>5. fromShim' # <<>> => fromShim'[1] # "ack"
        BY <1>2, <2>4
    <2>6. image = <<>>
        <3>1. CASE Len(fromShim) = 1
            <4>1. 1 \in DOMAIN fromShim /\ \A j \in DOMAIN fromShim : ~(j > 1)
                BY <1>0, <3>1
            <4> QED
                BY <4>1 DEF QueryFresh, a
        <3>2. CASE Len(fromShim) # 1
            <4>1. Len(fromShim) = 2 /\ fromShim[2] # "ack" /\ fromShim[2] \in Answers
                BY <1>0, <1>2, <2>4, <3>2
            <4>2. DOMAIN fromShim = {1, 2}
                BY <1>0, <4>1
            <4>3. CASE fromShim[2] = "query"
                <5>1. \A j \in DOMAIN fromShim : ~(j > 2)
                    BY <4>2
                <5> QED
                    BY <4>2, <4>3, <5>1 DEF QueryFresh
            <4>4. CASE fromShim[2] = "refused"
                <5>1. \A j \in DOMAIN fromShim : j > 1 => fromShim[j] = "refused"
                    BY <4>2, <4>4
                <5> QED
                    BY <4>2, <5>1 DEF QueryFresh, a
            <4> QED
                BY <4>1, <4>3, <4>4 DEF Answers
        <3> QED
            BY <3>1, <3>2
    <2> QED
        BY <1>0, <2>2, <2>3, <2>5, <2>6 DEF Asked
<1>8. Asked => Asked'
    <2> SUFFICES ASSUME Asked PROVE Asked'
        OBVIOUS
    <2>1. Len(toShim) + Len(fromShim) < 2
        BY DEF Asked
    <2>2. Len(fromShim) = 1 /\ Len(toShim) = 0
        BY <1>2, <2>1, OnlyOne
    <2>3. toShim' = <<>> /\ fromShim' = <<>> /\ Len(toShim') + Len(fromShim') < 2 /\ image' = <<>>
        BY <1>0, <1>2, <2>2 DEF Asked
    <2> QED
        BY <2>3 DEF Asked
<1>9. ASSUME NEW o PROVE ~Loaded(o)
    BY <1>0 DEF Loaded, Quiet
<1>10. ASSUME NEW w \in Works, FragmentAhead(w), a = "ack"
       PROVE  Loaded(Following(w))'
    <2>1. toShim = <<>> /\ fromShim = <<"ack">> /\ Upto(image, Following(w))
        BY <1>0, <1>10 DEF FragmentAhead, a
    <2>2. fromShim' = <<>>
        BY <1>0, <2>1
    <2>3. Following(w)' = Following(w)
        BY <1>0 DEF Following
    <2> QED
        BY <1>0, <2>1, <2>2, <2>3 DEF Loaded, Quiet
<1>11. ASSUME cl = "live", NEW w \in Works
       PROVE  Loading(w)'
    <2>0. Loading(w)
        BY <1>11 DEF Ordered
    <2>1. pc[w] = "wait_query" /\ Answered' /\ response'.kind = "query" => Asked'
        BY <1>6, <1>7, <2>0 DEF Loading
    <2>2. pc[w] = "frag" => offset[w] = 0 /\ Asked'
        BY <1>8, <1>9, <2>0 DEF Loading
    <2>3. pc[w] = "wait_frag" /\ Answered' => Loaded(Following(w))'
        <3> SUFFICES ASSUME pc[w] = "wait_frag", Answered' PROVE Loaded(Following(w))'
            OBVIOUS
        <3>1. Fresh /\ response.kind = "ack" /\ FragmentAhead(w)
            BY <1>6, <2>0 DEF Loading
        <3>2. a = "ack"
            BY <1>1, <1>6, <3>1 DEF Answers
        <3> QED
            BY <1>10, <3>1, <3>2
    <2>4. pc[w] # "start"
        BY <1>9, <2>0 DEF Loading
    <2> QED
        BY <1>0, <1>5, <2>1, <2>2, <2>3, <2>4 DEF Loading
<1>12. StartNext' /\ MainWhole' /\ OneWork'
    BY <1>0 DEF Ordered, StartNext, MainWhole, OneWork, Whole, End
<1> QED
    BY <1>0, <1>11, <1>12 DEF Ordered

\* A work that has begun runs alone.
LEMMA AloneOrdered ==
    ASSUME LoaderTypes, Ordered, NEW w \in Works, NEW label,
           \A v \in Works : v # w => pc[v] = "idle",
           pc' = [pc EXCEPT ![w] = label],
           cl' = "live" => Loading(w)',
           StartNext', MainWhole'
    PROVE  Ordered'
<1>1. \A v \in Works : v # w => pc'[v] = "idle"
    BY DEF LoaderTypes
<1>2. OneWork'
    BY <1>1 DEF OneWork, Works
<1>3. \A v \in Works : v # w => Loading(v)'
    BY <1>1 DEF Loading
<1> QED
    BY <1>2, <1>3 DEF Ordered

\* A message that is sent goes behind the others.
LEMMA SendOrdered ==
    ASSUME LoaderTypes, Ordered, NEW w \in Works, pc[w] # "idle",
           NEW m \in Message, NEW kind, NEW wait \in Labels, Send(w, m, kind, wait),
           m.cmd = "start" /\ cl = "live" => toShim = <<>> /\ Whole(image),
           cl = "live" => Loading(w)'
    PROVE  Ordered'
<1> USE DEF client, locals, works, data, removal, firmware, channel, history
<1>1. \A v \in Works : v # w => pc[v] = "idle"
    BY OthersIdle DEF Ordered
<1>2. PICK label : pc' = [pc EXCEPT ![w] = label]
    BY DEF Send, Goto
<1>3. image' = image /\ shim' = shim /\ cl' = cl
    BY DEF Send
<1>4. StartNext'
    <2>1. CASE cl = "live"
        <3>1. toShim' = Append(toShim, m) /\ toShim \in Seq(Message)
            BY <2>1 DEF Send, LoaderTypes
        <3>2. /\ DOMAIN toShim' = 1 .. Len(toShim) + 1 /\ DOMAIN toShim = 1 .. Len(toShim)
              /\ Len(toShim) \in Nat
              /\ toShim = <<>> => Len(toShim) = 0
              /\ \A i \in DOMAIN toShim : toShim'[i] = toShim[i]
              /\ toShim'[Len(toShim) + 1] = m
            BY <3>1
        <3>3. ASSUME NEW i \in DOMAIN toShim', toShim'[i].cmd = "start"
              PROVE  i = 1 /\ Whole(image)
            <4>1. CASE i \in DOMAIN toShim
                BY <3>2, <3>3, <4>1 DEF Ordered, StartNext
            <4>2. CASE i \notin DOMAIN toShim
                <5>1. i = Len(toShim) + 1
                    BY <3>2, <4>2
                <5>2. m.cmd = "start"
                    BY <3>2, <3>3, <5>1
                <5> QED
                    BY <2>1, <3>2, <5>1, <5>2
            <4> QED
                BY <4>1, <4>2
        <3> QED
            BY <1>3, <3>3 DEF StartNext, Whole, End
    <2>2. CASE cl # "live"
        BY <1>3, <2>2 DEF Send, Ordered, StartNext, Whole, End
    <2> QED
        BY <2>1, <2>2
<1>5. MainWhole'
    BY <1>3 DEF Ordered, MainWhole, Whole, End
<1> QED
    BY <1>1, <1>2, <1>3, <1>4, <1>5, AloneOrdered

\* The query of a load finds one message of a former load at most.
LEMMA QueryOrdered ==
    ASSUME LoaderTypes, Ordered, Orderly', NEW w \in Works, Query(w)
    PROVE  Ordered'
<1> USE DEF client, locals, works, data, removal, firmware, channel, history
<1> DEFINE m == Command("query")
<1>1. m \in Message /\ m.cmd = "query" /\ Send(w, m, "query", "wait_query") /\ pc[w] = "query"
    BY DEF Query, Command, Message
<1> HIDE DEF m
<1>2. ASSUME cl = "live"
      PROVE  Loading(w)'
    <2>1. toShim' = Append(toShim, m) /\ fromShim' = fromShim
          /\ pc' = [pc EXCEPT ![w] = "wait_query"]
          /\ response' = Buffer(w, "query")
        BY <1>1, <1>2 DEF Send, Goto
    <2>2. toShim \in Seq(Message) /\ fromShim \in Seq(Answers)
        BY DEF LoaderTypes
    <2>3. ~(Len(toShim) + Len(fromShim) > 1)
        <3>1. SeeIf(m.cmd = "query" /\ Len(toShim) + Len(fromShim) > 1, "late")
            BY <1>1, <1>2 DEF Send
        <3> QED
            BY <1>1, <3>1 DEF Orderly, SeeIf, If, Use
    <2>4. Len(toShim) \in Nat /\ Len(fromShim) \in Nat /\ Len(toShim') = Len(toShim) + 1
        BY <2>1, <2>2
    <2>5. toShim' # <<>> /\ toShim'[Len(toShim')] = m
        BY <2>1, <2>2
    <2>6. Len(toShim') + Len(fromShim') \in 1 .. 2
        BY <2>1, <2>3, <2>4
    <2>7. QueryAhead'
        BY <1>1, <2>5, <2>6 DEF QueryAhead
    <2>8. ~Answered'
        BY <2>1 DEF Answered, Buffer
    <2>9. pc'[w] = "wait_query"
        BY <2>1 DEF LoaderTypes
    <2> QED
        BY <2>7, <2>8, <2>9 DEF Loading
<1> QED
    BY <1>1, <1>2, SendOrdered DEF Labels

\* A start is sent when the whole image has arrived.
LEMMA StartOrdered ==
    ASSUME LoaderTypes, Ordered, NEW w \in Works, Start(w)
    PROVE  Ordered'
<1> DEFINE m == Command("start")
<1>1. m \in Message /\ m.cmd = "start" /\ Send(w, m, "ack", "wait_start") /\ pc[w] = "start"
    BY DEF Start, Command, Message
<1> HIDE DEF m
<1>2. ASSUME cl = "live"
      PROVE  toShim = <<>> /\ Whole(image)
    BY <1>1, <1>2, UptoImage DEF Ordered, Loading, Loaded, Quiet, LoaderTypes
<1>3. ASSUME cl = "live"
      PROVE  Loading(w)'
    <2>1. pc' = [pc EXCEPT ![w] = "wait_start"]
        BY <1>1, <1>3 DEF Send, Goto
    <2>2. pc'[w] = "wait_start"
        BY <2>1 DEF LoaderTypes
    <2> QED
        BY <2>2 DEF Loading
<1> QED
    BY <1>1, <1>2, <1>3, SendOrdered DEF Labels

\* A fragment continues the image, or comes behind a query that will be taken for its answer.
LEMMA FragmentOrdered ==
    ASSUME LoaderTypes, Ordered, NEW w \in Works, Sizes(w),
           Fragment(w)
    PROVE  Ordered'
<1> USE DEF client, locals, works, data, removal, firmware, channel, history
<1> DEFINE last == ~(offset[w] + payload[w] < Image)
           size == IF last THEN Image - offset[w] ELSE payload[w]
           m    == [cmd |-> "frag", off |-> offset[w], size |-> size, last |-> last]
<1>1. pc[w] = "frag" /\ Send(w, m, "ack", "wait_frag") /\ offset[w] < Image
    BY DEF Fragment
<1>2. offset[w] \in Nat /\ payload[w] \in Nat /\ payload[w] > 0
    BY <1>1 DEF Sizes, LoaderTypes
<1>3. size \in Nat /\ last \in BOOLEAN /\ m \in Message
    BY SizesNat, <1>1, <1>2 DEF Message
<1>4. IsFragment(m, w)
    <2>1. m.cmd = "frag" /\ m.off = offset[w] /\ m.size = size /\ m.last = last
        OBVIOUS
    <2>2. offset[w] + size = Following(w)
        BY SizesNat, <1>1, <1>2 DEF Following, Smallest
    <2>3. last <=> Following(w) = Image
        BY <1>1, <1>2 DEF Following, Smallest
    <2> HIDE DEF m, last, size
    <2> QED
        BY <2>1, <2>2, <2>3 DEF IsFragment, End
<1>5. \E f \in Message : IsFragment(f, w) /\ Send(w, f, "ack", "wait_frag")
    BY <1>1, <1>3, <1>4
<1> HIDE DEF m, last, size
<1>6. PICK f \in Message : IsFragment(f, w) /\ Send(w, f, "ack", "wait_frag")
    BY <1>5
<1>7. ASSUME cl = "live"
      PROVE  Loading(w)'
    <2>1. /\ toShim' = Append(toShim, f) /\ fromShim' = fromShim /\ image' = image
          /\ offset' = offset /\ payload' = payload
          /\ pc' = [pc EXCEPT ![w] = "wait_frag"]
          /\ response' = Buffer(w, "ack")
        BY <1>6, <1>7 DEF Send, Goto
    <2>2. toShim \in Seq(Message) /\ fromShim \in Seq(Answers)
        BY DEF LoaderTypes
    <2>3. IsFragment(f, w)'
        BY <1>6, <2>1 DEF IsFragment, Following
    <2>4. FragmentAhead(w)'
        <3>1. CASE fromShim # <<>>
            <4>1. fromShim[1] # "ack"
                BY <1>1, <1>7, <3>1 DEF Ordered, Loading, Loaded, Quiet, Asked
            <4>2. fromShim' = fromShim
                BY <2>1
            <4> QED
                BY <3>1, <4>1, <4>2 DEF FragmentAhead
        <3>2. CASE fromShim = <<>> /\ toShim # <<>>
            <4>1. toShim[1].cmd = "query" /\ Len(toShim) + Len(fromShim) < 2
                BY <1>1, <1>7, <3>2 DEF Ordered, Loading, Loaded, Quiet, Asked
            <4>2. Len(toShim) \in Nat /\ Len(toShim) >= 1 /\ Len(fromShim) \in Nat
                BY <2>2, <3>2
            <4>3. Len(toShim) = 1
                BY <4>1, <4>2, OnlyOne
            <4>4. Len(toShim') = 2 /\ toShim'[1] = toShim[1]
                <5>1. toShim' = Append(toShim, f)
                    BY <2>1
                <5>2. /\ Len(Append(toShim, f)) = Len(toShim) + 1
                      /\ \A i \in 1 .. Len(toShim) : Append(toShim, f)[i] = toShim[i]
                    BY <2>2, Appended
                <5>3. 1 \in 1 .. Len(toShim) /\ Len(toShim) + 1 = 2
                    BY <4>3
                <5> QED
                    BY <5>1, <5>2, <5>3
            <4> QED
                BY <2>1, <3>2, <4>1, <4>4 DEF FragmentAhead
        <3>3. CASE fromShim = <<>> /\ toShim = <<>>
            <4>1. Upto(image, offset[w])
                <5>1. CASE Loaded(offset[w])
                    BY <5>1 DEF Loaded
                <5>2. CASE offset[w] = 0 /\ Asked
                    BY <5>2 DEF Asked, Upto
                <5> QED
                    BY <1>1, <1>7, <5>1, <5>2 DEF Ordered, Loading
            <4>2. Len(toShim') = 1 /\ toShim'[1] = f
                BY <2>1, <2>2, <3>3
            <4>3. Upto(image, offset[w])' /\ IsFragment(toShim[1], w)'
                BY <2>1, <2>3, <4>1, <4>2 DEF Upto, End, IsFragment, Following
            <4> QED
                BY <2>1, <3>3, <4>2, <4>3 DEF FragmentAhead
        <3> QED
            BY <3>1, <3>2, <3>3
    <2>5. ~Answered' /\ response'.kind = "ack"
        BY <2>1 DEF Answered, Buffer
    <2>6. pc'[w] = "wait_frag"
        BY <2>1 DEF LoaderTypes
    <2> QED
        BY <2>4, <2>5, <2>6 DEF Loading
<1> QED
    BY <1>1, <1>6, <1>7, SendOrdered DEF Labels, IsFragment

\* The steps of a load that send nothing.
LEMMA LoadOrdered ==
    ASSUME LoaderTypes, Ordered, Orderly', NEW w \in Works, Sizes(w),
           Load(w)
    PROVE  Ordered'
<1> USE DEF client, locals, works, data, removal, firmware, channel, history
<1>0. pc \in [Works -> Labels] /\ offset \in [Works -> Nat]
    BY DEF LoaderTypes
<1>1. CASE Query(w)
    BY <1>1, QueryOrdered
<1>2. CASE Fragment(w)
    BY <1>2, FragmentOrdered
<1>3. CASE Start(w)
    BY <1>3, StartOrdered
<1>4. ASSUME /\ toShim' = toShim /\ fromShim' = fromShim /\ image' = image
             /\ cl' = cl /\ response' = response /\ (shim' = shim \/ shim' = "down"),
             NEW label, pc' = [pc EXCEPT ![w] = label], pc[w] # "idle",
             cl = "live" => Loading(w)'
      PROVE  Ordered'
    <2>1. \A v \in Works : v # w => pc[v] = "idle"
        BY <1>4, OthersIdle DEF Ordered
    <2>2. StartNext' /\ MainWhole'
        BY <1>4 DEF Ordered, StartNext, MainWhole, Whole, End
    <2> QED
        BY <1>4, <2>1, <2>2, AloneOrdered
<1>5. CASE Open(w) \/ Unanswered(w) \/ Fail(w)
    <2>1. \E label \in {"query", "fail", "idle"} : pc' = [pc EXCEPT ![w] = label]
        BY <1>5 DEF Open, Unanswered, Fail, Goto
    <2>2. PICK label \in {"query", "fail", "idle"} : pc' = [pc EXCEPT ![w] = label]
        BY <2>1
    <2>3. pc'[w] \in {"query", "fail", "idle"}
        BY <1>0, <2>2
    <2>4. Loading(w)'
        BY <2>3 DEF Loading
    <2>5. /\ toShim' = toShim /\ fromShim' = fromShim /\ image' = image
          /\ cl' = cl /\ response' = response /\ (shim' = shim \/ shim' = "down")
          /\ pc[w] # "idle"
        BY <1>5 DEF Open, Unanswered, Fail, Waiting
    <2> QED
        BY <1>4, <2>2, <2>4, <2>5
<1>6. CASE Queried(w)
    <2>1. \E label \in {"frag", "fail"} : /\ pc' = [pc EXCEPT ![w] = label]
                                          /\ label = "frag" => response.kind = "query"
        BY <1>6 DEF Queried, Goto
    <2>2. PICK label \in {"frag", "fail"} : /\ pc' = [pc EXCEPT ![w] = label]
                                            /\ label = "frag" => response.kind = "query"
        BY <2>1
    <2>3. /\ toShim' = toShim /\ fromShim' = fromShim /\ image' = image /\ offset' = offset
          /\ cl' = cl /\ response' = response /\ shim' = shim
          /\ pc[w] = "wait_query" /\ Answered
        BY <1>6 DEF Queried, Answered
    <2>4. pc'[w] = label
        BY <1>0, <2>2
    <2>5. ASSUME cl = "live"
          PROVE  Loading(w)'
        <3>1. CASE label = "fail"
            BY <2>4, <3>1 DEF Loading
        <3>2. CASE label = "frag"
            <4>1. Asked
                BY <2>2, <2>3, <2>5, <3>2 DEF Ordered, Loading
            <4>2. offset[w] = 0
                BY <2>3 DEF Sizes
            <4>3. Asked'
                BY <2>3, <4>1 DEF Asked
            <4> QED
                BY <2>3, <2>4, <3>2, <4>2, <4>3 DEF Loading
        <3> QED
            BY <2>2, <3>1, <3>2
    <2> QED
        BY <1>4, <2>2, <2>3, <2>5
<1>7. CASE FragmentsDone(w)
    <2>1. /\ toShim' = toShim /\ fromShim' = fromShim /\ image' = image /\ offset' = offset
          /\ cl' = cl /\ response' = response /\ shim' = shim
          /\ pc[w] = "frag" /\ pc' = [pc EXCEPT ![w] = "start"] /\ offset[w] >= Image
        BY <1>7 DEF FragmentsDone, Goto
    <2>2. offset[w] = Image /\ offset[w] # 0
        BY SizesNat, <1>0, <2>1 DEF Sizes
    <2>3. ASSUME cl = "live"
          PROVE  Loading(w)'
        <3>1. Loaded(Image)
            BY <2>1, <2>2, <2>3 DEF Ordered, Loading
        <3>2. Loaded(Image)'
            BY <2>1, <3>1 DEF Loaded, Quiet, Upto, End
        <3>3. pc'[w] = "start"
            BY <1>0, <2>1
        <3> QED
            BY <3>2, <3>3 DEF Loading
    <2> QED
        BY <1>4, <2>1, <2>3
<1>8. CASE Acked(w)
    <2>1. /\ toShim' = toShim /\ fromShim' = fromShim /\ image' = image
          /\ cl' = cl /\ response' = response /\ shim' = shim
          /\ pc[w] \in {"wait_frag", "wait_start"} /\ Answered
        BY <1>8 DEF Acked, Answered
    <2>2. CASE pc[w] = "wait_start"
        <3>1. pc' = [pc EXCEPT ![w] = "idle"]
            BY <1>8, <2>2 DEF Acked, Goto
        <3>2. Loading(w)'
            BY <1>0, <3>1 DEF Loading
        <3> QED
            BY <1>4, <2>1, <2>2, <3>1, <3>2
    <2>3. CASE pc[w] = "wait_frag"
        <3>1. /\ pc' = [pc EXCEPT ![w] = "frag"]
              /\ offset' = [offset EXCEPT ![w] = Following(w)]
            BY <1>8, <2>3 DEF Acked, Goto, Following
        <3>2. pc'[w] = "frag" /\ offset'[w] = Following(w)
            BY <1>0, <3>1
        <3>3. ASSUME cl = "live"
              PROVE  Loading(w)'
            <4>1. Loaded(Following(w))
                BY <2>1, <2>3, <3>3 DEF Ordered, Loading
            <4>2. Loaded(offset[w])'
                BY <2>1, <3>2, <4>1 DEF Loaded, Quiet, Upto, End
            <4> QED
                BY <3>2, <4>2 DEF Loading
        <3> QED
            BY <1>4, <2>1, <2>3, <3>1, <3>3
    <2> QED
        BY <2>1, <2>2, <2>3
<1> QED
    BY <1>1, <1>2, <1>3, <1>5, <1>6, <1>7, <1>8 DEF Load

\* No step breaks the order, as long as no mark excuses it.
LEMMA OrderedStep ==
    ASSUME LoaderTypes, Booting, Unbound, QueryFresh, Ordered,
           \A w \in Works : Sizes(w), Orderly', Next
    PROVE  Ordered'
<1> USE DEF client, locals, works, data, removal, firmware, channel, history
<1>1. ASSUME pc' = pc, toShim' = toShim, image' = image, shim' # "main" \/ shim' = shim,
             cl' # "live"
      PROVE  Ordered'
    BY <1>1 DEF Ordered, OneWork, StartNext, MainWhole, Whole, End
<1>2. ASSUME pc' = pc, toShim' = toShim, fromShim' = fromShim, image' = image,
             shim' # "main" \/ shim' = shim, cl' = cl, response' = response,
             offset' = offset, payload' = payload
      PROVE  Ordered'
    <2>1. \A w \in Works : Loading(w)' <=> Loading(w)
        BY <1>2 DEF Loading, Fresh, Answered, QueryAhead, Asked, Loaded, Quiet, Upto, End,
                    FragmentAhead, IsFragment, Following
    <2> QED
        BY <1>2, <2>1 DEF Ordered, OneWork, StartNext, MainWhole, Whole, End
<1>3. CASE FwResets
    BY <1>2, <1>3 DEF FwResets
<1>4. CASE BusRemove
    <2>1. /\ pc' = pc /\ toShim' = <<>> /\ image' = image /\ cl' # "live"
          /\ shim' # "main" \/ shim' = shim
        BY <1>4 DEF BusRemove
    <2> QED
        BY <2>1 DEF Ordered, OneWork, StartNext, MainWhole, Whole, End
<1>5. CASE DeviceReset \/ Probe
    <2>1. /\ pc' = pc /\ toShim' = <<>> /\ shim' = "up"
          /\ cl' = "live" => \A w \in Works : pc[w] = "idle"
        <3>1. CASE DeviceReset
            BY <3>1 DEF DeviceReset, Booting
        <3>2. CASE Probe
            <4>1. \A w \in Works : pc[w] = "idle"
                BY <3>2 DEF Probe, Unbound
            <4> QED
                BY <3>2, <4>1 DEF Probe, Booting
        <3> QED
            BY <1>5, <3>1, <3>2
    <2>2. cl' = "live" => \A w \in Works : Loading(w)'
        BY <2>1 DEF Loading
    <2> QED
        BY <2>1, <2>2 DEF Ordered, OneWork, StartNext, MainWhole
<1>6. CASE ShimHandles \/ ShimRefuses
    BY <1>6, ShimOrdered
<1>7. CASE EventCb
    BY <1>7, CallbackOrdered
<1>8. ASSUME NEW w \in Works, Begin(w)
      PROVE  Ordered'
    <2>1. /\ toShim' = toShim /\ image' = image /\ cl' = cl /\ shim' = shim
          /\ pc' = [pc EXCEPT ![w] = IF w = "load" THEN "open" ELSE "free"]
        BY <1>8 DEF Begin, Goto
    <2>2. \A v \in Works : v # w => pc[v] = "idle"
        BY <1>8 DEF Begin, SeeIf, If, Use, Orderly
    <2>3. pc'[w] \in {"open", "free"}
        BY <2>1 DEF LoaderTypes
    <2>4. Loading(w)'
        BY <2>3 DEF Loading
    <2>5. StartNext' /\ MainWhole'
        BY <2>1 DEF Ordered, StartNext, MainWhole, Whole, End
    <2> QED
        BY <2>1, <2>2, <2>4, <2>5, AloneOrdered
<1>9. ASSUME NEW w \in Works, Load(w)
      PROVE  Ordered'
    BY <1>9, LoadOrdered
<1>10. CASE ResetHandler
    <2>0. "reset" \in Works /\ pc["reset"] \in {"free", "connect"}
        BY <1>10 DEF ResetHandler, Free, Connect, Works
    <2>1. /\ toShim' = toShim /\ image' = image /\ shim' = shim
        BY <1>10 DEF ResetHandler, Free, Connect
    <2>2. \E label \in {"connect", "open", "idle"} : pc' = [pc EXCEPT !["reset"] = label]
        BY <1>10 DEF ResetHandler, Free, Connect, Goto
    <2>3. PICK label \in {"connect", "open", "idle"} : pc' = [pc EXCEPT !["reset"] = label]
        BY <2>2
    <2>4. pc'["reset"] \in {"connect", "open", "idle"}
        BY <2>0, <2>3 DEF LoaderTypes
    <2>5. Loading("reset")'
        BY <2>4 DEF Loading
    <2>6. \A v \in Works : v # "reset" => pc[v] = "idle"
        BY <2>0, OthersIdle DEF Ordered
    <2>7. StartNext' /\ MainWhole'
        BY <2>1 DEF Ordered, StartNext, MainWhole, Whole, End
    <2> QED
        BY <2>0, <2>3, <2>5, <2>6, <2>7, AloneOrdered
<1>11. CASE RemoveBegins \/ Cancel("load", "load", "reset") \/ Cancel("reset", "reset", "deinit")
    BY <1>2, <1>11 DEF RemoveBegins, Cancel
<1>12. CASE Deinit
    BY <1>1, <1>12 DEF Deinit
<1> QED
    BY <1>3, <1>4, <1>5, <1>6, <1>7, <1>8, <1>9, <1>10, <1>11, <1>12
       DEF Next, Bus, Remove

\* Marks stay.
LEMMA SeenGrows ==
    ASSUME Next
    PROVE  seen \subseteq seen'
<1> USE DEF client, locals, works, data, removal, firmware, channel, history, SeeIf, If, Use
<1>1. CASE FwResets \/ Bus \/ ShimHandles \/ ShimRefuses \/ EventCb
    BY <1>1 DEF FwResets, Bus, BusRemove, DeviceReset, Probe, ShimHandles,
                ShimRefuses, EventCb
<1>2. ASSUME NEW w \in Works, Begin(w) \/ Load(w)
      PROVE  seen \subseteq seen'
    BY <1>2 DEF Begin, Load, Open, Query, Queried, Fragment,
                FragmentsDone, Start, Send, Acked, Unanswered, Fail
<1>3. CASE ResetHandler \/ RemoveBegins \/ Remove
    BY <1>3 DEF ResetHandler, Free, Connect, RemoveBegins, Remove, Cancel,
                Deinit
<1> QED
    BY <1>1, <1>2, <1>3 DEF Next

\* WholeInv holds in every state, for the sizes the code allows.
LEMMA WholeInvariant == Spec => []WholeInv
<1>1. Init => WholeInv
    <2> SUFFICES ASSUME Init PROVE WholeInv
        OBVIOUS
    <2>1. \A w \in Works : Sizes(w) /\ Loading(w)
        BY DEF Init, Sizes, Loading
    <2>2. Booting /\ Unbound /\ QueryFresh /\ OneWork /\ StartNext /\ MainWhole
        BY DEF Init, Booting, Unbound, QueryFresh, OneWork, StartNext, MainWhole, Works
    <2> QED
        BY <2>1, <2>2, LoaderInit DEF WholeInv
<1>2. WholeInv /\ [Next]_vars => WholeInv'
    <2> SUFFICES ASSUME WholeInv, [Next]_vars PROVE WholeInv'
        OBVIOUS
    <2>1. CASE Next
        <3>1. LoaderTypes' /\ Booting' /\ Unbound' /\ QueryFresh'
            BY <2>1, TypesStep, BootingStep, UnboundStep, FreshStep DEF WholeInv
        <3>2. \A w \in Works : Sizes(w)'
            BY <2>1, SizesStep DEF WholeInv
        <3>3. Orderly' => Ordered'
            <4> SUFFICES ASSUME Orderly' PROVE Ordered'
                OBVIOUS
            <4>1. Orderly
                BY <2>1, SeenGrows DEF Orderly
            <4>2. Ordered
                BY <4>1 DEF WholeInv, Ordered
            <4> QED
                BY <2>1, <4>2, OrderedStep DEF WholeInv
        <3> QED
            BY <3>1, <3>2, <3>3 DEF WholeInv, Ordered
    <2>2. CASE UNCHANGED vars
        BY <2>2 DEF vars, client, locals, works, data, removal, firmware, channel,
                    history, WholeInv, LoaderTypes, Booting, Unbound, QueryFresh, Sizes,
                    Orderly, OneWork, StartNext, MainWhole, Whole, End, Loading, Fresh,
                    Answered, QueryAhead, Asked, Loaded, Quiet, Upto, FragmentAhead,
                    IsFragment, Following
    <2> QED
        BY <2>1, <2>2
<1> QED
    BY <1>1, <1>2, PTL DEF Spec

(***************************************************************************)
(* Main firmware is started only from a whole image, for any size of the   *)
(* image, of the fragments and of the DMA buffers, and any number of       *)
(* attempts and faults, unless the works overlapped or a load began with   *)
(* two messages of former ones on their way.                               *)
(***************************************************************************)
THEOREM StartedFromWhole == Spec => []StartedWhole
<1>1. WholeInv => StartedWhole
    BY DEF WholeInv, StartedWhole, MainWhole, Orderly
<1> QED
    BY <1>1, WholeInvariant, PTL

(***************************************************************************)
(* The loader's client is never used or freed after it was freed: not by   *)
(* the works, not by a removal that waits for them, and not by the bus,    *)
(* unless both works ran, the reset work was scheduled behind a removal,   *)
(* or it replaced the client under one, or could not.                      *)
(***************************************************************************)
THEOREM FreedUnused == Spec => []NoOops
<1>1. Init => OopsInv
    BY LoaderInit
<1>2. WholeInv /\ OopsInv /\ [Next]_vars => OopsInv'
    <2> SUFFICES ASSUME WholeInv, OopsInv, [Next]_vars PROVE OopsInv'
        OBVIOUS
    <2>1. CASE Next
        BY <2>1, OopsStep DEF WholeInv
    <2>2. CASE UNCHANGED vars
        BY <2>2 DEF vars, client, works, removal, history, OopsInv, OneWork, Stopped, Removing
    <2> QED
        BY <2>1, <2>2
<1>3. OopsInv => NoOops
    BY DEF OopsInv, NoOops
<1> QED
    BY <1>1, <1>2, <1>3, WholeInvariant, PTL DEF Spec
=============================================================================
