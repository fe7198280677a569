------------------------------ MODULE PseProofs ------------------------------
(***************************************************************************)
(* Theorems about the PSE driver's client (PseLifecycle), for any number   *)
(* of threads and clients and any bounds, and about the programs that use  *)
(* the device (PseApp), for any rings and any number of faults.            *)
(*                                                                         *)
(* LinkInv adds to LinksExact what keeps it so while nothing has raced:    *)
(* whoever takes a client down holds the mutex, every open under way has a *)
(* client of its own, and a handle is counted for a client whose link has  *)
(* failed.                                                                 *)
(* ReadyInv says how far a firmware reset has come and which clients may   *)
(* be connected then.                                                      *)
(***************************************************************************)
EXTENDS PseLifecycle, PseApp, FiniteSetTheorems, SequenceTheorems, TLAPS

Labels == {"closed", "link", "lfree", "file", "ioctl", "address", "set", "call", "conn", "wait",
           "rlock", "disc", "rwait", "unlink", "list", "queues", "free", "null", "idle", "cb",
           "flush", "cancel", "lock", "remove", "unregister", "enumerate", "probe"}

Requests == Seq([kind : {"connect", "disconnect"}, host : Ids, fw : BOOLEAN])

TypeInv == TypeOK /\ pc \in [Contexts -> Labels]

LEMMA TypeInit == Init => TypeInv
<1> SUFFICES ASSUME Init PROVE TypeInv
  OBVIOUS
<1>1. [c \in Cls |-> 0] \in [Cls -> Ids]
  <2>1. ASSUME NEW c \in Cls PROVE 0 \in Ids
    <3>1. Cardinality(Cls) # 0 /\ Cardinality(Cls) \in Nat
      BY BoundsAssumption, FS_EmptySet, FS_CardinalityType
    <3>2. QED
      BY <3>1 DEF Ids
  <2>2. QED
    BY <2>1
<1>2. resets \in 0 .. MaxResets /\ reqs \in Requests
  BY BoundsAssumption DEF Init, Requests
<1>3. pc \in [Contexts -> Labels] /\ my \in [Contexts -> Cls \cup {None}]
  BY DEF Init, Labels
<1>4. QED
  BY <1>1, <1>2, <1>3 DEF Init, TypeInv, TypeOK, Requests, ClientStates

LEMMA RequestAppended ==
    ASSUME TypeInv, NEW c \in Cls, NEW k \in {"connect", "disconnect"}
    PROVE  Append(reqs, Request(k, c)) \in Requests
<1> DEFINE Req == [kind : {"connect", "disconnect"}, host : Ids, fw : BOOLEAN]
           r   == Request(k, c)
<1>1. r \in Req /\ reqs \in Seq(Req)
  BY DEF TypeInv, TypeOK, Request
<1> HIDE DEF Req, r
<1>2. Append(reqs, r) \in Seq(Req)
  BY <1>1
<1>3. QED
  BY <1>2 DEF Req, r, Requests

\* What a release and ishtp_pse_remove do to a client.
LEMMA TypeTakeDown ==
    ASSUME TypeInv, NEW p \in Contexts, TakeDown(p)
    PROVE  TypeInv'
<1> USE DEF TypeInv, TypeOK, Labels, Goto, Return, devVars, pseVars, listVars, clVars, histVars
<1>1. CASE Disconnect(p)
  <2>1. cl \in Cls
    BY <1>1 DEF Disconnect
  <2>2. reqs' \in Requests
    BY <1>1, <2>1, RequestAppended DEF Disconnect, Requests
  <2>3. state' \in [Cls -> ClientStates] /\ my' \in [Contexts -> Cls \cup {None}]
    BY <1>1, <2>1 DEF Disconnect, ClientStates
  <2>4. pc' \in [Contexts -> Labels]
    BY <1>1 DEF Disconnect
  <2>5. QED
    BY <1>1, <2>2, <2>3, <2>4 DEF Disconnect, Requests
<1>2. CASE Wake(p) \/ Timeout(p) \/ FlushQueues(p)
  BY <1>2 DEF Wake, Timeout, FlushQueues
<1>3. CASE UnlinkId(p)
  BY <1>3 DEF UnlinkId
<1>4. CASE UnlinkList(p)
  <2>1. linked' \subseteq Cls
    BY <1>4 DEF UnlinkList
  <2>2. QED
    BY <1>4, <2>1 DEF UnlinkList
<1>5. CASE Free(p)
  BY <1>5 DEF Free, Kfree, ClientStates
<1>6. QED
  BY <1>1, <1>2, <1>3, <1>4, <1>5 DEF TakeDown

LEMMA TypeOpen ==
    ASSUME TypeInv, NEW u \in Users, Open(u)
    PROVE  TypeInv'
<1> USE DEF TypeInv, TypeOK, Labels, Goto, Return, devVars, pseVars, listVars, clVars, histVars
<1>0. u \in Contexts
  BY DEF Contexts
<1>1. CASE OpenAlloc(u)
  BY <1>0, <1>1 DEF OpenAlloc
<1>2. CASE OpenNoMem(u)
  BY <1>0, <1>2 DEF OpenNoMem
<1>3. CASE OpenLink(u)
  <2>1. PICK c \in {my[u], cl} \cap (alive \ linked) :
            /\ HostId(c)
            /\ hostMap' = hostMap \cup {hid'[c]}
            /\ linked' = linked \cup {c}
            /\ state' = [state EXCEPT ![c] = "INITIALIZING"]
            /\ raced' = (raced \/ Races(u, c))
    BY <1>3 DEF OpenLink
  <2>2. c \in Cls
    BY <2>1
  <2>3. hid' \in [Cls -> Ids] /\ hid'[c] \in Ids
    BY <2>1, <2>2 DEF HostId
  <2>4. raced' \in BOOLEAN
    BY <2>1 DEF Races
  <2>5. state' \in [Cls -> ClientStates]
    BY <2>1, <2>2 DEF ClientStates
  <2>6. pc' \in [Contexts -> Labels] /\ my' \in [Contexts -> Cls \cup {None}]
    BY <1>0, <1>3 DEF OpenLink
  <2>7. QED
    BY <1>3, <2>1, <2>2, <2>3, <2>4, <2>5, <2>6 DEF OpenLink
<1>4. CASE OpenLinkDisabled(u)
  <2>1. hid' \in [Cls -> Ids] /\ raced' \in BOOLEAN
    BY <1>4 DEF OpenLinkDisabled, HostId
  <2>2. QED
    BY <1>0, <1>4, <2>1 DEF OpenLinkDisabled
<1>5. CASE OpenLinkRefused(u)
  BY <1>0, <1>5 DEF OpenLinkRefused
<1>6. CASE OpenFree(u)
  BY <1>0, <1>6 DEF OpenFree, Kfree, ClientStates
<1>7. QED
  BY <1>1, <1>2, <1>3, <1>4, <1>5, <1>6 DEF Open

LEMMA TypeStep == TypeInv /\ [Next]_vars => TypeInv'
<1> SUFFICES ASSUME TypeInv, [Next]_vars PROVE TypeInv'
  OBVIOUS
<1> USE DEF TypeInv, TypeOK, Labels, devVars, pseVars, listVars, clVars, histVars
<1>0. Users \subseteq Contexts /\ Bus \in Contexts /\ Ev \in Contexts
  BY DEF Contexts
<1>1. ASSUME NEW u \in Users, Open(u) PROVE TypeInv'
  BY <1>1, TypeOpen
<1>2. ASSUME NEW u \in Users, IoctlCall(u) \/ IoctlRefused(u) \/ IoctlCheck(u) PROVE TypeInv'
  BY <1>0, <1>2 DEF IoctlCall, IoctlRefused, IoctlCheck, Goto
<1>3. ASSUME NEW u \in Users, IoctlAddress(u) \/ IoctlSet(u) \/ ConnCall(u) PROVE TypeInv'
  <2>1. u \in Contexts
    BY <1>0
  <2>2. CASE IoctlAddress(u)
    BY <2>1, <2>2 DEF IoctlAddress, Goto
  <2>3. CASE IoctlSet(u)
    BY <2>1, <2>3 DEF IoctlSet, Goto, ClientStates
  <2>4. CASE ConnCall(u)
    BY <2>1, <2>4 DEF ConnCall, Goto
  <2>5. QED
    BY <1>3, <2>2, <2>3, <2>4
<1>4. ASSUME NEW u \in Users, ConnFails(u) \/ ConnError(u) PROVE TypeInv'
  BY <1>0, <1>4 DEF ConnFails, ConnError, Return, Goto
<1>5. ASSUME NEW u \in Users, ConnReq(u) PROVE TypeInv'
  <2>1. reqs' \in Requests
    BY <1>5, RequestAppended DEF ConnReq
  <2>2. QED
    BY <1>0, <1>5, <2>1 DEF ConnReq, Goto, Requests
<1>6. ASSUME NEW u \in Users, ConnDone(u) PROVE TypeInv'
  BY <1>0, <1>6 DEF ConnDone, Return, Goto
<1>7. ASSUME NEW u \in Users, ConnNoRings(u) PROVE TypeInv'
  BY <1>0, <1>7 DEF ConnNoRings, Return, Goto
<1>8. ASSUME NEW u \in Users, ReadRecycle(u) \/ ReleaseCall(u) \/ RelLock(u) \/ RelNull(u)
      PROVE  TypeInv'
  BY <1>0, <1>8 DEF ReadRecycle, ReleaseCall, RelLock, RelNull, Return, Goto
<1>9. ASSUME NEW p \in Contexts, TakeDown(p) PROVE TypeInv'
  BY <1>9, TypeTakeDown
<1>10. ASSUME Oops PROVE TypeInv'
  BY <1>10 DEF Oops
<1>11. CASE EventStart
  BY <1>0, <1>11 DEF EventStart, Goto
<1>12. CASE EventTake
  BY <1>0, <1>12 DEF EventTake, Goto
<1>13. CASE ResetStart
  <2>1. resets' \in 0 .. MaxResets
    BY <1>13, BoundsAssumption DEF ResetStart
  <2>2. reqs' \in Requests
    BY <1>13 DEF ResetStart, Requests
  <2>3. QED
    BY <1>0, <1>13, <2>1, <2>2 DEF ResetStart, Goto, Requests
<1>14. CASE ResetFlush
  BY <1>0, <1>14 DEF ResetFlush, Goto, ClientStates
<1>15. CASE ResetCancel \/ RemoveLock \/ RemoveNull
  <2>1. CASE ResetCancel
    BY <1>0, <2>1 DEF ResetCancel, Goto
  <2>2. CASE RemoveLock
    BY <1>0, <2>2 DEF RemoveLock, Goto
  <2>3. CASE RemoveNull
    BY <1>0, <2>3 DEF RemoveNull, Goto
  <2>4. QED
    BY <1>15, <2>1, <2>2, <2>3
<1>16. CASE Unregister \/ Enumerated
  BY <1>0, <1>16 DEF Unregister, Enumerated, Goto
<1>17. CASE Probe
  BY <1>0, <1>17 DEF Probe, Goto
<1>18. CASE FwResponds
  <2>1. reqs' \in Requests
    BY <1>18 DEF FwResponds, Requests
  <2>2. state' \in [Cls -> ClientStates] /\ hindered' \subseteq Cls
    BY <1>18 DEF FwResponds, Addressee, ClientStates
  <2>3. QED
    BY <1>18, <2>1, <2>2 DEF FwResponds, Requests
<1>19. CASE FwDisconnects
  BY <1>19 DEF FwDisconnects, ClientStates
<1>20. CASE FwMessage
  BY <1>20 DEF FwMessage
<1>21. CASE UNCHANGED vars
  BY <1>21 DEF vars
<1>22. QED
  BY <1>0, <1>1, <1>2, <1>3, <1>4, <1>5, <1>6, <1>7, <1>8, <1>9, <1>10, <1>11, <1>12, <1>13, <1>14,
     <1>15, <1>16, <1>17, <1>18, <1>19, <1>20, <1>21
     DEF Next, Step, Connect, Release, UserOops, RelOops, Event, EventOops, ResetStep, BusOops
-----------------------------------------------------------------------------
(***************************************************************************)
(* What holds until contexts race for pse_dev.cl.  Whoever takes a client  *)
(* down holds pse_rb.lock, so that one context at a time gives an id back; *)
(* every open has a client of its own; after the list pse_dev.cl is not a  *)
(* linked client; and one that is not linked but has an id, of a link that *)
(* failed, stands for a handle that nobody else gives back.                *)
(***************************************************************************)
Holding    == {"remove", "disc", "rwait", "unlink", "list", "queues", "free", "null"}
Opening(u) == pc[u] \in {"link", "lfree"}
GaveBack   == {"list", "queues", "free", "null"}
Connecters == {"file", "ioctl", "address", "set", "call", "conn", "wait"}

MutexHeld == \A p \in Contexts : pc[p] \in Holding => lock = p

FreshIds == \A c \in Cls \ allocated : hid[c] = 0

OpensApart ==
    \A u \in Users : Opening(u) =>
        /\ my[u] \in allocated \ linked
        /\ pc[u] = "link" => hid[my[u]] = 0
        /\ \A w \in Users : Opening(w) /\ my[w] = my[u] => w = u

TakenOff ==
    \A p \in Contexts :
        /\ pc[p] = "list" => my[p] \in Cls /\ (cl = my[p] \/ cl \notin linked)
        /\ pc[p] \in {"queues", "free"} => cl \notin linked

FailedCounted ==
    (cl \in Cls \ linked /\ hid[cl] # 0 /\ \A p \in Contexts : pc[p] \notin GaveBack)
        => Cardinality(Unlinkable) + 1 <= handles

ListParts == LinkedAlive /\ HostIdsExact /\ HandlesCounted /\ FailedCounted /\ FreshIds /\ TakenOff
LinkParts == MutexHeld /\ OpensApart /\ ListParts
LinkInv   == raced \/ LinkParts

LEMMA LinkedFinite ==
    ASSUME TypeInv
    PROVE  /\ \A S \in SUBSET linked : IsFiniteSet(S) /\ Cardinality(S) \in Nat
           /\ Unlinkable \subseteq linked /\ Leaving \subseteq linked
           /\ handles \in Nat /\ refused \in Nat
<1>1. IsFiniteSet(linked)
  BY BoundsAssumption, FS_Subset DEF TypeInv, TypeOK
<1>2. ASSUME NEW S \in SUBSET linked PROVE IsFiniteSet(S) /\ Cardinality(S) \in Nat
  BY <1>1, FS_Subset, FS_CardinalityType
<1>3. QED
  BY <1>2 DEF TypeInv, TypeOK, Unlinkable, Leaving

LEMMA CountsGrow ==
    ASSUME TypeInv, NEW S \in SUBSET linked, NEW T \in SUBSET S
    PROVE  Cardinality(T) <= Cardinality(S) /\ Cardinality(T) \in Nat /\ Cardinality(S) \in Nat
<1>1. QED
  BY LinkedFinite, FS_Subset

LEMMA NoneLeaving ==
    ASSUME \A p \in Contexts : pc[p] # "list"
    PROVE  Leaving = {}
<1>1. QED
  BY DEF Leaving

\* Whoever is between the sections of an unlinking stays there, or where it was.
ListersStay ==
    \A p \in Contexts :
        /\ pc[p] = "list" <=> pc'[p] = "list"
        /\ pc[p] = "list" => my'[p] = my[p]
        /\ pc[p] \in GaveBack => pc'[p] \in GaveBack \/ cl' = None
        /\ pc'[p] \in {"queues", "free"} => pc[p] \in {"queues", "free"} \/ cl' = None

\* Nobody begins to open, and nobody's open begins again.
OpenersStay ==
    \A u \in Users :
        /\ pc'[u] \in {"link", "lfree"} => pc[u] \in {"link", "lfree"} /\ my'[u] = my[u]
        /\ pc'[u] = "link" => pc[u] = "link"

LEMMA ElsewhereStay ==
    ASSUME TypeInv, NEW p \in Contexts, NEW l \in Labels, pc' = [pc EXCEPT ![p] = l],
           \A q \in Contexts : q # p => my'[q] = my[q],
           {pc[p], l} \cap ({"link", "lfree"} \cup GaveBack) = {}
    PROVE  ListersStay /\ OpenersStay
<1>1. \A q \in Contexts : pc'[q] = IF q = p THEN l ELSE pc[q]
  BY DEF TypeInv
<1>2. ListersStay
  BY <1>1 DEF ListersStay, GaveBack
<1>3. OpenersStay
  BY <1>1 DEF OpenersStay, Contexts
<1>4. QED
  BY <1>2, <1>3

\* The steps that leave the list and the ids alone.
LEMMA ListStays ==
    ASSUME TypeInv, ListParts, UNCHANGED <<linked, hid, hostMap, handles, refused>>,
           allocated \subseteq allocated', linked \subseteq alive',
           cl' = cl \/ cl' = None \/ (cl' \in Cls \ linked /\ hid[cl'] = 0), ListersStay
    PROVE  ListParts'
<1>1. Leaving' = Leaving
  BY DEF Leaving, ListersStay
<1>2. Unlinkable' \subseteq Unlinkable /\ (cl' = cl => Unlinkable' = Unlinkable)
  <2>1. None \notin linked
    BY ContextsAssumption DEF TypeInv, TypeOK
  <2>2. CASE cl' = cl
    BY <2>2 DEF Unlinkable
  <2>3. CASE cl' # cl
    <3>1. ASSUME NEW c \in Unlinkable' PROVE c \in linked /\ hid[c] = 0
      BY <2>1, <2>3 DEF Unlinkable
    <3>2. QED
      BY <2>3, <3>1 DEF Unlinkable
  <2>4. QED
    BY <2>2, <2>3
<1>3. HandlesCounted'
  <2>1. Cardinality(Unlinkable \ Leaving) <= handles
    BY DEF ListParts, HandlesCounted
  <2>2. /\ Cardinality(Unlinkable' \ Leaving') <= Cardinality(Unlinkable \ Leaving)
        /\ Cardinality(Unlinkable' \ Leaving') \in Nat /\ Cardinality(Unlinkable \ Leaving) \in Nat
    <3>1. Unlinkable \ Leaving \in SUBSET linked
      BY DEF Unlinkable
    <3>2. Unlinkable' \ Leaving' \in SUBSET (Unlinkable \ Leaving)
      BY <1>1, <1>2
    <3>3. QED
      BY <3>1, <3>2, CountsGrow
  <2>3. handles' = handles /\ handles \in Nat
    BY LinkedFinite
  <2>4. handles' <= Cardinality(linked' \ Leaving') + refused'
    BY <1>1 DEF ListParts, HandlesCounted
  <2>5. QED
    BY <2>1, <2>2, <2>3, <2>4 DEF HandlesCounted
<1>4. FailedCounted'
  <2>1. CASE cl' = cl /\ cl # None
    <3>1. (\A p \in Contexts : pc'[p] \notin GaveBack) => \A p \in Contexts : pc[p] \notin GaveBack
      BY <2>1 DEF ListersStay
    <3>2. QED
      BY <1>2, <2>1, <3>1 DEF ListParts, FailedCounted
  <2>2. CASE cl' # cl \/ cl = None
    <3>1. None \notin Cls
      BY ContextsAssumption
    <3>2. ~(cl' \in Cls \ linked' /\ hid'[cl'] # 0)
      BY <2>2, <3>1
    <3>3. QED
      BY <3>2 DEF FailedCounted
  <2>3. QED
    BY <2>1, <2>2
<1>5. TakenOff'
  <2>1. None \notin linked
    BY ContextsAssumption DEF TypeInv, TypeOK
  <2>2. ASSUME NEW p \in Contexts, pc'[p] = "list"
        PROVE  my'[p] \in Cls /\ (cl' = my'[p] \/ cl' \notin linked')
    BY <2>1, <2>2 DEF ListParts, TakenOff, ListersStay
  <2>3. ASSUME NEW p \in Contexts, pc'[p] \in {"queues", "free"}
        PROVE  cl' \notin linked'
    BY <2>1, <2>3 DEF ListParts, TakenOff, ListersStay
  <2>4. QED
    BY <2>2, <2>3 DEF TakenOff
<1>6. LinkedAlive' /\ HostIdsExact'
  BY <1>1 DEF ListParts, LinkedAlive, HostIdsExact
<1>7. FreshIds'
  BY DEF ListParts, FreshIds
<1>8. QED
  BY <1>3, <1>4, <1>5, <1>6, <1>7 DEF ListParts

LEMMA OpensStay ==
    ASSUME OpensApart, linked' \subseteq linked, hid' = hid, allocated \subseteq allocated',
           OpenersStay
    PROVE  OpensApart'
<1>1. QED
  BY DEF OpensApart, OpenersStay, Opening

LEMMA RacedStays == raced /\ [Next]_vars => raced'
<1> SUFFICES ASSUME raced, [Next]_vars PROVE raced'
  OBVIOUS
<1> USE DEF histVars
<1>1. ASSUME NEW u \in Users, Open(u) PROVE raced'
  BY <1>1 DEF Open, OpenAlloc, OpenNoMem, OpenLink, OpenLinkDisabled, OpenLinkRefused, OpenFree
<1>2. ASSUME NEW u \in Users, IoctlCall(u) \/ Connect(u) PROVE raced'
  BY <1>2 DEF IoctlCall, Connect, IoctlRefused, IoctlCheck, IoctlAddress, IoctlSet,
                ConnCall, ConnFails, ConnReq, ConnError, ConnDone, ConnNoRings
<1>3. ASSUME NEW u \in Users, ReadRecycle(u) \/ ReleaseCall(u) \/ RelLock(u) \/ RelNull(u)
      PROVE  raced'
  BY <1>3 DEF ReadRecycle, ReleaseCall, RelLock, RelNull
<1>4. ASSUME NEW p \in Contexts, TakeDown(p) PROVE raced'
  BY <1>4 DEF TakeDown, Disconnect, Wake, Timeout, UnlinkId, UnlinkList, FlushQueues, Free
<1>5. ASSUME Oops PROVE raced'
  BY <1>5 DEF Oops
<1>6. ASSUME EventStart \/ EventTake \/ ResetStart \/ ResetFlush \/ ResetCancel PROVE raced'
  BY <1>6 DEF EventStart, EventTake, ResetStart, ResetFlush, ResetCancel
<1>7. ASSUME RemoveLock \/ RemoveNull \/ Unregister \/ Enumerated \/ Probe PROVE raced'
  BY <1>7 DEF RemoveLock, RemoveNull, Unregister, Enumerated, Probe
<1>8. ASSUME FwResponds \/ FwDisconnects \/ FwMessage PROVE raced'
  BY <1>8 DEF FwResponds, FwDisconnects, FwMessage
<1>9. CASE UNCHANGED vars
  BY <1>9 DEF vars
<1>10. Users \subseteq Contexts /\ Bus \in Contexts
  BY DEF Contexts
<1>11. QED
  BY <1>1, <1>2, <1>3, <1>4, <1>5, <1>6, <1>7, <1>8, <1>9, <1>10
     DEF Next, Step, Release, UserOops, RelOops, Event, EventOops, ResetStep, BusOops

\* A context that does not hold the mutex comes to hold it only when it is free.
LEMMA MutexStep == TypeInv /\ MutexHeld /\ [Next]_vars /\ ~raced' => MutexHeld'
<1> SUFFICES ASSUME TypeInv, MutexHeld, [Next]_vars, ~raced' PROVE MutexHeld'
  OBVIOUS
<1> USE DEF Goto, Return, pseVars, Holding
<1>0. Users \subseteq Contexts /\ Bus \in Contexts /\ Ev \in Contexts /\ None \notin Contexts
  BY ContextsAssumption DEF Contexts
<1>1. pc \in [Contexts -> Labels]
  BY DEF TypeInv
<1>2. ASSUME lock' = lock, \A p \in Contexts : pc'[p] \in Holding => pc[p] \in Holding
      PROVE  MutexHeld'
  BY <1>2 DEF MutexHeld
<1>3. ASSUME NEW p \in Contexts, NEW l \in Labels, pc' = [pc EXCEPT ![p] = l], lock' = lock,
             l \in Holding => pc[p] \in Holding
      PROVE  MutexHeld'
  BY <1>1, <1>2, <1>3
<1>4. ASSUME NEW u \in Users, Open(u) PROVE MutexHeld'
  <2>1. /\ lock' = lock
        /\ \/ pc' = pc
           \/ \E l \in {"link", "lfree", "file", "closed"} : pc' = [pc EXCEPT ![u] = l]
    BY <1>4 DEF Open, OpenAlloc, OpenNoMem, OpenLink, OpenLinkDisabled, OpenLinkRefused, OpenFree
  <2>2. QED
    BY <1>0, <1>2, <1>3, <2>1 DEF Labels
<1>5. ASSUME NEW u \in Users, IoctlCall(u) \/ Connect(u) PROVE MutexHeld'
  <2>1. lock' = lock /\ \E l \in Connecters : pc' = [pc EXCEPT ![u] = l]
    BY <1>5 DEF IoctlCall, Connect, IoctlRefused, IoctlCheck, IoctlAddress, IoctlSet,
                ConnCall, ConnFails, ConnReq, ConnError, ConnDone, ConnNoRings, Connecters
  <2>2. QED
    BY <1>0, <1>3, <2>1 DEF Labels, Connecters
<1>6. ASSUME NEW u \in Users, ReadRecycle(u) \/ ReleaseCall(u) PROVE MutexHeld'
  <2>1. lock' = lock /\ (pc' = pc \/ \E l \in {"closed", "rlock"} : pc' = [pc EXCEPT ![u] = l])
    BY <1>6 DEF ReadRecycle, ReleaseCall
  <2>2. QED
    BY <1>0, <1>2, <1>3, <2>1 DEF Labels
<1>7. ASSUME NEW p \in Contexts, lock = None, lock' = p,
             \A q \in Contexts : q # p => pc'[q] = pc[q]
      PROVE  MutexHeld'
  BY <1>0, <1>7 DEF MutexHeld
<1>8. ASSUME NEW u \in Users, RelLock(u) PROVE MutexHeld'
  BY <1>0, <1>1, <1>7, <1>8 DEF RelLock
<1>9. ASSUME NEW p \in Contexts, pc[p] = "null", pc'[p] \notin Holding,
             \A q \in Contexts : q # p => pc'[q] = pc[q]
      PROVE  MutexHeld'
  BY <1>9 DEF MutexHeld
<1>10. ASSUME NEW u \in Users, RelNull(u) PROVE MutexHeld'
  BY <1>0, <1>1, <1>9, <1>10 DEF RelNull
<1>11. ASSUME NEW p \in Contexts, TakeDown(p) PROVE MutexHeld'
  <2>1. /\ lock' = lock /\ pc[p] \in Holding
        /\ \E l \in {"rwait", "unlink", "list", "queues", "free", "null"} : pc' = [pc EXCEPT ![p] = l]
    BY <1>11 DEF TakeDown, Disconnect, Wake, Timeout, UnlinkId, UnlinkList, FlushQueues, Free
  <2>2. QED
    BY <1>3, <2>1 DEF Labels
<1>12. ASSUME Oops PROVE MutexHeld'
  BY <1>2, <1>12 DEF Oops
<1>13. CASE EventStart \/ EventTake
  <2>1. lock' = lock /\ \E l \in {"cb", "idle"} : pc' = [pc EXCEPT ![Ev] = l]
    BY <1>13 DEF EventStart, EventTake
  <2>2. QED
    BY <1>0, <1>3, <2>1 DEF Labels
<1>14. CASE ResetStart \/ ResetFlush \/ ResetCancel \/ Unregister \/ Enumerated
  <2>1. /\ lock' = lock
        /\ \E l \in {"flush", "cancel", "lock", "enumerate", "probe"} : pc' = [pc EXCEPT ![Bus] = l]
    BY <1>14 DEF ResetStart, ResetFlush, ResetCancel, Unregister, Enumerated
  <2>2. QED
    BY <1>0, <1>3, <2>1 DEF Labels
<1>15. CASE RemoveLock
  <2>1. CASE cl = None
    BY <1>0, <1>3, <1>15, <2>1 DEF RemoveLock, Labels
  <2>2. CASE cl # None
    BY <1>0, <1>1, <1>7, <1>15, <2>2 DEF RemoveLock
  <2>3. QED
    BY <2>1, <2>2
<1>16. CASE RemoveNull
  BY <1>0, <1>1, <1>9, <1>16 DEF RemoveNull
<1>17. CASE Probe
  <2>1. lock' = None /\ lock = None /\ pc' = [pc EXCEPT ![Bus] = "idle"]
    BY <1>17 DEF Probe
  <2>2. QED
    BY <1>0, <1>1, <2>1 DEF MutexHeld
<1>18. CASE FwResponds \/ FwDisconnects \/ FwMessage \/ UNCHANGED vars
  BY <1>2, <1>18 DEF FwResponds, FwDisconnects, FwMessage, vars
<1>19. QED
  BY <1>0, <1>4, <1>5, <1>6, <1>8, <1>10, <1>11, <1>12, <1>13, <1>14, <1>15, <1>16, <1>17, <1>18
     DEF Next, Step, Release, UserOops, RelOops, Event, EventOops, ResetStep, BusOops

(***************************************************************************)
(* ishtp_cl_link: the client gets an id that no linked client has, and a   *)
(* handle.                                                                 *)
(***************************************************************************)
LEMMA LinksAdd ==
    ASSUME TypeInv, LinkParts, NEW u \in Users, OpenLink(u), ~raced'
    PROVE  ListParts' /\ OpensApart'
<1>1. PICK c \in {my[u], cl} \cap (alive \ linked) :
          /\ HostId(c)
          /\ hostMap' = hostMap \cup {hid'[c]}
          /\ linked' = linked \cup {c}
          /\ raced' = (raced \/ Races(u, c))
  BY DEF OpenLink
<1>2. c = my[u] /\ \A p \in Contexts : pc[p] \notin {"list", "queues", "free"}
  BY <1>1 DEF Races, Disposing
<1>3. PICK i \in Ids \ hostMap : hid' = [hid EXCEPT ![c] = i]
  BY <1>1 DEF HostId
<1>4. /\ c \in Cls /\ c \notin linked /\ c \in alive /\ hid \in [Cls -> Ids]
      /\ pc[u] = "link" /\ pc' = [pc EXCEPT ![u] = "file"]
      /\ cl' = cl /\ alive' = alive /\ allocated' = allocated
      /\ handles' = handles + 1 /\ refused' = refused
      /\ my' = [my EXCEPT ![u] = None]
  BY <1>1 DEF OpenLink, Return, Goto, pseVars, TypeInv, TypeOK
<1>5. hid'[c] = i /\ \A d \in Cls : d # c => hid'[d] = hid[d]
  BY <1>3, <1>4
<1>6. u \in Contexts /\ \A p \in Contexts : p # u => pc'[p] = pc[p] /\ my'[p] = my[p]
  BY <1>4 DEF Contexts, TypeInv, TypeOK
<1>7. pc'[u] = "file"
  BY <1>4, <1>6 DEF TypeInv
<1>8. Leaving = {} /\ Leaving' = {}
  BY <1>2, <1>6, <1>7 DEF Leaving
<1>9. linked \subseteq alive /\ linked \subseteq Cls /\ alive \subseteq allocated
  BY DEF LinkParts, ListParts, LinkedAlive, TypeInv, TypeOK
<1>10. HostIdsExact'
  <2>1. \A d \in linked : hid'[d] = hid[d] /\ hid[d] \in hostMap
    BY <1>4, <1>5, <1>8, <1>9 DEF LinkParts, ListParts, HostIdsExact
  <2>2. \A d, e \in linked' : hid'[d] = hid'[e] => d = e
    BY <1>1, <1>3, <1>5, <2>1 DEF LinkParts, ListParts, HostIdsExact
  <2>3. hostMap' = {hid'[d] : d \in linked' \ Leaving'}
    BY <1>1, <1>5, <1>8, <2>1 DEF LinkParts, ListParts, HostIdsExact
  <2>4. QED
    BY <2>2, <2>3 DEF HostIdsExact
<1>11. /\ Cardinality(Unlinkable') <= Cardinality(Unlinkable) + 1
       /\ Cardinality(linked') = Cardinality(linked) + 1
       /\ Cardinality(Unlinkable') \in Nat /\ Cardinality(Unlinkable) \in Nat
       /\ Cardinality(linked) \in Nat
  <2>1. Unlinkable' \subseteq Unlinkable \cup {c}
    <3>1. ASSUME NEW d \in Unlinkable', d # c PROVE d \in Unlinkable
      <4>1. d \in linked /\ d \in Cls /\ hid'[d] = hid[d]
        BY <1>1, <1>5, <1>9, <3>1 DEF Unlinkable
      <4>2. CASE d = cl \/ hid[d] = 0
        BY <4>1, <4>2 DEF Unlinkable
      <4>3. CASE cl # None /\ hid'[d] = hid'[cl]
        <5>1. cl \in Cls
          BY <4>3 DEF TypeInv, TypeOK
        <5>2. cl # c
          BY <1>1, <1>10, <3>1, <4>1, <4>3 DEF HostIdsExact
        <5>3. QED
          BY <1>5, <4>1, <4>3, <5>1, <5>2 DEF Unlinkable
      <4>4. QED
        BY <1>4, <3>1, <4>1, <4>2, <4>3 DEF Unlinkable
    <3>2. QED
      BY <3>1
  <2>2. /\ IsFiniteSet(Unlinkable) /\ c \notin Unlinkable
        /\ IsFiniteSet(linked) /\ Cardinality(linked) \in Nat /\ Cardinality(Unlinkable) \in Nat
    BY <1>4, LinkedFinite
  <2>3. /\ IsFiniteSet(Unlinkable \cup {c})
        /\ Cardinality(Unlinkable \cup {c}) = Cardinality(Unlinkable) + 1
    BY <2>2, FS_AddElement
  <2>4. /\ Cardinality(Unlinkable') <= Cardinality(Unlinkable \cup {c})
        /\ Cardinality(Unlinkable') \in Nat
    BY <2>1, <2>3, FS_Subset, FS_CardinalityType
  <2>5. Cardinality(linked') = Cardinality(linked) + 1
    BY <1>1, <1>4, <2>2, FS_AddElement
  <2>6. QED
    BY <2>2, <2>3, <2>4, <2>5
<1>12. HandlesCounted'
  <2>1. Unlinkable \ Leaving = Unlinkable /\ linked \ Leaving = linked
    BY <1>8
  <2>2. Unlinkable' \ Leaving' = Unlinkable' /\ linked' \ Leaving' = linked'
    BY <1>8
  <2>3. Cardinality(Unlinkable) <= handles /\ handles <= Cardinality(linked) + refused
    BY <2>1 DEF LinkParts, ListParts, HandlesCounted
  <2>4. Cardinality(Unlinkable') <= handles' /\ handles' <= Cardinality(linked') + refused'
    BY <1>4, <1>11, <2>3, LinkedFinite
  <2>5. QED
    BY <2>2, <2>4 DEF HandlesCounted
<1>13. FailedCounted'
  <2> SUFFICES ASSUME cl \in Cls \ linked', hid'[cl] # 0, \A p \in Contexts : pc'[p] \notin GaveBack
               PROVE  Cardinality(Unlinkable') + 1 <= handles'
    BY <1>4 DEF FailedCounted
  <2>1. cl \in Cls \ linked /\ hid[cl] # 0
    BY <1>1, <1>5
  <2>2. \A p \in Contexts : pc[p] \notin GaveBack
    BY <1>4, <1>6 DEF GaveBack
  <2>3. Cardinality(Unlinkable) + 1 <= handles
    BY <2>1, <2>2 DEF LinkParts, ListParts, FailedCounted
  <2>4. QED
    BY <1>4, <1>11, <2>3, LinkedFinite
<1>14. TakenOff'
  BY <1>2, <1>6, <1>7 DEF TakenOff
<1>15. LinkedAlive' /\ FreshIds'
  BY <1>1, <1>4, <1>5, <1>9 DEF LinkedAlive, LinkParts, ListParts, FreshIds
<1>16. OpensApart'
  <2> SUFFICES ASSUME NEW w \in Users, pc'[w] \in {"link", "lfree"}
               PROVE  /\ my'[w] \in allocated' \ linked'
                      /\ pc'[w] = "link" => hid'[my'[w]] = 0
                      /\ \A v \in Users : pc'[v] \in {"link", "lfree"} /\ my'[v] = my'[w] => v = w
    BY DEF OpensApart, Opening
  <2>1. w # u /\ w \in Contexts /\ pc[w] = pc'[w] /\ my'[w] = my[w]
    BY <1>6, <1>7 DEF Contexts
  <2>2. /\ my[w] # c /\ my[w] \in allocated \ linked /\ my[w] \in Cls
        /\ pc[w] = "link" => hid[my[w]] = 0
    BY <1>2, <1>4, <2>1 DEF LinkParts, OpensApart, Opening, TypeInv, TypeOK
  <2>3. ASSUME NEW v \in Users, pc'[v] \in {"link", "lfree"}, my'[v] = my'[w] PROVE v = w
    <3>1. v # u /\ v \in Contexts /\ pc[v] = pc'[v] /\ my'[v] = my[v]
      BY <1>6, <1>7, <2>3 DEF Contexts
    <3>2. QED
      BY <2>1, <2>3, <3>1 DEF LinkParts, OpensApart, Opening
  <2>4. QED
    BY <1>1, <1>4, <1>5, <2>1, <2>2, <2>3
<1>17. QED
  BY <1>10, <1>12, <1>13, <1>14, <1>15, <1>16 DEF ListParts

(***************************************************************************)
(* A link that the disabled device refuses: the client has an id that is   *)
(* not marked, and a handle that is not given back.  A client that is      *)
(* being unlinked meanwhile keeps the id 0, the lowest that is free.       *)
(***************************************************************************)
LEMMA LinksFail ==
    ASSUME TypeInv, LinkParts, NEW u \in Users, OpenLinkDisabled(u), ~raced'
    PROVE  ListParts' /\ OpensApart'
<1>1. PICK c \in {my[u], cl} \cap alive : HostId(c) /\ raced' = (raced \/ c # my[u])
  BY DEF OpenLinkDisabled
<1>2. PICK i \in Ids \ hostMap : /\ \A j \in Ids \ hostMap : i <= j
                                 /\ hid' = [hid EXCEPT ![c] = i]
  BY <1>1 DEF HostId
<1>3. /\ c = my[u] /\ c \in Cls /\ c \in alive /\ hid \in [Cls -> Ids]
      /\ pc[u] = "link" /\ pc' = [pc EXCEPT ![u] = "lfree"] /\ my' = my
      /\ cl' = cl /\ alive' = alive /\ allocated' = allocated /\ linked' = linked
      /\ hostMap' = hostMap /\ handles' = handles + 1 /\ refused' = refused + 1
  BY <1>1 DEF OpenLinkDisabled, Goto, pseVars, TypeInv, TypeOK
<1>4. hid'[c] = i /\ \A d \in Cls : d # c => hid'[d] = hid[d]
  BY <1>2, <1>3
<1>5. u \in Contexts /\ pc'[u] = "lfree" /\ \A p \in Contexts : p # u => pc'[p] = pc[p]
  BY <1>3 DEF Contexts, TypeInv
<1>6. c \notin linked /\ hid[c] = 0 /\ c \in allocated
  BY <1>3 DEF LinkParts, OpensApart, Opening
<1>7. linked \subseteq Cls /\ \A d \in linked : hid'[d] = hid[d]
  BY <1>4, <1>6 DEF TypeInv, TypeOK
<1>8. ASSUME NEW p \in Contexts, pc[p] = "list" PROVE my[p] \in Cls /\ hid'[my[p]] = hid[my[p]]
  <2>1. my[p] \in Cls
    BY <1>8 DEF LinkParts, ListParts, TakenOff
  <2>2. CASE my[p] = c
    <3>1. 0 \notin hostMap
      BY <1>6, <1>8, <2>2 DEF LinkParts, ListParts, HostIdsExact, Leaving
    <3>2. 0 \in Ids
      BY <1>3, <1>6
    <3>3. i <= 0 /\ i \in Nat
      BY <1>2, <3>1, <3>2 DEF Ids
    <3>4. QED
      BY <1>4, <1>6, <2>1, <2>2, <3>3
  <2>3. CASE my[p] # c
    BY <1>4, <2>1, <2>3
  <2>4. QED
    BY <2>1, <2>2, <2>3
<1>9. Leaving' = Leaving
  <2>1. \A p \in Contexts : pc[p] = "list" <=> pc'[p] = "list"
    BY <1>3, <1>5
  <2>2. QED
    BY <1>3, <1>7, <1>8, <2>1 DEF Leaving
<1>10. HostIdsExact'
  <2>1. \A d, e \in linked' : hid'[d] = hid'[e] => d = e
    BY <1>3, <1>7 DEF LinkParts, ListParts, HostIdsExact
  <2>2. hostMap' = {hid'[d] : d \in linked' \ Leaving'}
    BY <1>3, <1>7, <1>9 DEF LinkParts, ListParts, HostIdsExact
  <2>3. QED
    BY <2>1, <2>2 DEF HostIdsExact
<1>11. Unlinkable' \ Leaving' \subseteq Unlinkable \ Leaving
  <2> SUFFICES ASSUME NEW d \in Unlinkable', d \notin Leaving PROVE d \in Unlinkable
    BY <1>9
  <2>1. d \in linked /\ d \in Cls /\ hid'[d] = hid[d] /\ hid[d] \in hostMap
    BY <1>3, <1>7 DEF Unlinkable, LinkParts, ListParts, HostIdsExact
  <2>2. hid[d] # i
    BY <1>2, <2>1
  <2>3. CASE d = cl \/ hid[d] = 0
    BY <2>1, <2>3 DEF Unlinkable
  <2>4. CASE cl # None /\ hid'[d] = hid'[cl]
    <3>1. cl \in Cls
      BY <2>4 DEF TypeInv, TypeOK
    <3>2. QED
      BY <1>4, <2>1, <2>2, <2>4, <3>1 DEF Unlinkable
  <2>5. QED
    BY <1>3, <2>1, <2>3, <2>4 DEF Unlinkable
<1>12. /\ Cardinality(Unlinkable' \ Leaving') <= Cardinality(Unlinkable \ Leaving)
       /\ Cardinality(Unlinkable \ Leaving) <= handles
       /\ Cardinality(Unlinkable' \ Leaving') \in Nat /\ Cardinality(Unlinkable \ Leaving) \in Nat
  <2>1. Unlinkable \ Leaving \in SUBSET linked
    BY DEF Unlinkable
  <2>2. QED
    BY <1>11, <2>1, CountsGrow DEF LinkParts, ListParts, HandlesCounted
<1>13. HandlesCounted'
  <2>0. handles \in Nat /\ refused \in Nat
    BY LinkedFinite
  <2>1. handles <= Cardinality(linked \ Leaving) + refused
    BY DEF LinkParts, ListParts, HandlesCounted
  <2>2. linked' \ Leaving' = linked \ Leaving /\ Cardinality(linked \ Leaving) \in Nat
    BY <1>3, <1>9, LinkedFinite
  <2>3. Cardinality(Unlinkable' \ Leaving') <= handles'
    BY <1>3, <1>12, <2>0
  <2>4. handles' <= Cardinality(linked' \ Leaving') + refused'
    BY <1>3, <2>0, <2>1, <2>2
  <2>5. QED
    BY <2>3, <2>4 DEF HandlesCounted
<1>14. FailedCounted'
  <2> SUFFICES ASSUME \A p \in Contexts : pc'[p] \notin GaveBack
               PROVE  Cardinality(Unlinkable') + 1 <= handles'
    BY DEF FailedCounted
  <2>1. Leaving' = {}
    BY DEF Leaving, GaveBack
  <2>2. Unlinkable' \ Leaving' = Unlinkable'
    BY <2>1
  <2>3. handles \in Nat
    BY LinkedFinite
  <2>4. Cardinality(Unlinkable') <= handles /\ Cardinality(Unlinkable') \in Nat
    BY <1>12, <2>2, <2>3
  <2>5. QED
    BY <1>3, <2>3, <2>4
<1>15. TakenOff'
  BY <1>3, <1>5 DEF LinkParts, ListParts, TakenOff
<1>16. LinkedAlive' /\ FreshIds'
  BY <1>3, <1>4, <1>6 DEF LinkedAlive, LinkParts, ListParts, FreshIds
<1>17. OpensApart'
  <2> SUFFICES ASSUME NEW w \in Users, pc'[w] \in {"link", "lfree"}
               PROVE  /\ my[w] \in allocated \ linked
                      /\ pc'[w] = "link" => hid'[my[w]] = 0
                      /\ \A v \in Users : pc'[v] \in {"link", "lfree"} /\ my[v] = my[w] => v = w
    BY <1>3 DEF OpensApart, Opening
  <2>1. \A v \in Users : pc'[v] \in {"link", "lfree"} => pc[v] \in {"link", "lfree"}
    BY <1>3, <1>5 DEF Contexts
  <2>2. /\ my[w] \in allocated \ linked
        /\ \A v \in Users : pc'[v] \in {"link", "lfree"} /\ my[v] = my[w] => v = w
    BY <2>1 DEF LinkParts, OpensApart, Opening
  <2>3. ASSUME pc'[w] = "link" PROVE hid'[my[w]] = 0
    <3>1. w # u /\ pc[w] = "link"
      BY <1>5, <2>3 DEF Contexts
    <3>2. my[w] # c /\ hid[my[w]] = 0 /\ my[w] \in Cls
      BY <1>3, <2>2, <3>1 DEF LinkParts, OpensApart, Opening, TypeInv, TypeOK
    <3>3. QED
      BY <1>4, <3>2
  <2>4. QED
    BY <2>2, <2>3
<1>18. QED
  BY <1>10, <1>13, <1>14, <1>15, <1>16, <1>17 DEF ListParts

\* The other steps of an open.
LEMMA LinksOpen ==
    ASSUME TypeInv, LinkParts, NEW u \in Users, Open(u), ~raced'
    PROVE  ListParts' /\ OpensApart'
<1>1. /\ linked \subseteq alive /\ linked \subseteq Cls
      /\ alive \subseteq allocated /\ allocated \subseteq Cls
  BY DEF LinkParts, ListParts, LinkedAlive, TypeInv, TypeOK
<1>2. u \in Contexts /\ None \notin Cls
  BY ContextsAssumption DEF Contexts
<1>3. ListParts /\ OpensApart
  BY DEF LinkParts
<1>4. CASE OpenAlloc(u)
  <2>1. /\ cl' \in Cls \ allocated /\ alive' = alive \cup {cl'} /\ allocated' = allocated \cup {cl'}
        /\ UNCHANGED <<linked, hid, hostMap, handles, refused>>
    BY <1>1, <1>4 DEF OpenAlloc, histVars
  <2>2. hid[cl'] = 0
    BY <1>3, <2>1 DEF ListParts, FreshIds
  <2>3. pc' = [pc EXCEPT ![u] = "link"] /\ my' = [my EXCEPT ![u] = cl'] /\ pc[u] = "closed"
    BY <1>4 DEF OpenAlloc, Goto
  <2>4. \A p \in Contexts : pc'[p] = (IF p = u THEN "link" ELSE pc[p])
                            /\ my'[p] = (IF p = u THEN cl' ELSE my[p])
    BY <2>3 DEF TypeInv, TypeOK
  <2>5. ListersStay
    BY <2>3, <2>4 DEF ListersStay, GaveBack
  <2>6. ListParts'
    BY <1>1, <1>3, <2>1, <2>2, <2>5, ListStays
  <2>7. \A w \in Users : w # u /\ pc[w] \in {"link", "lfree"} => my[w] # cl'
    BY <1>3, <2>1 DEF OpensApart, Opening
  <2>8. OpensApart'
    BY <1>1, <1>3, <2>1, <2>2, <2>4, <2>7 DEF OpensApart, Opening, Contexts
  <2>9. QED
    BY <2>6, <2>8
<1>5. CASE OpenNoMem(u)
  <2>1. ListersStay /\ OpenersStay
    BY <1>5 DEF OpenNoMem, ListersStay, OpenersStay
  <2>2. cl' = None /\ UNCHANGED <<listVars, refused>>
    BY <1>5 DEF OpenNoMem, histVars
  <2>3. QED
    BY <1>1, <1>3, <2>1, <2>2, ListStays, OpensStay DEF listVars
<1>6. CASE OpenLink(u)
  BY <1>6, LinksAdd
<1>7. CASE OpenLinkDisabled(u)
  BY <1>7, LinksFail
<1>8. CASE OpenLinkRefused(u) \/ OpenFree(u)
  <2>1. \E l \in {"lfree", "closed"} : pc' = [pc EXCEPT ![u] = l] /\ (l = "lfree" => my' = my)
    BY <1>8 DEF OpenLinkRefused, OpenFree, Goto, Return
  <2>2. pc[u] \in {"link", "lfree"} /\ \A p \in Contexts : p # u => pc'[p] = pc[p] /\ my'[p] = my[p]
    BY <1>8 DEF OpenLinkRefused, OpenFree, Goto, Return, TypeInv, TypeOK
  <2>3. pc'[u] \in {"lfree", "closed"} /\ (pc'[u] = "lfree" => my' = my)
    BY <1>2, <2>1 DEF TypeInv
  <2>4. ListersStay /\ OpenersStay
    BY <2>2, <2>3 DEF ListersStay, OpenersStay, GaveBack, Contexts
  <2>5. UNCHANGED <<linked, hid, hostMap, handles, refused, allocated, cl>>
    BY <1>8 DEF OpenLinkRefused, OpenFree, listVars, histVars, pseVars
  <2>6. linked \subseteq alive'
    <3>1. CASE OpenLinkRefused(u)
      BY <1>1, <3>1 DEF OpenLinkRefused, listVars
    <3>2. CASE OpenFree(u)
      <4>1. alive' = alive \ {cl} /\ cl \in {my[u], None} /\ pc[u] = "lfree"
        BY <3>2 DEF OpenFree, Kfree
      <4>2. cl \notin linked
        BY <1>1, <1>2, <1>3, <4>1 DEF OpensApart, Opening
      <4>3. QED
        BY <1>1, <4>1, <4>2
    <3>3. QED
      BY <1>8, <3>1, <3>2
  <2>7. QED
    BY <1>3, <2>4, <2>5, <2>6, ListStays, OpensStay
<1>9. QED
  BY <1>4, <1>5, <1>6, <1>7, <1>8 DEF Open

(***************************************************************************)
(* ishtp_cl_unlink, first section: the linked client with the id, if there *)
(* is one, is leaving, and its handle is given back; if there is none, the *)
(* handle is that of a failed link, or nothing can be unlinked at all.     *)
(***************************************************************************)
LEMMA LinksGiveBack ==
    ASSUME TypeInv, LinkParts, NEW p \in Contexts, UnlinkId(p), cl # None
    PROVE  ListParts' /\ OpensApart'
<1>1. /\ cl \in Cls /\ cl' = cl /\ my' = [my EXCEPT ![p] = cl]
      /\ pc[p] = "unlink" /\ pc' = [pc EXCEPT ![p] = "list"]
      /\ UNCHANGED <<linked, hid, alive, allocated, refused>>
  BY DEF UnlinkId, Goto, pseVars, histVars, TypeInv, TypeOK
<1>2. IF handles > 0 THEN handles' = handles - 1 /\ hostMap' = hostMap \ {hid[cl]}
                     ELSE handles' = handles /\ hostMap' = hostMap
  BY DEF UnlinkId
<1>3. /\ pc'[p] = "list" /\ my'[p] = cl
      /\ \A q \in Contexts : q # p => pc'[q] = pc[q] /\ my'[q] = my[q] /\ pc[q] \notin Holding
  <2>1. lock = p /\ \A q \in Contexts : q # p => pc[q] \notin Holding
    BY <1>1 DEF LinkParts, MutexHeld, Holding
  <2>2. QED
    BY <1>1, <2>1 DEF TypeInv, TypeOK
<1>4. Leaving = {} /\ Leaving' = {c \in linked : hid[c] = hid[cl]}
  <2>1. \A q \in Contexts : pc[q] # "list"
    BY <1>1, <1>3 DEF Holding
  <2>2. \A q \in Contexts : pc'[q] = "list" => q = p
    BY <1>3 DEF Holding
  <2>3. QED
    BY <1>1, <1>3, <2>1, <2>2 DEF Leaving
<1>5. Unlinkable' = Unlinkable /\ Leaving' \subseteq Unlinkable
  BY <1>1, <1>4, ContextsAssumption DEF Unlinkable
<1>6. /\ \A c, d \in linked : hid[c] = hid[d] => c = d
      /\ hostMap = {hid[c] : c \in linked}
      /\ Cardinality(Unlinkable) <= handles
      /\ handles <= Cardinality(linked) + refused
  <2>1. linked \ Leaving = linked /\ Unlinkable \ Leaving = Unlinkable
    BY <1>4
  <2>2. QED
    BY <2>1 DEF LinkParts, ListParts, HostIdsExact, HandlesCounted
<1>7. /\ handles \in Nat /\ refused \in Nat /\ Cardinality(linked) \in Nat
      /\ Cardinality(Unlinkable) \in Nat /\ IsFiniteSet(linked) /\ IsFiniteSet(Unlinkable)
      /\ \A c \in linked : Cardinality(linked \ {c}) = Cardinality(linked) - 1
      /\ \A c \in Unlinkable : Cardinality(Unlinkable \ {c}) = Cardinality(Unlinkable) - 1
  BY LinkedFinite, FS_RemoveElement
<1>8. Leaving' = {} \/ \E c \in linked : Leaving' = {c} /\ c \in Unlinkable
  BY <1>4, <1>5, <1>6
<1>9. ASSUME handles = 0 PROVE HostIdsExact' /\ HandlesCounted'
  <2>1. Unlinkable = {} /\ Leaving' = {}
    BY <1>5, <1>6, <1>7, <1>9, FS_EmptySet
  <2>2. HostIdsExact'
    BY <1>1, <1>2, <1>6, <1>9, <2>1 DEF HostIdsExact
  <2>3. Unlinkable' \ Leaving' = {} /\ linked' \ Leaving' = linked
    BY <1>1, <1>5, <2>1
  <2>4. Cardinality(Unlinkable' \ Leaving') = 0
    BY <2>3, FS_EmptySet
  <2>5. Cardinality(Unlinkable' \ Leaving') <= handles'
    BY <1>2, <1>9, <2>4
  <2>6. handles' <= Cardinality(linked' \ Leaving') + refused'
    BY <1>1, <1>2, <1>7, <1>9, <2>3
  <2>7. QED
    BY <2>2, <2>5, <2>6 DEF HandlesCounted
<1>10. ASSUME handles # 0 PROVE HostIdsExact' /\ HandlesCounted'
  <2>1. handles' = handles - 1 /\ hostMap' = hostMap \ {hid[cl]}
    BY <1>2, <1>7, <1>10
  <2>2. HostIdsExact'
    <3>1. hostMap' = {hid'[c] : c \in linked' \ Leaving'}
      BY <1>1, <1>4, <1>6, <2>1
    <3>2. QED
      BY <1>1, <1>6, <3>1 DEF HostIdsExact
  <2>3. ASSUME Leaving' = {} PROVE HandlesCounted'
    <3>1. cl \notin linked /\ (hid[cl] = 0 => Unlinkable = {})
      BY <1>1, <1>4, <2>3 DEF Unlinkable
    <3>2. Cardinality(Unlinkable) <= handles - 1
      <4>1. CASE hid[cl] = 0
        BY <1>7, <1>10, <3>1, <4>1, FS_EmptySet
      <4>2. CASE hid[cl] # 0
        <5>1. \A q \in Contexts : pc[q] \notin GaveBack
          BY <1>1, <1>3 DEF Holding, GaveBack
        <5>2. Cardinality(Unlinkable) + 1 <= handles
          BY <1>1, <3>1, <4>2, <5>1 DEF LinkParts, ListParts, FailedCounted
        <5>3. QED
          BY <1>7, <5>2
      <4>3. QED
        BY <4>1, <4>2
    <3>3. Unlinkable' \ Leaving' = Unlinkable /\ linked' \ Leaving' = linked
      BY <1>1, <1>5, <2>3
    <3>4. /\ Cardinality(Unlinkable' \ Leaving') = Cardinality(Unlinkable)
          /\ Cardinality(linked' \ Leaving') = Cardinality(linked)
      BY <3>3
    <3>5. /\ Cardinality(Unlinkable' \ Leaving') <= handles'
          /\ handles' <= Cardinality(linked' \ Leaving') + refused'
      BY <1>1, <1>6, <1>7, <2>1, <3>2, <3>4
    <3>6. QED
      BY <3>5 DEF HandlesCounted
  <2>4. ASSUME NEW c \in linked, Leaving' = {c}, c \in Unlinkable PROVE HandlesCounted'
    <3>1. Unlinkable' \ Leaving' = Unlinkable \ {c} /\ linked' \ Leaving' = linked \ {c}
      BY <1>1, <1>5, <2>4
    <3>2. /\ Cardinality(Unlinkable' \ Leaving') = Cardinality(Unlinkable) - 1
          /\ Cardinality(linked' \ Leaving') = Cardinality(linked) - 1
      BY <1>7, <2>4, <3>1
    <3>3. QED
      BY <1>1, <1>6, <1>7, <2>1, <3>2 DEF HandlesCounted
  <2>5. QED
    BY <1>8, <2>2, <2>3, <2>4
<1>11. FailedCounted'
  BY <1>3 DEF FailedCounted, GaveBack
<1>12. TakenOff'
  <2>1. \A q \in Contexts : q # p => pc'[q] \notin {"list", "queues", "free"}
    BY <1>3 DEF Holding
  <2>2. QED
    BY <1>1, <1>3, <2>1 DEF TakenOff
<1>13. LinkedAlive' /\ FreshIds'
  BY <1>1 DEF LinkParts, ListParts, LinkedAlive, FreshIds
<1>14. OpensApart'
  <2>1. OpenersStay
    BY <1>3 DEF OpenersStay, Contexts
  <2>2. QED
    BY <1>1, <2>1, OpensStay DEF LinkParts
<1>15. HostIdsExact' /\ HandlesCounted'
  BY <1>9, <1>10
<1>16. QED
  BY <1>11, <1>12, <1>13, <1>14, <1>15 DEF ListParts

\* The second section takes the client that is leaving off the list.
LEMMA LinksRemove ==
    ASSUME TypeInv, LinkParts, NEW p \in Contexts, UnlinkList(p)
    PROVE  ListParts' /\ OpensApart'
<1>1. /\ cl' = cl /\ my' = [my EXCEPT ![p] = None]
      /\ pc[p] = "list" /\ pc' = [pc EXCEPT ![p] = "queues"]
      /\ UNCHANGED <<hid, hostMap, handles, alive, allocated, refused>>
  BY DEF UnlinkList, Return, Goto, pseVars, histVars
<1>2. /\ pc'[p] = "queues"
      /\ \A q \in Contexts : q # p => pc'[q] = pc[q] /\ my'[q] = my[q] /\ pc[q] \notin Holding
  <2>1. lock = p /\ \A q \in Contexts : q # p => pc[q] \notin Holding
    BY <1>1 DEF LinkParts, MutexHeld, Holding
  <2>2. QED
    BY <1>1, <2>1 DEF TypeInv, TypeOK
<1>3. Leaving = {c \in linked : hid[c] = hid[my[p]]} /\ Leaving' = {}
  BY <1>1, <1>2 DEF Leaving, Holding
<1>4. linked' = linked \ Leaving
  <2>1. \A c, d \in linked : hid[c] = hid[d] => c = d
    BY DEF LinkParts, ListParts, HostIdsExact
  <2>2. CASE Leaving = {}
    BY <1>3, <2>2 DEF UnlinkList
  <2>3. CASE Leaving # {}
    <3>1. PICK c \in Leaving : linked' = linked \ {c}
      BY <1>3, <2>3 DEF UnlinkList
    <3>2. Leaving = {c}
      BY <1>3, <2>1, <3>1
    <3>3. QED
      BY <3>1, <3>2
  <2>4. QED
    BY <2>2, <2>3
<1>5. linked' \ Leaving' = linked \ Leaving /\ Unlinkable' \ Leaving' = Unlinkable \ Leaving
  BY <1>1, <1>3, <1>4 DEF Unlinkable
<1>6. HostIdsExact' /\ HandlesCounted'
  BY <1>1, <1>4, <1>5 DEF LinkParts, ListParts, HostIdsExact, HandlesCounted
<1>7. TakenOff'
  <2>1. cl \notin linked'
    BY <1>1, <1>3, <1>4 DEF LinkParts, ListParts, TakenOff
  <2>2. \A q \in Contexts : pc'[q] # "list"
    BY <1>2 DEF Holding
  <2>3. QED
    BY <1>1, <2>1, <2>2 DEF TakenOff
<1>8. FailedCounted'
  BY <1>2 DEF FailedCounted, GaveBack
<1>9. LinkedAlive' /\ FreshIds'
  BY <1>1, <1>4 DEF LinkParts, ListParts, LinkedAlive, FreshIds
<1>10. OpensApart'
  <2>1. OpenersStay
    BY <1>2 DEF OpenersStay, Contexts
  <2>2. QED
    BY <1>1, <1>4, <2>1, OpensStay DEF LinkParts
<1>11. QED
  BY <1>6, <1>7, <1>8, <1>9, <1>10 DEF ListParts

LEMMA LinksTakeDown ==
    ASSUME TypeInv, LinkParts, NEW p \in Contexts, TakeDown(p)
    PROVE  ListParts' /\ OpensApart'
<1>1. ListParts /\ OpensApart /\ linked \subseteq alive /\ pc \in [Contexts -> Labels]
  BY DEF LinkParts, ListParts, LinkedAlive, TypeInv
<1>2. CASE Disconnect(p) \/ Wake(p) \/ Timeout(p)
  <2>1. /\ UNCHANGED <<listVars, refused, cl>> /\ pc[p] \in {"disc", "remove", "rwait"}
        /\ \E l \in {"rwait", "unlink"} : pc' = [pc EXCEPT ![p] = l]
        /\ \A q \in Contexts : q # p => my'[q] = my[q]
    BY <1>2 DEF Disconnect, Wake, Timeout, Return, Goto, histVars, pseVars, TypeInv, TypeOK
  <2>2. ListersStay /\ OpenersStay
    BY <2>1, ElsewhereStay DEF Labels, GaveBack
  <2>3. QED
    BY <1>1, <2>1, <2>2, ListStays, OpensStay DEF listVars
<1>3. CASE UnlinkId(p) /\ cl # None
  BY <1>3, LinksGiveBack
<1>4. CASE UnlinkId(p) /\ cl = None
  <2>1. /\ UNCHANGED <<listVars, refused, cl>> /\ pc[p] = "unlink" /\ pc' = [pc EXCEPT ![p] = "queues"]
        /\ \A q \in Contexts : q # p => my'[q] = my[q]
    BY <1>4 DEF UnlinkId, Goto, histVars, pseVars, listVars, TypeInv, TypeOK
  <2>2. pc'[p] = "queues" /\ \A q \in Contexts : q # p => pc'[q] = pc[q]
    BY <1>1, <2>1
  <2>3. ListersStay /\ OpenersStay
    BY <1>4, <2>1, <2>2 DEF ListersStay, OpenersStay, GaveBack, Contexts
  <2>4. QED
    BY <1>1, <2>1, <2>3, ListStays, OpensStay DEF listVars
<1>5. CASE UnlinkList(p)
  BY <1>5, LinksRemove
<1>6. CASE FlushQueues(p) \/ Free(p)
  <2>1. /\ UNCHANGED <<linked, hid, hostMap, handles, allocated, refused, cl, my>>
        /\ pc[p] \in {"queues", "free"} /\ cl \notin linked
    BY <1>1, <1>6 DEF FlushQueues, Free, histVars, pseVars, listVars, ListParts, TakenOff
  <2>2. \E l \in {"free", "null"} : pc' = [pc EXCEPT ![p] = l]
    BY <1>6 DEF FlushQueues, Free, Goto
  <2>3. pc'[p] \in {"free", "null"} /\ \A q \in Contexts : q # p => pc'[q] = pc[q]
    BY <1>1, <2>2
  <2>4. ListersStay /\ OpenersStay
    BY <2>1, <2>3 DEF ListersStay, OpenersStay, GaveBack, Contexts
  <2>5. linked \subseteq alive'
    <3>1. alive' = alive \/ alive' = alive \ {cl}
      BY <1>6 DEF FlushQueues, Free, Kfree, listVars
    <3>2. QED
      BY <1>1, <2>1, <3>1
  <2>6. QED
    BY <1>1, <2>1, <2>4, <2>5, ListStays, OpensStay
<1>7. QED
  BY <1>2, <1>3, <1>4, <1>5, <1>6 DEF TakeDown

LEMMA LinkInit == Init => LinkInv
<1> SUFFICES ASSUME Init PROVE LinkParts
  BY DEF LinkInv
<1>1. /\ linked = {} /\ hostMap = {} /\ handles = 0 /\ refused = 0 /\ cl = None
      /\ \A c \in Cls : hid[c] = 0
      /\ \A p \in Contexts : pc[p] \in {"closed", "idle"}
  BY DEF Init
<1>2. Unlinkable \ Leaving = {} /\ linked \ Leaving = {} /\ Cardinality({}) = 0
  BY <1>1, FS_EmptySet DEF Unlinkable
<1>3. MutexHeld /\ OpensApart /\ TakenOff
  BY <1>1 DEF MutexHeld, OpensApart, TakenOff, Holding, Opening, Contexts
<1>4. LinkedAlive /\ HostIdsExact /\ HandlesCounted
  BY <1>1, <1>2 DEF LinkedAlive, HostIdsExact, HandlesCounted
<1>5. FailedCounted /\ FreshIds
  BY <1>1, ContextsAssumption DEF FailedCounted, FreshIds
<1>6. QED
  BY <1>3, <1>4, <1>5 DEF LinkParts, ListParts

LEMMA LinkStep == TypeInv /\ LinkInv /\ [Next]_vars => LinkInv'
<1> SUFFICES ASSUME TypeInv, LinkInv, [Next]_vars, ~raced' PROVE LinkParts'
  BY DEF LinkInv
<1>1. /\ LinkParts /\ ListParts /\ OpensApart /\ MutexHeld
      /\ linked \subseteq alive /\ pc \in [Contexts -> Labels]
  BY RacedStays DEF LinkInv, LinkParts, ListParts, LinkedAlive, TypeInv
<1>2. Users \subseteq Contexts /\ Bus \in Contexts /\ Ev \in Contexts
  BY DEF Contexts
<1>3. MutexHeld'
  BY <1>1, MutexStep
<1>4. ASSUME UNCHANGED <<listVars, refused>>, cl' = cl \/ cl' = None, ListersStay, OpenersStay
      PROVE  ListParts' /\ OpensApart'
  BY <1>1, <1>4, ListStays, OpensStay DEF listVars
<1>5. ASSUME NEW p \in Contexts, NEW l \in Labels, pc' = [pc EXCEPT ![p] = l], my' = my,
              pc[p] \notin {"link", "lfree"} \cup GaveBack, l \notin {"link", "lfree"} \cup GaveBack
       PROVE  ListersStay /\ OpenersStay
  <2>1. {pc[p], l} \cap ({"link", "lfree"} \cup GaveBack) = {}
    BY <1>5
  <2>2. \A q \in Contexts : q # p => my'[q] = my[q]
    BY <1>5
  <2>3. QED
    BY <1>5, <2>1, <2>2, ElsewhereStay
<1>6. ASSUME NEW u \in Users, Open(u) PROVE ListParts' /\ OpensApart'
  BY <1>1, <1>6, LinksOpen
<1>7. ASSUME NEW p \in Contexts, TakeDown(p) PROVE ListParts' /\ OpensApart'
  BY <1>1, <1>7, LinksTakeDown
<1>8. ASSUME NEW u \in Users, IoctlCall(u) \/ Connect(u) PROVE ListParts' /\ OpensApart'
  <2>1. /\ UNCHANGED <<listVars, refused, cl>> /\ pc[u] \in Connecters
        /\ \A q \in Contexts : q # u => my'[q] = my[q]
    BY <1>8 DEF IoctlCall, Connect, IoctlRefused, IoctlCheck, IoctlAddress, IoctlSet,
                ConnCall, ConnFails, ConnReq, ConnError, ConnDone, ConnNoRings, Connecters, Return,
                histVars, pseVars, TypeInv, TypeOK
  <2>2. PICK l \in Connecters : pc' = [pc EXCEPT ![u] = l]
    BY <1>8 DEF IoctlCall, Connect, IoctlRefused, IoctlCheck, IoctlAddress, IoctlSet,
                ConnCall, ConnFails, ConnReq, ConnError, ConnDone, ConnNoRings, Return, Goto,
                Connecters
  <2>3. l \in Labels /\ {pc[u], l} \cap ({"link", "lfree"} \cup GaveBack) = {}
    BY <2>1, <2>2 DEF Labels, GaveBack, Connecters
  <2>4. ListersStay /\ OpenersStay
    BY <1>2, <2>1, <2>2, <2>3, ElsewhereStay
  <2>5. QED
    BY <1>4, <2>1, <2>4
<1>9. ASSUME NEW u \in Users, ReleaseCall(u) \/ RelLock(u) PROVE ListParts' /\ OpensApart'
  <2>1. /\ UNCHANGED <<listVars, refused, cl>> /\ pc[u] \in {"file", "rlock"} /\ my' = my
    BY <1>9 DEF ReleaseCall, RelLock, histVars, pseVars
  <2>2. PICK l \in {"closed", "rlock", "disc", "unlink"} : pc' = [pc EXCEPT ![u] = l]
    BY <1>9 DEF ReleaseCall, RelLock, Goto
  <2>3. ListersStay /\ OpenersStay
    BY <1>2, <1>5, <2>1, <2>2 DEF Labels, GaveBack
  <2>4. QED
    BY <1>4, <2>1, <2>3
<1>10. ASSUME NEW p \in Contexts, pc[p] = "null", pc'[p] \in {"closed", "unregister"}, cl' = None,
             UNCHANGED <<listVars, refused>>,
             \A q \in Contexts : q # p => pc'[q] = pc[q] /\ my'[q] = my[q]
      PROVE  ListParts' /\ OpensApart'
  <2>1. ListersStay
    BY <1>10 DEF ListersStay, GaveBack
  <2>2. OpenersStay
    BY <1>10 DEF OpenersStay, Contexts
  <2>3. QED
    BY <1>4, <1>10, <2>1, <2>2
<1>11. ASSUME NEW u \in Users, RelNull(u) PROVE ListParts' /\ OpensApart'
  <2>1. /\ pc[u] = "null" /\ cl' = None /\ UNCHANGED <<listVars, refused>>
        /\ pc' = [pc EXCEPT ![u] = "closed"] /\ my' = [my EXCEPT ![u] = None]
    BY <1>11 DEF RelNull, Return, Goto, histVars
  <2>2. pc'[u] = "closed" /\ \A q \in Contexts : q # u => pc'[q] = pc[q] /\ my'[q] = my[q]
    BY <1>1, <1>2, <2>1 DEF TypeInv, TypeOK
  <2>3. QED
    BY <1>2, <1>10, <2>1, <2>2
<1>12. ASSUME RemoveNull PROVE ListParts' /\ OpensApart'
  <2>1. /\ pc[Bus] = "null" /\ cl' = None /\ my' = my /\ UNCHANGED <<listVars, refused>>
        /\ pc' = [pc EXCEPT ![Bus] = "unregister"]
    BY <1>12 DEF RemoveNull, Goto, histVars
  <2>2. pc'[Bus] = "unregister" /\ \A q \in Contexts : q # Bus => pc'[q] = pc[q] /\ my'[q] = my[q]
    BY <1>1, <1>2, <2>1
  <2>3. QED
    BY <1>2, <1>10, <2>1, <2>2
<1>13. ASSUME pc' = pc, my' = my, UNCHANGED <<listVars, refused, cl>> PROVE ListParts' /\ OpensApart'
  <2>1. ListersStay /\ OpenersStay
    BY <1>13 DEF ListersStay, OpenersStay
  <2>2. QED
    BY <1>4, <1>13, <2>1
<1>14. ASSUME NEW u \in Users, ReadRecycle(u) PROVE ListParts' /\ OpensApart'
  BY <1>13, <1>14 DEF ReadRecycle, histVars
<1>15. ASSUME Oops \/ FwResponds \/ FwDisconnects \/ FwMessage \/ UNCHANGED vars
       PROVE  ListParts' /\ OpensApart'
  <2>1. pc' = pc /\ my' = my /\ UNCHANGED <<listVars, refused, cl>>
    BY <1>15 DEF Oops, FwResponds, FwDisconnects, FwMessage, vars, histVars, pseVars
  <2>2. QED
    BY <1>13, <2>1
<1>16. ASSUME EventStart \/ EventTake PROVE ListParts' /\ OpensApart'
  <2>1. /\ UNCHANGED <<listVars, refused, cl>> /\ pc[Ev] \in {"idle", "cb"} /\ my' = my
    BY <1>16 DEF EventStart, EventTake, histVars, pseVars
  <2>2. PICK l \in {"cb", "idle"} : pc' = [pc EXCEPT ![Ev] = l]
    BY <1>16 DEF EventStart, EventTake, Goto
  <2>3. ListersStay /\ OpenersStay
    BY <1>2, <1>5, <2>1, <2>2 DEF Labels, GaveBack
  <2>4. QED
    BY <1>4, <2>1, <2>3
<1>17. ASSUME \/ ResetStart \/ ResetFlush \/ ResetCancel \/ RemoveLock \/ Unregister
              \/ Enumerated \/ Probe
       PROVE  ListParts' /\ OpensApart'
  <2>1. /\ UNCHANGED <<listVars, refused, cl>> /\ my' = my
        /\ pc[Bus] \in {"idle", "flush", "cancel", "lock", "unregister", "enumerate", "probe"}
    BY <1>17 DEF ResetStart, ResetFlush, ResetCancel, RemoveLock, Unregister, Enumerated, Probe,
                 histVars, pseVars
  <2>2. PICK l \in {"flush", "cancel", "lock", "remove", "unregister", "enumerate", "probe", "idle"} :
            pc' = [pc EXCEPT ![Bus] = l]
    BY <1>17 DEF ResetStart, ResetFlush, ResetCancel, RemoveLock, Unregister, Enumerated, Probe, Goto
  <2>3. ListersStay /\ OpenersStay
    BY <1>2, <1>5, <2>1, <2>2 DEF Labels, GaveBack
  <2>4. QED
    BY <1>4, <2>1, <2>3
<1>18. ListParts' /\ OpensApart'
  BY <1>2, <1>6, <1>7, <1>8, <1>9, <1>11, <1>12, <1>14, <1>15, <1>16, <1>17
     DEF Next, Step, Release, UserOops, RelOops, Event, EventOops, ResetStep, BusOops
<1>19. QED
  BY <1>3, <1>18 DEF LinkParts

(***************************************************************************)
(* The bookkeeping of the links is exact, for any number of threads that   *)
(* open and release, any number of clients and resets, until contexts race *)
(* for pse_dev.cl as LinksExact says.                                      *)
(***************************************************************************)
THEOREM LinksAlwaysExact == Spec => []LinksExact
<1>1. LinkInv => LinksExact
  BY DEF LinkInv, LinkParts, ListParts, LinksExact
<1>2. QED
  BY <1>1, TypeInit, TypeStep, LinkInit, LinkStep, PTL DEF Spec
-----------------------------------------------------------------------------
(***************************************************************************)
(* A client the firmware answered is waited for until its rings are there, *)
(* unless the answer came late; and no client stays connected through a    *)
(* reset, during which a waiting thread may give up with the answer come.  *)
(***************************************************************************)
AnsweredReady ==
    enabled => \A c \in linked \ hindered : state[c] = "CONNECTED" =>
                   ready[c] \/ \E u \in Users : my[u] = c /\ pc[u] = "wait"

Removing == Holding \cup {"cancel", "lock", "unregister", "enumerate"}

FlushedInv == pc[Bus] \in Removing => \A c \in linked : state[c] # "CONNECTED"

DisabledInv == pc[Bus] \in Removing \cup {"flush"} => ~enabled

ReadyInv == DisabledInv /\ FlushedInv /\ AnsweredReady

WaitersStay == \A w \in Users : pc[w] = "wait" => pc'[w] = "wait" /\ my'[w] = my[w]

\* A client that is connected was, and nobody stops waiting for it.
LEMMA ReadyStays ==
    ASSUME ReadyInv, enabled' = enabled, pc'[Bus] \in Removing => pc[Bus] \in Removing,
           pc'[Bus] = "flush" => pc[Bus] = "flush", WaitersStay,
           \A c \in linked' : state'[c] = "CONNECTED" =>
               /\ c \in linked /\ state[c] = "CONNECTED"
               /\ ready[c] => ready'[c]
               /\ c \in hindered => c \in hindered'
    PROVE  ReadyInv'
<1>1. DisabledInv' /\ FlushedInv'
  BY DEF ReadyInv, DisabledInv, FlushedInv
<1>2. AnsweredReady'
  <2> SUFFICES ASSUME enabled, NEW c \in linked', c \notin hindered', state'[c] = "CONNECTED",
                      ~ready'[c]
               PROVE  \E w \in Users : my'[w] = c /\ pc'[w] = "wait"
    BY DEF AnsweredReady
  <2>1. PICK w \in Users : my[w] = c /\ pc[w] = "wait"
    BY DEF ReadyInv, AnsweredReady
  <2>2. QED
    BY <2>1 DEF WaitersStay
<1>3. QED
  BY <1>1, <1>2 DEF ReadyInv

LEMMA UserStays ==
    ASSUME TypeInv, NEW u \in Users, pc[u] # "wait",
           \A p \in Contexts : p # u => pc'[p] = pc[p] /\ my'[p] = my[p]
    PROVE  pc'[Bus] = pc[Bus] /\ WaitersStay
<1>1. u # Bus /\ Bus \in Contexts /\ Users \subseteq Contexts
  BY ContextsAssumption DEF Contexts
<1>2. QED
  BY <1>1 DEF WaitersStay

LEMMA ReadyOpen ==
    ASSUME TypeInv, ReadyInv, NEW u \in Users, Open(u)
    PROVE  ReadyInv'
<1>1. pc[u] # "wait" /\ enabled' = enabled
  BY DEF Open, OpenAlloc, OpenNoMem, OpenLink, OpenLinkDisabled, OpenLinkRefused, OpenFree, devVars
<1>2. \A p \in Contexts : p # u => pc'[p] = pc[p] /\ my'[p] = my[p]
  BY DEF Open, OpenAlloc, OpenNoMem, OpenLink, OpenLinkDisabled, OpenLinkRefused, OpenFree, Return,
         Goto, TypeInv, TypeOK
<1>3. pc'[Bus] = pc[Bus] /\ WaitersStay
  BY <1>1, <1>2, UserStays
<1>4. linked \subseteq Cls /\ state \in [Cls -> ClientStates] /\ ready \in [Cls -> BOOLEAN]
  BY DEF TypeInv, TypeOK
<1>5. ASSUME NEW c \in linked', state'[c] = "CONNECTED"
      PROVE  /\ c \in linked /\ state[c] = "CONNECTED"
             /\ ready[c] => ready'[c]
             /\ c \in hindered => c \in hindered'
  <2>1. CASE OpenLink(u)
    <3>1. PICK d \in {my[u], cl} \cap (alive \ linked) :
              linked' = linked \cup {d} /\ state' = [state EXCEPT ![d] = "INITIALIZING"]
      BY <2>1 DEF OpenLink
    <3>2. d \in Cls /\ ready' = ready /\ hindered' = hindered
      BY <2>1, <3>1 DEF OpenLink, TypeInv, TypeOK
    <3>3. c # d
      BY <1>4, <1>5, <3>1, <3>2
    <3>4. QED
      BY <1>4, <1>5, <3>1, <3>2, <3>3
  <2>2. CASE OpenFree(u)
    <3>1. /\ linked' = linked /\ ready' = [d \in Cls |-> ready[d] /\ d # cl]
          /\ state' = [d \in Cls |-> IF d = cl THEN "INITIALIZING" ELSE state[d]]
          /\ hindered' = hindered \ {cl}
      BY <2>2 DEF OpenFree, Kfree
    <3>2. QED
      BY <1>4, <1>5, <3>1
  <2>3. CASE OpenAlloc(u) \/ OpenNoMem(u) \/ OpenLinkDisabled(u) \/ OpenLinkRefused(u)
    <3>1. UNCHANGED <<linked, state, ready, hindered>>
      BY <2>3 DEF OpenAlloc, OpenNoMem, OpenLinkDisabled, OpenLinkRefused, listVars, clVars, histVars
    <3>2. QED
      BY <1>5, <3>1
  <2>4. QED
    BY <2>1, <2>2, <2>3 DEF Open
<1>6. QED
  BY <1>1, <1>3, <1>5, ReadyStays

\* What a context does to the client it takes down.
LEMMA ReadyTakeDown ==
    ASSUME TypeInv, ReadyInv, NEW p \in Users \cup {Bus}, TakeDown(p)
    PROVE  ReadyInv'
<1>1. /\ enabled' = enabled /\ pc[p] \in Holding
      /\ \A q \in Contexts : q # p => pc'[q] = pc[q] /\ my'[q] = my[q]
  BY DEF TakeDown, Disconnect, Wake, Timeout, UnlinkId, UnlinkList, FlushQueues, Free, Return, Goto,
         devVars, Holding, TypeInv, TypeOK
<1>2. Bus \in Contexts /\ Users \subseteq Contexts /\ Bus \notin Users
  BY ContextsAssumption DEF Contexts
<1>3. pc'[p] # "flush"
  BY <1>2 DEF TakeDown, Disconnect, Wake, Timeout, UnlinkId, UnlinkList, FlushQueues, Free, Return, Goto,
              TypeInv, Contexts
<1>4. /\ pc'[Bus] \in Removing => pc[Bus] \in Removing
      /\ pc'[Bus] = "flush" => pc[Bus] = "flush"
  BY <1>1, <1>2, <1>3 DEF Removing
<1>5. WaitersStay
  BY <1>1, <1>2 DEF WaitersStay, Holding
<1>6. linked \subseteq Cls /\ state \in [Cls -> ClientStates] /\ ready \in [Cls -> BOOLEAN]
  BY DEF TypeInv, TypeOK
<1>7. ASSUME NEW c \in linked', state'[c] = "CONNECTED"
      PROVE  /\ c \in linked /\ state[c] = "CONNECTED"
             /\ ready[c] => ready'[c]
             /\ c \in hindered => c \in hindered'
  <2>1. CASE Disconnect(p)
    <3>1. /\ linked' = linked /\ ready' = ready /\ hindered' = hindered \ {cl} /\ cl \in alive
          /\ state' = [state EXCEPT ![cl] = "DISCONNECTING"]
      BY <2>1 DEF Disconnect, listVars
    <3>2. cl \in Cls
      BY <3>1 DEF TypeInv, TypeOK
    <3>3. QED
      BY <1>6, <1>7, <3>1, <3>2
  <2>2. CASE UnlinkList(p)
    <3>1. linked' \subseteq linked /\ UNCHANGED <<state, ready, hindered>>
      BY <2>2 DEF UnlinkList, clVars, histVars
    <3>2. QED
      BY <1>7, <3>1
  <2>3. CASE Free(p)
    <3>1. /\ linked' = linked /\ ready' = [d \in Cls |-> ready[d] /\ d # cl]
          /\ state' = [d \in Cls |-> IF d = cl THEN "INITIALIZING" ELSE state[d]]
          /\ hindered' = hindered \ {cl}
      BY <2>3 DEF Free, Kfree
    <3>2. QED
      BY <1>6, <1>7, <3>1
  <2>4. CASE Wake(p) \/ Timeout(p) \/ UnlinkId(p) \/ FlushQueues(p)
    <3>1. UNCHANGED <<linked, state, ready, hindered>>
      BY <2>4 DEF Wake, Timeout, UnlinkId, FlushQueues, listVars, clVars, histVars
    <3>2. QED
      BY <1>7, <3>1
  <2>5. QED
    BY <2>1, <2>2, <2>3, <2>4 DEF TakeDown
<1>8. QED
  BY <1>1, <1>4, <1>5, <1>7, ReadyStays

\* What a user does that waits for no answer and takes nothing down.
LEMMA ReadyUser ==
    ASSUME TypeInv, ReadyInv, NEW u \in Users,
           \/ IoctlCall(u) \/ IoctlRefused(u) \/ IoctlCheck(u) \/ IoctlAddress(u) \/ IoctlSet(u)
           \/ ConnCall(u) \/ ConnFails(u) \/ ConnReq(u) \/ ReadRecycle(u) \/ ReleaseCall(u)
           \/ RelLock(u) \/ RelNull(u)
    PROVE  ReadyInv'
<1> USE DEF IoctlCall, IoctlRefused, IoctlCheck, IoctlAddress, IoctlSet, ConnCall, ConnFails,
            ConnReq, ReadRecycle, ReleaseCall, RelLock, RelNull
<1>1. pc[u] # "wait" /\ UNCHANGED <<enabled, linked, ready>>
  BY DEF devVars, listVars, clVars
<1>2. \A p \in Contexts : p # u => pc'[p] = pc[p] /\ my'[p] = my[p]
  BY DEF Return, Goto, TypeInv, TypeOK
<1>3. pc'[Bus] = pc[Bus] /\ WaitersStay
  BY <1>1, <1>2, UserStays
<1>4. linked \subseteq Cls /\ state \in [Cls -> ClientStates]
  BY DEF TypeInv, TypeOK
<1>5. ASSUME NEW c \in linked', state'[c] = "CONNECTED"
      PROVE  state[c] = "CONNECTED" /\ (c \in hindered => c \in hindered')
  <2>1. CASE IoctlSet(u)
    <3>1. /\ cl \in Cls /\ state' = [state EXCEPT ![cl] = "CONNECTING"]
          /\ hindered' = hindered \ {cl}
      BY <2>1 DEF TypeInv, TypeOK
    <3>2. QED
      BY <1>1, <1>4, <1>5, <3>1
  <2>2. CASE ~IoctlSet(u)
    <3>1. state' = state /\ hindered' = hindered
      BY <2>2 DEF clVars, histVars
    <3>2. QED
      BY <1>5, <3>1
  <2>3. QED
    BY <2>1, <2>2
<1>6. QED
  BY <1>1, <1>3, <1>5, ReadyStays

\* A waiting thread goes on: with an answer, without one, or without the rings.
LEMMA ReadyWaited ==
    ASSUME TypeInv, ReadyInv, NEW u \in Users, ConnError(u) \/ ConnDone(u) \/ ConnNoRings(u)
    PROVE  ReadyInv'
<1>1. u # Bus /\ Bus \in Contexts /\ u \in Contexts
  BY ContextsAssumption DEF Contexts
<1>2. \A p \in Contexts : p # u => pc'[p] = pc[p] /\ my'[p] = my[p]
  BY DEF ConnError, ConnDone, ConnNoRings, Return, Goto, TypeInv, TypeOK
<1>3. UNCHANGED <<enabled, linked, state>> /\ hindered \subseteq hindered'
  BY DEF ConnError, ConnDone, ConnNoRings, devVars, listVars, clVars, histVars
<1>4. DisabledInv' /\ FlushedInv'
  BY <1>1, <1>2, <1>3 DEF ReadyInv, DisabledInv, FlushedInv
<1>5. \A c \in Cls : ready[c] => ready'[c]
  BY DEF ConnError, ConnDone, ConnNoRings, clVars, TypeInv, TypeOK
<1>6. AnsweredReady'
  <2> SUFFICES ASSUME enabled, NEW c \in linked, c \notin hindered', state[c] = "CONNECTED",
                      ~ready'[c]
               PROVE  \E w \in Users : my'[w] = c /\ pc'[w] = "wait"
    BY <1>3 DEF AnsweredReady
  <2>1. c \in Cls
    BY DEF TypeInv, TypeOK
  <2>2. PICK w \in Users : my[w] = c /\ pc[w] = "wait"
    BY <1>3, <1>5, <2>1 DEF ReadyInv, AnsweredReady
  <2>3. w # u
    <3>1. CASE ConnError(u)
      BY <2>2, <3>1 DEF ConnError
    <3>2. CASE ConnDone(u)
      BY <2>1, <2>2, <3>2 DEF ConnDone, TypeInv, TypeOK
    <3>3. CASE ConnNoRings(u)
      BY <2>2, <3>3 DEF ConnNoRings
    <3>4. QED
      BY <3>1, <3>2, <3>3
  <2>4. QED
    BY <1>2, <2>2, <2>3 DEF Contexts
<1>7. QED
  BY <1>4, <1>6 DEF ReadyInv

\* The event work, and the steps of the reset.
LEMMA ReadyBus ==
    ASSUME TypeInv, ReadyInv,
           \/ EventStart \/ EventTake \/ ResetStart \/ ResetFlush \/ ResetCancel \/ RemoveLock
           \/ RemoveNull \/ Unregister \/ Enumerated \/ Probe
    PROVE  ReadyInv'
<1>1. Ev # Bus /\ Bus \notin Users /\ Ev \notin Users /\ Bus \in Contexts /\ Ev \in Contexts
  BY ContextsAssumption DEF Contexts
<1>2. my' = my /\ \A u \in Users : pc'[u] = pc[u]
  BY <1>1 DEF EventStart, EventTake, ResetStart, ResetFlush, ResetCancel, RemoveLock, RemoveNull,
              Unregister, Enumerated, Probe, Goto, TypeInv, Contexts
<1>3. WaitersStay
  BY <1>2 DEF WaitersStay
<1>4. CASE EventStart \/ EventTake
  <2>1. UNCHANGED <<linked, ready, enabled, state, hindered>> /\ pc'[Bus] = pc[Bus]
    BY <1>1, <1>4 DEF EventStart, EventTake, Goto, devVars, listVars, clVars, histVars, TypeInv
  <2>2. QED
    BY <1>3, <2>1, ReadyStays
<1>5. CASE ResetStart
  <2>1. enabled' = FALSE /\ pc'[Bus] = "flush"
    BY <1>1, <1>5 DEF ResetStart, Goto, TypeInv
  <2>2. QED
    BY <2>1 DEF ReadyInv, DisabledInv, FlushedInv, AnsweredReady, Removing, Holding
<1>6. CASE ResetFlush
  <2>1. /\ enabled' = FALSE /\ pc'[Bus] = "cancel" /\ linked' = linked /\ linked \subseteq Cls
        /\ \A c \in linked : c \in Cls => state'[c] = "DISCONNECTED"
    BY <1>1, <1>6 DEF ResetFlush, Goto, TypeInv, TypeOK, listVars, ReadyInv, DisabledInv
  <2>2. \A c \in linked' : state'[c] # "CONNECTED"
    BY <2>1
  <2>3. QED
    BY <2>1, <2>2 DEF ReadyInv, DisabledInv, FlushedInv, AnsweredReady
<1>7. CASE ResetCancel \/ RemoveLock \/ RemoveNull \/ Unregister
  <2>1. /\ UNCHANGED <<linked, enabled, state, ready, hindered>>
        /\ pc[Bus] \in {"cancel", "lock", "null", "unregister"}
    BY <1>7 DEF ResetCancel, RemoveLock, RemoveNull, Unregister, devVars, listVars, clVars, histVars
  <2>2. pc'[Bus] \in {"lock", "remove", "unregister", "enumerate"}
    BY <1>1, <1>7 DEF ResetCancel, RemoveLock, RemoveNull, Unregister, Goto, TypeInv
  <2>3. QED
    BY <1>3, <2>1, <2>2, ReadyStays DEF Removing, Holding
<1>8. CASE Enumerated
  <2>1. /\ UNCHANGED <<linked, state>>
        /\ pc[Bus] = "enumerate" /\ pc'[Bus] = "probe"
    BY <1>1, <1>8 DEF Enumerated, Goto, TypeInv, listVars, clVars
  <2>2. \A c \in linked' : state'[c] # "CONNECTED"
    BY <2>1 DEF ReadyInv, FlushedInv, Removing
  <2>3. QED
    BY <2>1, <2>2 DEF ReadyInv, DisabledInv, FlushedInv, AnsweredReady, Removing, Holding
<1>9. CASE Probe
  <2>1. UNCHANGED <<linked, state, ready, enabled, hindered>> /\ pc'[Bus] = "idle"
    BY <1>1, <1>9 DEF Probe, Goto, TypeInv, listVars, clVars
  <2>2. QED
    BY <1>3, <2>1, ReadyStays DEF Removing, Holding
<1>10. QED
  BY <1>4, <1>5, <1>6, <1>7, <1>8, <1>9

\* A response finds a thread that waits for it, or hinders.
LEMMA ReadyFw ==
    ASSUME TypeInv, ReadyInv, FwResponds \/ FwDisconnects \/ FwMessage
    PROVE  ReadyInv'
<1>1. UNCHANGED <<linked, enabled, ready, pc, my>> /\ enabled
  BY DEF FwResponds, FwDisconnects, FwMessage, devVars, listVars, clVars
<1>2. WaitersStay
  BY <1>1 DEF WaitersStay
<1>3. linked \subseteq Cls /\ state \in [Cls -> ClientStates]
  BY DEF TypeInv, TypeOK
<1>4. CASE FwMessage
  <2>1. state' = state /\ hindered' = hindered
    BY <1>4 DEF FwMessage, histVars
  <2>2. QED
    BY <1>1, <1>2, <2>1, ReadyStays
<1>5. CASE FwDisconnects
  <2>1. PICK d \in linked : state' = [state EXCEPT ![d] = "DISCONNECTED"] /\ hindered' = hindered \ {d}
    BY <1>5 DEF FwDisconnects
  <2>2. \A c \in linked : state'[c] = "CONNECTED" => state[c] = "CONNECTED" /\ c # d
    BY <1>3, <2>1
  <2>3. QED
    BY <1>1, <1>2, <2>1, <2>2, ReadyStays
<1>6. CASE FwResponds
  <2>1. DisabledInv' /\ FlushedInv'
    BY <1>1 DEF ReadyInv, DisabledInv, FlushedInv
  <2> DEFINE addr == Addressee(Head(reqs))
  <2>2. PICK answer \in {"CONNECTED", "DISCONNECTED"} :
            /\ state' = [c \in Cls |-> IF c \in addr THEN answer ELSE state[c]]
            /\ hindered' = {c \in hindered \cup addr : c \in addr => answer = "CONNECTED" /\ ~Waits(c)}
    BY <1>6 DEF FwResponds
  <2> HIDE DEF addr
  <2>3. ASSUME NEW c \in linked, c \notin hindered', state'[c] = "CONNECTED"
        PROVE  ready[c] \/ \E w \in Users : my[w] = c /\ pc[w] = "wait"
    <3>1. CASE c \in addr
      <4>1. answer = "CONNECTED"
        BY <1>3, <2>2, <2>3, <3>1
      <4>2. Waits(c)
        BY <2>2, <2>3, <3>1, <4>1
      <4>3. QED
        BY <4>2 DEF Waits
    <3>2. CASE c \notin addr
      <4>1. state[c] = "CONNECTED" /\ c \notin hindered
        BY <1>3, <2>2, <2>3, <3>2
      <4>2. QED
        BY <1>1, <4>1 DEF ReadyInv, AnsweredReady
    <3>3. QED
      BY <3>1, <3>2
  <2>4. AnsweredReady'
    BY <1>1, <2>3 DEF AnsweredReady
  <2>5. QED
    BY <2>1, <2>4 DEF ReadyInv
<1>7. QED
  BY <1>4, <1>5, <1>6

LEMMA ReadyInit == Init => ReadyInv
<1>1. ASSUME Init PROVE linked = {} /\ pc[Bus] = "idle"
  BY <1>1, ContextsAssumption DEF Init, Contexts
<1>2. QED
  BY <1>1 DEF ReadyInv, DisabledInv, FlushedInv, AnsweredReady, Removing, Holding

LEMMA ReadyStep == TypeInv /\ ReadyInv /\ [Next]_vars => ReadyInv'
<1> SUFFICES ASSUME TypeInv, ReadyInv, [Next]_vars PROVE ReadyInv'
  OBVIOUS
<1>1. ASSUME Oops \/ UNCHANGED vars PROVE ReadyInv'
  <2>1. UNCHANGED <<linked, enabled, ready, state, hindered, pc, my>>
    BY <1>1 DEF Oops, vars, devVars, listVars, clVars, histVars
  <2>2. QED
    BY <2>1 DEF ReadyInv, DisabledInv, FlushedInv, AnsweredReady
<1>2. CASE Next
  BY <1>1, <1>2, ReadyOpen, ReadyUser, ReadyTakeDown, ReadyWaited, ReadyBus, ReadyFw
     DEF Next, Step, Connect, Release, UserOops, RelOops, Event, EventOops, ResetStep, BusOops
<1>3. QED
  BY <1>1, <1>2

(***************************************************************************)
(* A connected client that nobody is connecting has its rings, for any     *)
(* number of threads, clients and resets: only a client connected by an    *)
(* answer that came after ishtp_cl_connect had given up, or whose rings    *)
(* could not be allocated, is without.                                     *)
(***************************************************************************)
THEOREM ConnectedHasRings == Spec => []ReadyUnlessHindered
<1>1. ReadyInv => ReadyUnlessHindered
  BY DEF ReadyInv, AnsweredReady, ReadyUnlessHindered, Connecting
<1>2. QED
  BY <1>1, TypeInit, TypeStep, ReadyInit, ReadyStep, PTL DEF Spec
-----------------------------------------------------------------------------
(***************************************************************************)
(* Theorems on the example programs: a program stays in step with the PSE, *)
(* and a program that comes to its end leaves the device disabled, unless  *)
(* one of the marks of PseApp is set, for any rings, any number of faults  *)
(* and each program.                                                       *)
(*                                                                         *)
(* StepInv follows the one command that is under way; EndInv says what a   *)
(* run without refused and lost commands does to the device.               *)
(***************************************************************************)
Names    == {"baud", "enable", "disable", "cycle", "read", "write", "set", "clear", "info"}
Command  == [name : Names, body : BOOLEAN]
Order    == [cmd : Command, mine : BOOLEAN]
Response == [mine : BOOLEAN, ok : BOOLEAN, body : BOOLEAN, unread : {"none", "header", "body"}]
Parts    == {"open", "main", "close"}

AppTypes ==
    /\ program \in Programs
    /\ part \in Parts
    /\ at \in Nat \ {0}
    /\ call \in {"next", "header", "body", "ok", "failed", "done"}
    /\ toPse \in Seq(Order)
    /\ deviceOn \in BOOLEAN
    /\ rb \in Response
    /\ list \in Seq(Response)
    /\ seen \subseteq Marks
    /\ call \in {"header", "body", "ok", "failed"} => at \in DOMAIN program[part]

\* Where the command that is under way may be
Away == toPse = <<>> /\ rb = Nothing
Sent == toPse = <<[cmd |-> Current, mine |-> TRUE]>> /\ rb = Nothing
Back == /\ toPse = <<>>
        /\ rb.mine /\ rb.unread = "header"
        /\ rb.body => Current.body

\* No response came late or with a body nobody wanted; no signal ended the program.
InStepSoFar == seen \cap {"late", "extra"} = {}
Alive       == "killed" \notin seen

StepInv ==
    /\ list = <<>>
    /\ "mixed" \notin seen
    /\ call \notin {"header", "body"} => Away
    /\ call = "header" => Away \/ Sent \/ Back
    /\ call = "body" => Back /\ rb.body

\* Nothing came between the program and the PSE.
Undisturbed == seen \cap {"late", "extra", "refused", "lost", "killed"} = {}

\* A program that enables the device has it disabled at its end, and until then
\* fails only where it reads.
EndInv ==
    /\ call = "header" => ~Away
    /\ call \in {"header", "body"} /\ Back => rb.ok /\ (rb.body \/ ~Current.body \/ Current.name = "read")
    /\ call = "failed" => Current.name = "read"
    /\ call = "done" => ~deviceOn
    /\ deviceOn => program.close = CanClose
    /\ deviceOn /\ part = "close" => at = 1 /\ (call = "next" \/ (call = "header" /\ Sent))

\* A program that a signal ended reads nothing more.
KilledInv ==
    /\ ~Alive => call = "done"
    /\ InStepSoFar => "mixed" \notin seen

AppInv ==
    /\ AppTypes
    /\ KilledInv
    /\ InStepSoFar /\ Alive => StepInv
    /\ Undisturbed => EndInv
-----------------------------------------------------------------------------
\* A program that enables the device disables it before it closes the file, and
\* does not open with a read.
ProgramOK(p) ==
    /\ p.open \in Seq(Command) /\ p.main \in Seq(Command) /\ p.close \in Seq(Command)
    /\ \A i \in DOMAIN p.open :
          p.open[i].name # "read" /\ (p.open[i].name = "enable" => p.close = CanClose)
    /\ \A i \in DOMAIN p.main : p.main[i].name = "enable" => p.close = CanClose
    /\ \A i \in DOMAIN p.close : p.close[i].name # "enable"

\* The sequences of no, one and two commands that make a part of a program
LEMMA Sequences ==
    ASSUME NEW S, NEW a \in S, NEW b \in S
    PROVE  /\ <<>> \in Seq(S) /\ DOMAIN (<<>>) = {}
           /\ <<a>> \in Seq(S) /\ DOMAIN (<<a>>) = {1} /\ <<a>>[1] = a
           /\ <<a, b>> \in Seq(S) /\ DOMAIN <<a, b>> = {1, 2}
           /\ <<a, b>>[1] = a /\ <<a, b>>[2] = b
OBVIOUS

\* Commands
LEMMA Commands == \A n \in Names, b \in BOOLEAN : Cmd(n, b) \in Command /\ Cmd(n, b).name = n
BY DEF Cmd, Command

\* Commands that neither enable a device nor read a CAN frame
Harmless == Names \ {"read", "enable"}

\* Parts made of one or two of them
LEMMA HarmlessParts ==
    ASSUME NEW a \in Harmless, NEW b \in Harmless, NEW x \in BOOLEAN, NEW y \in BOOLEAN
    PROVE  /\ <<Cmd(a, x)>> \in Seq(Command)
           /\ \A i \in DOMAIN (<<Cmd(a, x)>>) : <<Cmd(a, x)>>[i].name \in Harmless
           /\ <<Cmd(a, x), Cmd(b, y)>> \in Seq(Command)
           /\ \A i \in DOMAIN (<<Cmd(a, x), Cmd(b, y)>>) :
                 <<Cmd(a, x), Cmd(b, y)>>[i].name \in Harmless
<1> DEFINE c == Cmd(a, x)
           d == Cmd(b, y)
<1>1. c \in Command /\ c.name = a /\ d \in Command /\ d.name = b
    BY Commands DEF Harmless
<1> HIDE DEF c, d
<1>2. /\ <<c>> \in Seq(Command) /\ DOMAIN (<<c>>) = {1} /\ <<c>>[1] = c
      /\ <<c, d>> \in Seq(Command) /\ DOMAIN (<<c, d>>) = {1, 2}
      /\ <<c, d>>[1] = c /\ <<c, d>>[2] = d
    BY <1>1, Sequences
<1>3. \A i \in DOMAIN (<<c>>) : <<c>>[i].name \in Harmless
    BY <1>1, <1>2
<1>4. \A i \in DOMAIN (<<c, d>>) : <<c, d>>[i].name \in Harmless
    BY <1>1, <1>2
<1> QED
    BY <1>2, <1>3, <1>4 DEF c, d

\* The part of a program that has no commands
LEMMA NoCommand == <<>> \in Seq(Command) /\ DOMAIN (<<>>) = {}
BY EmptySeq

\* What the CAN programs do
LEMMA CanCommands ==
    /\ CanRecv \in Command /\ CanRecv.name = "read"
    /\ CanSend \in Command /\ CanSend.name = "write"
    /\ CanOpen \in Seq(Command) /\ \A i \in DOMAIN CanOpen : CanOpen[i].name \in {"baud", "enable"}
    /\ CanClose \in Seq(Command) /\ DOMAIN CanClose = {1} /\ Len(CanClose) = 1
    /\ CanClose[1].name = "disable"
<1>1. /\ CanRecv \in Command /\ CanRecv.name = "read"
      /\ CanSend \in Command /\ CanSend.name = "write"
    BY Commands DEF CanRecv, CanSend, Names
<1>2. /\ Cmd("baud", FALSE) \in Command /\ Cmd("baud", FALSE).name = "baud"
      /\ Cmd("enable", FALSE) \in Command /\ Cmd("enable", FALSE).name = "enable"
      /\ Cmd("disable", FALSE) \in Command /\ Cmd("disable", FALSE).name = "disable"
    BY Commands DEF Names
<1>3. CanOpen \in Seq(Command) /\ \A i \in DOMAIN CanOpen : CanOpen[i].name \in {"baud", "enable"}
    <2> DEFINE c == Cmd("baud", FALSE)
               d == Cmd("enable", FALSE)
    <2>1. CanOpen = <<c, d>> /\ c \in Command /\ d \in Command /\ c.name = "baud" /\ d.name = "enable"
        BY <1>2 DEF CanOpen
    <2> HIDE DEF c, d
    <2>2. /\ <<c, d>> \in Seq(Command) /\ DOMAIN (<<c, d>>) = {1, 2}
          /\ <<c, d>>[1] = c /\ <<c, d>>[2] = d
        BY <2>1, Sequences
    <2> QED
        BY <2>1, <2>2
<1>4. /\ CanClose \in Seq(Command) /\ DOMAIN CanClose = {1} /\ Len(CanClose) = 1
      /\ CanClose[1].name = "disable"
    BY <1>2, Sequences DEF CanClose
<1> QED
    BY <1>1, <1>3, <1>4

\* canprogram opens with the first frame it sends.
LEMMA CanOpenSend ==
    /\ CanOpen \o <<CanSend>> \in Seq(Command)
    /\ \A i \in DOMAIN (CanOpen \o <<CanSend>>) :
          (CanOpen \o <<CanSend>>)[i].name \in {"baud", "enable", "write"}
<1> DEFINE s == CanOpen \o <<CanSend>>
           n == Len(CanOpen)
<1>1. /\ CanOpen \in Seq(Command) /\ <<CanSend>> \in Seq(Command)
      /\ n \in Nat /\ DOMAIN CanOpen = 1 .. n
      /\ Len(<<CanSend>>) = 1 /\ <<CanSend>>[1] = CanSend
    BY CanCommands, Sequences, LenProperties
<1>2. /\ s \in Seq(Command) /\ Len(s) = n + 1
      /\ \A i \in 1 .. n + 1 : s[i] = IF i <= n THEN CanOpen[i] ELSE <<CanSend>>[i - n]
    BY <1>1, ConcatProperties
<1>3. DOMAIN s = 1 .. n + 1
    BY <1>2, LenProperties
<1> HIDE DEF s, n
<1>4. ASSUME NEW i \in 1 .. n + 1 PROVE s[i].name \in {"baud", "enable", "write"}
    <2>1. CASE i <= n
        <3>1. i \in DOMAIN CanOpen /\ s[i] = CanOpen[i]
            BY <1>1, <1>2, <2>1
        <3> QED
            BY <3>1, CanCommands
    <2>2. CASE i = n + 1
        <3>1. ~(i <= n) /\ i - n = 1
            BY <1>1, <2>2
        <3>2. s[i] = CanSend
            BY <1>1, <1>2, <3>1
        <3> QED
            BY <3>2, CanCommands
    <2> QED
        BY <1>1, <2>1, <2>2
<1> QED
    BY <1>2, <1>3, <1>4 DEF s

\* All the programs are such.
LEMMA ProgramsOK == \A p \in Programs : ProgramOK(p)
<1> SUFFICES ASSUME NEW p \in Programs PROVE ProgramOK(p)
    OBVIOUS
<1>1. /\ "set" \in Harmless /\ "clear" \in Harmless /\ "info" \in Harmless /\ "cycle" \in Harmless
      /\ \A n \in Harmless : n # "read" /\ n # "enable"
    BY DEF Harmless, Names
<1>2. CASE p = CanProgram
    <2>1. p.open = CanOpen \o <<CanSend>> /\ p.main = <<CanRecv>> /\ p.close = CanClose
        BY <1>2 DEF CanProgram, Program
    <2> QED
        BY <2>1, CanOpenSend, CanCommands, Sequences DEF ProgramOK
<1>3. CASE p = CanDump
    <2>1. p.open = CanOpen /\ p.main = <<CanRecv>> /\ p.close = CanClose
        BY <1>3 DEF CanDump, Program
    <2> QED
        BY <2>1, CanCommands, Sequences DEF ProgramOK
<1>4. CASE p = CanSender
    <2>1. p.open = CanOpen /\ p.main = <<CanSend>> /\ p.close = CanClose
        BY <1>4 DEF CanSender, Program
    <2> QED
        BY <2>1, CanCommands, Sequences DEF ProgramOK
<1>5. CASE p = Pwm
    <2>1. /\ p.open = <<Cmd("cycle", FALSE)>>
          /\ p.main = <<Cmd("enable", FALSE), Cmd("enable", FALSE)>>
          /\ p.close = CanClose
        BY <1>5 DEF Pwm, Program, CanClose
    <2>2. p.open \in Seq(Command) /\ \A i \in DOMAIN p.open : p.open[i].name \in Harmless
        BY <1>1, <2>1, HarmlessParts
    <2>3. p.main \in Seq(Command)
        <3> DEFINE c == Cmd("enable", FALSE)
        <3>1. c \in Command /\ p.main = <<c, c>>
            BY <2>1, Commands DEF Names
        <3> HIDE DEF c
        <3>2. <<c, c>> \in Seq(Command)
            BY <3>1, Sequences
        <3> QED
            BY <3>1, <3>2
    <2> QED
        BY <1>1, <2>1, <2>2, <2>3, CanCommands DEF ProgramOK
<1>6. CASE p = Led
    <2>1. p.open = <<>> /\ p.main = <<Cmd("set", FALSE), Cmd("clear", FALSE)>> /\ p.close = <<>>
        BY <1>6 DEF Led, Program
    <2>2. p.main \in Seq(Command) /\ \A i \in DOMAIN p.main : p.main[i].name \in Harmless
        BY <1>1, <2>1, HarmlessParts
    <2> QED
        BY <1>1, <2>1, <2>2, NoCommand DEF ProgramOK
<1>7. CASE p = Dio
    <2>1. p.open = <<>> /\ p.main = <<Cmd("set", FALSE), Cmd("info", TRUE)>> /\ p.close = <<>>
        BY <1>7 DEF Dio, Program
    <2>2. p.main \in Seq(Command) /\ \A i \in DOMAIN p.main : p.main[i].name \in Harmless
        BY <1>1, <2>1, HarmlessParts
    <2> QED
        BY <1>1, <2>1, <2>2, NoCommand DEF ProgramOK
<1>8. CASE p = Version
    <2>1. p.open = <<>> /\ p.main = <<Cmd("info", TRUE)>> /\ p.close = <<>>
        BY <1>8 DEF Version, Program
    <2>2. p.main \in Seq(Command) /\ \A i \in DOMAIN p.main : p.main[i].name \in Harmless
        BY <1>1, <2>1, HarmlessParts
    <2> QED
        BY <1>1, <2>1, <2>2, NoCommand DEF ProgramOK
<1>9. CASE p = Automotive
    <2>1. /\ p.open = <<Cmd("info", TRUE)>>
          /\ p.main = <<Cmd("info", TRUE), Cmd("info", TRUE)>>
          /\ p.close = <<>>
        BY <1>9 DEF Automotive, Program
    <2>2. p.open \in Seq(Command) /\ \A i \in DOMAIN p.open : p.open[i].name \in Harmless
        BY <1>1, <2>1, HarmlessParts
    <2>3. p.main \in Seq(Command) /\ \A i \in DOMAIN p.main : p.main[i].name \in Harmless
        BY <1>1, <2>1, HarmlessParts
    <2> QED
        BY <1>1, <2>1, <2>2, <2>3, NoCommand DEF ProgramOK
<1> QED
    BY <1>2, <1>3, <1>4, <1>5, <1>6, <1>7, <1>8, <1>9 DEF Programs

(***************************************************************************)
(* What a program may be doing.                                            *)
(***************************************************************************)
LEMMA CurrentOK ==
    ASSUME program \in Programs, part \in Parts, at \in DOMAIN program[part]
    PROVE  /\ Current \in Command
           /\ part = "open" => Current.name # "read"
           /\ Current.name = "enable" => program.close = CanClose /\ part # "close"
           /\ part = "close" /\ program.close = CanClose => at = 1 /\ Current.name = "disable"
<1>1. ProgramOK(program)
    BY ProgramsOK
<1>2. CASE part = "open"
    <2>1. Current = program.open[at] /\ at \in DOMAIN program.open
        BY <1>2 DEF Current
    <2>2. program.open \in Seq(Command)
        BY <1>1 DEF ProgramOK
    <2>3. Current \in Command
        BY <2>1, <2>2
    <2> QED
        BY <1>1, <1>2, <2>1, <2>3 DEF ProgramOK
<1>3. CASE part = "main"
    <2>1. Current = program.main[at] /\ at \in DOMAIN program.main
        BY <1>3 DEF Current
    <2>2. program.main \in Seq(Command)
        BY <1>1 DEF ProgramOK
    <2>3. Current \in Command
        BY <2>1, <2>2
    <2> QED
        BY <1>1, <1>3, <2>1, <2>3 DEF ProgramOK
<1>4. CASE part = "close"
    <2>1. Current = program.close[at] /\ at \in DOMAIN program.close
        BY <1>4 DEF Current
    <2>2. program.close \in Seq(Command)
        BY <1>1 DEF ProgramOK
    <2>3. Current \in Command
        BY <2>1, <2>2
    <2>4. program.close = CanClose => at = 1 /\ Current.name = "disable"
        BY <2>1, CanCommands
    <2> QED
        BY <1>1, <1>4, <2>1, <2>3, <2>4 DEF ProgramOK
<1> QED
    BY <1>2, <1>3, <1>4 DEF Parts

\* Each part is a sequence of commands.
LEMMA PartIs ==
    ASSUME program \in Programs, part \in Parts
    PROVE  program[part] \in Seq(Command)
<1>1. ProgramOK(program)
    BY ProgramsOK
<1> QED
    BY <1>1 DEF ProgramOK, Parts

(***************************************************************************)
(* The messages of a command that is over remain, but are another's.       *)
(***************************************************************************)
LEMMA DisownedOK ==
    /\ \A s \in Seq(Order) : Disowned(s) \in Seq(Order)
    /\ \A s \in Seq(Response) : Disowned(s) \in Seq(Response)
    /\ Disowned(<<>>) = <<>>
<1>1. ASSUME NEW s \in Seq(Order) PROVE Disowned(s) \in Seq(Order)
    <2>1. Len(s) \in Nat /\ DOMAIN s = 1 .. Len(s) /\ \A i \in 1 .. Len(s) : s[i] \in Order
        BY LenProperties, ElementOfSeq
    <2>2. \A i \in 1 .. Len(s) : [s[i] EXCEPT !.mine = FALSE] \in Order
        BY <2>1 DEF Order
    <2> QED
        BY <2>1, <2>2, IsASeq DEF Disowned
<1>2. ASSUME NEW s \in Seq(Response) PROVE Disowned(s) \in Seq(Response)
    <2>1. Len(s) \in Nat /\ DOMAIN s = 1 .. Len(s) /\ \A i \in 1 .. Len(s) : s[i] \in Response
        BY LenProperties, ElementOfSeq
    <2>2. \A i \in 1 .. Len(s) : [s[i] EXCEPT !.mine = FALSE] \in Response
        BY <2>1 DEF Response
    <2> QED
        BY <2>1, <2>2, IsASeq DEF Disowned
<1>3. Disowned(<<>>) = <<>>
    <2>1. <<>> \in Seq(Order) /\ DOMAIN (<<>>) = {}
        BY EmptySeq
    <2>2. Disowned(<<>>) \in Seq(Order) /\ DOMAIN Disowned(<<>>) = {}
        BY <1>1, <2>1 DEF Disowned
    <2>3. Len(Disowned(<<>>)) = 0
        BY <2>2, LenProperties
    <2> QED
        BY <2>2, <2>3, EmptySeq
<1> QED
    BY <1>1, <1>2, <1>3

\* The end of a command keeps the types, and leaves nothing where there was nothing.
LEMMA ReturnOK ==
    ASSUME NEW result, NEW left \in Response, CommandReturns(result, left),
           toPse \in Seq(Order), list \in Seq(Response)
    PROVE  /\ call' = result
           /\ rb' \in Response /\ toPse' \in Seq(Order) /\ list' \in Seq(Response)
           /\ left = Nothing => rb' = Nothing
           /\ toPse = <<>> => toPse' = <<>>
           /\ list = <<>> => list' = <<>>
<1>1. call' = result /\ rb' = [left EXCEPT !.mine = FALSE]
    BY DEF CommandReturns
<1>2. list' = Disowned(list) /\ toPse' = Disowned(toPse)
    BY DEF CommandReturns
<1>3. rb' \in Response
    BY <1>1 DEF Response
<1>4. left = Nothing => rb' = Nothing
    <2>1. Nothing \in Response /\ Nothing.mine = FALSE
        BY DEF Nothing, Response
    <2>2. \A r \in Response : r.mine = FALSE => [r EXCEPT !.mine = FALSE] = r
        BY DEF Response
    <2>3. [Nothing EXCEPT !.mine = FALSE] = Nothing
        BY <2>1, <2>2
    <2> QED
        BY <1>1, <2>3
<1>5. toPse' \in Seq(Order) /\ list' \in Seq(Response)
    BY <1>2, DisownedOK
<1>6. (toPse = <<>> => toPse' = <<>>) /\ (list = <<>> => list' = <<>>)
    BY <1>2, DisownedOK
<1> QED
    BY <1>1, <1>3, <1>4, <1>5, <1>6
-----------------------------------------------------------------------------
\* It starts with nothing under way.
LEMMA AppStarts == AppInit => AppInv
<1> SUFFICES ASSUME AppInit PROVE AppInv
    OBVIOUS
<1>1. /\ program \in Programs /\ part = "open" /\ at = 1 /\ call = "next"
      /\ toPse = <<>> /\ deviceOn = FALSE /\ rb = Nothing /\ list = <<>> /\ seen = {}
    BY DEF AppInit
<1>2. toPse \in Seq(Order) /\ list \in Seq(Response)
    BY <1>1, EmptySeq
<1>3. rb \in Response
    BY <1>1 DEF Nothing, Response
<1>4. AppTypes
    <2>1. part \in Parts /\ at \in Nat \ {0}
        BY <1>1 DEF Parts
    <2>2. /\ call \in {"next", "header", "body", "ok", "failed", "done"}
          /\ call \notin {"header", "body", "ok", "failed"}
        BY <1>1
    <2>3. deviceOn \in BOOLEAN /\ seen \subseteq Marks /\ program \in Programs
        BY <1>1
    <2> QED
        BY <1>2, <1>3, <2>1, <2>2, <2>3 DEF AppTypes
<1>5. StepInv
    BY <1>1 DEF StepInv, Away
<1>6. EndInv
    BY <1>1 DEF EndInv
<1>7. KilledInv
    BY <1>1 DEF KilledInv, Alive
<1> QED
    BY <1>4, <1>5, <1>6, <1>7 DEF AppInv

\* The driver's callback keeps or lists a response.
LEMMA DeliverTypes ==
    ASSUME NEW r \in Response, rb \in Response, list \in Seq(Response), Deliver(r)
    PROVE  rb' \in Response /\ list' \in Seq(Response)
<1>1. CASE list = <<>> /\ rb = Nothing
    BY <1>1 DEF Deliver
<1>2. CASE ~(list = <<>> /\ rb = Nothing)
    <2>1. rb' = rb /\ list' = Append(list, r)
        BY <1>2 DEF Deliver
    <2> QED
        BY <2>1, AppendProperties
<1> QED
    BY <1>1, <1>2

(***************************************************************************)
(* Every step keeps the types.                                             *)
(***************************************************************************)
LEMMA AppTypesStep == AppTypes /\ AppNext => AppTypes'
<1> SUFFICES ASSUME AppTypes, AppNext PROVE AppTypes'
    OBVIOUS
<1>1. /\ program \in Programs /\ part \in Parts /\ at \in Nat \ {0}
      /\ call \in {"next", "header", "body", "ok", "failed", "done"}
      /\ toPse \in Seq(Order) /\ deviceOn \in BOOLEAN
      /\ rb \in Response /\ list \in Seq(Response) /\ seen \subseteq Marks
      /\ call \in {"header", "body", "ok", "failed"} => at \in DOMAIN program[part]
    BY DEF AppTypes
<1>2. /\ "late" \in Marks /\ "extra" \in Marks /\ "refused" \in Marks
      /\ "lost" \in Marks /\ "mixed" \in Marks
    BY DEF Marks
<1>3. ASSUME toPse # <<>>, toPse' = Tail(toPse)
      PROVE  toPse' \in Seq(Order) /\ Head(toPse) \in Order
    BY <1>1, <1>3, HeadTailProperties
<1>4. \A ok \in BOOLEAN, body \in BOOLEAN :
         toPse # <<>> /\ toPse' = Tail(toPse) /\ Respond(ok, body)
         => rb' \in Response /\ list' \in Seq(Response)
    <2> SUFFICES ASSUME NEW ok \in BOOLEAN, NEW body \in BOOLEAN,
                        toPse # <<>>, toPse' = Tail(toPse), Respond(ok, body)
                 PROVE  rb' \in Response /\ list' \in Seq(Response)
        OBVIOUS
    <2>1. Head(toPse).mine \in BOOLEAN
        BY <1>3 DEF Order
    <2>2. [mine |-> Head(toPse).mine, ok |-> ok, body |-> body, unread |-> "header"] \in Response
        BY <2>1 DEF Response
    <2> QED
        BY <1>1, <2>2, DeliverTypes DEF Respond
<1>5. CASE PseExecutes
    <2> DEFINE cmd == Head(toPse).cmd
    <2>1. toPse # <<>> /\ toPse' = Tail(toPse) /\ UNCHANGED <<program, part, at, call>>
        BY <1>5 DEF PseExecutes, app
    <2>2. cmd.body \in BOOLEAN
        BY <1>3, <2>1 DEF Order, Command
    <2>3. deviceOn' \in BOOLEAN
        BY <1>1, <1>5 DEF PseExecutes
    <2>4. rb' \in Response /\ list' \in Seq(Response)
        BY <1>4, <1>5, <2>1, <2>2 DEF PseExecutes
    <2>5. seen' \subseteq Marks
        BY <1>1, <1>2, <1>5 DEF PseExecutes, See
    <2> QED
        BY <1>1, <1>3, <2>1, <2>3, <2>4, <2>5 DEF AppTypes
<1>6. CASE PseRefuses
    <2>1. /\ toPse # <<>> /\ toPse' = Tail(toPse) /\ Respond(FALSE, FALSE)
          /\ UNCHANGED <<program, part, at, call, deviceOn>>
        BY <1>6 DEF PseRefuses, app
    <2>2. seen' \subseteq Marks
        BY <1>1, <1>2, <1>6 DEF PseRefuses, See
    <2> QED
        BY <1>1, <1>3, <1>4, <2>1, <2>2 DEF AppTypes
<1>7. CASE Send
    <2>1. /\ call' = "header" /\ UNCHANGED <<program, part, at, deviceOn, rb, list>>
          /\ at <= Len(program[part])
        BY <1>7 DEF Send, app, driver
    <2>2. at \in DOMAIN program[part] /\ Current \in Command
        BY <1>1, <2>1, PartIs, CurrentOK, LenProperties
    <2>3. [cmd |-> Current, mine |-> TRUE] \in Order
        BY <2>2 DEF Order
    <2>4. toPse' \in Seq(Order)
        <3>1. toPse' = Append(toPse, [cmd |-> Current, mine |-> TRUE]) \/ toPse' = toPse
            BY <1>7 DEF Send
        <3> QED
            BY <1>1, <2>3, <3>1, AppendProperties
    <2>5. seen' \subseteq Marks
        BY <1>1, <1>2, <1>7 DEF Send, See
    <2> QED
        BY <1>1, <2>1, <2>2, <2>4, <2>5 DEF AppTypes
<1>8. ASSUME NEW result \in {"ok", "failed"}, NEW left \in Response, CommandReturns(result, left),
             UNCHANGED <<program, part, at, deviceOn>>, seen' \subseteq Marks,
             call \in {"header", "body"}
      PROVE  AppTypes'
    BY <1>1, <1>8, ReturnOK DEF AppTypes
<1>9. Nothing \in Response
    BY DEF Nothing, Response
<1>10. CASE ReadHeader
    <2>1. call = "header" /\ UNCHANGED <<program, part, at, deviceOn>>
        BY <1>10 DEF ReadHeader, app
    <2>2. seen' \subseteq Marks
        BY <1>1, <1>2, <1>10 DEF ReadHeader, See
    <2>3. [rb EXCEPT !.unread = "body"] \in Response
        BY <1>1 DEF Response
    <2>4. \/ call' = "body" /\ UNCHANGED <<rb, list, toPse>>
          \/ \E result \in {"ok", "failed"}, left \in Response : CommandReturns(result, left)
        BY <1>1, <1>9, <1>10, <2>3 DEF ReadHeader, driver
    <2> QED
        BY <1>1, <1>8, <2>1, <2>2, <2>4 DEF AppTypes
<1>11. CASE ReadBody
    <2>1. call = "body" /\ UNCHANGED <<program, part, at, deviceOn, seen>>
        BY <1>11 DEF ReadBody, app
    <2>2. \E result \in {"ok", "failed"} : CommandReturns(result, Nothing)
        BY <1>11 DEF ReadBody
    <2> QED
        BY <1>1, <1>8, <1>9, <2>1, <2>2
<1>12. CASE ReadTimeout
    <2>1. call = "header" /\ UNCHANGED <<program, part, at, deviceOn>> /\ CommandReturns("failed", Nothing)
        BY <1>12 DEF ReadTimeout, app
    <2>2. seen' \subseteq Marks
        BY <1>1, <1>2, <1>12 DEF ReadTimeout, See
    <2> QED
        BY <1>8, <1>9, <2>1, <2>2
<1>13. CASE CommandOver \/ PartOver
    <2>1. UNCHANGED <<program, toPse, deviceOn, rb, list, seen>>
        BY <1>13 DEF CommandOver, PartOver, driver
    <2>2. part' \in Parts /\ at' \in Nat \ {0} /\ call' \in {"next", "done"}
        BY <1>1, <1>13 DEF CommandOver, PartOver, GoOn, Parts
    <2> QED
        BY <1>1, <2>1, <2>2 DEF AppTypes
<1>14. CASE Signal
    <2>1. /\ UNCHANGED <<program, part, at, toPse, deviceOn, rb, list>>
          /\ (UNCHANGED <<call, seen>>) \/ (call' = "done" /\ seen' = seen \cup {"killed"})
        BY <1>14 DEF Signal, app, driver, See
    <2> QED
        BY <1>1, <2>1 DEF AppTypes, Marks
<1> QED
    BY <1>5, <1>6, <1>7, <1>10, <1>11, <1>12, <1>13, <1>14 DEF AppNext

\* Marks are never taken back.
LEMMA SeenGrows == AppNext => seen \subseteq seen'
<1>1. PseExecutes => seen \subseteq seen'
    BY DEF PseExecutes, See
<1>2. PseRefuses \/ Send \/ ReadBody \/ ReadTimeout \/ CommandOver \/ PartOver \/ Signal
      => seen \subseteq seen'
    BY DEF PseRefuses, Send, ReadBody, ReadTimeout, CommandOver, PartOver, Signal, See
<1>3. ReadHeader => seen \subseteq seen'
    BY DEF ReadHeader, See
<1> QED
    BY <1>1, <1>2, <1>3 DEF AppNext

\* Only the command that was sent is executed, and its response is kept for the reader.
LEMMA Answered ==
    ASSUME AppTypes, StepInv, toPse # <<>>, toPse' = Tail(toPse),
           NEW ok, NEW body, Respond(ok, body)
    PROVE  /\ call = "header" /\ Sent /\ Head(toPse) = [cmd |-> Current, mine |-> TRUE]
           /\ toPse' = <<>> /\ list' = <<>>
           /\ rb' = [mine |-> TRUE, ok |-> ok, body |-> body, unread |-> "header"]
<1>1. call = "header" /\ Sent /\ list = <<>>
    BY DEF StepInv, Away, Back
<1>2. toPse = <<[cmd |-> Current, mine |-> TRUE]>> /\ rb = Nothing
    BY <1>1 DEF Sent
<1>3. Head(toPse) = [cmd |-> Current, mine |-> TRUE] /\ Tail(toPse) = <<>>
    BY <1>2
<1>4. Head(toPse).mine = TRUE
    BY <1>3
<1>5. rb' = [mine |-> TRUE, ok |-> ok, body |-> body, unread |-> "header"] /\ list' = <<>>
    BY <1>1, <1>2, <1>4 DEF Respond, Deliver
<1> QED
    BY <1>1, <1>3, <1>5

\* Where the program is, its command is the same.
LEMMA SameCurrent == UNCHANGED <<program, part, at>> => Current' = Current
BY DEF Current

\* A message in rb is not Nothing.
LEMMA NotNothing == \A r \in Response : r.unread # "none" => r # Nothing
BY DEF Nothing

(***************************************************************************)
(* One command is under way at most, and what comes back is its own.       *)
(***************************************************************************)
LEMMA StepInvStep ==
    ASSUME AppTypes, StepInv, AppNext, InStepSoFar', Alive'
    PROVE  StepInv'
<1>1. /\ list = <<>> /\ "mixed" \notin seen
      /\ call \notin {"header", "body"} => Away
      /\ call = "header" => Away \/ Sent \/ Back
      /\ call = "body" => Back /\ rb.body
    BY DEF StepInv
<1>2. /\ toPse \in Seq(Order) /\ list \in Seq(Response) /\ rb \in Response
      /\ call \in {"next", "header", "body", "ok", "failed", "done"}
    BY DEF AppTypes
<1>3. CASE PseExecutes
    <2>1. toPse # <<>> /\ toPse' = Tail(toPse) /\ UNCHANGED <<program, part, at, call>>
        BY <1>3 DEF PseExecutes, app
    <2>2. PICK ok \in BOOLEAN, body \in {TRUE, FALSE, Head(toPse).cmd.body} :
             /\ Respond(ok, body)
             /\ body => Head(toPse).cmd.body
             /\ UNCHANGED seen
        BY <1>3 DEF PseExecutes, See, InStepSoFar
    <2>3. /\ call = "header" /\ Head(toPse) = [cmd |-> Current, mine |-> TRUE]
          /\ toPse' = <<>> /\ list' = <<>>
          /\ rb' = [mine |-> TRUE, ok |-> ok, body |-> body, unread |-> "header"]
        BY <2>1, <2>2, Answered
    <2>4. body => Current.body
        BY <2>2, <2>3
    <2>5. Back'
        BY <2>1, <2>3, <2>4, SameCurrent DEF Back
    <2> QED
        BY <1>1, <2>1, <2>2, <2>3, <2>5 DEF StepInv
<1>4. CASE PseRefuses
    <2>1. /\ toPse # <<>> /\ toPse' = Tail(toPse) /\ Respond(FALSE, FALSE)
          /\ UNCHANGED <<program, part, at, call>> /\ seen' = seen \cup {"refused"}
        BY <1>4 DEF PseRefuses, See, app
    <2>2. /\ call = "header" /\ toPse' = <<>> /\ list' = <<>>
          /\ rb' = [mine |-> TRUE, ok |-> FALSE, body |-> FALSE, unread |-> "header"]
        BY <2>1, Answered
    <2>3. Back'
        BY <2>1, <2>2, SameCurrent DEF Back
    <2> QED
        BY <1>1, <2>1, <2>2, <2>3 DEF StepInv
<1>5. CASE Send
    <2>1. call = "next" /\ call' = "header" /\ UNCHANGED <<program, part, at, rb, list>>
        BY <1>5 DEF Send, app, driver
    <2>2. toPse = <<>> /\ rb = Nothing
        BY <1>1, <2>1 DEF Away
    <2>3. "mixed" \notin seen'
        BY <1>1, <1>5 DEF Send, See
    <2>4. CASE toPse' = Append(toPse, [cmd |-> Current, mine |-> TRUE])
        <3>1. toPse' = <<[cmd |-> Current, mine |-> TRUE]>>
            BY <2>2, <2>4
        <3>2. Sent'
            BY <2>1, <2>2, <3>1, SameCurrent DEF Sent
        <3> QED
            BY <1>1, <2>1, <2>3, <3>2 DEF StepInv
    <2>5. CASE toPse' = toPse
        BY <1>1, <2>1, <2>2, <2>3, <2>5 DEF StepInv, Away
    <2> QED
        BY <1>5, <2>4, <2>5 DEF Send
<1>6. ASSUME NEW result \in {"ok", "failed"}, CommandReturns(result, Nothing), toPse = <<>>,
             "mixed" \notin seen'
      PROVE  StepInv'
    <2>1. Nothing \in Response
        BY DEF Nothing, Response
    <2>2. call' = result /\ rb' = Nothing /\ toPse' = <<>> /\ list' = <<>>
        BY <1>1, <1>2, <1>6, <2>1, ReturnOK
    <2> QED
        BY <1>6, <2>2 DEF StepInv, Away
<1>7. CASE ReadHeader
    <2>1. call = "header" /\ UNCHANGED <<program, part, at>>
        BY <1>7 DEF ReadHeader, app
    <2>2. rb.unread \in {"header", "body"}
        BY <1>7 DEF ReadHeader
    <2>3. rb # Nothing
        BY <1>2, <2>2, NotNothing
    <2>4. Back
        BY <1>1, <2>1, <2>3 DEF Away, Sent
    <2>5. toPse = <<>> /\ rb.mine /\ rb.unread = "header" /\ (rb.body => Current.body)
        BY <2>4 DEF Back
    <2>6. seen' = seen
        BY <1>7, <2>5 DEF ReadHeader, See
    <2>7. \/ rb.body /\ call' = "body" /\ UNCHANGED <<rb, list, toPse>>
          \/ \E result \in {"ok", "failed"} : CommandReturns(result, Nothing)
        BY <1>7, <2>5 DEF ReadHeader, driver
    <2>8. CASE rb.body /\ call' = "body" /\ UNCHANGED <<rb, list, toPse>>
        <3>1. Back' /\ rb'.body
            BY <2>1, <2>4, <2>8, SameCurrent DEF Back
        <3> QED
            BY <1>1, <2>6, <2>8, <3>1 DEF StepInv
    <2> QED
        BY <1>1, <1>6, <2>5, <2>6, <2>7, <2>8
<1>8. CASE ReadBody
    <2>1. toPse = <<>> /\ UNCHANGED seen
        BY <1>1, <1>8 DEF ReadBody, Back
    <2>2. \E result \in {"ok", "failed"} : CommandReturns(result, Nothing)
        BY <1>8 DEF ReadBody
    <2> QED
        BY <1>1, <1>6, <2>1, <2>2
<1>9. CASE ReadTimeout
    <2>1. toPse = <<>> /\ UNCHANGED seen /\ CommandReturns("failed", Nothing)
        BY <1>9 DEF ReadTimeout, See, InStepSoFar
    <2> QED
        BY <1>1, <1>6, <2>1
<1>10. CASE CommandOver \/ PartOver
    <2>1. /\ call \notin {"header", "body"} /\ call' \notin {"header", "body"}
          /\ UNCHANGED <<toPse, rb, list, seen>>
        BY <1>10 DEF CommandOver, PartOver, GoOn, driver
    <2> QED
        BY <1>1, <2>1 DEF StepInv, Away
<1>11. CASE Signal
    <2>1. UNCHANGED <<program, part, at, call, toPse, rb, list, seen>>
        BY <1>11 DEF Signal, app, driver, See, Alive
    <2> QED
        BY <1>1, <2>1, SameCurrent DEF StepInv, Away, Sent, Back
<1> QED
    BY <1>3, <1>4, <1>5, <1>7, <1>8, <1>9, <1>10, <1>11 DEF AppNext

\* Only a signal ends a program where it is, and it does nothing else.
LEMMA OnlySignalKills ==
    ASSUME AppNext, "killed" \in seen', "killed" \notin seen
    PROVE  call' = "done" /\ seen' = seen \cup {"killed"}
<1>1. ~PseExecutes
    <2>1. PseExecutes => seen' \subseteq seen \cup {"extra"}
        BY DEF PseExecutes, See
    <2> QED
        BY <2>1
<1>2. ~PseRefuses
    <2>1. PseRefuses => seen' = seen \cup {"refused"}
        BY DEF PseRefuses, See
    <2> QED
        BY <2>1
<1>3. ~Send
    <2>1. Send => seen' \subseteq seen \cup {"lost"}
        BY DEF Send, See
    <2> QED
        BY <2>1
<1>4. ~ReadHeader
    <2>1. ReadHeader => seen' \subseteq seen \cup {"mixed"}
        BY DEF ReadHeader, See
    <2> QED
        BY <2>1
<1>5. ~ReadBody /\ ~ReadTimeout
    BY DEF ReadBody, ReadTimeout, See
<1>6. ~CommandOver /\ ~PartOver
    BY DEF CommandOver, PartOver
<1> QED
    BY <1>1, <1>2, <1>3, <1>4, <1>5, <1>6 DEF AppNext, Signal, See

\* A program that a signal ended takes no step any more.
LEMMA KilledStep ==
    ASSUME AppNext, KilledInv, InStepSoFar' /\ Alive' => StepInv'
    PROVE  KilledInv'
<1>1. seen \subseteq seen'
    BY SeenGrows
<1>2. ASSUME InStepSoFar' PROVE "mixed" \notin seen'
    <2>1. InStepSoFar
        BY <1>1, <1>2 DEF InStepSoFar
    <2>2. CASE Alive'
        BY <1>2, <2>2 DEF StepInv
    <2>3. CASE Alive /\ ~Alive'
        <3>1. seen' = seen \cup {"killed"}
            BY <2>3, OnlySignalKills DEF Alive
        <3> QED
            BY <2>1, <3>1 DEF KilledInv
    <2>4. CASE ~Alive
        <3>1. call = "done"
            BY <2>4 DEF KilledInv
        <3>2. PseExecutes \/ PseRefuses
            BY <3>1 DEF AppNext, Send, ReadHeader, ReadBody, ReadTimeout, CommandOver, PartOver, Signal
        <3>3. seen' \subseteq seen \cup {"extra", "refused"}
            BY <3>2 DEF PseExecutes, PseRefuses, See
        <3> QED
            BY <2>1, <3>3 DEF KilledInv
    <2> QED
        BY <2>2, <2>3, <2>4
<1>3. ASSUME ~Alive' PROVE call' = "done"
    <2>1. CASE ~Alive
        <3>1. call = "done"
            BY <2>1 DEF KilledInv
        <3>2. PseExecutes \/ PseRefuses
            BY <3>1 DEF AppNext, Send, ReadHeader, ReadBody, ReadTimeout, CommandOver, PartOver, Signal
        <3> QED
            BY <3>1, <3>2 DEF PseExecutes, PseRefuses
    <2>2. CASE Alive
        BY <1>3, <2>2, OnlySignalKills DEF Alive
    <2> QED
        BY <2>1, <2>2
<1> QED
    BY <1>2, <1>3 DEF KilledInv

\* The response to a command whose body the program has room for, or has none.
Complete(r) == r.ok /\ (r.body \/ ~Current.body \/ Current.name = "read")

(***************************************************************************)
(* An undisturbed program fails only where it reads, and disables what it  *)
(* enabled.                                                                *)
(***************************************************************************)
LEMMA EndInvStep ==
    ASSUME AppTypes, StepInv, EndInv, AppNext, Undisturbed'
    PROVE  EndInv'
<1>1. /\ list = <<>>
      /\ call \notin {"header", "body"} => Away
      /\ call = "header" => Sent \/ Back
      /\ call = "body" => Back /\ rb.body
    BY DEF StepInv, EndInv
<1>2. /\ call \in {"header", "body"} /\ Back => Complete(rb)
      /\ call = "failed" => Current.name = "read"
      /\ call = "done" => ~deviceOn
      /\ deviceOn => program.close = CanClose
      /\ deviceOn /\ part = "close" => at = 1 /\ (call = "next" \/ (call = "header" /\ Sent))
    BY DEF EndInv, Complete
<1>3. /\ program \in Programs /\ part \in Parts /\ at \in Nat \ {0}
      /\ call \in {"next", "header", "body", "ok", "failed", "done"}
      /\ rb \in Response
      /\ call \in {"header", "body", "ok", "failed"} => at \in DOMAIN program[part]
    BY DEF AppTypes
<1>4. call \in {"header", "body", "ok", "failed"} =>
         /\ Current \in Command
         /\ part = "open" => Current.name # "read"
         /\ Current.name = "enable" => program.close = CanClose /\ part # "close"
         /\ part = "close" /\ program.close = CanClose => at = 1 /\ Current.name = "disable"
    BY <1>3, CurrentOK
<1>5. AppNext => seen \subseteq seen'
    BY SeenGrows
<1>6. CASE PseExecutes
    <2>1. toPse # <<>> /\ toPse' = Tail(toPse) /\ UNCHANGED <<program, part, at, call>>
        BY <1>6 DEF PseExecutes, app
    <2>2. PICK body \in BOOLEAN :
             /\ Respond(TRUE, body)
             /\ body = Head(toPse).cmd.body \/ Head(toPse).cmd.name = "read"
        <3>1. Head(toPse) \in Order
            BY <2>1, HeadTailProperties DEF AppTypes
        <3>2. Head(toPse).cmd.body \in BOOLEAN
            BY <3>1 DEF Order, Command
        <3> QED
            BY <1>6, <3>2 DEF PseExecutes, See, Undisturbed
    <2>3. /\ call = "header" /\ Head(toPse) = [cmd |-> Current, mine |-> TRUE]
          /\ toPse' = <<>>
          /\ rb' = [mine |-> TRUE, ok |-> TRUE, body |-> body, unread |-> "header"]
        BY <2>1, <2>2, Answered
    <2>4. Head(toPse).cmd = Current /\ rb'.ok /\ rb'.body = body /\ rb'.unread = "header"
        BY <2>3
    <2>5. Current' = Current
        BY <2>1, SameCurrent
    <2>6. Current.body \in BOOLEAN
        BY <1>4, <2>3 DEF Command
    <2>7. Complete(rb)'
        BY <2>2, <2>4, <2>5, <2>6 DEF Complete
    <2>8. rb' # Nothing
        BY <2>4 DEF Nothing
    <2>9. deviceOn' = CASE Current.name = "enable"  -> TRUE
                        [] Current.name = "disable" -> FALSE
                        [] OTHER -> deviceOn
        BY <1>6, <2>4 DEF PseExecutes
    <2>10. deviceOn' => program.close = CanClose
        BY <1>2, <1>4, <2>3, <2>9
    <2>11. part = "close" => ~deviceOn'
        BY <1>2, <1>4, <2>3, <2>9
    <2> QED
        BY <2>1, <2>3, <2>7, <2>8, <2>10, <2>11 DEF EndInv, Away, Complete
<1>7. CASE PseRefuses
    BY <1>7 DEF PseRefuses, See, Undisturbed
<1>8. CASE Send
    <2>1. call = "next" /\ call' = "header" /\ UNCHANGED <<program, part, at, rb, list, deviceOn>>
        BY <1>8 DEF Send, app, driver
    <2>2. toPse = <<>> /\ rb = Nothing
        BY <1>1, <2>1 DEF Away
    <2>3. toPse' = Append(toPse, [cmd |-> Current, mine |-> TRUE])
        BY <1>8 DEF Send, See, Undisturbed
    <2>4. toPse' = <<[cmd |-> Current, mine |-> TRUE]>>
        BY <2>2, <2>3
    <2>5. Sent'
        BY <2>1, <2>2, <2>4, SameCurrent DEF Sent
    <2>6. toPse' # <<>>
        BY <2>4
    <2> QED
        BY <1>2, <2>1, <2>5, <2>6 DEF EndInv, Away, Back
<1>9. ASSUME NEW result \in {"ok", "failed"}, call' = result,
             result = "failed" => Current.name = "read",
             UNCHANGED <<program, part, at, deviceOn>>, call \in {"header", "body"},
             call = "header" => ~Sent
      PROVE  EndInv'
    <2>1. part = "close" => ~deviceOn
        BY <1>2, <1>9
    <2>2. Current' = Current
        BY <1>9, SameCurrent
    <2> QED
        BY <1>2, <1>9, <2>1, <2>2 DEF EndInv
<1>10. CASE ReadHeader
    <2>1. call = "header" /\ UNCHANGED <<program, part, at, deviceOn>>
        BY <1>10 DEF ReadHeader, app
    <2>2. rb # Nothing
        BY <1>3, <1>10, NotNothing DEF ReadHeader
    <2>3. Back /\ ~Sent
        BY <1>1, <2>1, <2>2 DEF Sent
    <2>4. Complete(rb) /\ rb.unread = "header" /\ (rb.body => Current.body)
        BY <1>2, <2>1, <2>3 DEF Back
    <2>5. \/ rb.body /\ call' = "body" /\ UNCHANGED <<rb, toPse>>
          \/ ~rb.body /\ call' = IF rb.ok /\ ~Current.body THEN "ok" ELSE "failed"
        BY <1>10, <2>4 DEF ReadHeader, CommandReturns, driver
    <2>6. CASE rb.body /\ call' = "body" /\ UNCHANGED <<rb, toPse>>
        <3>1. Complete(rb)'
            BY <2>1, <2>4, <2>6, SameCurrent DEF Complete
        <3>2. part = "close" => ~deviceOn
            BY <1>2, <2>1, <2>3
        <3> QED
            BY <1>2, <2>1, <2>6, <3>1, <3>2 DEF EndInv, Complete
    <2>7. CASE ~rb.body /\ call' = IF rb.ok /\ ~Current.body THEN "ok" ELSE "failed"
        <3>1. call' = "failed" => Current.name = "read"
            BY <2>4, <2>7 DEF Complete
        <3>2. call' \in {"ok", "failed"}
            BY <2>7
        <3> QED
            BY <1>9, <2>1, <2>3, <3>1, <3>2
    <2> QED
        BY <2>5, <2>6, <2>7
<1>11. CASE ReadBody
    <2>1. call = "body" /\ UNCHANGED <<program, part, at, deviceOn>>
        BY <1>11 DEF ReadBody, app
    <2>2. call' = "ok"
        BY <1>1, <1>2, <1>11, <2>1 DEF ReadBody, CommandReturns, Complete
    <2> QED
        BY <1>9, <2>1, <2>2
<1>12. CASE ReadTimeout
    <2>1. call = "header" /\ rb = Nothing /\ toPse = <<>>
        BY <1>12 DEF ReadTimeout, See, Undisturbed
    <2>2. Away
        BY <2>1 DEF Away
    <2> QED
        BY <2>1, <2>2 DEF EndInv
<1>13. CASE CommandOver
    <2>1. call \in {"ok", "failed"} /\ UNCHANGED <<program, deviceOn>>
        BY <1>13 DEF CommandOver
    <2>2. part = "close" => ~deviceOn
        BY <1>2, <2>1
    <2>3. ~(call = "failed" /\ part = "open")
        BY <1>2, <1>4
    <2>4. /\ call' = "next"
          /\ part' = part \/ (part' = "close" /\ at' = 1)
        BY <1>13, <2>3 DEF CommandOver, GoOn
    <2> QED
        BY <1>2, <2>1, <2>2, <2>4 DEF EndInv
<1>14. CASE PartOver
    <2>1. call = "next" /\ at > Len(program[part]) /\ UNCHANGED <<program, deviceOn>>
        BY <1>14 DEF PartOver
    <2>2. ASSUME part = "close", deviceOn PROVE FALSE
        <3>1. program[part] = program.close /\ program.close = CanClose /\ at = 1
            BY <1>2, <2>2
        <3>2. Len(program[part]) = 1
            BY <3>1, CanCommands
        <3>3. at = 1 /\ at > Len(program[part])
            BY <2>1, <3>1
        <3>4. 1 > 1
            BY <3>2, <3>3, Zenon
        <3> QED
            BY <3>4
    <2>3. \/ call' = "next" /\ (part' = "main" \/ (part' = "close" /\ at' = 1 /\ part # "close"))
          \/ call' = "done" /\ part = "close" /\ part' = part
        BY <1>14 DEF PartOver, GoOn
    <2> QED
        BY <1>2, <2>1, <2>2, <2>3 DEF EndInv
<1>15. CASE Signal
    <2>1. UNCHANGED <<program, part, at, call, toPse, rb, list, seen, deviceOn>>
        BY <1>15 DEF Signal, app, driver, See, Undisturbed
    <2>2. Current' = Current
        BY <2>1, SameCurrent
    <2> QED
        BY <1>1, <1>2, <2>1, <2>2 DEF EndInv, Away, Sent, Back, Complete
<1> QED
    BY <1>6, <1>7, <1>8, <1>10, <1>11, <1>12, <1>13, <1>14, <1>15 DEF AppNext
-----------------------------------------------------------------------------
(***************************************************************************)
(* AppInv holds in every state.                                            *)
(***************************************************************************)
THEOREM AppInvariant == AppSpec => []AppInv
<1>1. AppInv /\ [AppNext]_appVars => AppInv'
    <2> SUFFICES ASSUME AppInv, [AppNext]_appVars PROVE AppInv'
        OBVIOUS
    <2>1. CASE AppNext
        <3>1. AppTypes'
            BY <2>1, AppTypesStep DEF AppInv
        <3>2. ASSUME InStepSoFar', Alive' PROVE StepInv'
            <4>1. InStepSoFar /\ Alive
                BY <2>1, <3>2, SeenGrows DEF InStepSoFar, Alive
            <4> QED
                BY <2>1, <3>2, <4>1, StepInvStep DEF AppInv
        <3>3. ASSUME Undisturbed' PROVE EndInv'
            <4>1. Undisturbed /\ InStepSoFar /\ Alive
                BY <2>1, <3>3, SeenGrows DEF Undisturbed, InStepSoFar, Alive
            <4> QED
                BY <2>1, <3>3, <4>1, EndInvStep DEF AppInv
        <3>4. KilledInv'
            BY <2>1, <3>2, KilledStep DEF AppInv
        <3> QED
            BY <3>1, <3>2, <3>3, <3>4 DEF AppInv
    <2>2. CASE UNCHANGED appVars
        <3>1. UNCHANGED <<program, part, at, call, toPse, rb, list, seen, deviceOn>>
            BY <2>2 DEF appVars, app, driver
        <3>2. Current' = Current
            BY <3>1, SameCurrent
        <3>3. AppTypes' <=> AppTypes
            BY <3>1 DEF AppTypes
        <3>4. (StepInv' <=> StepInv) /\ (InStepSoFar' <=> InStepSoFar)
            BY <3>1, <3>2 DEF StepInv, InStepSoFar, Away, Sent, Back
        <3>5. (EndInv' <=> EndInv) /\ (Undisturbed' <=> Undisturbed)
            BY <3>1, <3>2 DEF EndInv, Undisturbed, Away, Sent, Back
        <3>6. (KilledInv' <=> KilledInv) /\ (Alive' <=> Alive)
            BY <3>1 DEF KilledInv, InStepSoFar, Alive
        <3> QED
            BY <3>3, <3>4, <3>5, <3>6 DEF AppInv
    <2> QED
        BY <2>1, <2>2
<1> QED
    BY <1>1, AppStarts, PTL DEF AppSpec

(***************************************************************************)
(* What a program reads is the response to its last command, unless a read *)
(* gave up on a response to come or a response had a body nobody wanted,   *)
(* for any rings and any number of faults.                                 *)
(***************************************************************************)
THEOREM StaysInStep == AppSpec => []InStep
<1>1. AppInv => InStep
    BY DEF AppInv, InStep, InStepSoFar, KilledInv
<1> QED
    BY <1>1, AppInvariant, PTL

(***************************************************************************)
(* A program that comes to its end leaves the device disabled, whichever   *)
(* of its commands fails and whenever candump is told to stop, unless the  *)
(* PSE refused, lost or was late with a command or sent a body with it.    *)
(* It says nothing of a program that a signal ended where it was: none but *)
(* candump handles one (killed).                                           *)
(***************************************************************************)
THEOREM EndsDisabled == AppSpec => []LeftDisabled
<1>1. AppInv => LeftDisabled
    BY DEF AppInv, LeftDisabled, Undisturbed, EndInv
<1> QED
    BY <1>1, AppInvariant, PTL
=============================================================================
