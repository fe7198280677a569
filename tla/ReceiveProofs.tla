--------------------------- MODULE ReceiveProofs ----------------------------
(***************************************************************************)
(* Theorems about ClientRx and its two drivers, HidRx and PseRx, for any   *)
(* ring of buffers, any number of recycling contexts or readers and any    *)
(* bounds.                                                                 *)
(*                                                                         *)
(* Whatever happens to the FCs: the host grants one message at a time, its *)
(* counter is true when nobody changes it, and communication does not dry  *)
(* up.  FcInv relates the counter to the grants the firmware has, in every *)
(* phase of an FC, torn updates included; DryInv says who will send the    *)
(* next FC.                                                                *)
(*                                                                         *)
(* No buffer is lost or in two places, one waits for every message the     *)
(* firmware may send, and complete messages wait for the driver, whole and *)
(* in order.  A refused FC, whose buffer is taken back out of the lists,   *)
(* ends that when the buffer was no longer where it was put (undone), and  *)
(* only then.  RbsConserved is inductive.  The second needs that the read  *)
(* list holds a buffer for every grant, one for every context about to     *)
(* send an FC and one for every context about to undo its read.  The third *)
(* needs what is in every buffer that is on its way.                       *)
(*                                                                         *)
(* The HID client and the PSE driver are drivers that ClientRx allows, so  *)
(* all this holds of them.  The HID client misses no event.  The readers   *)
(* of the PSE keep to the one buffer that pse_rb.rb shows.  As long as no  *)
(* two of them are in the read call at a time, the one that has the lock   *)
(* finds a buffer, and what the user gets are the fragments in the order   *)
(* they were sent: the next one is at the place pse_rb shows or begins the *)
(* messages that wait, which ContentInv says are whole.                    *)
(***************************************************************************)
EXTENDS HidRx, PseRx, FiniteSetTheorems, SequenceTheorems, TLAPS

(***************************************************************************)
(* Append and Tail, element by element.                                    *)
(***************************************************************************)
LEMMA AppendElements ==
    ASSUME NEW S, NEW s \in Seq(S), NEW e \in S
    PROVE  /\ Append(s, e) \in Seq(S)
           /\ Len(Append(s, e)) = Len(s) + 1
           /\ DOMAIN s = 1 .. Len(s)
           /\ DOMAIN Append(s, e) = 1 .. (Len(s) + 1)
           /\ \A i \in 1 .. Len(s) : Append(s, e)[i] = s[i]
           /\ Append(s, e)[Len(s) + 1] = e
BY SMT

LEMMA TailElements ==
    ASSUME NEW S, NEW s \in Seq(S), s # <<>>
    PROVE  /\ Tail(s) \in Seq(S)
           /\ Len(s) \in Nat \ {0}
           /\ Head(s) = s[1]
           /\ DOMAIN s = 1 .. Len(s)
           /\ DOMAIN Tail(s) = 1 .. (Len(s) - 1)
           /\ \A i \in 1 .. (Len(s) - 1) : Tail(s)[i] = s[i + 1]
BY EmptySeq, SMT

(***************************************************************************)
(* A list to whose end an element is added holds that element as well, and *)
(* once if it did not hold it before.                                      *)
(***************************************************************************)
LEMMA AppendList ==
    ASSUME NEW S, NEW s \in Seq(S), NEW e \in S
    PROVE  /\ Append(s, e) \in Seq(S)
           /\ Len(Append(s, e)) = Len(s) + 1
           /\ Range(Append(s, e)) = Range(s) \cup {e}
           /\ IsInjective(s) /\ e \notin Range(s) => IsInjective(Append(s, e))
<1> DEFINE n == Len(s)
           t == Append(s, e)
<1>1. /\ n \in Nat
      /\ DOMAIN s = 1 .. n
      /\ DOMAIN t = 1 .. (n + 1)
      /\ \A i \in 1 .. n : t[i] = s[i]
      /\ t[n + 1] = e
      /\ t \in Seq(S)
      /\ Len(t) = n + 1
  BY AppendElements, LenProperties
<1> HIDE DEF t, n
<1>2. Range(t) = Range(s) \cup {e}
  <2>1. ASSUME NEW x \in Range(t) PROVE x \in Range(s) \cup {e}
    <3>1. PICK i \in 1 .. (n + 1) : x = t[i]
      BY <1>1 DEF Range
    <3>2. CASE i = n + 1
      BY <3>1, <3>2, <1>1
    <3>3. CASE i \in 1 .. n
      BY <3>1, <3>3, <1>1 DEF Range
    <3>4. QED
      BY <3>2, <3>3, <1>1
  <2>2. ASSUME NEW x \in Range(s) PROVE x \in Range(t)
    <3>1. PICK i \in 1 .. n : x = s[i]
      BY <1>1 DEF Range
    <3>2. i \in 1 .. (n + 1) /\ x = t[i]
      BY <3>1, <1>1
    <3>3. QED
      BY <3>2, <1>1 DEF Range
  <2>3. e \in Range(t)
    BY <1>1 DEF Range
  <2>4. QED
    BY <2>1, <2>2, <2>3
<1>3. ASSUME IsInjective(s), e \notin Range(s),
             NEW i \in 1 .. (n + 1), NEW j \in 1 .. (n + 1), t[i] = t[j]
      PROVE  i = j
  <2>1. \A k \in 1 .. n : s[k] # e
    BY <1>1, <1>3 DEF Range
  <2>2. QED
    BY <2>1, <1>1, <1>3 DEF IsInjective
<1>4. QED
  BY <1>1, <1>2, <1>3 DEF IsInjective, t, n

(***************************************************************************)
(* A list whose first element is taken off holds the others.               *)
(***************************************************************************)
LEMMA TailList ==
    ASSUME NEW S, NEW s \in Seq(S), s # <<>>
    PROVE  /\ Tail(s) \in Seq(S)
           /\ Len(s) \in Nat \ {0}
           /\ Len(Tail(s)) = Len(s) - 1
           /\ Head(s) \in S
           /\ Range(s) = Range(Tail(s)) \cup {Head(s)}
           /\ IsInjective(s) => Head(s) \notin Range(Tail(s)) /\ IsInjective(Tail(s))
<1> DEFINE n == Len(s)
           t == Tail(s)
<1>1. /\ n \in Nat \ {0}
      /\ Head(s) = s[1]
      /\ s[1] \in S
      /\ DOMAIN s = 1 .. n
      /\ DOMAIN t = 1 .. (n - 1)
      /\ \A i \in 1 .. (n - 1) : t[i] = s[i + 1]
      /\ t \in Seq(S)
      /\ Len(t) = n - 1
  BY TailElements, LenProperties
<1> HIDE DEF t, n
<1>2. \A i \in 1 .. (n - 1) : i + 1 \in 1 .. n /\ i + 1 # 1
  BY <1>1
<1>3. Range(s) = Range(t) \cup {s[1]}
  <2>1. ASSUME NEW x \in Range(s) PROVE x \in Range(t) \cup {s[1]}
    <3>1. PICK i \in 1 .. n : x = s[i]
      BY <1>1 DEF Range
    <3>2. CASE i = 1
      BY <3>1, <3>2
    <3>3. CASE i # 1
      <4>1. i - 1 \in 1 .. (n - 1) /\ (i - 1) + 1 = i
        BY <3>3, <1>1
      <4>2. x = t[i - 1]
        BY <4>1, <3>1, <1>1
      <4>3. QED
        BY <4>1, <4>2, <1>1 DEF Range
    <3>4. QED
      BY <3>2, <3>3
  <2>2. ASSUME NEW x \in Range(t) PROVE x \in Range(s)
    <3>1. PICK i \in 1 .. (n - 1) : x = t[i]
      BY <1>1 DEF Range
    <3>2. x = s[i + 1] /\ i + 1 \in 1 .. n
      BY <3>1, <1>1, <1>2
    <3>3. QED
      BY <3>2, <1>1 DEF Range
  <2>3. s[1] \in Range(s)
    BY <1>1 DEF Range
  <2>4. QED
    BY <2>1, <2>2, <2>3
<1>4. ASSUME IsInjective(s) PROVE s[1] \notin Range(t)
  BY <1>1, <1>2, <1>4 DEF IsInjective, Range
<1>5. ASSUME IsInjective(s), NEW i \in 1 .. (n - 1), NEW j \in 1 .. (n - 1), t[i] = t[j]
      PROVE  i = j
  <2>1. /\ i + 1 \in DOMAIN s /\ j + 1 \in DOMAIN s
        /\ s[i + 1] = s[j + 1]
    BY <1>1, <1>2, <1>5
  <2>2. i + 1 = j + 1
    BY <2>1, <1>5 DEF IsInjective
  <2>3. QED
    BY <2>2, <1>1
<1>6. QED
  BY <1>1, <1>3, <1>4, <1>5 DEF IsInjective, t, n

(***************************************************************************)
(* The empty list.                                                         *)
(***************************************************************************)
LEMMA EmptyList ==
    /\ Range(<<>>) = {}
    /\ IsInjective(<<>>)
    /\ Len(<<>>) = 0
BY EmptySeq DEF Range, IsInjective
-----------------------------------------------------------------------------
TakerLabels == {"idle", "check", "start", "list", "fc", "count", "undo", "free"}
IsrLabels   == {"idle", "dec", "take", "fc", "count", "complete"}

LabelsOK ==
    /\ pc[Isr] \in IsrLabels
    /\ \A t \in Takers : pc[t] \in TakerLabels

FcMutex == \A p, q \in Contexts : pc[p] = "count" /\ pc[q] = "count" => p = q

CreditInv ==
    IF pc[Isr] = "dec"
    THEN IF FcLocked THEN granted = 0 /\ creds = 0 /\ raced
                     ELSE granted = 0 /\ creds = 1
    ELSE IF FcLocked THEN \/ granted = 1 /\ creds = 0
                          \/ granted = 0 /\ creds = 255 /\ raced
                     ELSE \/ granted \in {0, 1} /\ creds = granted
                          \/ granted = 0 /\ creds \in {1, 255} /\ raced

FcInv == LabelsOK /\ FcMutex /\ CreditInv
-----------------------------------------------------------------------------
(***************************************************************************)
(* Taking an element out of a list leaves a list of the same elements.     *)
(***************************************************************************)
LEMMA WithoutType ==
    ASSUME NEW S, NEW s \in Seq(S), NEW e
    PROVE  Without(s, e) \in Seq(S)
<1>1. CASE e \notin Range(s)
  BY <1>1 DEF Without
<1>2. CASE e \in Range(s)
  <2> DEFINE i == CHOOSE j \in DOMAIN s : s[j] = e
  <2>1. Without(s, e) = [j \in 1 .. Len(s) - 1 |-> IF j < i THEN s[j] ELSE s[j + 1]]
    BY <1>2 DEF Without
  <2>2. Len(s) \in Nat /\ \A j \in 1 .. Len(s) : s[j] \in S
    BY LenProperties
  <2>3. Len(s) # 0
    BY <1>2, LenProperties DEF Range
  <2>4. \A j \in 1 .. Len(s) - 1 : j \in 1 .. Len(s) /\ j + 1 \in 1 .. Len(s)
    BY <2>2
  <2> HIDE DEF i
  <2>5. \A j \in 1 .. Len(s) - 1 : (IF j < i THEN s[j] ELSE s[j + 1]) \in S
    BY <2>2, <2>4
  <2>6. Len(s) - 1 \in Nat
    BY <2>2, <2>3
  <2>7. QED
    BY <2>1, <2>5, <2>6, IsASeq
<1>3. QED
  BY <1>1, <1>2

(***************************************************************************)
(* The list without its element at place i: what is behind moves up.       *)
(***************************************************************************)
LEMMA WithoutElements ==
    ASSUME NEW S, NEW s \in Seq(S), NEW e \in Range(s)
    PROVE  \E i \in 1 .. Len(s) :
              /\ s[i] = e
              /\ Len(Without(s, e)) = Len(s) - 1
              /\ DOMAIN Without(s, e) = 1 .. (Len(s) - 1)
              /\ \A j \in 1 .. (Len(s) - 1) :
                    Without(s, e)[j] = IF j < i THEN s[j] ELSE s[j + 1]
<1> DEFINE i == CHOOSE j \in DOMAIN s : s[j] = e
           n == Len(s)
<1>1. n \in Nat /\ DOMAIN s = 1 .. n
  BY LenProperties
<1>2. i \in 1 .. n /\ s[i] = e
  BY <1>1 DEF Range
<1>3. Without(s, e) = [j \in 1 .. n - 1 |-> IF j < i THEN s[j] ELSE s[j + 1]]
  BY DEF Without
<1>4. Without(s, e) \in Seq(S)
  BY WithoutType
<1> HIDE DEF i, n
<1>5. DOMAIN Without(s, e) = 1 .. (n - 1) /\ n - 1 \in Nat
  BY <1>1, <1>2, <1>3
<1>6. Len(Without(s, e)) = n - 1
  BY <1>4, <1>5, LenProperties
<1>7. QED
  BY <1>2, <1>3, <1>5, <1>6 DEF n

(***************************************************************************)
(* It holds the other elements.                                            *)
(***************************************************************************)
LEMMA WithoutList ==
    ASSUME NEW S, NEW s \in Seq(S), NEW e \in Range(s), IsInjective(s)
    PROVE  /\ Range(Without(s, e)) = Range(s) \ {e}
           /\ IsInjective(Without(s, e))
<1> DEFINE n == Len(s)
           t == Without(s, e)
<1>1. n \in Nat /\ DOMAIN s = 1 .. n
  BY LenProperties
<1>2. PICK i \in 1 .. n :
           /\ s[i] = e
           /\ DOMAIN t = 1 .. (n - 1)
           /\ \A j \in 1 .. (n - 1) : t[j] = IF j < i THEN s[j] ELSE s[j + 1]
  BY WithoutElements
<1> HIDE DEF n, t
<1> DEFINE from(j) == IF j < i THEN j ELSE j + 1
<1>3. \A j \in 1 .. (n - 1) : from(j) \in 1 .. n /\ from(j) # i /\ t[j] = s[from(j)]
  BY <1>1, <1>2
<1>4. \A j, k \in 1 .. (n - 1) : from(j) = from(k) => j = k
  BY <1>1, <1>2
<1>5. ASSUME NEW k \in 1 .. n, k # i PROVE \E j \in 1 .. (n - 1) : from(j) = k
  <2>1. CASE k < i
    BY <1>1, <1>2, <2>1
  <2>2. CASE k > i
    <3>1. k - 1 \in 1 .. (n - 1) /\ ~(k - 1 < i) /\ (k - 1) + 1 = k
      BY <1>1, <1>2, <2>2
    <3>2. QED
      BY <3>1
  <2>3. QED
    BY <1>1, <1>2, <1>5, <2>1, <2>2
<1> HIDE DEF from
<1>6. \A j, k \in 1 .. n : s[j] = s[k] => j = k
  BY <1>1 DEF IsInjective
<1>7. ASSUME NEW x \in Range(t) PROVE x \in Range(s) \ {e}
  <2>1. PICK j \in 1 .. (n - 1) : x = t[j]
    BY <1>2, <1>7 DEF Range
  <2>2. x = s[from(j)] /\ from(j) \in 1 .. n /\ from(j) # i
    BY <1>3, <2>1
  <2>3. QED
    BY <1>1, <1>2, <1>6, <2>2 DEF Range
<1>8. ASSUME NEW x \in Range(s) \ {e} PROVE x \in Range(t)
  <2>1. PICK k \in 1 .. n : x = s[k]
    BY <1>1 DEF Range
  <2>2. k # i
    BY <1>2, <2>1
  <2>3. PICK j \in 1 .. (n - 1) : from(j) = k
    BY <1>5, <2>2
  <2>4. x = t[j]
    BY <1>3, <2>1, <2>3
  <2>5. QED
    BY <1>2, <2>4 DEF Range
<1>9. ASSUME NEW j \in 1 .. (n - 1), NEW k \in 1 .. (n - 1), t[j] = t[k] PROVE j = k
  BY <1>3, <1>4, <1>6, <1>9
<1>10. QED
  BY <1>2, <1>7, <1>8, <1>9 DEF IsInjective, t

\* A context that carries a buffer, or did before it sends an FC, has one.
Moving == {"list", "fc", "count", "undo", "free", "dec", "take", "complete"}

MineOK  == \A p \in Contexts : pc[p] \in Moving => mine[p] \in Rbs
TypeInv == TypeOK /\ MineOK

Labels == {"idle", "check", "start", "list", "fc", "count", "undo",
           "free", "dec", "take", "complete"}

(***************************************************************************)
(* A step of one context changes the label of no other.                    *)
(***************************************************************************)
LEMMA GotoLabel ==
    ASSUME TypeInv, NEW p \in Contexts, NEW l \in Labels, Goto(p, l)
    PROVE  /\ pc' \in [Contexts -> Labels]
           /\ pc'[p] = l
           /\ \A q \in Contexts : q # p => pc'[q] = pc[q]
BY DEF TypeInv, TypeOK, Goto, Labels

(***************************************************************************)
(* MineOK survives a step that starts no move of a buffer.                 *)
(***************************************************************************)
LEMMA MineStays ==
    ASSUME TypeInv, NEW p \in Contexts, NEW l \in Labels, Goto(p, l),
           mine' = mine, l \in Moving => pc[p] \in Moving
    PROVE  MineOK'
BY GotoLabel DEF TypeInv, MineOK

(***************************************************************************)
(* The initial state has the types.                                        *)
(***************************************************************************)
LEMMA TypeInit == Init => TypeInv
<1> SUFFICES ASSUME Init PROVE TypeInv
  OBVIOUS
<1>1. readList \in Seq(Rbs) /\ inProcess \in Seq(Rbs) /\ sizes \in Seq(Nat)
  BY EmptySeq DEF Init
<1>2. content \in [Rbs -> Seq(Nat \X Nat)]
  BY EmptySeq DEF Init
<1>3. pc \in [Contexts -> Labels]
  BY DEF Init, Labels
<1>4. mine \in [Contexts -> Rbs \cup {None}]
  BY DEF Init
<1>5. MineOK
  BY DEF Init, MineOK, Moving
<1>6. freeRbs \in SUBSET Rbs /\ held \in SUBSET Rbs
  BY Zenon DEF Init
<1>7. creds \in 0 .. 255 /\ granted \in Nat /\ frag \in Nat
  BY DEF Init
<1>8. work \in BOOLEAN /\ raced \in BOOLEAN /\ refused \in BOOLEAN
  BY DEF Init
<1>9. undone \in SUBSET Undone
  BY DEF Init
<1>10. TypeOK
  BY <1>1, <1>2, <1>3, <1>4, <1>6, <1>7, <1>8, <1>9, Zenon DEF TypeOK, Labels
<1>11. QED
  BY <1>5, <1>10 DEF TypeInv

(***************************************************************************)
(* A flow control request keeps the types.                                 *)
(***************************************************************************)
LEMMA TypeFc ==
    ASSUME TypeInv, NEW p \in Contexts, FlowControlReq(p)
    PROVE  TypeInv'
<1>1. CASE FcNotNeeded(p)
  <2>1. AfterFc(p) \in Labels /\ pc[p] \in Moving
    BY <1>1 DEF AfterFc, Labels, Moving, FcNotNeeded
  <2>2. Goto(p, AfterFc(p)) /\ mine' = mine
    BY <1>1 DEF FcNotNeeded
  <2>3. QED
    BY <1>1, <2>1, <2>2, GotoLabel, MineStays
       DEF FcNotNeeded, TypeInv, TypeOK, Labels, fwVars
<1>2. CASE FcWrite(p)
  <2>1. "count" \in Labels /\ pc[p] \in Moving
    BY <1>2 DEF Labels, Moving, FcWrite
  <2>2. Goto(p, "count") /\ mine' = mine
    BY <1>2 DEF FcWrite
  <2>3. QED
    BY <1>2, <2>1, <2>2, GotoLabel, MineStays DEF FcWrite, TypeInv, TypeOK, Labels
<1>3. CASE FcFail(p)
  <2> DEFINE l == IF p = Isr THEN "complete" ELSE "undo"
  <2>1. l \in Labels /\ pc[p] \in Moving
    BY <1>3 DEF Labels, Moving, FcFail
  <2>2. Goto(p, l) /\ mine' = mine
    BY <1>3 DEF FcFail
  <2> HIDE DEF l
  <2>3. MineOK' /\ pc' \in [Contexts -> Labels]
    BY <2>1, <2>2, GotoLabel, MineStays DEF TypeInv
  <2>4. QED
    BY <1>3, <2>3 DEF FcFail, TypeInv, TypeOK, Labels
<1>4. CASE FcCount(p)
  <2>1. AfterFc(p) \in Labels /\ pc[p] \in Moving
    BY <1>4 DEF AfterFc, Labels, Moving, FcCount
  <2>2. Goto(p, AfterFc(p)) /\ mine' = mine
    BY <1>4 DEF FcCount
  <2>3. creds' \in 0 .. 255
    BY <1>4 DEF FcCount, CredsPlus, TypeInv, TypeOK
  <2>4. QED
    BY <1>4, <2>1, <2>2, <2>3, GotoLabel, MineStays
       DEF FcCount, TypeInv, TypeOK, Labels, fwVars
<1>5. QED
  BY <1>1, <1>2, <1>3, <1>4 DEF FlowControlReq

(***************************************************************************)
(* The receptions of the interrupt keep the types.                         *)
(***************************************************************************)
LEMMA TypeReceive ==
    ASSUME TypeInv, Receive
    PROVE  TypeInv'
<1> USE DEF TypeInv
<1>0. Isr \in Contexts /\ \A l \in {"dec", "take", "fc", "complete", "idle"} : l \in Labels
  BY DEF Contexts, Labels
<1>1. ASSUME RecvFragment
      PROVE  /\ content' \in [Rbs -> Seq(Nat \X Nat)]
             /\ Head(readList) \in Rbs
             /\ Tail(readList) \in Seq(Rbs)
  <2>1. Head(readList) \in Rbs /\ Tail(readList) \in Seq(Rbs)
    BY <1>1, TailList DEF RecvFragment, TypeOK
  <2>2. <<Sent + 1, frag + 1>> \in Nat \X Nat
    BY LenProperties DEF Sent, TypeOK
  <2>3. Append(content[Head(readList)], <<Sent + 1, frag + 1>>) \in Seq(Nat \X Nat)
    BY <2>1, <2>2, AppendList DEF TypeOK
  <2>4. QED
    BY <1>1, <2>1, <2>3 DEF RecvFragment, TypeOK
<1>2. CASE RecvPart
  <2>1. frag' \in Nat /\ content' \in [Rbs -> Seq(Nat \X Nat)]
    BY <1>1, <1>2 DEF RecvPart, TypeOK
  <2>2. UNCHANGED <<freeRbs, readList, inProcess, held, mine, creds, work, pc, granted, sizes,
                    raced, refused, undone>>
    BY <1>2 DEF RecvPart
  <2>3. QED
    BY <2>1, <2>2 DEF TypeOK, MineOK
<1>3. CASE RecvLast
  <2>1. RecvFragment /\ Goto(Isr, "dec")
    BY <1>3 DEF RecvLast
  <2>2. mine' \in [Contexts -> Rbs \cup {None}] /\ MineOK'
    BY <1>0, <1>1, <1>3, <2>1, GotoLabel DEF RecvLast, MineOK, TypeOK
  <2>3. Append(sizes, frag + 1) \in Seq(Nat) /\ granted - 1 \in Nat
    BY <2>1, AppendList DEF RecvFragment, TypeOK
  <2>4. raced' \in BOOLEAN
    BY <1>3 DEF RecvLast, FcLocked, TypeOK
  <2>5. pc' \in [Contexts -> Labels]
    BY <1>0, <2>1, GotoLabel
  <2>6. QED
    BY <1>1, <1>3, <2>1, <2>2, <2>3, <2>4, <2>5 DEF RecvLast, TypeOK, Labels
<1>4. CASE RecvDec
  <2>1. Goto(Isr, "take") /\ mine' = mine /\ pc[Isr] \in Moving
    BY <1>4 DEF RecvDec, Moving
  <2>2. creds' \in 0 .. 255
    BY <1>4 DEF RecvDec, CredsMinus, TypeOK
  <2>3. QED
    BY <1>0, <1>4, <2>1, <2>2, GotoLabel, MineStays DEF RecvDec, TypeOK, Labels, fwVars
<1>5. CASE RecvDecTorn
  <2>1. creds' \in 0 .. 255
    BY <1>5 DEF RecvDecTorn, CredsPlus, CredsMinus, TypeOK
  <2>2. pc' \in [Contexts -> Labels] /\ MineOK'
    BY <1>5 DEF RecvDecTorn, TypeOK, Labels, MineOK, Moving, Contexts
  <2>3. QED
    BY <1>5, <2>1, <2>2 DEF RecvDecTorn, TypeOK, Labels, fwVars
<1>6. CASE RecvTake
  <2>1. CASE freeRbs = {} /\ Goto(Isr, "complete") /\ UNCHANGED <<freeRbs, readList, content>>
    <3>1. pc[Isr] \in Moving /\ mine' = mine
      BY <1>6 DEF RecvTake, Moving
    <3>2. MineOK' /\ pc' \in [Contexts -> Labels]
      BY <1>0, <2>1, <3>1, MineStays, GotoLabel
    <3>3. QED
      BY <1>6, <2>1, <3>2 DEF RecvTake, TypeOK, Labels, fwVars
  <2>2. ASSUME NEW rb \in freeRbs, freeRbs' = freeRbs \ {rb}, Goto(Isr, "fc"),
               readList' = Append(readList, rb), content' = [content EXCEPT ![rb] = <<>>]
        PROVE  TypeInv'
    <3>1. pc[Isr] \in Moving /\ mine' = mine
      BY <1>6 DEF RecvTake, Moving
    <3>2. MineOK' /\ pc' \in [Contexts -> Labels]
      BY <1>0, <2>2, <3>1, MineStays, GotoLabel
    <3>3. readList' \in Seq(Rbs)
      BY <2>2, AppendList DEF TypeOK
    <3>4. content' \in [Rbs -> Seq(Nat \X Nat)]
      BY <2>2, EmptySeq DEF TypeOK
    <3>5. QED
      BY <1>6, <2>2, <3>2, <3>3, <3>4 DEF RecvTake, TypeOK, Labels, fwVars
  <2>3. QED
    BY <1>6, <2>1, <2>2 DEF RecvTake
<1>7. CASE ReadComplete
  <2>1. mine[Isr] \in Rbs /\ Goto(Isr, "idle")
    BY <1>0, <1>7 DEF ReadComplete, MineOK, Moving
  <2>2. inProcess' \in Seq(Rbs)
    BY <1>7, <2>1, AppendList DEF ReadComplete, TypeOK
  <2>3. mine' \in [Contexts -> Rbs \cup {None}]
    BY <1>7 DEF ReadComplete, TypeOK
  <2>4. MineOK' /\ pc' \in [Contexts -> Labels]
    BY <1>0, <1>7, <2>1, GotoLabel DEF ReadComplete, MineOK, Moving, TypeOK
  <2>5. QED
    BY <1>7, <2>2, <2>3, <2>4 DEF ReadComplete, TypeOK, Labels, fwVars
<1>8. QED
  BY <1>2, <1>3, <1>4, <1>5, <1>6, <1>7 DEF Receive, RecvDma

(***************************************************************************)
(* The steps of a recycling context keep the types.                        *)
(***************************************************************************)
LEMMA TypeCore ==
    ASSUME TypeInv, NEW p \in Takers, Core(p)
    PROVE  TypeInv'
<1> USE DEF TypeInv
<1>0. p \in Contexts /\ \A l \in {"start", "idle", "list", "fc", "free"} : l \in Labels
  BY DEF Contexts, Labels
<1>1. CASE RecycleCheck(p)
  <2> DEFINE l == IF creds = 0 THEN "start" ELSE "idle"
  <2>1. l \in Labels /\ l \notin Moving /\ Goto(p, l) /\ mine' = mine
    BY <1>1 DEF RecycleCheck, Labels, Moving
  <2> HIDE DEF l
  <2>2. MineOK' /\ pc' \in [Contexts -> Labels]
    BY <1>0, <2>1, MineStays, GotoLabel
  <2>3. QED
    BY <1>1, <2>2 DEF RecycleCheck, TypeOK, Labels, fwVars
<1>2. CASE ReadStartEmpty(p)
  <2>1. MineOK' /\ pc' \in [Contexts -> Labels]
    BY <1>0, <1>2, MineStays, GotoLabel DEF ReadStartEmpty, Moving
  <2>2. QED
    BY <1>2, <2>1 DEF ReadStartEmpty, TypeOK, Labels, fwVars
<1>3. CASE ReadStartTake(p)
  <2>1. PICK rb \in freeRbs : /\ freeRbs' = freeRbs \ {rb}
                             /\ mine' = [mine EXCEPT ![p] = rb]
                             /\ content' = [content EXCEPT ![rb] = <<>>]
    BY <1>3 DEF ReadStartTake
  <2>2. MineOK' /\ pc' \in [Contexts -> Labels]
    BY <1>0, <1>3, <2>1, GotoLabel DEF ReadStartTake, MineOK, TypeOK
  <2>3. content' \in [Rbs -> Seq(Nat \X Nat)]
    BY <2>1, EmptySeq DEF TypeOK
  <2>4. QED
    BY <1>3, <2>1, <2>2, <2>3 DEF ReadStartTake, TypeOK, Labels, fwVars
<1>4. CASE ReadStartList(p)
  <2>1. mine[p] \in Rbs /\ pc[p] \in Moving /\ mine' = mine
    BY <1>0, <1>4 DEF ReadStartList, MineOK, Moving
  <2>2. MineOK' /\ pc' \in [Contexts -> Labels]
    BY <1>0, <1>4, <2>1, MineStays, GotoLabel DEF ReadStartList
  <2>3. readList' \in Seq(Rbs)
    BY <1>4, <2>1, AppendList DEF ReadStartList, TypeOK
  <2>4. QED
    BY <1>4, <2>2, <2>3 DEF ReadStartList, TypeOK, Labels, fwVars
<1>5. CASE ReadStartUndo(p)
  <2>1. pc[p] \in Moving /\ mine' = mine
    BY <1>5 DEF ReadStartUndo, Moving
  <2>2. MineOK' /\ pc' \in [Contexts -> Labels]
    BY <1>0, <1>5, <2>1, MineStays, GotoLabel DEF ReadStartUndo
  <2>3. readList' \in Seq(Rbs) /\ inProcess' \in Seq(Rbs)
    BY <1>5, WithoutType DEF ReadStartUndo, TypeOK
  <2>4. undone' \in SUBSET Undone /\ freeRbs' \in SUBSET Rbs
    BY <1>5 DEF ReadStartUndo, TypeOK, Undone
  <2>5. UNCHANGED <<held, mine, content, creds, work, granted, sizes, frag, raced, refused>>
    BY <1>5 DEF ReadStartUndo
  <2>6. QED
    BY <2>2, <2>3, <2>4, <2>5 DEF TypeOK, Labels
<1>6. CASE ReadStartFree(p)
  <2>1. mine[p] \in Rbs
    BY <1>0, <1>6 DEF ReadStartFree, MineOK, Moving
  <2>2. MineOK' /\ pc' \in [Contexts -> Labels]
    BY <1>0, <1>6, MineStays, GotoLabel DEF ReadStartFree, Moving
  <2>3. QED
    BY <1>6, <2>1, <2>2 DEF ReadStartFree, TypeOK, Labels, fwVars
<1>7. CASE FlowControlReq(p)
  BY <1>0, <1>7, TypeFc
<1>8. QED
  BY <1>1, <1>2, <1>3, <1>4, <1>5, <1>6, <1>7 DEF Core, ReadStart

(***************************************************************************)
(* Giving a buffer back keeps the types.                                   *)
(***************************************************************************)
LEMMA TypeRecycle ==
    ASSUME TypeInv, NEW p \in Takers, NEW rb \in Rbs, RecycleFree(p, rb)
    PROVE  TypeInv'
<1>1. p \in Contexts /\ "check" \in Labels /\ "check" \notin Moving
  BY DEF Contexts, Labels, Moving
<1>2. MineOK' /\ pc' \in [Contexts -> Labels]
  BY <1>1, MineStays, GotoLabel DEF RecycleFree, TypeInv
<1>3. QED
  BY <1>2 DEF RecycleFree, TypeInv, TypeOK, Labels, fwVars

(***************************************************************************)
(* The steps of the driver keep the types.                                 *)
(***************************************************************************)
LEMMA TypeDriver ==
    ASSUME TypeInv, EventWork \/ GetRb \/ UNCHANGED vars
    PROVE  TypeInv'
<1>1. CASE EventWork
  BY <1>1 DEF EventWork, TypeInv, TypeOK, MineOK, fwVars
<1>2. CASE GetRb
  BY <1>2, TailList DEF GetRb, TypeInv, TypeOK, MineOK, fwVars
<1>3. CASE UNCHANGED vars
  BY <1>3 DEF vars, TypeInv, TypeOK, MineOK
<1>4. QED
  BY <1>1, <1>2, <1>3

(***************************************************************************)
(* Every step keeps the types.                                             *)
(***************************************************************************)
LEMMA TypeStep == TypeInv /\ [Next]_vars => TypeInv'
<1>1. Isr \in Contexts
  BY DEF Contexts
<1>2. QED
  BY <1>1, TypeFc, TypeReceive, TypeCore, TypeRecycle, TypeDriver DEF Next

(***************************************************************************)
(* The types of the variables hold in every reachable state.               *)
(***************************************************************************)
THEOREM TypeCorrect == Spec => []TypeOK
<1>1. TypeInv => TypeOK
  BY DEF TypeInv
<1>2. QED
  BY <1>1, TypeInit, TypeStep, PTL DEF Spec
-----------------------------------------------------------------------------
(***************************************************************************)
(* A step of a context that neither takes nor releases fc_spinlock leaves  *)
(* it as it is.                                                            *)
(***************************************************************************)
LEMMA LockStays ==
    ASSUME TypeInv, NEW p \in Contexts, NEW l \in Labels, Goto(p, l),
           pc[p] # "count", l # "count"
    PROVE  /\ FcLocked' <=> FcLocked
           /\ FcMutex => FcMutex'
<1>1. \A q \in Contexts : pc'[q] = "count" <=> pc[q] = "count"
  BY GotoLabel
<1>2. QED
  BY <1>1 DEF FcLocked, FcMutex

(***************************************************************************)
(* The labels stay those of the code of each context.                      *)
(***************************************************************************)
LEMMA LabelsStay ==
    ASSUME TypeInv, LabelsOK, NEW p \in Contexts, NEW l \in Labels, Goto(p, l),
           p = Isr => l \in IsrLabels,
           p # Isr => l \in TakerLabels
    PROVE  LabelsOK'
<1>1. Isr \in Contexts /\ \A t \in Takers : t \in Contexts /\ t # Isr
  BY ContextsAssumption DEF Contexts
<1>2. pc'[Isr] \in IsrLabels
  BY <1>1, GotoLabel DEF LabelsOK
<1>3. ASSUME NEW t \in Takers PROVE pc'[t] \in TakerLabels
  BY <1>1, GotoLabel DEF LabelsOK
<1>4. QED
  BY <1>2, <1>3 DEF LabelsOK

(***************************************************************************)
(* A step that neither takes nor releases fc_spinlock, changes no credit   *)
(* or grant, and takes the interrupt neither to nor from the update of the *)
(* counter keeps FcInv.                                                    *)
(***************************************************************************)
LEMMA FcInvStays ==
    ASSUME TypeInv, FcInv, NEW p \in Contexts, NEW l \in Labels, Goto(p, l),
           pc[p] # "count", l # "count",
           p = Isr => pc[p] # "dec" /\ l # "dec" /\ l \in IsrLabels,
           p # Isr => l \in TakerLabels,
           UNCHANGED <<creds, granted, raced>>
    PROVE  FcInv'
<1>1. (pc'[Isr] = "dec") <=> (pc[Isr] = "dec")
  BY GotoLabel DEF Contexts
<1>2. LabelsOK' /\ FcMutex' /\ (FcLocked' <=> FcLocked)
  BY LabelsStay, LockStays DEF FcInv
<1>3. CreditInv'
  BY <1>1, <1>2 DEF FcInv, CreditInv
<1>4. QED
  BY <1>2, <1>3 DEF FcInv

(***************************************************************************)
(* FcInv holds initially.                                                  *)
(***************************************************************************)
LEMMA FcInit == Init => FcInv
<1> SUFFICES ASSUME Init PROVE FcInv
  OBVIOUS
<1>1. Isr \in Contexts /\ Opener \in Contexts /\ Isr # Opener
      /\ \A t \in Takers : t \in Contexts
  BY ContextsAssumption DEF Contexts
<1>2. \A p \in Contexts : pc[p] = (IF p = Opener THEN "start" ELSE "idle")
  BY DEF Init
<1>3. ~FcLocked /\ FcMutex /\ pc[Isr] = "idle"
  BY <1>1, <1>2 DEF FcLocked, FcMutex
<1>4. LabelsOK
  BY <1>1, <1>2 DEF LabelsOK, IsrLabels, TakerLabels
<1>5. CreditInv
  BY <1>3 DEF Init, CreditInv
<1>6. QED
  BY <1>3, <1>4, <1>5 DEF FcInv

(***************************************************************************)
(* A flow control request keeps FcInv.                                     *)
(***************************************************************************)
LEMMA FcRequest ==
    ASSUME TypeInv, FcInv, NEW p \in Contexts, FlowControlReq(p)
    PROVE  FcInv'
<1>0. Isr \in Contexts
  BY DEF Contexts
<1>1. CASE FcNotNeeded(p)
  <2>1. /\ AfterFc(p) \in Labels
        /\ AfterFc(p) # "count" /\ AfterFc(p) # "dec"
        /\ p = Isr => AfterFc(p) \in IsrLabels
        /\ p # Isr => AfterFc(p) \in TakerLabels /\ AfterFc(p) \notin {"undo", "free"}
    BY DEF AfterFc, Labels, IsrLabels, TakerLabels
  <2>2. pc[p] = "fc" /\ Goto(p, AfterFc(p)) /\ UNCHANGED <<creds, granted, raced>>
    BY <1>1 DEF FcNotNeeded, fwVars
  <2>3. QED
    BY <2>1, <2>2, FcInvStays
<1>2. CASE FcWrite(p)
  <2>1. pc[p] = "fc" /\ ~FcLocked /\ creds = 0 /\ Goto(p, "count") /\ creds' = creds
        /\ granted' = granted + 1 /\ "count" \in Labels /\ raced' = raced
    BY <1>2 DEF FcWrite, Labels
  <2>2. LabelsOK'
    BY <2>1, LabelsStay DEF FcInv, IsrLabels, TakerLabels
  <2>3. pc'[p] = "count" /\ \A q \in Contexts : q # p => pc'[q] # "count"
    BY <2>1, GotoLabel DEF FcLocked
  <2>4. FcLocked' /\ FcMutex'
    BY <2>3 DEF FcLocked, FcMutex
  <2>5. pc[Isr] # "dec" /\ granted = 0
    BY <2>1 DEF FcInv, CreditInv
  <2>6. pc'[Isr] # "dec"
    BY <1>0, <2>1, <2>5, GotoLabel
  <2>7. CreditInv'
    BY <2>1, <2>4, <2>5, <2>6 DEF CreditInv
  <2>8. QED
    BY <2>2, <2>4, <2>7 DEF FcInv
<1>3. CASE FcFail(p)
  <2> DEFINE l == IF p = Isr THEN "complete" ELSE "undo"
  <2>1. /\ l \in Labels /\ l # "count" /\ l # "dec"
        /\ p = Isr => l \in IsrLabels
        /\ p # Isr => l \in TakerLabels
    BY DEF Labels, IsrLabels, TakerLabels
  <2>2. pc[p] = "fc" /\ Goto(p, l) /\ UNCHANGED <<creds, granted, raced>>
    BY <1>3 DEF FcFail
  <2> HIDE DEF l
  <2>3. QED
    BY <2>1, <2>2, FcInvStays
<1>4. CASE FcCount(p)
  <2>1. pc[p] = "count" /\ creds' = CredsPlus /\ Goto(p, AfterFc(p))
        /\ granted' = granted /\ raced' = raced
    BY <1>4 DEF FcCount, fwVars
  <2>2. /\ AfterFc(p) \in Labels
        /\ AfterFc(p) # "count" /\ AfterFc(p) # "dec"
        /\ p = Isr => AfterFc(p) \in IsrLabels
        /\ p # Isr => AfterFc(p) \in TakerLabels /\ AfterFc(p) \notin {"undo", "free"}
    BY DEF AfterFc, Labels, IsrLabels, TakerLabels
  <2>3. LabelsOK'
    BY <2>1, <2>2, LabelsStay DEF FcInv
  <2>4. pc'[p] # "count" /\ \A q \in Contexts : q # p => pc'[q] = pc[q] /\ pc[q] # "count"
    BY <2>1, <2>2, GotoLabel DEF FcInv, FcMutex
  <2>5. FcLocked /\ ~FcLocked' /\ FcMutex'
    BY <2>1, <2>4 DEF FcLocked, FcMutex
  <2>6. (pc'[Isr] = "dec") <=> (pc[Isr] = "dec")
    BY <1>0, <2>1, <2>2, GotoLabel
  <2>7. CreditInv'
    BY <2>1, <2>5, <2>6 DEF FcInv, CreditInv, CredsPlus
  <2>8. QED
    BY <2>3, <2>5, <2>7 DEF FcInv
<1>5. QED
  BY <1>1, <1>2, <1>3, <1>4 DEF FlowControlReq

(***************************************************************************)
(* The receptions of the interrupt keep FcInv, also when the counter is    *)
(* decremented while an FC is being counted.                               *)
(***************************************************************************)
LEMMA FcReceive ==
    ASSUME TypeInv, FcInv, Receive
    PROVE  FcInv'
<1>0. Isr \in Contexts /\ \A t \in Takers : t \in Contexts /\ t # Isr
  BY ContextsAssumption DEF Contexts
<1>1. CASE RecvPart
  BY <1>1 DEF RecvPart, FcInv, LabelsOK, FcMutex, CreditInv, FcLocked
<1>2. CASE RecvLast
  <2>1. /\ pc[Isr] = "idle" /\ granted > 0 /\ granted' = granted - 1 /\ creds' = creds
        /\ Goto(Isr, "dec") /\ "dec" \in Labels
    BY <1>2 DEF RecvLast, RecvFragment, Labels
  <2>2. LabelsOK' /\ FcMutex' /\ (FcLocked' <=> FcLocked) /\ pc'[Isr] = "dec"
    BY <1>0, <2>1, LabelsStay, LockStays, GotoLabel DEF FcInv, IsrLabels
  <2>3. granted = 1 /\ (FcLocked => creds = 0) /\ (~FcLocked => creds = 1)
    BY <2>1 DEF FcInv, CreditInv
  <2>4. FcLocked => raced'
    BY <1>2, Zenon DEF RecvLast
  <2>5. granted' = 0
    BY <2>1, <2>3
  <2>6. CreditInv'
    BY <2>2, <2>3, <2>4, <2>5, <2>1 DEF CreditInv
  <2>7. QED
    BY <2>2, <2>6 DEF FcInv
<1>3. CASE RecvDec
  <2>1. /\ pc[Isr] = "dec" /\ creds' = CredsMinus /\ Goto(Isr, "take") /\ "take" \in Labels
        /\ granted' = granted /\ raced' = raced
    BY <1>3 DEF RecvDec, Labels, fwVars
  <2>2. LabelsOK' /\ FcMutex' /\ (FcLocked' <=> FcLocked) /\ pc'[Isr] = "take"
    BY <1>0, <2>1, LabelsStay, LockStays, GotoLabel DEF FcInv, IsrLabels
  <2>3. CreditInv'
    BY <2>1, <2>2 DEF FcInv, CreditInv, CredsMinus
  <2>4. QED
    BY <2>2, <2>3 DEF FcInv
<1>4. CASE RecvDecTorn
  <2>1. PICK t \in Takers :
             /\ pc[Isr] = "dec" /\ pc[t] = "count" /\ creds' \in {CredsPlus, CredsMinus}
             /\ pc' = [pc EXCEPT ![Isr] = "take", ![t] = "idle"]
             /\ granted' = granted /\ raced' = raced
    BY <1>4 DEF RecvDecTorn, fwVars
  <2>2. /\ pc'[Isr] = "take" /\ pc'[t] = "idle"
        /\ \A q \in Contexts : q # Isr /\ q # t => pc'[q] = pc[q] /\ pc[q] # "count"
    BY <1>0, <2>1 DEF TypeInv, TypeOK, FcInv, FcMutex
  <2>3. FcLocked /\ ~FcLocked' /\ FcMutex'
    BY <1>0, <2>1, <2>2 DEF FcLocked, FcMutex
  <2>4. LabelsOK'
    BY <1>0, <2>2 DEF FcInv, LabelsOK, IsrLabels, TakerLabels
  <2>5. granted = 0 /\ creds = 0 /\ raced
    BY <2>1, <2>3 DEF FcInv, CreditInv
  <2>6. CreditInv'
    BY <2>1, <2>2, <2>3, <2>5 DEF CreditInv, CredsPlus, CredsMinus
  <2>7. QED
    BY <2>3, <2>4, <2>6 DEF FcInv
<1>5. CASE RecvTake
  <2>1. PICK l \in {"fc", "complete"} : Goto(Isr, l)
    BY <1>5 DEF RecvTake
  <2>2. pc[Isr] = "take" /\ UNCHANGED <<creds, granted, raced>>
    BY <1>5 DEF RecvTake, fwVars
  <2>3. l \in Labels /\ l \in IsrLabels /\ l # "dec" /\ l # "count"
    BY DEF Labels, IsrLabels
  <2>4. QED
    BY <1>0, <2>1, <2>2, <2>3, FcInvStays
<1>6. CASE ReadComplete
  <2>1. /\ pc[Isr] = "complete" /\ Goto(Isr, "idle") /\ UNCHANGED <<creds, granted, raced>>
        /\ "idle" \in Labels /\ "idle" \in IsrLabels
    BY <1>6 DEF ReadComplete, fwVars, Labels, IsrLabels
  <2>2. QED
    BY <1>0, <2>1, FcInvStays
<1>7. QED
  BY <1>1, <1>2, <1>3, <1>4, <1>5, <1>6 DEF Receive, RecvDma

(***************************************************************************)
(* The steps of the recycling contexts and of the driver keep FcInv.       *)
(***************************************************************************)
LEMMA FcCore ==
    ASSUME TypeInv, FcInv, NEW p \in Takers, Core(p)
    PROVE  FcInv'
<1>0. p \in Contexts /\ p # Isr
  BY ContextsAssumption DEF Contexts
<1>1. CASE FlowControlReq(p)
  BY <1>0, <1>1, FcRequest
<1>2. CASE ~FlowControlReq(p)
  <2>1. PICK l \in {"start", "idle", "list", "fc", "free"} :
             /\ Goto(p, l) /\ pc[p] # "count" /\ UNCHANGED <<creds, granted, raced>>
    BY <1>2 DEF Core, ReadStart, RecycleCheck, ReadStartEmpty, ReadStartTake, ReadStartList,
                ReadStartUndo, ReadStartFree, fwVars
  <2>2. l \in Labels /\ l \in TakerLabels /\ l # "count"
    BY DEF Labels, TakerLabels
  <2>3. QED
    BY <1>0, <2>1, <2>2, FcInvStays
<1>3. QED
  BY <1>1, <1>2

LEMMA FcStep == TypeInv /\ FcInv /\ [Next]_vars => FcInv'
<1> SUFFICES ASSUME TypeInv, FcInv, [Next]_vars PROVE FcInv'
  OBVIOUS
<1>0. Isr \in Contexts
  BY DEF Contexts
<1>1. ASSUME NEW p \in Takers, NEW rb \in Rbs, RecycleFree(p, rb) PROVE FcInv'
  <2>1. p \in Contexts /\ p # Isr
    BY ContextsAssumption DEF Contexts
  <2>2. Goto(p, "check") /\ pc[p] = "idle" /\ UNCHANGED <<creds, granted, raced>>
    BY <1>1 DEF RecycleFree, fwVars
  <2>3. "check" \in Labels /\ "check" \in TakerLabels
    BY DEF Labels, TakerLabels
  <2>4. QED
    BY <2>1, <2>2, <2>3, FcInvStays
<1>2. CASE EventWork
  BY <1>2 DEF EventWork, fwVars, FcInv, LabelsOK, FcMutex, CreditInv, FcLocked
<1>3. CASE GetRb
  BY <1>3 DEF GetRb, fwVars, FcInv, LabelsOK, FcMutex, CreditInv, FcLocked
<1>4. CASE UNCHANGED vars
  BY <1>4 DEF vars, FcInv, LabelsOK, FcMutex, CreditInv, FcLocked
<1>5. QED
  BY <1>0, <1>1, <1>2, <1>3, <1>4, FcRequest, FcReceive, FcCore DEF Next

(***************************************************************************)
(* The host never grants the firmware a second message before the first    *)
(* one arrived completely: whatever the number of contexts that send FCs,  *)
(* and although the interrupt decrements the counter without the lock.     *)
(***************************************************************************)
THEOREM OneFc == Spec => []SingleFc
<1>1. TypeInv /\ FcInv => SingleFc
  BY DEF TypeInv, TypeOK, FcInv, CreditInv, SingleFc
<1>2. QED
  BY <1>1, TypeInit, TypeStep, FcInit, FcStep, PTL DEF Spec

(***************************************************************************)
(* The counter of credits equals the grants the firmware has whenever      *)
(* nobody is about to change it and no message came before its FC was      *)
(* counted.                                                                *)
(***************************************************************************)
THEOREM CreditsTrue == Spec => []CredsTruthful
<1>1. FcInv => CredsTruthful
  BY DEF FcInv, CreditInv, CredsTruthful
<1>2. QED
  BY <1>1, TypeInit, TypeStep, FcInit, FcStep, PTL DEF Spec
-----------------------------------------------------------------------------
(***************************************************************************)
(* Communication never dries up: as long as the firmware has no grant and  *)
(* a buffer is free, some context is on its way to an FC; and as long as   *)
(* all buffers are in the read list, one that put a buffer there still is. *)
(***************************************************************************)
Serving == \/ \E p \in Takers : pc[p] \in {"list", "fc", "count"}
           \/ pc[Isr] \in {"dec", "take", "fc", "count"}

Coming == \E p \in Takers : pc[p] \in {"check", "start"}

FreeServed == granted = 0 /\ freeRbs # {} => Serving \/ Coming

ListedServed ==
    granted = 0 /\ freeRbs = {} /\ held \cup Range(inProcess) = {} =>
        Serving \/ pc[Isr] = "complete"

NoUndo == \A p \in Takers : pc[p] \notin {"undo", "free"}

Served == FreeServed /\ ListedServed /\ NoUndo
DryInv == raced \/ refused \/ Served

(***************************************************************************)
(* The credits while nothing was raced.                                    *)
(***************************************************************************)
LEMMA Unraced ==
    ASSUME FcInv, ~raced
    PROVE  /\ pc[Isr] = "dec" => ~FcLocked
           /\ pc[Isr] # "dec" /\ FcLocked => granted = 1
           /\ pc[Isr] # "dec" /\ creds # 0 => granted = 1
BY DEF FcInv, CreditInv

(***************************************************************************)
(* A step after which the firmware has a grant, or a context is on its way *)
(* to one with a buffer.                                                   *)
(***************************************************************************)
LEMMA ServedNow ==
    ASSUME TypeInv, Served, NEW p \in Contexts, NEW l \in Labels, Goto(p, l),
           l \notin {"undo", "free"}, granted' # 0 \/ Serving'
    PROVE  Served'
<1>1. NoUndo'
  BY GotoLabel DEF Served, NoUndo, Contexts
<1>2. QED
  BY <1>1 DEF Served, FreeServed, ListedServed

(***************************************************************************)
(* A step that takes a context neither to nor from an FC.                  *)
(***************************************************************************)
LEMMA ServedStays ==
    ASSUME TypeInv, Served, NEW p \in Contexts, NEW l \in Labels, Goto(p, l),
           l \notin {"undo", "free"}, pc[p] \notin {"list", "fc", "count", "dec", "take"},
           granted' = granted,
           pc[p] \in {"check", "start"} => p # Isr /\ (freeRbs' = {} \/ l \in {"check", "start"}),
           freeRbs' # {} => freeRbs # {} \/ (p # Isr /\ l \in {"check", "start"}),
           held' \cup Range(inProcess') = {} =>
               freeRbs' # {} \/ (freeRbs = {} /\ held \cup Range(inProcess) = {} /\ pc[p] # "complete")
    PROVE  Served'
<1>0. Isr \in Contexts /\ \A t \in Takers : t \in Contexts /\ t # Isr
  BY ContextsAssumption DEF Contexts
<1>1. pc'[p] = l /\ \A q \in Contexts : q # p => pc'[q] = pc[q]
  BY GotoLabel
<1>2. NoUndo'
  BY <1>0, <1>1 DEF Served, NoUndo
<1>3. Serving => Serving'
  BY <1>0, <1>1 DEF Serving
<1>4. FreeServed'
  <2> SUFFICES ASSUME granted' = 0, freeRbs' # {} PROVE Serving' \/ Coming'
    BY DEF FreeServed
  <2>1. CASE p # Isr /\ l \in {"check", "start"}
    BY <1>0, <1>1, <2>1 DEF Coming, Contexts
  <2>2. CASE ~(p # Isr /\ l \in {"check", "start"})
    <3>1. Serving \/ Coming
      BY <2>2 DEF Served, FreeServed
    <3>2. Coming => Coming'
      BY <1>0, <1>1, <2>2 DEF Coming
    <3>3. QED
      BY <1>3, <3>1, <3>2
  <2>3. QED
    BY <2>1, <2>2
<1>5. ListedServed'
  <2> SUFFICES ASSUME granted' = 0, freeRbs' = {}, held' \cup Range(inProcess') = {}
               PROVE  Serving' \/ pc'[Isr] = "complete"
    BY DEF ListedServed
  <2>1. (Serving \/ pc[Isr] = "complete") /\ pc[p] # "complete"
    BY DEF Served, ListedServed
  <2>2. QED
    BY <1>0, <1>1, <1>3, <2>1
<1>6. QED
  BY <1>2, <1>4, <1>5 DEF Served

(***************************************************************************)
(* A flow control request.                                                 *)
(***************************************************************************)
LEMMA DryFc ==
    ASSUME TypeInv, FcInv, Served, ~raced, ~refused', NEW p \in Contexts, FlowControlReq(p)
    PROVE  Served'
<1>0. /\ Isr \in Contexts /\ AfterFc(p) \in Labels /\ AfterFc(p) \notin {"undo", "free"}
      /\ "count" \in Labels
  BY DEF Contexts, AfterFc, Labels
<1>1. CASE FcNotNeeded(p)
  <2>1. pc[p] = "fc" /\ creds # 0 /\ Goto(p, AfterFc(p)) /\ granted' = granted
    BY <1>1 DEF FcNotNeeded, fwVars
  <2>2. CASE pc[Isr] = "dec"
    <3>1. pc'[Isr] = "dec"
      BY <1>0, <2>1, <2>2, GotoLabel
    <3>2. QED
      BY <1>0, <2>1, <3>1, ServedNow DEF Serving
  <2>3. CASE pc[Isr] # "dec"
    BY <1>0, <2>1, <2>3, Unraced, ServedNow
  <2>4. QED
    BY <2>2, <2>3
<1>2. CASE FcWrite(p)
  <2>1. pc[p] = "fc" /\ Goto(p, "count") /\ granted' = granted + 1
    BY <1>2 DEF FcWrite
  <2>2. granted' # 0
    BY <2>1 DEF TypeInv, TypeOK
  <2>3. QED
    BY <1>0, <2>1, <2>2, ServedNow
<1>3. CASE FcFail(p)
  BY <1>3 DEF FcFail
<1>4. CASE FcCount(p)
  <2>1. pc[p] = "count" /\ Goto(p, AfterFc(p)) /\ granted' = granted
    BY <1>4 DEF FcCount, fwVars
  <2>2. FcLocked
    BY <2>1 DEF FcLocked
  <2>3. granted' # 0
    BY <2>1, <2>2, Unraced
  <2>4. QED
    BY <1>0, <2>1, <2>3, ServedNow
<1>5. QED
  BY <1>1, <1>2, <1>3, <1>4 DEF FlowControlReq

(***************************************************************************)
(* The receptions: each ends with an FC, or with no free buffer and a      *)
(* message for the driver.                                                 *)
(***************************************************************************)
LEMMA DryReceive ==
    ASSUME TypeInv, FcInv, Served, ~raced, Receive
    PROVE  Served'
<1>0. /\ Isr \in Contexts /\ \A t \in Takers : t \in Contexts /\ t # Isr
      /\ \A l \in {"dec", "take", "fc", "complete", "idle"} : l \in Labels
  BY ContextsAssumption DEF Contexts, Labels
<1>1. CASE RecvPart
  BY <1>1 DEF RecvPart, Served, FreeServed, ListedServed, NoUndo, Serving, Coming
<1>2. CASE RecvLast \/ RecvDec
  <2>1. PICK l \in {"dec", "take"} : Goto(Isr, l)
    BY <1>2 DEF RecvLast, RecvDec
  <2>2. Serving'
    BY <1>0, <2>1, GotoLabel DEF Serving
  <2>3. QED
    BY <1>0, <2>1, <2>2, ServedNow
<1>3. CASE RecvDecTorn
  BY <1>3, Unraced DEF RecvDecTorn, FcLocked, Contexts
<1>4. CASE RecvTake
  <2>1. CASE Goto(Isr, "fc")
    <3>1. Serving'
      BY <1>0, <2>1, GotoLabel DEF Serving
    <3>2. QED
      BY <1>0, <2>1, <3>1, ServedNow
  <2>2. CASE freeRbs = {} /\ freeRbs' = freeRbs /\ Goto(Isr, "complete")
    <3>1. pc'[Isr] = "complete" /\ \A t \in Takers : pc'[t] = pc[t]
      BY <1>0, <2>2, GotoLabel
    <3>2. QED
      BY <2>2, <3>1 DEF Served, FreeServed, ListedServed, NoUndo
  <2>3. QED
    BY <1>4, <2>1, <2>2 DEF RecvTake
<1>5. CASE ReadComplete
  <2>1. /\ pc[Isr] = "complete" /\ Goto(Isr, "idle") /\ mine[Isr] \in Rbs
        /\ inProcess' = Append(inProcess, mine[Isr])
        /\ UNCHANGED <<freeRbs, granted>>
    BY <1>0, <1>5 DEF ReadComplete, fwVars, TypeInv, MineOK, Moving
  <2>2. Range(inProcess') # {}
    <3>1. inProcess \in Seq(Rbs)
      BY DEF TypeInv, TypeOK
    <3>2. Range(inProcess') = Range(inProcess) \cup {mine[Isr]}
      BY <2>1, <3>1, AppendList
    <3>3. QED
      BY <3>2
  <2>3. QED
    BY <1>0, <2>1, <2>2, ServedStays
<1>6. QED
  BY <1>1, <1>2, <1>3, <1>4, <1>5 DEF Receive, RecvDma

(***************************************************************************)
(* The recycling contexts: one gives up only when there is a credit, when  *)
(* the interrupt is about to take the free buffer, or when none is free.   *)
(***************************************************************************)
LEMMA DryCore ==
    ASSUME TypeInv, FcInv, Served, ~raced, ~refused', NEW p \in Takers, Core(p)
    PROVE  Served'
<1>0. /\ p \in Contexts /\ p # Isr /\ Isr \in Contexts
      /\ \A l \in {"start", "idle", "list", "fc"} : l \in Labels
  BY ContextsAssumption DEF Contexts, Labels
<1>1. CASE FlowControlReq(p)
  BY <1>0, <1>1, DryFc
<1>2. CASE RecycleCheck(p)
  <2>1. pc[p] = "check" /\ UNCHANGED <<granted, freeRbs, held, inProcess>>
    BY <1>2 DEF RecycleCheck, fwVars
  <2>2. CASE Goto(p, "start")
    BY <1>0, <2>1, <2>2, ServedStays
  <2>3. CASE Goto(p, "idle") /\ creds # 0
    <3>1. CASE pc[Isr] = "dec"
      <4>1. pc'[Isr] = "dec"
        BY <1>0, <2>3, <3>1, GotoLabel
      <4>2. QED
        BY <1>0, <2>3, <4>1, ServedNow DEF Serving
    <3>2. CASE pc[Isr] # "dec"
      BY <1>0, <2>1, <2>3, <3>2, Unraced, ServedNow
    <3>3. QED
      BY <3>1, <3>2
  <2>4. QED
    BY <1>2, <2>2, <2>3 DEF RecycleCheck
<1>3. CASE ReadStartEmpty(p)
  <2>1. /\ pc[p] = "start" /\ Goto(p, "idle") /\ freeRbs = {}
        /\ UNCHANGED <<granted, freeRbs, held, inProcess>>
    BY <1>3 DEF ReadStartEmpty, fwVars
  <2>2. QED
    BY <1>0, <2>1, ServedStays
<1>4. CASE ReadStartTake(p) \/ ReadStartList(p)
  <2>1. PICK l \in {"list", "fc"} : Goto(p, l)
    BY <1>4 DEF ReadStartTake, ReadStartList
  <2>2. Serving'
    BY <1>0, <2>1, GotoLabel DEF Serving
  <2>3. QED
    BY <1>0, <2>1, <2>2, ServedNow
<1>5. CASE ReadStartUndo(p) \/ ReadStartFree(p)
  BY <1>5 DEF ReadStartUndo, ReadStartFree, Served, NoUndo
<1>6. QED
  BY <1>1, <1>2, <1>3, <1>4, <1>5 DEF Core, ReadStart

LEMMA DryStep == TypeInv /\ FcInv /\ DryInv /\ [Next]_vars => DryInv'
<1> SUFFICES ASSUME TypeInv, FcInv, DryInv, [Next]_vars PROVE DryInv'
  OBVIOUS
<1>1. (raced => raced') /\ (refused => refused')
  <2>1. CASE Receive
    <3>1. CASE RecvLast
      BY <3>1, Zenon DEF RecvLast
    <3>2. CASE RecvPart \/ RecvDec \/ RecvDecTorn \/ RecvTake \/ ReadComplete
      BY <3>2 DEF RecvPart, RecvDec, RecvDecTorn, RecvTake, ReadComplete, fwVars
    <3>3. QED
      BY <2>1, <3>1, <3>2 DEF Receive, RecvDma
  <2>2. ASSUME NEW p, FlowControlReq(p) PROVE (raced => raced') /\ (refused => refused')
    BY <2>2 DEF FlowControlReq, FcNotNeeded, FcWrite, FcFail, FcCount, fwVars
  <2>3. ASSUME NEW p \in Takers, Core(p) PROVE (raced => raced') /\ (refused => refused')
    BY <2>2, <2>3 DEF Core, RecycleCheck, ReadStart, ReadStartEmpty, ReadStartTake,
                      ReadStartList, ReadStartUndo, ReadStartFree, fwVars
  <2>4. CASE \E p \in Takers, rb \in Rbs : RecycleFree(p, rb)
    BY <2>4 DEF RecycleFree, fwVars
  <2>5. CASE EventWork \/ GetRb \/ UNCHANGED vars
    BY <2>5 DEF EventWork, GetRb, fwVars, vars
  <2>6. QED
    BY <2>1, <2>2, <2>3, <2>4, <2>5 DEF Next
<1>2. ASSUME ~raced', ~refused' PROVE Served'
  <2>1. Served /\ ~raced /\ Isr \in Contexts
    BY <1>1, <1>2 DEF DryInv, Contexts
  <2>2. ASSUME NEW p \in Takers, NEW rb \in Rbs, RecycleFree(p, rb) PROVE Served'
    <3>1. /\ pc[p] = "idle" /\ Goto(p, "check") /\ granted' = granted
          /\ freeRbs' = freeRbs \cup {rb} /\ "check" \in Labels
      BY <2>2 DEF RecycleFree, fwVars, Labels
    <3>2. p \in Contexts /\ p # Isr
      BY ContextsAssumption DEF Contexts
    <3>3. QED
      BY <2>1, <3>1, <3>2, ServedStays
  <2>3. CASE GetRb
    <3>1. held' # {} /\ UNCHANGED <<freeRbs, granted, pc>>
      BY <2>3 DEF GetRb, fwVars
    <3>2. QED
      BY <2>1, <3>1 DEF Served, FreeServed, ListedServed, NoUndo, Serving, Coming
  <2>4. CASE EventWork \/ UNCHANGED vars
    <3>1. UNCHANGED <<freeRbs, held, inProcess, granted, pc>>
      BY <2>4 DEF EventWork, fwVars, vars
    <3>2. QED
      BY <2>1, <3>1 DEF Served, FreeServed, ListedServed, NoUndo, Serving, Coming
  <2>5. QED
    BY <1>2, <2>1, <2>2, <2>3, <2>4, DryFc, DryReceive, DryCore DEF Next
<1>3. QED
  BY <1>2 DEF DryInv

LEMMA DryInit == Init => DryInv
<1> SUFFICES ASSUME Init PROVE Served
  BY DEF DryInv
<1>1. Opener \in Contexts /\ \A p \in Contexts : pc[p] = (IF p = Opener THEN "start" ELSE "idle")
  BY ContextsAssumption DEF Init, Contexts
<1>2. Coming /\ NoUndo
  BY <1>1, ContextsAssumption DEF Coming, NoUndo, Contexts
<1>3. freeRbs # {}
  BY RingAssumption DEF Init
<1>4. QED
  BY <1>2, <1>3 DEF Served, FreeServed, ListedServed

(***************************************************************************)
(* Communication never dries up, for any ring and any number of recycling  *)
(* contexts: when nobody is sending an FC, the firmware has a grant or the *)
(* driver has a buffer whose recycling will bring one, unless a message    *)
(* came before its FC was counted or an FC was refused.                    *)
(***************************************************************************)
THEOREM NeverRunsDry == Spec => []NeverDryUnlessHindered
<1>1. DryInv => NeverDryUnlessHindered
  <2> SUFFICES ASSUME Served, Quiet, granted = 0
               PROVE  freeRbs = {} /\ held \cup Range(inProcess) # {}
    BY DEF DryInv, NeverDryUnlessHindered, NeverDry
  <2>1. ~Serving /\ ~Coming /\ pc[Isr] # "complete"
    BY DEF Quiet, Serving, Coming, Contexts
  <2>2. QED
    BY <2>1 DEF Served, FreeServed, ListedServed
<1>2. QED
  BY <1>1, TypeInit, TypeStep, FcInit, FcStep, DryInit, DryStep, PTL DEF Spec
-----------------------------------------------------------------------------
\* Contexts between their place in the read list and the FC that goes with it,
\* or the undoing of their read.
Sending   == {"fc", "undo"}
FcSenders == {p \in Contexts : pc[p] \in Sending}

BufferPerGrant == Len(readList) >= granted + Cardinality(FcSenders)

\* RbsConserved in parts: where the buffers are, and how often.
Partition ==
    /\ freeRbs \cup Range(readList) \cup Range(inProcess) \cup held \cup InHand = Rbs
    /\ freeRbs \cap (Range(readList) \cup Range(inProcess) \cup held \cup InHand) = {}
    /\ Range(readList) \cap (Range(inProcess) \cup held \cup InHand) = {}
    /\ Range(inProcess) \cap (held \cup InHand) = {}
    /\ held \cap InHand = {}

OneHand == \A p, q \in Contexts : Carries(p) /\ Carries(q) /\ mine[p] = mine[q] => p = q

Once == IsInjective(readList) /\ IsInjective(inProcess)

PlacesInv == Partition /\ Once /\ OneHand
ListsInv  == PlacesInv /\ BufferPerGrant

\* Until a read was undone whose buffer was no longer in the read list.
SoundInv == "strayed" \notin undone => ListsInv
-----------------------------------------------------------------------------
(***************************************************************************)
(* A step that changes no label and no buffer in hand.                     *)
(***************************************************************************)
LEMMA HandsKept ==
    ASSUME TypeInv, pc' = pc, mine' = mine
    PROVE  /\ InHand' = InHand
           /\ OneHand => OneHand'
           /\ FcSenders' = FcSenders
BY DEF InHand, OneHand, FcSenders, Carries

(***************************************************************************)
(* A context that goes on carrying its buffer, or none.                    *)
(***************************************************************************)
LEMMA HandSame ==
    ASSUME TypeInv, NEW p \in Contexts, NEW l \in Labels, Goto(p, l), mine' = mine,
           Carries(p) <=> (l \in {"list", "free"} \/ (p = Isr /\ l # "idle"))
    PROVE  /\ InHand' = InHand
           /\ OneHand => OneHand'
<1>1. \A q \in Contexts : Carries(q)' <=> Carries(q)
  BY GotoLabel DEF Carries
<1>2. {q \in Contexts : Carries(q)}' = {q \in Contexts : Carries(q)}
  BY <1>1
<1>3. QED
  BY <1>1, <1>2 DEF InHand, OneHand

(***************************************************************************)
(* A context that takes a buffer nobody carries.                           *)
(***************************************************************************)
LEMMA HandTakes ==
    ASSUME TypeInv, NEW p \in Contexts, NEW l \in Labels, Goto(p, l), NEW rb \in Rbs,
           mine' = [mine EXCEPT ![p] = rb], ~Carries(p), rb \notin InHand,
           l \in {"list", "free"} \/ (p = Isr /\ l # "idle")
    PROVE  /\ InHand' = InHand \cup {rb}
           /\ OneHand => OneHand'
<1>1. /\ mine'[p] = rb
      /\ \A q \in Contexts : q # p => mine'[q] = mine[q]
  BY DEF TypeInv, TypeOK
<1>2. /\ Carries(p)'
      /\ \A q \in Contexts : q # p => (Carries(q)' <=> Carries(q))
  BY GotoLabel DEF Carries
<1>3. InHand' = InHand \cup {rb}
  <2>1. ASSUME NEW x \in InHand' PROVE x \in InHand \cup {rb}
    <3>1. PICK q \in Contexts : Carries(q)' /\ x = mine'[q]
      BY <2>1 DEF InHand
    <3>2. QED
      BY <3>1, <1>1, <1>2 DEF InHand
  <2>2. ASSUME NEW x \in InHand PROVE x \in InHand'
    <3>1. PICK q \in Contexts : Carries(q) /\ x = mine[q]
      BY <2>2 DEF InHand
    <3>2. q # p
      BY <3>1
    <3>3. QED
      BY <3>1, <3>2, <1>1, <1>2 DEF InHand
  <2>3. rb \in InHand'
    BY <1>1, <1>2 DEF InHand
  <2>4. QED
    BY <2>1, <2>2, <2>3
<1>4. \A q \in Contexts : Carries(q) => mine[q] # rb
  BY DEF InHand
<1>5. QED
  BY <1>1, <1>2, <1>3, <1>4 DEF OneHand

(***************************************************************************)
(* A context that puts its buffer down.                                    *)
(***************************************************************************)
LEMMA HandDrops ==
    ASSUME TypeInv, OneHand, NEW p \in Contexts, NEW l \in Labels, Goto(p, l), Carries(p),
           \A q \in Contexts : q # p => mine'[q] = mine[q],
           l \notin {"list", "free"}, p = Isr => l = "idle"
    PROVE  InHand' = InHand \ {mine[p]} /\ mine[p] \in InHand /\ OneHand'
<1>1. /\ ~Carries(p)'
      /\ \A q \in Contexts : q # p => (Carries(q)' <=> Carries(q))
  BY GotoLabel DEF Carries
<1>2. ASSUME NEW x \in InHand' PROVE x \in InHand \ {mine[p]}
  <2>1. PICK q \in Contexts : Carries(q)' /\ x = mine'[q]
    BY <1>2 DEF InHand
  <2>2. q # p /\ Carries(q) /\ x = mine[q]
    BY <2>1, <1>1
  <2>3. mine[q] # mine[p]
    BY <2>2 DEF OneHand
  <2>4. QED
    BY <2>2, <2>3 DEF InHand
<1>3. ASSUME NEW x \in InHand \ {mine[p]} PROVE x \in InHand'
  <2>1. PICK q \in Contexts : Carries(q) /\ x = mine[q]
    BY <1>3 DEF InHand
  <2>2. q # p
    BY <1>3, <2>1
  <2>3. QED
    BY <2>1, <2>2, <1>1 DEF InHand
<1>4. InHand' = InHand \ {mine[p]}
  BY <1>2, <1>3
<1>5. mine[p] \in InHand
  BY DEF InHand
<1>6. OneHand'
  BY <1>1 DEF OneHand
<1>7. QED
  BY <1>4, <1>5, <1>6

(***************************************************************************)
(* The contexts that are about to send an FC, before and after a step.     *)
(***************************************************************************)
LEMMA SendersFinite == IsFiniteSet(FcSenders) /\ Cardinality(FcSenders) \in Nat
<1>1. IsFiniteSet(Contexts)
  BY ContextsAssumption, FS_AddElement DEF Contexts
<1>2. QED
  BY <1>1, FS_Subset, FS_CardinalityType DEF FcSenders

LEMMA SenderStays ==
    ASSUME TypeInv, NEW p \in Contexts, NEW l \in Labels, Goto(p, l),
           pc[p] \in Sending <=> l \in Sending
    PROVE  FcSenders' = FcSenders
BY GotoLabel DEF FcSenders

LEMMA SenderComes ==
    ASSUME TypeInv, NEW p \in Contexts, Goto(p, "fc"), pc[p] \notin Sending
    PROVE  Cardinality(FcSenders)' = Cardinality(FcSenders) + 1
<1>1. "fc" \in Labels
  BY DEF Labels
<1>2. FcSenders' = FcSenders \cup {p} /\ p \notin FcSenders
  BY <1>1, GotoLabel DEF FcSenders, Sending
<1>3. QED
  BY <1>2, SendersFinite, FS_AddElement

LEMMA SenderGoes ==
    ASSUME TypeInv, NEW p \in Contexts, NEW l \in Labels, Goto(p, l),
           pc[p] \in Sending, l \notin Sending
    PROVE  Cardinality(FcSenders)' = Cardinality(FcSenders) - 1
<1>1. FcSenders' = FcSenders \ {p} /\ p \in FcSenders
  BY GotoLabel DEF FcSenders
<1>2. QED
  BY <1>1, SendersFinite, FS_RemoveElement

(***************************************************************************)
(* A step that moves no buffer.                                            *)
(***************************************************************************)
LEMMA PlacesStay ==
    ASSUME TypeInv, PlacesInv, NEW p \in Contexts, NEW l \in Labels, Goto(p, l), mine' = mine,
           Carries(p) <=> (l \in {"list", "free"} \/ (p = Isr /\ l # "idle")),
           UNCHANGED <<freeRbs, readList, inProcess, held>>
    PROVE  PlacesInv'
<1>1. InHand' = InHand /\ OneHand'
  BY HandSame DEF PlacesInv
<1>2. QED
  BY <1>1 DEF PlacesInv, Partition, Once

(***************************************************************************)
(* Nothing is in any list but the free one when the client is connected.   *)
(***************************************************************************)
LEMMA ListsInit == Init => ListsInv
<1> SUFFICES ASSUME Init PROVE ListsInv
  OBVIOUS
<1>1. \A p \in Contexts : ~Carries(p) /\ pc[p] \notin {"fc", "undo"}
  BY ContextsAssumption DEF Init, Carries
<1>2. InHand = {} /\ FcSenders = {} /\ OneHand
  BY <1>1 DEF InHand, FcSenders, Sending, OneHand
<1>3. readList = <<>> /\ inProcess = <<>> /\ held = {} /\ freeRbs = Rbs /\ granted = 0
  BY DEF Init
<1>4. Partition
  BY <1>2, <1>3, EmptyList DEF Partition
<1>5. Once
  BY <1>3, EmptyList DEF Once
<1>6. BufferPerGrant
  BY <1>2, <1>3, EmptyList, FS_EmptySet DEF BufferPerGrant
<1>7. QED
  BY <1>2, <1>4, <1>5, <1>6 DEF ListsInv, PlacesInv

(***************************************************************************)
(* A flow control request: an FC turns it into a grant.                    *)
(***************************************************************************)
LEMMA ListsFc ==
    ASSUME TypeInv, ListsInv, NEW p \in Contexts, FlowControlReq(p)
    PROVE  ListsInv'
<1>0. /\ AfterFc(p) \in Labels /\ "count" \in Labels /\ AfterFc(p) \notin Sending
      /\ AfterFc(p) \notin {"list", "free"} /\ (AfterFc(p) # "idle" <=> p = Isr)
      /\ "fc" \in Sending /\ "undo" \in Sending /\ "count" \notin Sending
      /\ \A l \in {"complete", "undo"} : l \in Labels
  BY DEF AfterFc, Labels, Sending
<1>1. Len(readList) \in Nat /\ granted \in Nat /\ Cardinality(FcSenders) \in Nat
  BY SendersFinite, LenProperties DEF TypeInv, TypeOK
<1>2. CASE FcNotNeeded(p)
  <2>1. pc[p] = "fc" /\ Goto(p, AfterFc(p)) /\ mine' = mine /\ granted' = granted
        /\ UNCHANGED <<freeRbs, readList, inProcess, held>>
    BY <1>2 DEF FcNotNeeded, fwVars
  <2>2. PlacesInv'
    BY <1>0, <2>1, PlacesStay DEF Carries, ListsInv
  <2>3. Cardinality(FcSenders)' = Cardinality(FcSenders) - 1
    BY <1>0, <2>1, SenderGoes
  <2>4. QED
    BY <1>1, <2>1, <2>2, <2>3 DEF ListsInv, BufferPerGrant
<1>3. CASE FcWrite(p)
  <2>1. pc[p] = "fc" /\ Goto(p, "count") /\ mine' = mine /\ granted' = granted + 1
        /\ UNCHANGED <<freeRbs, readList, inProcess, held>>
    BY <1>3 DEF FcWrite
  <2>2. PlacesInv'
    BY <1>0, <2>1, PlacesStay DEF Carries, ListsInv
  <2>3. Cardinality(FcSenders)' = Cardinality(FcSenders) - 1
    BY <1>0, <2>1, SenderGoes
  <2>4. QED
    BY <1>1, <2>1, <2>2, <2>3 DEF ListsInv, BufferPerGrant
<1>4. CASE FcCount(p)
  <2>1. pc[p] = "count" /\ Goto(p, AfterFc(p)) /\ mine' = mine /\ granted' = granted
        /\ UNCHANGED <<freeRbs, readList, inProcess, held>>
    BY <1>4 DEF FcCount, fwVars
  <2>2. PlacesInv'
    BY <1>0, <2>1, PlacesStay DEF Carries, ListsInv
  <2>3. FcSenders' = FcSenders
    BY <1>0, <2>1, SenderStays
  <2>4. QED
    BY <2>1, <2>2, <2>3 DEF ListsInv, BufferPerGrant
<1>5. CASE FcFail(p)
  <2>1. pc[p] = "fc" /\ mine' = mine /\ granted' = granted
        /\ UNCHANGED <<freeRbs, readList, inProcess, held>>
    BY <1>5 DEF FcFail
  <2>2. CASE p = Isr
    <3>1. Goto(p, "complete") /\ "complete" \notin Sending
      BY <1>5, <2>2 DEF FcFail, Sending
    <3>2. PlacesInv'
      BY <1>0, <2>1, <2>2, <3>1, PlacesStay DEF Carries, ListsInv
    <3>3. Cardinality(FcSenders)' = Cardinality(FcSenders) - 1
      BY <1>0, <2>1, <3>1, SenderGoes
    <3>4. QED
      BY <1>1, <2>1, <3>2, <3>3 DEF ListsInv, BufferPerGrant
  <2>3. CASE p # Isr
    <3>1. Goto(p, "undo")
      BY <1>5, <2>3 DEF FcFail
    <3>2. PlacesInv'
      BY <1>0, <2>1, <2>3, <3>1, PlacesStay DEF Carries, ListsInv
    <3>3. FcSenders' = FcSenders
      BY <1>0, <2>1, <3>1, SenderStays
    <3>4. QED
      BY <2>1, <3>2, <3>3 DEF ListsInv, BufferPerGrant
  <2>4. QED
    BY <2>2, <2>3
<1>6. QED
  BY <1>2, <1>3, <1>4, <1>5 DEF FlowControlReq

(***************************************************************************)
(* The receptions of the interrupt: the head of the read list is carried   *)
(* to the driver, and a free buffer takes its place.                       *)
(***************************************************************************)
LEMMA ListsReceive ==
    ASSUME TypeInv, ListsInv, LabelsOK, Receive
    PROVE  ListsInv'
<1>0. /\ Isr \in Contexts /\ \A l \in {"dec", "take", "fc", "complete", "idle"} : l \in Labels
      /\ \A l \in {"dec", "take", "complete", "idle"} : l \notin Sending
  BY DEF Contexts, Labels, Sending
<1>1. /\ Len(readList) \in Nat /\ granted \in Nat /\ Cardinality(FcSenders) \in Nat
      /\ readList \in Seq(Rbs) /\ inProcess \in Seq(Rbs)
  BY SendersFinite, LenProperties DEF TypeInv, TypeOK
<1>2. CASE RecvPart
  <2>1. UNCHANGED <<freeRbs, readList, inProcess, held, mine, pc, granted>>
    BY <1>2 DEF RecvPart
  <2>2. QED
    BY <2>1, HandsKept DEF ListsInv, PlacesInv, Partition, Once, BufferPerGrant
<1>3. CASE RecvLast
  <2>1. /\ pc[Isr] = "idle" /\ Goto(Isr, "dec") /\ readList # <<>> /\ granted > 0
        /\ readList' = Tail(readList) /\ granted' = granted - 1
        /\ mine' = [mine EXCEPT ![Isr] = Head(readList)]
        /\ UNCHANGED <<freeRbs, inProcess, held>>
    BY <1>3 DEF RecvLast, RecvFragment
  <2>2. /\ Head(readList) \in Rbs /\ Len(Tail(readList)) = Len(readList) - 1
        /\ Range(readList) = Range(Tail(readList)) \cup {Head(readList)}
        /\ Head(readList) \notin Range(Tail(readList)) /\ IsInjective(Tail(readList))
    BY <1>1, <2>1, TailList DEF ListsInv, PlacesInv, Once
  <2>3. Head(readList) \notin InHand
    BY <2>2 DEF ListsInv, PlacesInv, Partition
  <2>4. InHand' = InHand \cup {Head(readList)} /\ OneHand'
    <3>1. ~Carries(Isr)
      BY <2>1 DEF Carries
    <3>2. QED
      BY <1>0, <2>1, <2>2, <2>3, <3>1, HandTakes DEF ListsInv, PlacesInv
  <2>5. Partition'
    BY <2>1, <2>2, <2>4 DEF ListsInv, PlacesInv, Partition
  <2>6. Once'
    BY <2>1, <2>2 DEF ListsInv, PlacesInv, Once
  <2>7. FcSenders' = FcSenders
    BY <1>0, <2>1, SenderStays
  <2>8. BufferPerGrant'
    BY <1>1, <2>1, <2>2, <2>7 DEF ListsInv, BufferPerGrant
  <2>9. QED
    BY <2>4, <2>5, <2>6, <2>8 DEF ListsInv, PlacesInv
<1>4. CASE RecvDec
  <2>1. /\ pc[Isr] = "dec" /\ Goto(Isr, "take") /\ mine' = mine /\ granted' = granted
        /\ UNCHANGED <<freeRbs, readList, inProcess, held>>
    BY <1>4 DEF RecvDec, fwVars
  <2>2. PlacesInv' /\ FcSenders' = FcSenders
    BY <1>0, <2>1, PlacesStay, SenderStays DEF Carries, ListsInv
  <2>3. QED
    BY <2>1, <2>2 DEF ListsInv, BufferPerGrant
<1>5. CASE RecvDecTorn
  <2>1. PICK t \in Takers :
             /\ pc[Isr] = "dec" /\ pc[t] = "count"
             /\ pc' = [pc EXCEPT ![Isr] = "take", ![t] = "idle"]
             /\ mine' = mine /\ granted' = granted
             /\ UNCHANGED <<freeRbs, readList, inProcess, held>>
    BY <1>5 DEF RecvDecTorn, fwVars
  <2>2. t \in Contexts /\ t # Isr
    BY ContextsAssumption DEF Contexts
  <2>3. /\ pc'[Isr] = "take" /\ pc'[t] = "idle"
        /\ \A q \in Contexts : q # Isr /\ q # t => pc'[q] = pc[q]
    BY <1>0, <2>1, <2>2 DEF TypeInv, TypeOK
  <2>4. \A q \in Contexts : (Carries(q)' <=> Carries(q)) /\ (pc'[q] \in Sending <=> pc[q] \in Sending)
    BY <2>1, <2>2, <2>3 DEF Carries, Sending
  <2>5. InHand' = InHand /\ (OneHand => OneHand') /\ FcSenders' = FcSenders
    BY <2>1, <2>4 DEF InHand, OneHand, FcSenders
  <2>6. QED
    BY <2>1, <2>5 DEF ListsInv, PlacesInv, Partition, Once, BufferPerGrant
<1>6. CASE RecvTake
  <2>1. pc[Isr] = "take" /\ mine' = mine /\ granted' = granted
        /\ UNCHANGED <<inProcess, held>>
    BY <1>6 DEF RecvTake, fwVars
  <2>2. CASE Goto(Isr, "complete") /\ UNCHANGED <<freeRbs, readList>>
    <3>1. PlacesInv' /\ FcSenders' = FcSenders
      BY <1>0, <2>1, <2>2, PlacesStay, SenderStays DEF Carries, ListsInv
    <3>2. QED
      BY <2>1, <2>2, <3>1 DEF ListsInv, BufferPerGrant
  <2>3. ASSUME NEW rb \in freeRbs, freeRbs' = freeRbs \ {rb},
               readList' = Append(readList, rb), Goto(Isr, "fc")
        PROVE  ListsInv'
    <3>1. InHand' = InHand /\ OneHand'
      BY <1>0, <2>1, <2>3, HandSame DEF Carries, ListsInv, PlacesInv
    <3>2. rb \in Rbs /\ rb \notin Range(readList)
      BY DEF TypeInv, TypeOK, ListsInv, PlacesInv, Partition
    <3>3. /\ Range(readList') = Range(readList) \cup {rb} /\ IsInjective(readList')
          /\ Len(readList') = Len(readList) + 1
      BY <1>1, <2>3, <3>2, AppendList DEF ListsInv, PlacesInv, Once
    <3>4. Partition'
      BY <2>1, <2>3, <3>1, <3>3 DEF ListsInv, PlacesInv, Partition
    <3>5. Cardinality(FcSenders)' = Cardinality(FcSenders) + 1
      BY <1>0, <2>1, <2>3, SenderComes
    <3>6. BufferPerGrant'
      BY <1>1, <2>1, <3>3, <3>5 DEF ListsInv, BufferPerGrant
    <3>7. QED
      BY <2>1, <3>1, <3>3, <3>4, <3>6 DEF ListsInv, PlacesInv, Once
  <2>4. QED
    BY <1>6, <2>2, <2>3 DEF RecvTake
<1>7. CASE ReadComplete
  <2>1. /\ pc[Isr] = "complete" /\ Goto(Isr, "idle") /\ granted' = granted
        /\ inProcess' = Append(inProcess, mine[Isr])
        /\ mine' = [mine EXCEPT ![Isr] = None]
        /\ UNCHANGED <<freeRbs, readList, held>>
    BY <1>7 DEF ReadComplete, fwVars
  <2>2. Carries(Isr) /\ mine[Isr] \in Rbs
    BY <1>0, <2>1 DEF Carries, TypeInv, MineOK, Moving
  <2>3. \A q \in Contexts : q # Isr => mine'[q] = mine[q]
    BY <2>1 DEF TypeInv, TypeOK
  <2>4. InHand' = InHand \ {mine[Isr]} /\ mine[Isr] \in InHand /\ OneHand'
    BY <1>0, <2>1, <2>2, <2>3, HandDrops DEF ListsInv, PlacesInv
  <2>5. mine[Isr] \notin Range(inProcess)
    BY <2>4 DEF ListsInv, PlacesInv, Partition
  <2>6. Range(inProcess') = Range(inProcess) \cup {mine[Isr]} /\ IsInjective(inProcess')
    BY <1>1, <2>1, <2>2, <2>5, AppendList DEF ListsInv, PlacesInv, Once
  <2>7. Partition'
    BY <2>1, <2>4, <2>6 DEF ListsInv, PlacesInv, Partition
  <2>8. FcSenders' = FcSenders
    BY <1>0, <2>1, SenderStays
  <2>9. QED
    BY <2>1, <2>4, <2>6, <2>7, <2>8 DEF ListsInv, PlacesInv, Once, BufferPerGrant
<1>8. QED
  BY <1>2, <1>3, <1>4, <1>5, <1>6, <1>7 DEF Receive, RecvDma

(***************************************************************************)
(* A read is undone whose buffer is still in the read list: it is in no    *)
(* other, and leaves only that one.                                        *)
(***************************************************************************)
LEMMA UndoTakesOwn ==
    ASSUME TypeInv, PlacesInv, NEW p \in Takers, ReadStartUndo(p), "strayed" \notin undone'
    PROVE  /\ mine[p] \in Rbs /\ mine[p] \in Range(readList) /\ readList # <<>>
           /\ pc[p] = "undo" /\ Goto(p, "free")
           /\ readList' = Without(readList, mine[p])
           /\ UNCHANGED <<freeRbs, inProcess, held, mine, granted, content, sizes, frag>>
<1>1. pc[p] = "undo" /\ Goto(p, "free") /\ readList' = Without(readList, mine[p])
      /\ inProcess' = Without(inProcess, mine[p]) /\ freeRbs' = freeRbs \ {mine[p]}
      /\ UNCHANGED <<held, mine, granted, content, sizes, frag>>
  BY DEF ReadStartUndo
<1>2. mine[p] \in Range(readList)
  BY DEF ReadStartUndo, Strays
<1>3. mine[p] \in Rbs
  BY <1>1 DEF TypeInv, MineOK, Moving, Contexts
<1>4. mine[p] \notin Range(inProcess) /\ mine[p] \notin freeRbs
  BY <1>2 DEF PlacesInv, Partition
<1>5. inProcess' = inProcess /\ freeRbs' = freeRbs
  BY <1>1, <1>4 DEF Without
<1>6. readList # <<>>
  BY <1>2, EmptyList
<1>7. QED
  BY <1>1, <1>2, <1>3, <1>5, <1>6

(***************************************************************************)
(* The steps of a recycling context: a free buffer is carried to the read  *)
(* list, where it waits when the FC is sent, and back if that fails.       *)
(***************************************************************************)
LEMMA ListsCore ==
    ASSUME TypeInv, LabelsOK, ListsInv, NEW p \in Takers, Core(p), "strayed" \notin undone'
    PROVE  ListsInv'
<1>0. /\ p \in Contexts /\ p # Isr
      /\ \A l \in {"start", "idle", "list", "fc", "free"} : l \in Labels
      /\ \A l \in {"start", "idle", "list", "check", "free"} : l \notin Sending
      /\ "undo" \in Sending
  BY ContextsAssumption DEF Contexts, Labels, Sending
<1>1. /\ Len(readList) \in Nat /\ granted \in Nat /\ Cardinality(FcSenders) \in Nat
      /\ readList \in Seq(Rbs)
  BY SendersFinite, LenProperties DEF TypeInv, TypeOK
<1>2. CASE RecycleCheck(p) \/ ReadStartEmpty(p)
  <2>1. PICK l \in {"start", "idle"} : Goto(p, l)
    BY <1>2 DEF RecycleCheck, ReadStartEmpty
  <2>2. pc[p] \in {"check", "start"} /\ mine' = mine /\ granted' = granted
        /\ UNCHANGED <<freeRbs, readList, inProcess, held>>
    BY <1>2 DEF RecycleCheck, ReadStartEmpty, fwVars
  <2>3. PlacesInv' /\ FcSenders' = FcSenders
    BY <1>0, <2>1, <2>2, PlacesStay, SenderStays DEF Carries, ListsInv
  <2>4. QED
    BY <2>2, <2>3 DEF ListsInv, BufferPerGrant
<1>3. CASE ReadStartTake(p)
  <2>1. PICK rb \in freeRbs : freeRbs' = freeRbs \ {rb} /\ mine' = [mine EXCEPT ![p] = rb]
    BY <1>3 DEF ReadStartTake
  <2>2. pc[p] = "start" /\ Goto(p, "list") /\ granted' = granted
        /\ UNCHANGED <<readList, inProcess, held>>
    BY <1>3 DEF ReadStartTake, fwVars
  <2>3. rb \in Rbs /\ rb \notin InHand
    BY DEF TypeInv, TypeOK, ListsInv, PlacesInv, Partition
  <2>4. InHand' = InHand \cup {rb} /\ OneHand'
    <3>1. ~Carries(p)
      BY <1>0, <2>2 DEF Carries
    <3>2. QED
      BY <1>0, <2>1, <2>2, <2>3, <3>1, HandTakes DEF ListsInv, PlacesInv
  <2>5. Partition'
    BY <2>1, <2>2, <2>4 DEF ListsInv, PlacesInv, Partition
  <2>6. FcSenders' = FcSenders
    BY <1>0, <2>2, SenderStays
  <2>7. QED
    BY <2>2, <2>4, <2>5, <2>6 DEF ListsInv, PlacesInv, Once, BufferPerGrant
<1>4. CASE ReadStartList(p)
  <2>1. /\ pc[p] = "list" /\ Goto(p, "fc") /\ granted' = granted /\ mine' = mine
        /\ readList' = Append(readList, mine[p])
        /\ UNCHANGED <<freeRbs, inProcess, held>>
    BY <1>4 DEF ReadStartList, fwVars
  <2>2. Carries(p) /\ mine[p] \in Rbs
    BY <1>0, <2>1 DEF Carries, TypeInv, MineOK, Moving
  <2>3. InHand' = InHand \ {mine[p]} /\ mine[p] \in InHand /\ OneHand'
    BY <1>0, <2>1, <2>2, HandDrops DEF ListsInv, PlacesInv
  <2>4. mine[p] \notin Range(readList)
    BY <2>3 DEF ListsInv, PlacesInv, Partition
  <2>5. /\ Range(readList') = Range(readList) \cup {mine[p]} /\ IsInjective(readList')
        /\ Len(readList') = Len(readList) + 1
    BY <1>1, <2>1, <2>2, <2>4, AppendList DEF ListsInv, PlacesInv, Once
  <2>6. Partition'
    BY <2>1, <2>3, <2>5 DEF ListsInv, PlacesInv, Partition
  <2>7. Cardinality(FcSenders)' = Cardinality(FcSenders) + 1
    BY <1>0, <2>1, SenderComes
  <2>8. BufferPerGrant'
    BY <1>1, <2>1, <2>5, <2>7 DEF ListsInv, BufferPerGrant
  <2>9. QED
    BY <2>1, <2>3, <2>5, <2>6, <2>8 DEF ListsInv, PlacesInv, Once
<1>5. CASE ReadStartUndo(p)
  <2>1. /\ mine[p] \in Rbs /\ mine[p] \in Range(readList)
        /\ pc[p] = "undo" /\ Goto(p, "free") /\ granted' = granted
        /\ readList' = Without(readList, mine[p])
        /\ UNCHANGED <<freeRbs, inProcess, held, mine>>
    BY <1>5, UndoTakesOwn DEF ListsInv
  <2>2. /\ Range(readList') = Range(readList) \ {mine[p]} /\ IsInjective(readList')
        /\ Len(readList') = Len(readList) - 1
    BY <1>1, <2>1, WithoutList, WithoutElements DEF ListsInv, PlacesInv, Once
  <2>3. mine[p] \notin InHand /\ ~Carries(p)
    BY <1>0, <2>1 DEF ListsInv, PlacesInv, Partition, Carries
  <2>4. mine' = [mine EXCEPT ![p] = mine[p]]
    BY <2>1 DEF TypeInv, TypeOK
  <2>5. InHand' = InHand \cup {mine[p]} /\ OneHand'
    BY <1>0, <2>1, <2>3, <2>4, HandTakes DEF ListsInv, PlacesInv
  <2>6. Partition'
    BY <2>1, <2>2, <2>5 DEF ListsInv, PlacesInv, Partition
  <2>7. Cardinality(FcSenders)' = Cardinality(FcSenders) - 1
    BY <1>0, <2>1, SenderGoes
  <2>8. BufferPerGrant'
    BY <1>1, <2>1, <2>2, <2>7 DEF ListsInv, BufferPerGrant
  <2>9. QED
    BY <2>1, <2>2, <2>5, <2>6, <2>8 DEF ListsInv, PlacesInv, Once
<1>6. CASE ReadStartFree(p)
  <2>1. /\ pc[p] = "free" /\ Goto(p, "idle") /\ granted' = granted /\ mine' = mine
        /\ freeRbs' = freeRbs \cup {mine[p]}
        /\ UNCHANGED <<readList, inProcess, held>>
    BY <1>6 DEF ReadStartFree, fwVars
  <2>2. Carries(p) /\ mine[p] \in Rbs
    BY <1>0, <2>1 DEF Carries, TypeInv, MineOK, Moving
  <2>3. InHand' = InHand \ {mine[p]} /\ mine[p] \in InHand /\ OneHand'
    BY <1>0, <2>1, <2>2, HandDrops DEF ListsInv, PlacesInv
  <2>4. Partition'
    BY <2>1, <2>3 DEF ListsInv, PlacesInv, Partition
  <2>5. FcSenders' = FcSenders
    BY <1>0, <2>1, SenderStays
  <2>6. QED
    BY <2>1, <2>3, <2>4, <2>5 DEF ListsInv, PlacesInv, Once, BufferPerGrant
<1>7. CASE FlowControlReq(p)
  BY <1>0, <1>7, ListsFc
<1>8. QED
  BY <1>2, <1>3, <1>4, <1>5, <1>6, <1>7 DEF Core, ReadStart

(***************************************************************************)
(* The driver: a buffer leaves in_process_list for its hands, and its      *)
(* hands for the free list.                                                *)
(***************************************************************************)
LEMMA ListsRecycle ==
    ASSUME TypeInv, ListsInv, NEW p \in Takers, NEW rb \in Rbs, RecycleFree(p, rb)
    PROVE  ListsInv'
<1>1. /\ p \in Contexts /\ p # Isr /\ "check" \in Labels
      /\ \A l \in {"idle", "check"} : l \notin Sending
  BY ContextsAssumption DEF Contexts, Labels, Sending
<1>2. /\ pc[p] = "idle" /\ Goto(p, "check") /\ mine' = mine /\ granted' = granted
      /\ rb \in held /\ held' = held \ {rb} /\ freeRbs' = freeRbs \cup {rb}
      /\ UNCHANGED <<readList, inProcess>>
  BY DEF RecycleFree, fwVars
<1>3. InHand' = InHand /\ OneHand' /\ FcSenders' = FcSenders
  BY <1>1, <1>2, HandSame, SenderStays DEF Carries, ListsInv, PlacesInv
<1>4. Partition'
  BY <1>2, <1>3 DEF ListsInv, PlacesInv, Partition
<1>5. QED
  BY <1>2, <1>3, <1>4 DEF ListsInv, PlacesInv, Once, BufferPerGrant

LEMMA ListsDriver ==
    ASSUME TypeInv, ListsInv, EventWork \/ GetRb \/ UNCHANGED vars
    PROVE  ListsInv'
<1>1. UNCHANGED <<freeRbs, readList, mine, pc, granted>>
  BY DEF EventWork, GetRb, vars, fwVars
<1>2. InHand' = InHand /\ OneHand' /\ FcSenders' = FcSenders
  BY <1>1, HandsKept DEF ListsInv, PlacesInv
<1>3. BufferPerGrant'
  BY <1>1, <1>2 DEF ListsInv, BufferPerGrant
<1>4. CASE GetRb
  <2>1. inProcess # <<>> /\ inProcess' = Tail(inProcess) /\ held' = held \cup {Head(inProcess)}
    BY <1>4 DEF GetRb
  <2>2. /\ Range(inProcess) = Range(Tail(inProcess)) \cup {Head(inProcess)}
        /\ Head(inProcess) \notin Range(Tail(inProcess)) /\ IsInjective(Tail(inProcess))
    BY <2>1, TailList DEF TypeInv, TypeOK, ListsInv, PlacesInv, Once
  <2>3. Partition'
    BY <1>1, <1>2, <2>1, <2>2 DEF ListsInv, PlacesInv, Partition
  <2>4. QED
    BY <1>1, <1>2, <1>3, <2>1, <2>2, <2>3 DEF ListsInv, PlacesInv, Once
<1>5. CASE EventWork \/ UNCHANGED vars
  <2>1. inProcess' = inProcess /\ held' = held
    BY <1>5 DEF EventWork, vars
  <2>2. QED
    BY <1>1, <1>2, <1>3, <2>1 DEF ListsInv, PlacesInv, Partition, Once
<1>6. QED
  BY <1>4, <1>5

LEMMA ListsStep ==
    ASSUME TypeInv, FcInv, ListsInv, [Next]_vars, "strayed" \notin undone'
    PROVE  ListsInv'
<1>1. Isr \in Contexts
  BY DEF Contexts
<1>2. QED
  BY <1>1, ListsFc, ListsReceive, ListsCore, ListsRecycle, ListsDriver DEF Next, FcInv

(***************************************************************************)
(* What the undoing of a read took is not forgotten.                       *)
(***************************************************************************)
LEMMA UndoneStays == [Next]_vars => undone \subseteq undone'
<1> SUFFICES ASSUME [Next]_vars PROVE undone \subseteq undone'
  OBVIOUS
<1>1. ASSUME undone' = undone PROVE undone \subseteq undone'
  BY <1>1
<1>2. CASE UNCHANGED vars
  BY <1>2 DEF vars
<1>3. CASE Receive
  BY <1>3 DEF Receive, RecvPart, RecvLast, RecvDma, RecvDec, RecvDecTorn, RecvTake, ReadComplete, fwVars
<1>4. ASSUME NEW p \in Contexts, FlowControlReq(p) PROVE undone \subseteq undone'
  BY <1>4 DEF FlowControlReq, FcNotNeeded, FcWrite, FcFail, FcCount, fwVars
<1>5. ASSUME NEW p \in Takers, Core(p) PROVE undone \subseteq undone'
  <2>1. p \in Contexts
    BY DEF Contexts
  <2>2. CASE ReadStartUndo(p)
    BY <2>2 DEF ReadStartUndo
  <2>3. QED
    BY <1>4, <1>5, <2>1, <2>2 DEF Core, ReadStart, RecycleCheck, ReadStartEmpty, ReadStartTake,
                                  ReadStartList, ReadStartFree, fwVars
<1>6. ASSUME NEW p \in Takers, NEW rb \in Rbs, RecycleFree(p, rb) PROVE undone \subseteq undone'
  BY <1>6 DEF RecycleFree, fwVars
<1>7. CASE EventWork \/ GetRb
  BY <1>7 DEF EventWork, GetRb, fwVars
<1>8. QED
  BY <1>2, <1>3, <1>4, <1>5, <1>6, <1>7 DEF Next, Contexts

LEMMA SoundInit == Init => SoundInv
BY ListsInit DEF SoundInv

LEMMA SoundStep == TypeInv /\ FcInv /\ SoundInv /\ [Next]_vars => SoundInv'
BY ListsStep, UndoneStays DEF SoundInv

(***************************************************************************)
(* No read buffer is ever lost, in two lists or in two hands, however many *)
(* contexts recycle buffers while the interrupt moves them and whichever   *)
(* FCs find no IPC buffer, until a read is undone whose buffer was no      *)
(* longer in the read list (strayed).                                      *)
(***************************************************************************)
THEOREM RbsNeverLost == Spec => []RbsConserved
<1>1. SoundInv => RbsConserved
  BY DEF SoundInv, ListsInv, PlacesInv, Partition, Once, OneHand, RbsConserved, Conserved
<1>2. QED
  BY <1>1, TypeInit, TypeStep, FcInit, FcStep, SoundInit, SoundStep, PTL DEF Spec

(***************************************************************************)
(* Until then a read buffer waits for every message the firmware may send: *)
(* recv_ishtp_cl_msg never drops one for want of a request, although a     *)
(* read that is undone may take the buffer another context put there.      *)
(***************************************************************************)
THEOREM GrantedMeansBuffer == Spec => []GrantHasBuffer
<1>1. TypeInv /\ SoundInv => GrantHasBuffer
  <2> SUFFICES ASSUME TypeInv, ListsInv, granted > 0 PROVE readList # <<>>
    BY DEF GrantHasBuffer, SoundInv
  <2>1. Len(readList) >= granted + Cardinality(FcSenders)
    BY DEF ListsInv, BufferPerGrant
  <2>2. Cardinality(FcSenders) \in Nat /\ granted \in Nat
    BY SendersFinite DEF TypeInv, TypeOK
  <2>3. QED
    BY <2>1, <2>2, EmptyList
<1>2. QED
  BY <1>1, TypeInit, TypeStep, FcInit, FcStep, SoundInit, SoundStep, PTL DEF Spec
-----------------------------------------------------------------------------
(***************************************************************************)
(* What is in the buffers: the first n fragments of a message; messages    *)
(* are numbered in the order in which the firmware sent them.              *)
(***************************************************************************)
Filled(c, m, n) == Len(c) = n /\ \A k \in 1 .. n : c[k] = <<m, k>>

\* The message the interrupt still carries, and those the driver was given.
Arriving == IF pc[Isr] = "idle" THEN 0 ELSE 1
Taken    == Sent - Len(inProcess) - Arriving

InProcessWhole ==
    \A i \in DOMAIN inProcess : Filled(content[inProcess[i]], Taken + i, sizes[Taken + i])

ReadListFills ==
    /\ \A i \in DOMAIN readList : Filled(content[readList[i]], Sent + 1, IF i = 1 THEN frag ELSE 0)
    /\ readList = <<>> => frag = 0

HandsRight ==
    /\ pc[Isr] # "idle" => Sent > 0 /\ Filled(content[mine[Isr]], Sent, sizes[Sent])
    /\ \A p \in Takers : pc[p] = "list" => Filled(content[mine[p]], Sent + 1, 0)

ContentInv ==
    /\ Taken \in Nat
    /\ \A m \in 1 .. Sent : sizes[m] \in Nat \ {0}
    /\ InProcessWhole
    /\ ReadListFills
    /\ HandsRight

(***************************************************************************)
(* The numbers ContentInv counts with.                                     *)
(***************************************************************************)
LEMMA Counts ==
    ASSUME TypeInv
    PROVE  /\ Sent \in Nat /\ DOMAIN sizes = 1 .. Sent
           /\ Len(inProcess) \in Nat /\ DOMAIN inProcess = 1 .. Len(inProcess)
           /\ Len(readList) \in Nat /\ DOMAIN readList = 1 .. Len(readList)
           /\ frag \in Nat
           /\ \A i \in DOMAIN inProcess : inProcess[i] \in Rbs
           /\ \A i \in DOMAIN readList : readList[i] \in Rbs
BY LenProperties DEF TypeInv, TypeOK, Sent

(***************************************************************************)
(* A step that touches neither the fragments nor where complete messages   *)
(* wait, and takes no new buffer to the read list.                         *)
(***************************************************************************)
LEMMA ContentStays ==
    ASSUME TypeInv, ContentInv, UNCHANGED <<content, sizes, frag, readList, inProcess>>,
           pc'[Isr] = "idle" <=> pc[Isr] = "idle", mine'[Isr] = mine[Isr],
           \A p \in Takers : pc'[p] = "list" => pc[p] = "list" /\ mine'[p] = mine[p]
    PROVE  ContentInv'
<1>1. Sent' = Sent /\ Arriving' = Arriving /\ Taken' = Taken
  BY DEF Sent, Arriving, Taken
<1>2. InProcessWhole' /\ ReadListFills'
  BY <1>1 DEF ContentInv, InProcessWhole, ReadListFills
<1>3. HandsRight'
  BY <1>1 DEF ContentInv, HandsRight
<1>4. QED
  BY <1>1, <1>2, <1>3 DEF ContentInv

(***************************************************************************)
(* A free buffer is emptied before it is used: no other one changes.       *)
(***************************************************************************)
LEMMA EmptiesFree ==
    ASSUME TypeInv, PlacesInv, NEW rb \in freeRbs, content' = [content EXCEPT ![rb] = <<>>]
    PROVE  /\ \A i \in DOMAIN inProcess : content'[inProcess[i]] = content[inProcess[i]]
           /\ \A i \in DOMAIN readList : content'[readList[i]] = content[readList[i]]
           /\ \A p \in Contexts : Carries(p) => content'[mine[p]] = content[mine[p]]
           /\ \A b \in held : content'[b] = content[b]
           /\ Len(content'[rb]) = 0
<1>1. rb \in Rbs /\ content'[rb] = <<>> /\ \A b \in Rbs : b # rb => content'[b] = content[b]
  BY DEF TypeInv, TypeOK
<1>2. \A i \in DOMAIN inProcess : inProcess[i] \in Rbs /\ inProcess[i] # rb
  BY Counts DEF PlacesInv, Partition, Range
<1>3. \A i \in DOMAIN readList : readList[i] \in Rbs /\ readList[i] # rb
  BY Counts DEF PlacesInv, Partition, Range
<1>4. \A p \in Contexts : Carries(p) => mine[p] \in Rbs /\ mine[p] # rb
  BY DEF PlacesInv, Partition, InHand
<1>5. \A b \in held : b \in Rbs /\ b # rb
  BY DEF PlacesInv, Partition
<1>6. Len(content'[rb]) = 0
  BY <1>1, EmptyList
<1>7. QED
  BY <1>1, <1>2, <1>3, <1>4, <1>5, <1>6

(***************************************************************************)
(* A fragment goes to the head of the read list: no other buffer changes.  *)
(***************************************************************************)
LEMMA FillsHead ==
    ASSUME TypeInv, PlacesInv, RecvFragment
    PROVE  /\ \A i \in DOMAIN inProcess : content'[inProcess[i]] = content[inProcess[i]]
           /\ \A i \in 2 .. Len(readList) : content'[readList[i]] = content[readList[i]]
           /\ \A p \in Contexts : Carries(p) => content'[mine[p]] = content[mine[p]]
           /\ \A b \in held : content'[b] = content[b]
           /\ Len(readList) > 0 /\ Head(readList) = readList[1]
           /\ Filled(content[readList[1]], Sent + 1, frag) => Filled(content'[readList[1]], Sent + 1, frag + 1)
<1> DEFINE rb == readList[1]
<1>1. Len(readList) \in Nat \ {0} /\ Head(readList) = rb /\ DOMAIN readList = 1 .. Len(readList)
  BY TailElements DEF RecvFragment, TypeInv, TypeOK
<1>2. rb \in Rbs
  BY <1>1, Counts
<1>3. /\ content'[rb] = Append(content[rb], <<Sent + 1, frag + 1>>)
      /\ \A b \in Rbs : b # rb => content'[b] = content[b]
  BY <1>1, <1>2 DEF RecvFragment, TypeInv, TypeOK
<1>4. rb \in Range(readList)
  BY <1>1 DEF Range
<1>5. \A i \in DOMAIN inProcess : inProcess[i] \in Rbs /\ inProcess[i] # rb
  BY <1>4, Counts DEF PlacesInv, Partition, Range
<1>6. \A i \in 2 .. Len(readList) : readList[i] \in Rbs /\ readList[i] # rb
  BY <1>1, Counts DEF PlacesInv, Once, IsInjective
<1>7. \A p \in Contexts : Carries(p) => mine[p] \in Rbs /\ mine[p] # rb
  BY <1>4 DEF PlacesInv, Partition, InHand
<1>8. \A b \in held : b \in Rbs /\ b # rb
  BY <1>4 DEF PlacesInv, Partition
<1>9. ASSUME Filled(content[rb], Sent + 1, frag)
      PROVE  Filled(content'[rb], Sent + 1, frag + 1)
  <2>1. content[rb] \in Seq(Nat \X Nat) /\ <<Sent + 1, frag + 1>> \in Nat \X Nat /\ frag \in Nat
    BY <1>2, Counts DEF TypeInv, TypeOK
  <2>2. /\ Len(content'[rb]) = Len(content[rb]) + 1
        /\ \A k \in 1 .. Len(content[rb]) : content'[rb][k] = content[rb][k]
        /\ content'[rb][Len(content[rb]) + 1] = <<Sent + 1, frag + 1>>
    BY <1>3, <2>1, AppendElements
  <2>3. Len(content[rb]) = frag /\ \A k \in 1 .. frag : content[rb][k] = <<Sent + 1, k>>
    BY <1>9 DEF Filled
  <2>4. Len(content'[rb]) = frag + 1
    BY <2>2, <2>3
  <2>5. \A k \in 1 .. frag + 1 : k \in 1 .. frag \/ k = frag + 1
    BY <2>1
  <2>6. \A k \in 1 .. frag + 1 : content'[rb][k] = <<Sent + 1, k>>
    BY <2>2, <2>3, <2>5
  <2>7. QED
    BY <2>4, <2>6 DEF Filled
<1>10. QED
  BY <1>1, <1>3, <1>5, <1>6, <1>7, <1>8, <1>9

(***************************************************************************)
(* Nothing was sent yet when the client is connected.                      *)
(***************************************************************************)
LEMMA ContentInit == Init => ContentInv
<1> SUFFICES ASSUME Init PROVE ContentInv
  OBVIOUS
<1>1. /\ sizes = <<>> /\ inProcess = <<>> /\ readList = <<>> /\ frag = 0
      /\ pc = [p \in Contexts |-> IF p = Opener THEN "start" ELSE "idle"]
  BY DEF Init
<1>2. pc[Isr] = "idle" /\ \A p \in Takers : pc[p] # "list"
  BY <1>1, ContextsAssumption DEF Contexts
<1>3. Sent = 0 /\ Len(inProcess) = 0 /\ DOMAIN inProcess = {} /\ DOMAIN readList = {}
  BY <1>1, EmptySeq DEF Sent
<1>4. Taken = 0
  BY <1>2, <1>3 DEF Taken, Arriving
<1>5. InProcessWhole /\ ReadListFills /\ HandsRight
  BY <1>1, <1>2, <1>3 DEF InProcessWhole, ReadListFills, HandsRight
<1>6. QED
  BY <1>3, <1>4, <1>5 DEF ContentInv

(***************************************************************************)
(* A fragment that is not the last of its message.                         *)
(***************************************************************************)
LEMMA ContentPart ==
    ASSUME TypeInv, PlacesInv, ContentInv, RecvPart
    PROVE  ContentInv'
<1>1. /\ RecvFragment /\ frag' = frag + 1
      /\ UNCHANGED <<sizes, readList, inProcess, mine, pc>>
  BY DEF RecvPart
<1>2. Sent' = Sent /\ Taken' = Taken
  BY <1>1 DEF Sent, Taken, Arriving
<1>3. InProcessWhole'
  BY <1>1, <1>2, FillsHead DEF ContentInv, InProcessWhole
<1>4. HandsRight'
  <2>1. \A p \in Contexts : Carries(p) => content'[mine[p]] = content[mine[p]]
    BY <1>1, FillsHead
  <2>2. pc[Isr] # "idle" => content'[mine[Isr]] = content[mine[Isr]]
    BY <2>1 DEF Contexts, Carries
  <2>3. \A p \in Takers : pc[p] = "list" => content'[mine[p]] = content[mine[p]]
    BY <2>1 DEF Contexts, Carries
  <2>4. QED
    BY <1>1, <1>2, <2>2, <2>3 DEF ContentInv, HandsRight
<1>5. ReadListFills'
  <2>1. Filled(content[readList[1]], Sent + 1, frag) /\ Len(readList) > 0
    BY <1>1, Counts, FillsHead DEF ContentInv, ReadListFills
  <2>2. Filled(content'[readList[1]], Sent + 1, frag + 1)
    BY <1>1, <2>1, FillsHead
  <2>3. \A i \in 2 .. Len(readList) : Filled(content'[readList[i]], Sent + 1, 0)
    BY <1>1, Counts, FillsHead DEF ContentInv, ReadListFills
  <2>4. readList # <<>>
    BY <1>1 DEF RecvFragment
  <2>5. \A i \in 1 .. Len(readList) : i = 1 \/ i \in 2 .. Len(readList)
    BY Counts
  <2>6. QED
    BY <1>1, <1>2, <2>2, <2>3, <2>4, <2>5, Counts DEF ReadListFills
<1>6. QED
  BY <1>1, <1>2, <1>3, <1>4, <1>5 DEF ContentInv

(***************************************************************************)
(* The last fragment: the buffer leaves the read list with all of its      *)
(* message.                                                                *)
(***************************************************************************)
LEMMA ContentLast ==
    ASSUME TypeInv, PlacesInv, ContentInv, RecvLast
    PROVE  ContentInv'
<1>1. /\ RecvFragment /\ frag' = 0 /\ sizes' = Append(sizes, frag + 1)
      /\ readList' = Tail(readList) /\ mine' = [mine EXCEPT ![Isr] = Head(readList)]
      /\ pc[Isr] = "idle" /\ Goto(Isr, "dec") /\ inProcess' = inProcess
  BY DEF RecvLast, RecvFragment
<1>2. /\ pc'[Isr] = "dec" /\ \A p \in Takers : pc'[p] = pc[p] /\ mine'[p] = mine[p]
      /\ mine'[Isr] = readList[1]
  <2>1. Isr \in Contexts /\ "dec" \in Labels /\ \A p \in Takers : p \in Contexts /\ p # Isr
    BY ContextsAssumption DEF Contexts, Labels
  <2>2. QED
    BY <1>1, <2>1, GotoLabel, FillsHead DEF TypeInv, TypeOK
<1>3. /\ Sent' = Sent + 1 /\ \A m \in 1 .. Sent : sizes'[m] = sizes[m]
      /\ sizes'[Sent + 1] = frag + 1 /\ frag \in Nat /\ Sent \in Nat
  BY <1>1, Counts, AppendElements DEF Sent, TypeInv, TypeOK
<1>4. Taken' = Taken /\ Taken = Sent - Len(inProcess) /\ Len(inProcess) \in Nat
  BY <1>1, <1>2, <1>3, Counts DEF Taken, Arriving
<1>5. \A m \in 1 .. Sent' : sizes'[m] \in Nat \ {0}
  BY <1>3 DEF ContentInv
<1>6. InProcessWhole'
  <2>1. \A i \in DOMAIN inProcess : Taken + i \in 1 .. Sent
    BY <1>3, <1>4, Counts DEF ContentInv
  <2>2. \A i \in DOMAIN inProcess : content'[inProcess[i]] = content[inProcess[i]]
    BY <1>1, FillsHead
  <2>3. QED
    BY <1>1, <1>3, <1>4, <2>1, <2>2 DEF ContentInv, InProcessWhole
<1>7. ReadListFills'
  <2>1. /\ DOMAIN readList = 1 .. Len(readList) /\ Len(readList) \in Nat
        /\ DOMAIN Tail(readList) = 1 .. (Len(readList) - 1)
        /\ \A i \in 1 .. (Len(readList) - 1) : Tail(readList)[i] = readList[i + 1]
    BY <1>1, TailElements DEF RecvFragment, TypeInv, TypeOK
  <2>2. \A j \in 2 .. Len(readList) : Filled(content'[readList[j]], Sent + 1, 0)
    BY <1>1, <2>1, FillsHead DEF ContentInv, ReadListFills
  <2>3. \A j \in 2 .. Len(readList) : Filled(content'[readList[j]], Sent + 2, 0)
    BY <2>2 DEF Filled
  <2>4. Sent' + 1 = Sent + 2
    BY <1>3
  <2>5. \A i \in 1 .. (Len(readList) - 1) : i + 1 \in 2 .. Len(readList)
    BY <2>1
  <2>6. \A i \in 1 .. (Len(readList) - 1) : Filled(content'[Tail(readList)[i]], Sent + 2, 0)
    BY <2>1, <2>3, <2>5
  <2>7. \A i \in DOMAIN readList' :
            Filled(content'[readList'[i]], Sent' + 1, IF i = 1 THEN frag' ELSE 0)
    BY <1>1, <2>1, <2>4, <2>6
  <2>8. QED
    BY <1>1, <2>7 DEF ReadListFills
<1>8. HandsRight'
  <2>1. Filled(content[readList[1]], Sent + 1, frag)
    <3>1. 1 \in DOMAIN readList
      BY <1>1, Counts, FillsHead
    <3>2. QED
      BY <3>1 DEF ContentInv, ReadListFills
  <2>2. Filled(content'[readList[1]], Sent + 1, frag + 1)
    BY <1>1, <2>1, FillsHead
  <2>3. \A p \in Takers : pc[p] = "list" => Filled(content'[mine[p]], Sent + 1, 0)
    BY <1>1, FillsHead DEF ContentInv, HandsRight, Contexts, Carries
  <2>4. \A p \in Takers : pc[p] = "list" => Filled(content'[mine[p]], Sent' + 1, 0)
    BY <2>3 DEF Filled
  <2>5. QED
    BY <1>2, <1>3, <2>2, <2>4 DEF HandsRight
<1>9. QED
  BY <1>4, <1>5, <1>6, <1>7, <1>8 DEF ContentInv

(***************************************************************************)
(* An emptied buffer that is put at the end of the read list.              *)
(***************************************************************************)
LEMMA ReadListGrows ==
    ASSUME TypeInv, ContentInv, NEW rb \in Rbs, readList' = Append(readList, rb),
           Len(content'[rb]) = 0, UNCHANGED <<sizes, frag>>,
           \A i \in DOMAIN readList : content'[readList[i]] = content[readList[i]]
    PROVE  ReadListFills'
<1>1. /\ Len(readList) \in Nat
      /\ DOMAIN readList = 1 .. Len(readList)
      /\ DOMAIN readList' = 1 .. (Len(readList) + 1)
      /\ \A i \in 1 .. Len(readList) : readList'[i] = readList[i]
      /\ readList'[Len(readList) + 1] = rb
  BY Counts, AppendElements DEF TypeInv, TypeOK
<1>2. Filled(content'[rb], Sent + 1, 0)
  BY DEF Filled
<1>3. \A i \in 1 .. Len(readList) :
          Filled(content'[readList'[i]], Sent + 1, IF i = 1 THEN frag ELSE 0)
  BY <1>1 DEF ContentInv, ReadListFills
<1>4. Len(readList) + 1 = 1 => frag = 0
  BY <1>1, EmptySeq DEF ContentInv, ReadListFills, TypeInv, TypeOK
<1>5. \A i \in 1 .. (Len(readList) + 1) :
          Filled(content'[readList'[i]], Sent + 1, IF i = 1 THEN frag ELSE 0)
  <2> SUFFICES ASSUME NEW i \in 1 .. (Len(readList) + 1)
               PROVE  Filled(content'[readList'[i]], Sent + 1, IF i = 1 THEN frag ELSE 0)
    OBVIOUS
  <2>1. CASE i \in 1 .. Len(readList)
    BY <1>3, <2>1
  <2>2. CASE i = Len(readList) + 1
    BY <1>1, <1>2, <1>4, <2>2
  <2>3. QED
    BY <1>1, <2>1, <2>2
<1>6. Sent' = Sent /\ readList' # <<>>
  BY <1>1, EmptySeq DEF Sent
<1>7. QED
  BY <1>1, <1>5, <1>6 DEF ReadListFills

(***************************************************************************)
(* The other steps of the reception.                                       *)
(***************************************************************************)
LEMMA ContentReceive ==
    ASSUME TypeInv, LabelsOK, PlacesInv, ContentInv, Receive
    PROVE  ContentInv'
<1>0. /\ Isr \in Contexts /\ \A p \in Takers : p \in Contexts /\ p # Isr
      /\ \A l \in {"take", "fc", "complete", "idle"} : l \in Labels
  BY ContextsAssumption DEF Contexts, Labels
<1>1. CASE RecvPart
  BY <1>1, ContentPart
<1>2. CASE RecvLast
  BY <1>2, ContentLast
<1>3. CASE RecvDec
  <2>1. /\ pc[Isr] = "dec" /\ Goto(Isr, "take")
        /\ UNCHANGED <<content, sizes, frag, readList, inProcess, mine>>
    BY <1>3 DEF RecvDec, fwVars
  <2>2. pc'[Isr] = "take" /\ \A p \in Takers : pc'[p] = pc[p]
    BY <1>0, <2>1, GotoLabel
  <2>3. QED
    BY <2>1, <2>2, ContentStays
<1>4. CASE RecvDecTorn
  <2>1. PICK t \in Takers :
             /\ pc[Isr] = "dec" /\ pc' = [pc EXCEPT ![Isr] = "take", ![t] = "idle"]
             /\ UNCHANGED <<content, sizes, frag, readList, inProcess, mine>>
    BY <1>4 DEF RecvDecTorn, fwVars
  <2>2. /\ pc'[Isr] = "take"
        /\ \A p \in Takers : pc'[p] = "list" => pc[p] = "list"
    BY <1>0, <2>1 DEF TypeInv, TypeOK
  <2>3. QED
    BY <2>1, <2>2, ContentStays
<1>5. CASE RecvTake
  <2>1. pc[Isr] = "take" /\ UNCHANGED <<sizes, frag, inProcess, mine>>
    BY <1>5 DEF RecvTake, fwVars
  <2>2. CASE Goto(Isr, "complete") /\ UNCHANGED <<readList, content>>
    <3>1. pc'[Isr] = "complete" /\ \A p \in Takers : pc'[p] = pc[p]
      BY <1>0, <2>2, GotoLabel
    <3>2. QED
      BY <2>1, <2>2, <3>1, ContentStays
  <2>3. ASSUME NEW rb \in freeRbs, readList' = Append(readList, rb),
               content' = [content EXCEPT ![rb] = <<>>], Goto(Isr, "fc")
        PROVE  ContentInv'
    <3>1. pc'[Isr] = "fc" /\ \A p \in Takers : pc'[p] = pc[p]
      BY <1>0, <2>3, GotoLabel
    <3>2. rb \in Rbs
      BY DEF TypeInv, TypeOK
    <3>3. /\ \A i \in DOMAIN inProcess : content'[inProcess[i]] = content[inProcess[i]]
          /\ \A i \in DOMAIN readList : content'[readList[i]] = content[readList[i]]
          /\ \A p \in Contexts : Carries(p) => content'[mine[p]] = content[mine[p]]
          /\ Len(content'[rb]) = 0
      BY <2>3, EmptiesFree
    <3>4. Sent' = Sent /\ Taken' = Taken
      BY <2>1, <3>1 DEF Sent, Taken, Arriving
    <3>5. InProcessWhole'
      BY <2>1, <3>3, <3>4 DEF ContentInv, InProcessWhole
    <3>6. ReadListFills'
      BY <2>1, <2>3, <3>2, <3>3, ReadListGrows
    <3>7. HandsRight'
      BY <1>0, <2>1, <3>1, <3>3, <3>4 DEF ContentInv, HandsRight, Carries
    <3>8. QED
      BY <2>1, <3>4, <3>5, <3>6, <3>7 DEF ContentInv
  <2>4. QED
    BY <1>5, <2>2, <2>3 DEF RecvTake
<1>6. CASE ReadComplete
  <2>1. /\ pc[Isr] = "complete" /\ Goto(Isr, "idle")
        /\ inProcess' = Append(inProcess, mine[Isr])
        /\ mine' = [mine EXCEPT ![Isr] = None]
        /\ UNCHANGED <<content, sizes, frag, readList>>
    BY <1>6 DEF ReadComplete, fwVars
  <2>2. /\ pc'[Isr] = "idle" /\ \A p \in Takers : pc'[p] = pc[p] /\ mine'[p] = mine[p]
        /\ mine[Isr] \in Rbs
    BY <1>0, <2>1, GotoLabel DEF TypeInv, TypeOK, MineOK, Moving
  <2>3. /\ Len(inProcess) \in Nat /\ DOMAIN inProcess = 1 .. Len(inProcess)
        /\ Len(inProcess') = Len(inProcess) + 1
        /\ DOMAIN inProcess' = 1 .. (Len(inProcess) + 1)
        /\ \A i \in 1 .. Len(inProcess) : inProcess'[i] = inProcess[i]
        /\ inProcess'[Len(inProcess) + 1] = mine[Isr]
    BY <2>1, <2>2, Counts, AppendElements DEF TypeInv, TypeOK
  <2>4. Sent' = Sent /\ Sent \in Nat
    BY <2>1, Counts DEF Sent
  <2>5. Taken' = Taken /\ Taken + (Len(inProcess) + 1) = Sent
    <3>1. Taken = Sent - Len(inProcess) - 1
      BY <2>1 DEF Taken, Arriving
    <3>2. Taken' = Sent' - Len(inProcess') - 0
      BY <2>2 DEF Taken, Arriving
    <3>3. QED
      BY <2>3, <2>4, <3>1, <3>2
  <2>6. \A i \in 1 .. Len(inProcess) :
            Filled(content'[inProcess'[i]], Taken + i, sizes'[Taken + i])
    BY <2>1, <2>3 DEF ContentInv, InProcessWhole
  <2>7. Filled(content'[mine[Isr]], Sent, sizes'[Sent])
    BY <2>1 DEF ContentInv, HandsRight
  <2>8. InProcessWhole'
    <3> SUFFICES ASSUME NEW i \in 1 .. (Len(inProcess) + 1)
                 PROVE  Filled(content'[inProcess'[i]], Taken + i, sizes'[Taken + i])
      BY <2>3, <2>5 DEF InProcessWhole
    <3>1. CASE i \in 1 .. Len(inProcess)
      BY <2>6, <3>1
    <3>2. CASE i = Len(inProcess) + 1
      BY <2>3, <2>5, <2>7, <3>2
    <3>3. QED
      BY <2>3, <3>1, <3>2
  <2>9. ReadListFills' /\ HandsRight'
    BY <2>1, <2>2, <2>4 DEF ContentInv, ReadListFills, HandsRight
  <2>10. QED
    BY <2>1, <2>4, <2>5, <2>8, <2>9 DEF ContentInv
<1>7. QED
  BY <1>1, <1>2, <1>3, <1>4, <1>5, <1>6 DEF Receive, RecvDma

(***************************************************************************)
(* Flow control moves no buffer.                                           *)
(***************************************************************************)
LEMMA ContentFc ==
    ASSUME TypeInv, LabelsOK, ContentInv, NEW p \in Contexts, FlowControlReq(p)
    PROVE  ContentInv'
<1>1. /\ Isr \in Contexts /\ \A q \in Takers : q \in Contexts /\ q # Isr
      /\ \A l \in {"idle", "complete", "count", "undo"} : l \in Labels
  BY ContextsAssumption DEF Contexts, Labels
<1>2. PICK l \in {"idle", "complete", "count", "undo"} :
           /\ Goto(p, l) /\ pc[p] \in {"fc", "count"}
           /\ p = Isr => l # "idle"
           /\ UNCHANGED <<content, sizes, frag, readList, inProcess, mine>>
  BY DEF FlowControlReq, FcNotNeeded, FcWrite, FcFail, FcCount, AfterFc, fwVars
<1>3. pc'[p] = l /\ \A q \in Contexts : q # p => pc'[q] = pc[q]
  BY <1>1, <1>2, GotoLabel
<1>4. QED
  BY <1>1, <1>2, <1>3, ContentStays

(***************************************************************************)
(* A read is undone whose buffer is in the read list, but not being filled *)
(* there: the others keep their fragments.                                 *)
(***************************************************************************)
LEMMA ReadListShrinks ==
    ASSUME TypeInv, PlacesInv, ContentInv, NEW t \in Takers, ReadStartUndo(t), undone' = {}
    PROVE  ReadListFills'
<1>1. /\ mine[t] \in Range(readList) /\ readList # <<>> /\ readList' = Without(readList, mine[t])
      /\ UNCHANGED <<content, sizes, frag>>
  BY UndoTakesOwn
<1>2. PICK i \in 1 .. Len(readList) :
           /\ readList[i] = mine[t]
           /\ Len(readList') = Len(readList) - 1
           /\ DOMAIN readList' = 1 .. (Len(readList) - 1)
           /\ \A j \in 1 .. (Len(readList) - 1) :
                 readList'[j] = IF j < i THEN readList[j] ELSE readList[j + 1]
  BY <1>1, WithoutElements DEF TypeInv, TypeOK
<1>3. Len(readList) \in Nat \ {0} /\ frag \in Nat /\ Head(readList) = readList[1]
      /\ DOMAIN readList = 1 .. Len(readList)
  BY <1>1, Counts, TailElements DEF TypeInv, TypeOK
<1>4. i = 1 => frag = 0
  <2>1. ~Robs(t)
    BY DEF ReadStartUndo
  <2>2. QED
    BY <1>1, <1>2, <1>3, <2>1 DEF Robs
<1>5. Sent' = Sent
  BY <1>1 DEF Sent
<1>6. ASSUME NEW j \in 1 .. (Len(readList) - 1)
      PROVE  Filled(content'[readList'[j]], Sent' + 1, IF j = 1 THEN frag' ELSE 0)
  <2>1. \A k \in 1 .. Len(readList) :
            Filled(content[readList[k]], Sent + 1, IF k = 1 THEN frag ELSE 0)
    BY <1>3 DEF ContentInv, ReadListFills
  <2>2. CASE j < i
    <3>1. j \in 1 .. Len(readList) /\ readList'[j] = readList[j]
      BY <1>2, <1>3, <2>2
    <3>2. QED
      BY <1>1, <1>5, <2>1, <3>1
  <2>3. CASE ~(j < i)
    <3>1. j + 1 \in 1 .. Len(readList) /\ readList'[j] = readList[j + 1] /\ j + 1 # 1
      BY <1>2, <1>3, <2>3
    <3>2. Filled(content[readList[j + 1]], Sent + 1, 0)
      BY <2>1, <3>1
    <3>3. j = 1 => frag = 0
      BY <1>2, <1>4, <2>3
    <3>4. QED
      BY <1>1, <1>5, <3>1, <3>2, <3>3
  <2>4. QED
    BY <2>2, <2>3
<1>7. readList' = <<>> => frag' = 0
  <2> SUFFICES ASSUME readList' = <<>> PROVE frag = 0
    BY <1>1
  <2>1. Len(readList') = 0
    BY EmptyList
  <2>2. i = 1
    BY <1>2, <1>3, <2>1
  <2>3. QED
    BY <1>4, <2>2
<1>8. QED
  BY <1>2, <1>6, <1>7 DEF ReadListFills

(***************************************************************************)
(* A recycling context empties its buffer, then puts it into the read list,*)
(* and takes it back if its FC is refused.                                 *)
(***************************************************************************)
LEMMA ContentCore ==
    ASSUME TypeInv, LabelsOK, PlacesInv, ContentInv, NEW t \in Takers, Core(t), undone' = {}
    PROVE  ContentInv'
<1>0. /\ t \in Contexts /\ Isr \in Contexts /\ \A p \in Takers : p \in Contexts /\ p # Isr
      /\ \A l \in {"start", "idle", "list", "fc", "free"} : l \in Labels
  BY ContextsAssumption DEF Contexts, Labels
<1>1. CASE FlowControlReq(t)
  BY <1>0, <1>1, ContentFc
<1>2. CASE RecycleCheck(t) \/ ReadStartEmpty(t)
  <2>1. PICK l \in {"start", "idle"} :
             Goto(t, l) /\ UNCHANGED <<content, sizes, frag, readList, inProcess, mine>>
    BY <1>2 DEF RecycleCheck, ReadStartEmpty, fwVars
  <2>2. pc'[t] = l /\ \A q \in Contexts : q # t => pc'[q] = pc[q]
    BY <1>0, <2>1, GotoLabel
  <2>3. QED
    BY <1>0, <2>1, <2>2, ContentStays
<1>3. CASE ReadStartTake(t)
  <2>1. PICK rb \in freeRbs : /\ mine' = [mine EXCEPT ![t] = rb]
                             /\ content' = [content EXCEPT ![rb] = <<>>]
    BY <1>3 DEF ReadStartTake
  <2>2. pc[t] = "start" /\ Goto(t, "list") /\ UNCHANGED <<sizes, frag, readList, inProcess>>
    BY <1>3 DEF ReadStartTake, fwVars
  <2>3. /\ pc'[t] = "list" /\ mine'[t] = rb
        /\ \A q \in Contexts : q # t => pc'[q] = pc[q] /\ mine'[q] = mine[q]
    BY <1>0, <2>1, <2>2, GotoLabel DEF TypeInv, TypeOK
  <2>4. /\ \A i \in DOMAIN inProcess : content'[inProcess[i]] = content[inProcess[i]]
        /\ \A i \in DOMAIN readList : content'[readList[i]] = content[readList[i]]
        /\ \A p \in Contexts : Carries(p) => content'[mine[p]] = content[mine[p]]
        /\ Len(content'[rb]) = 0
    BY <2>1, EmptiesFree
  <2>5. Sent' = Sent /\ Taken' = Taken
    BY <1>0, <2>2, <2>3 DEF Sent, Taken, Arriving
  <2>6. InProcessWhole' /\ ReadListFills'
    BY <2>2, <2>4, <2>5 DEF ContentInv, InProcessWhole, ReadListFills
  <2>7. Filled(content'[rb], Sent + 1, 0)
    BY <2>4 DEF Filled
  <2>8. HandsRight'
    BY <1>0, <2>2, <2>3, <2>4, <2>5, <2>7 DEF ContentInv, HandsRight, Carries
  <2>9. QED
    BY <2>2, <2>5, <2>6, <2>8 DEF ContentInv
<1>4. CASE ReadStartList(t)
  <2>1. /\ pc[t] = "list" /\ Goto(t, "fc") /\ readList' = Append(readList, mine[t])
        /\ UNCHANGED <<content, sizes, frag, inProcess, mine>>
    BY <1>4 DEF ReadStartList, fwVars
  <2>2. pc'[t] = "fc" /\ \A q \in Contexts : q # t => pc'[q] = pc[q]
    BY <1>0, <2>1, GotoLabel
  <2>3. mine[t] \in Rbs /\ Len(content'[mine[t]]) = 0
    BY <1>0, <2>1 DEF TypeInv, MineOK, Moving, ContentInv, HandsRight, Filled
  <2>4. ReadListFills'
    BY <2>1, <2>3, ReadListGrows
  <2>5. Sent' = Sent /\ Taken' = Taken
    BY <1>0, <2>1, <2>2 DEF Sent, Taken, Arriving
  <2>6. InProcessWhole' /\ HandsRight'
    BY <1>0, <2>1, <2>2, <2>5 DEF ContentInv, InProcessWhole, HandsRight
  <2>7. QED
    BY <2>1, <2>4, <2>5, <2>6 DEF ContentInv
<1>5. CASE ReadStartUndo(t)
  <2>1. Goto(t, "free") /\ UNCHANGED <<content, sizes, frag, inProcess, mine>>
    BY <1>5, UndoTakesOwn
  <2>2. pc'[t] = "free" /\ \A q \in Contexts : q # t => pc'[q] = pc[q]
    BY <1>0, <2>1, GotoLabel
  <2>3. ReadListFills'
    BY <1>5, ReadListShrinks
  <2>4. Sent' = Sent /\ Taken' = Taken
    BY <1>0, <2>1, <2>2 DEF Sent, Taken, Arriving
  <2>5. InProcessWhole' /\ HandsRight'
    BY <1>0, <2>1, <2>2, <2>4 DEF ContentInv, InProcessWhole, HandsRight
  <2>6. QED
    BY <2>1, <2>3, <2>4, <2>5 DEF ContentInv
<1>6. CASE ReadStartFree(t)
  <2>1. Goto(t, "idle") /\ UNCHANGED <<content, sizes, frag, readList, inProcess, mine>>
    BY <1>6 DEF ReadStartFree, fwVars
  <2>2. pc'[t] = "idle" /\ \A q \in Contexts : q # t => pc'[q] = pc[q]
    BY <1>0, <2>1, GotoLabel
  <2>3. QED
    BY <1>0, <2>1, <2>2, ContentStays
<1>7. QED
  BY <1>1, <1>2, <1>3, <1>4, <1>5, <1>6 DEF Core, ReadStart

(***************************************************************************)
(* The driver takes the oldest complete message.                           *)
(***************************************************************************)
LEMMA ContentDriver ==
    ASSUME TypeInv, ContentInv, GetRb
    PROVE  ContentInv' /\ Taken' = Taken + 1
<1>1. /\ inProcess # <<>> /\ inProcess' = Tail(inProcess)
      /\ UNCHANGED <<content, sizes, frag, readList, mine, pc>>
  BY DEF GetRb, fwVars
<1>2. /\ Len(inProcess) \in Nat \ {0} /\ Len(inProcess') = Len(inProcess) - 1
      /\ DOMAIN inProcess = 1 .. Len(inProcess)
      /\ DOMAIN inProcess' = 1 .. (Len(inProcess) - 1)
      /\ \A i \in 1 .. (Len(inProcess) - 1) : inProcess'[i] = inProcess[i + 1]
  BY <1>1, TailElements, TailList DEF TypeInv, TypeOK
<1>3. Sent' = Sent /\ Sent \in Nat /\ Arriving' = Arriving /\ Arriving \in {0, 1}
  BY <1>1, Counts DEF Sent, Arriving
<1>4. Taken' = Taken + 1 /\ Taken \in Nat
  BY <1>2, <1>3 DEF Taken, ContentInv
<1>5. InProcessWhole'
  <2> SUFFICES ASSUME NEW i \in 1 .. (Len(inProcess) - 1)
               PROVE  Filled(content[inProcess[i + 1]], Taken + 1 + i, sizes[Taken + 1 + i])
    BY <1>1, <1>2, <1>4 DEF InProcessWhole
  <2>1. i + 1 \in DOMAIN inProcess /\ Taken + (i + 1) = Taken + 1 + i
    BY <1>2, <1>4
  <2>2. Filled(content[inProcess[i + 1]], Taken + (i + 1), sizes[Taken + (i + 1)])
    BY <2>1 DEF ContentInv, InProcessWhole
  <2>3. QED
    BY <2>1, <2>2
<1>6. ReadListFills' /\ HandsRight'
  BY <1>1, <1>3 DEF ContentInv, ReadListFills, HandsRight
<1>7. QED
  BY <1>1, <1>3, <1>4, <1>5, <1>6 DEF ContentInv

(***************************************************************************)
(* A buffer that comes back keeps what is in it until it is used again.    *)
(***************************************************************************)
LEMMA ContentRecycle ==
    ASSUME TypeInv, ContentInv, NEW t \in Takers, NEW rb \in Rbs, RecycleFree(t, rb)
    PROVE  ContentInv'
<1>1. Isr \in Contexts /\ "check" \in Labels /\ \A p \in Takers : p \in Contexts /\ p # Isr
  BY ContextsAssumption DEF Contexts, Labels
<1>2. Goto(t, "check") /\ UNCHANGED <<content, sizes, frag, readList, inProcess, mine>>
  BY DEF RecycleFree, fwVars
<1>3. pc'[t] = "check" /\ \A q \in Contexts : q # t => pc'[q] = pc[q]
  BY <1>1, <1>2, GotoLabel
<1>4. QED
  BY <1>1, <1>2, <1>3, ContentStays

(***************************************************************************)
(* Every step keeps what is in the buffers right, until the undoing of a   *)
(* read takes a buffer that was not in the read list, or was being filled. *)
(***************************************************************************)
WholeInv == undone = {} => ContentInv

LEMMA WholeInit == Init => WholeInv
BY ContentInit DEF WholeInv

LEMMA WholeStep == TypeInv /\ FcInv /\ SoundInv /\ WholeInv /\ [Next]_vars => WholeInv'
<1> SUFFICES ASSUME TypeInv, FcInv, SoundInv, WholeInv, [Next]_vars, undone' = {} PROVE ContentInv'
  BY DEF WholeInv
<1>1. undone = {}
  BY UndoneStays
<1>2. LabelsOK /\ PlacesInv /\ ContentInv /\ Isr \in Contexts
  BY <1>1 DEF FcInv, SoundInv, ListsInv, WholeInv, Contexts
<1>3. CASE EventWork \/ UNCHANGED vars
  <2>1. UNCHANGED <<content, sizes, frag, readList, inProcess, mine, pc>>
    BY <1>3 DEF EventWork, vars, fwVars
  <2>2. QED
    BY <1>2, <2>1, ContentStays
<1>4. QED
  BY <1>2, <1>3, ContentReceive, ContentFc, ContentCore, ContentDriver, ContentRecycle DEF Next

(***************************************************************************)
(* What the client does below its driver: it leaves the driver's buffers   *)
(* alone, the number of messages the driver was given, and the past.       *)
(***************************************************************************)
Below == Receive \/ (\E p \in Contexts : FlowControlReq(p)) \/ (\E p \in Takers : Core(p))

LEMMA BelowKeeps ==
    ASSUME TypeInv, LabelsOK, PlacesInv, Below, "strayed" \notin undone'
    PROVE  /\ held' = held
           /\ \A b \in held : content'[b] = content[b]
           /\ Taken' = Taken
           /\ Sent' >= Sent /\ \A m \in 1 .. Sent : sizes'[m] = sizes[m]
<1>0. /\ Isr \in Contexts /\ \A p \in Takers : p \in Contexts /\ p # Isr
      /\ \A l \in {"dec", "take", "fc", "complete", "idle", "start", "list", "count", "undo",
                  "free"} : l \in Labels
      /\ Sent \in Nat /\ Len(inProcess) \in Nat
  BY Counts, ContextsAssumption DEF Contexts, Labels
<1> DEFINE Goal == /\ held' = held
                   /\ \A b \in held : content'[b] = content[b]
                   /\ Taken' = Taken
                   /\ Sent' >= Sent /\ \A m \in 1 .. Sent : sizes'[m] = sizes[m]
<1> SUFFICES Goal
  OBVIOUS
<1>1. ASSUME UNCHANGED <<held, sizes, inProcess>>, pc'[Isr] = "idle" <=> pc[Isr] = "idle",
             \A b \in held : content'[b] = content[b]
      PROVE  Goal
  BY <1>0, <1>1 DEF Sent, Taken, Arriving
<1>2. CASE RecvPart
  BY <1>1, <1>2, FillsHead DEF RecvPart
<1>3. CASE RecvLast
  <2>1. /\ RecvFragment /\ sizes' = Append(sizes, frag + 1) /\ pc[Isr] = "idle"
        /\ Goto(Isr, "dec") /\ UNCHANGED <<held, inProcess>>
    BY <1>3 DEF RecvLast, RecvFragment
  <2>0. sizes \in Seq(Nat) /\ frag + 1 \in Nat
    BY DEF TypeInv, TypeOK
  <2>2. Sent' = Sent + 1 /\ \A m \in 1 .. Sent : sizes'[m] = sizes[m]
    BY <2>0, <2>1, AppendElements DEF Sent
  <2>3. Arriving = 0 /\ Arriving' = 1
    BY <1>0, <2>1, GotoLabel DEF Arriving
  <2>4. Taken' = Taken
    BY <1>0, <2>1, <2>2, <2>3 DEF Taken
  <2>5. \A b \in held : content'[b] = content[b]
    BY <2>1, FillsHead
  <2>6. held' = held /\ Sent' >= Sent
    BY <1>0, <2>1, <2>2
  <2>7. QED
    BY <2>2, <2>4, <2>5, <2>6
<1>4. CASE RecvDec
  BY <1>0, <1>1, <1>4, GotoLabel DEF RecvDec, fwVars
<1>5. CASE RecvDecTorn
  <2>1. PICK t \in Takers :
             /\ pc[Isr] = "dec" /\ pc' = [pc EXCEPT ![Isr] = "take", ![t] = "idle"]
             /\ UNCHANGED <<content, sizes, inProcess, held>>
    BY <1>5 DEF RecvDecTorn, fwVars
  <2>2. pc'[Isr] = "take"
    BY <1>0, <2>1 DEF TypeInv, TypeOK
  <2>3. QED
    BY <1>1, <2>1, <2>2
<1>6. CASE RecvTake
  <2>1. pc[Isr] = "take" /\ UNCHANGED <<sizes, inProcess, held>>
    BY <1>6 DEF RecvTake, fwVars
  <2>2. PICK l \in {"fc", "complete"} : Goto(Isr, l)
    BY <1>6 DEF RecvTake
  <2>3. pc'[Isr] = l
    BY <1>0, <2>2, GotoLabel
  <2>4. \/ content' = content
        \/ \E rb \in freeRbs : content' = [content EXCEPT ![rb] = <<>>]
    BY <1>6 DEF RecvTake
  <2>5. \A b \in held : content'[b] = content[b]
    BY <2>4, EmptiesFree
  <2>6. QED
    BY <1>1, <2>1, <2>2, <2>3, <2>5
<1>7. CASE ReadComplete
  <2>1. /\ pc[Isr] = "complete" /\ Goto(Isr, "idle") /\ mine[Isr] \in Rbs
        /\ inProcess' = Append(inProcess, mine[Isr])
        /\ UNCHANGED <<content, sizes, held>>
    BY <1>0, <1>7 DEF ReadComplete, fwVars, TypeInv, MineOK, Moving
  <2>2. Len(inProcess') = Len(inProcess) + 1
    BY <2>1, AppendElements DEF TypeInv, TypeOK
  <2>3. Arriving = 1 /\ Arriving' = 0 /\ Sent' = Sent
    BY <1>0, <2>1, GotoLabel DEF Arriving, Sent
  <2>4. Taken' = Taken
    BY <1>0, <2>2, <2>3 DEF Taken
  <2>5. QED
    BY <1>0, <2>1, <2>3, <2>4
<1>8. ASSUME NEW p \in Contexts, FlowControlReq(p) PROVE Goal
  <2>1. PICK l \in {"idle", "complete", "count", "undo"} :
             /\ Goto(p, l) /\ pc[p] \in {"fc", "count"}
             /\ p = Isr => l # "idle"
             /\ UNCHANGED <<content, sizes, inProcess, held>>
    BY <1>8 DEF FlowControlReq, FcNotNeeded, FcWrite, FcFail, FcCount, AfterFc, fwVars
  <2>2. pc'[Isr] = "idle" <=> pc[Isr] = "idle"
    BY <1>0, <2>1, GotoLabel
  <2>3. QED
    BY <1>1, <2>1, <2>2
<1>9. ASSUME NEW p \in Takers, Core(p), ~FlowControlReq(p) PROVE Goal
  <2>1. PICK l \in {"idle", "start", "list", "fc", "free"} : Goto(p, l)
    BY <1>9 DEF Core, ReadStart, RecycleCheck, ReadStartEmpty, ReadStartTake, ReadStartList,
                ReadStartUndo, ReadStartFree
  <2>2. pc'[Isr] = pc[Isr]
    BY <1>0, <2>1, GotoLabel
  <2>3. /\ UNCHANGED <<sizes, inProcess, held>>
        /\ \/ content' = content
           \/ \E rb \in freeRbs : content' = [content EXCEPT ![rb] = <<>>]
    <3>1. CASE ReadStartUndo(p)
      BY <3>1, UndoTakesOwn
    <3>2. QED
      BY <1>9, <3>1 DEF Core, ReadStart, RecycleCheck, ReadStartEmpty, ReadStartTake,
                        ReadStartList, ReadStartFree, fwVars
  <2>4. \A b \in held : content'[b] = content[b]
    BY <2>3, EmptiesFree
  <2>5. QED
    BY <1>1, <2>2, <2>3, <2>4
<1> HIDE DEF Goal
<1>10. QED
  BY <1>0, <1>2, <1>3, <1>4, <1>5, <1>6, <1>7, <1>8, <1>9 DEF Below, Receive, RecvDma

(***************************************************************************)
(* What a driver finds in in_process_list is complete messages, one buffer *)
(* each, in the order the firmware sent them and without a gap since the   *)
(* one it took last, until the undoing of a read takes a buffer that was   *)
(* no longer in the read list or that the firmware was filling.            *)
(***************************************************************************)
THEOREM MessagesWaitWhole == Spec => [](undone = {} => InProcessWhole)
<1>1. WholeInv => (undone = {} => InProcessWhole)
  BY DEF WholeInv, ContentInv
<1>2. QED
  BY <1>1, TypeInit, TypeStep, FcInit, FcStep, SoundInit, SoundStep, WholeInit, WholeStep, PTL DEF Spec
-----------------------------------------------------------------------------
(***************************************************************************)
(* Every step of the HID client is a step of ClientRx or leaves it alone.  *)
(***************************************************************************)
LEMMA HidStep == TypeInv /\ [HidNext]_hidVars => [Next]_vars
<1> SUFFICES ASSUME TypeInv, HidNext PROVE [Next]_vars
  BY DEF hidVars
<1>1. CASE HidRecvStep
  BY <1>1 DEF HidRecvStep, Next
<1>2. CASE HidEventStart
  BY <1>2 DEF HidEventStart, Next
<1>3. CASE EventTakes
  BY <1>3 DEF EventTakes, Next
<1>4. CASE EventRecycles
  BY <1>4, WorkerAssumption DEF EventRecycles, Next, TypeInv, TypeOK
<1>5. CASE EventDone
  BY <1>5 DEF EventDone
<1>6. ASSUME NEW p \in Takers, CoreStep(p) PROVE [Next]_vars
  BY <1>6 DEF CoreStep, Next
<1>7. QED
  BY <1>1, <1>2, <1>3, <1>4, <1>5, <1>6 DEF HidNext, HidEvent

LEMMA HidTypes == HidSpec => []TypeInv
<1>1. HidInit => TypeInv
  BY TypeInit DEF HidInit
<1>2. TypeInv /\ [HidNext]_hidVars => TypeInv'
  BY HidStep, TypeStep
<1>3. QED
  BY <1>1, <1>2, PTL DEF HidSpec

(***************************************************************************)
(* The HID client does to the buffers only what ClientRx allows a driver.  *)
(***************************************************************************)
THEOREM HidImplementsClientRx == HidSpec => ImplementsClientRx
<1>1. HidInit => Init
  BY DEF HidInit
<1>2. QED
  BY <1>1, HidStep, HidTypes, PTL DEF HidSpec, ImplementsClientRx, Spec

(***************************************************************************)
(* So none of its buffers is lost, whatever the size of its ring and       *)
(* whichever of its FCs are refused, until a buffer strays.                *)
(***************************************************************************)
THEOREM HidRbsNeverLost == HidSpec => []RbsConserved
BY HidImplementsClientRx, RbsNeverLost, PTL DEF ImplementsClientRx

(***************************************************************************)
(* A message that waits has an event that will find it, although the       *)
(* interrupt schedules the work for the first message of an empty list     *)
(* only.                                                                   *)
(***************************************************************************)
THEOREM EventsKept == HidSpec => []NoEventLost
<1>1. HidInit => NoEventLost
  BY DEF HidInit, Init, NoEventLost
<1>2. TypeInv /\ NoEventLost /\ [HidNext]_hidVars => NoEventLost'
  <2> SUFFICES ASSUME TypeInv, NoEventLost, [HidNext]_hidVars PROVE NoEventLost'
    OBVIOUS
  <2>1. ASSUME UNCHANGED <<inProcess, work, inEventCb>> PROVE NoEventLost'
    BY <2>1 DEF NoEventLost
  <2>2. ASSUME NEW p \in Contexts, FlowControlReq(p), UNCHANGED inEventCb PROVE NoEventLost'
    BY <2>1, <2>2 DEF FlowControlReq, FcNotNeeded, FcWrite, FcFail, FcCount
  <2>3. CASE HidRecvStep /\ ReadComplete
    BY <2>3 DEF HidRecvStep, ReadComplete, NoEventLost
  <2>4. CASE HidRecvStep /\ Receive /\ ~ReadComplete
    BY <2>1, <2>4 DEF HidRecvStep, Receive, RecvPart, RecvLast, RecvDma, RecvDec, RecvDecTorn, RecvTake
  <2>5. CASE HidRecvStep /\ FlowControlReq(Isr)
    BY <2>2, <2>5 DEF HidRecvStep, Contexts
  <2>6. CASE HidEventStart
    BY <2>6 DEF HidEventStart, NoEventLost
  <2>7. CASE EventTakes
    BY <2>7 DEF EventTakes, NoEventLost
  <2>8. CASE EventRecycles
    BY <2>1, <2>8 DEF EventRecycles, RecycleFree
  <2>9. CASE EventDone
    BY <2>9 DEF EventDone, vars, NoEventLost
  <2>10. ASSUME NEW p \in Takers, CoreStep(p), ReadStartUndo(p) PROVE NoEventLost'
    <3>1. inProcess = <<>> => inProcess' = <<>>
      BY <2>10, EmptyList DEF ReadStartUndo, Without
    <3>2. work' = work /\ inEventCb' = inEventCb
      BY <2>10 DEF CoreStep, ReadStartUndo
    <3>3. QED
      BY <3>1, <3>2 DEF NoEventLost
  <2>11. ASSUME NEW p \in Takers, CoreStep(p), ~ReadStartUndo(p) PROVE NoEventLost'
    <3>1. CASE FlowControlReq(p)
      BY <2>2, <2>11, <3>1 DEF CoreStep, Contexts
    <3>2. CASE ~FlowControlReq(p)
      BY <2>1, <2>11, <3>2 DEF CoreStep, Core, ReadStart, RecycleCheck, ReadStartEmpty,
                               ReadStartTake, ReadStartList, ReadStartFree
    <3>3. QED
      BY <3>1, <3>2
  <2>12. CASE UNCHANGED hidVars
    BY <2>1, <2>12 DEF hidVars, vars
  <2>13. QED
    BY <2>3, <2>4, <2>5, <2>6, <2>7, <2>8, <2>9, <2>10, <2>11, <2>12
       DEF HidNext, HidEvent, HidRecvStep
<1>3. QED
  BY <1>1, <1>2, HidTypes, PTL DEF HidSpec
-----------------------------------------------------------------------------
(***************************************************************************)
(* Every step of the PSE driver is a step of ClientRx or leaves it alone.  *)
(***************************************************************************)
LEMMA PseStep == TypeInv /\ [PseNext]_pseVars => [Next]_vars
<1> SUFFICES ASSUME TypeInv, PseNext PROVE [Next]_vars
  BY DEF pseVars
<1>1. CASE RecvStep
  BY <1>1 DEF RecvStep, Next
<1>2. CASE ConnectReads
  BY <1>2, ContextsAssumption DEF ConnectReads, Next
<1>3. CASE Event
  BY <1>3 DEF Event, EventStart, EventTake, EventLeaves, Next
<1>4. ASSUME NEW r \in Readers, ReadRest(r) PROVE [Next]_vars
  BY <1>4 DEF Readers, ReadRest, RecycleFree, TypeInv, TypeOK, Next
<1>5. ASSUME NEW r \in Readers, ReadRecycles(r) PROVE [Next]_vars
  BY <1>5 DEF Readers, ReadRecycles, Next
<1>6. ASSUME NEW r \in Readers, Read(r), ~ReadRest(r), ~ReadRecycles(r) PROVE UNCHANGED vars
  BY <1>6 DEF Read, ReadNoLock, ReadLock, ReadWithLock, ReadNull, ReadRefused, ReadPart, ReadClear,
              ReadCall, ReadWake, ReadTimeout, ReadRecheck, ReadReturn
<1>7. QED
  BY <1>1, <1>2, <1>3, <1>4, <1>5, <1>6 DEF PseNext

LEMMA PseTypes == PseSpec => []TypeInv
<1>1. PseInit => TypeInv
  BY TypeInit DEF PseInit
<1>2. TypeInv /\ [PseNext]_pseVars => TypeInv'
  BY PseStep, TypeStep
<1>3. QED
  BY <1>1, <1>2, PTL DEF PseSpec

(***************************************************************************)
(* The PSE driver does to the buffers only what ClientRx allows a driver.  *)
(***************************************************************************)
THEOREM PseImplementsClientRx == PseSpec => ImplementsClientRx
<1>1. PseInit => Init
  BY DEF PseInit
<1>2. QED
  BY <1>1, PseStep, PseTypes, PTL DEF PseSpec, ImplementsClientRx, Spec

(***************************************************************************)
(* So none of its two buffers is lost, however many threads read, and one  *)
(* is there for every message the PSE may send, until a buffer strays.     *)
(***************************************************************************)
THEOREM PseRbsNeverLost == PseSpec => []RbsConserved
BY PseImplementsClientRx, RbsNeverLost, PTL DEF ImplementsClientRx

THEOREM PseGrantedMeansBuffer == PseSpec => []GrantHasBuffer
BY PseImplementsClientRx, GrantedMeansBuffer, PTL DEF ImplementsClientRx
-----------------------------------------------------------------------------
\* pse_rb.lock belongs to the reader that copies, recycles or crashed, and
\* what a reader recycles is no longer in the driver's hands.
LockInv ==
    /\ rd \in [Readers -> {"user", "wait", "woken", "lock", "copy", "clear", "return", "crashed"}]
    /\ \A r \in Readers : rd[r] \in {"copy", "clear"} => lock = r

PseInv == LockInv /\ HoldsWhatItShows /\ (Recycling => held = {})

(***************************************************************************)
(* At most one reader copies or recycles: the owner of the lock.           *)
(***************************************************************************)
LEMMA OneRecycler ==
    ASSUME LockInv, NEW r \in Readers, rd[r] \in {"copy", "clear"}
    PROVE  \A q \in Readers : rd[q] \in {"copy", "clear"} => q = r
BY DEF LockInv

(***************************************************************************)
(* Steps of the client below the driver take no buffer from its hands.     *)
(***************************************************************************)
LEMMA HeldStays ==
    ASSUME Receive \/ (\E p \in Contexts : FlowControlReq(p)) \/ (\E p \in Takers : Core(p))
    PROVE  held' = held
BY DEF Receive, RecvPart, RecvLast, RecvDma, RecvDec, RecvDecTorn, RecvTake, ReadComplete,
       FlowControlReq, FcNotNeeded, FcWrite, FcFail, FcCount,
       Core, RecycleCheck, ReadStart, ReadStartEmpty, ReadStartTake, ReadStartList,
       ReadStartUndo, ReadStartFree

(***************************************************************************)
(* A reader that moves neither the buffer nor the lock.                    *)
(***************************************************************************)
LEMMA ReaderMoves ==
    ASSUME PseInv, NEW r \in Readers,
           NEW l \in {"user", "wait", "woken", "lock", "return", "crashed"},
           GotoRd(r, l), rd[r] # "clear", UNCHANGED <<pseRb, held>>,
           lock' = lock \/ (lock' = None /\ rd[r] = "copy")
    PROVE  PseInv'
<1>1. /\ rd' \in [Readers -> {"user", "wait", "woken", "lock", "copy", "clear", "return", "crashed"}]
      /\ rd'[r] = l
      /\ \A q \in Readers : q # r => rd'[q] = rd[q]
  BY DEF PseInv, LockInv, GotoRd
<1>2. ASSUME NEW q \in Readers, rd'[q] \in {"copy", "clear"} PROVE lock' = q
  BY <1>1, <1>2, OneRecycler DEF PseInv, LockInv
<1>3. Recycling' <=> Recycling
  BY <1>1 DEF Recycling
<1>4. QED
  BY <1>1, <1>2, <1>3 DEF PseInv, LockInv, HoldsWhatItShows

LEMMA PseInvInit == PseInit => PseInv
<1> SUFFICES ASSUME PseInit PROVE PseInv
  OBVIOUS
<1>1. rd = [r \in Readers |-> "user"] /\ pseRb = None /\ held = {}
  BY DEF PseInit, Init
<1>2. LockInv /\ ~Recycling
  BY <1>1 DEF LockInv, Recycling
<1>3. QED
  BY <1>1, <1>2 DEF PseInv, HoldsWhatItShows

LEMMA PseInvStep == TypeInv /\ PseInv /\ [PseNext]_pseVars => PseInv'
<1> SUFFICES ASSUME TypeInv, PseInv, [PseNext]_pseVars PROVE PseInv'
  OBVIOUS
<1>1. ASSUME UNCHANGED <<held, pseRb, lock, rd>> PROVE PseInv'
  BY <1>1 DEF PseInv, LockInv, HoldsWhatItShows, Recycling
<1>2. CASE RecvStep
  BY <1>1, <1>2, HeldStays DEF RecvStep, readVars, places, Contexts
<1>3. CASE ConnectReads
  BY <1>1, <1>3, HeldStays, ContextsAssumption DEF ConnectReads, readVars, places
<1>4. CASE EventStart \/ EventLeaves
  BY <1>1, <1>4 DEF EventStart, EventLeaves, EventWork, readVars, places, vars
<1>5. CASE EventTake
  <2>1. lock = None /\ pseRb = None /\ lock' = lock /\ rd' = rd
    BY <1>5 DEF EventTake, readVars, places
  <2>2. CASE inProcess = <<>>
    BY <1>1, <1>5, <2>1, <2>2 DEF EventTake, vars
  <2>3. CASE inProcess # <<>>
    <3>1. held' = held \cup {Head(inProcess)} /\ pseRb' = Head(inProcess)
      BY <1>5, <2>3 DEF EventTake, GetRb
    <3>2. Head(inProcess) # None
      BY <2>3, TailList, ContextsAssumption DEF TypeInv, TypeOK
    <3>3. LockInv' /\ (Recycling' <=> Recycling)
      BY <2>1 DEF PseInv, LockInv, Recycling
    <3>4. CASE Recycling
      <4>1. PICK r \in Readers : rd[r] = "clear" /\ r = None
        BY <2>1, <3>4 DEF PseInv, LockInv, Recycling
      <4>2. QED
        BY <4>1, OwnerAssumption
    <3>5. CASE ~Recycling
      BY <2>1, <3>1, <3>2, <3>3, <3>5 DEF PseInv, HoldsWhatItShows
    <3>6. QED
      BY <3>4, <3>5
  <2>4. QED
    BY <2>2, <2>3
<1>6. ASSUME NEW r \in Readers, Read(r) PROVE PseInv'
  <2>1. CASE ReadNoLock(r)
    <3>1. PICK l \in {"user", "wait", "woken", "lock"} : GotoRd(r, l) /\ rd[r] # "clear"
      BY <2>1 DEF ReadNoLock, ReadCall, ReadWake, ReadTimeout, ReadRecheck, ReadReturn
    <3>2. UNCHANGED <<pseRb, held, lock>>
      BY <2>1 DEF ReadNoLock, ReadCall, ReadWake, ReadTimeout, ReadRecheck, ReadReturn, vars
    <3>3. QED
      BY <3>1, <3>2, ReaderMoves
  <2>2. CASE ReadLock(r)
    <3>1. /\ rd[r] = "lock" /\ lock = None /\ lock' = r /\ GotoRd(r, "copy")
          /\ UNCHANGED <<pseRb, held>>
      BY <2>2 DEF ReadLock, vars
    <3>2. /\ rd' \in [Readers -> {"user", "wait", "woken", "lock", "copy", "clear", "return", "crashed"}]
          /\ rd'[r] = "copy"
          /\ \A q \in Readers : q # r => rd'[q] = rd[q]
      BY <3>1 DEF PseInv, LockInv, GotoRd
    <3>3. \A q \in Readers : rd[q] \notin {"copy", "clear"}
      BY <3>1, OwnerAssumption DEF PseInv, LockInv
    <3>4. ~Recycling /\ ~Recycling'
      BY <3>2, <3>3 DEF Recycling
    <3>5. LockInv'
      BY <3>1, <3>2, <3>3 DEF LockInv
    <3>6. QED
      BY <3>1, <3>4, <3>5 DEF PseInv, HoldsWhatItShows
  <2>3. CASE ReadNull(r) \/ ReadRefused(r) \/ ReadPart(r)
    <3>1. PICK l \in {"user", "return", "crashed"} : GotoRd(r, l) /\ rd[r] = "copy"
      BY <2>3 DEF ReadNull, ReadRefused, ReadPart
    <3>2. UNCHANGED <<pseRb, held>> /\ (lock' = lock \/ lock' = None)
      BY <2>3 DEF ReadNull, ReadRefused, ReadPart, vars
    <3>3. QED
      BY <3>1, <3>2, ReaderMoves
  <2>4. CASE ReadRest(r)
    <3>1. /\ rd[r] = "copy" /\ pseRb # None /\ GotoRd(r, "clear")
          /\ held' = held \ {pseRb} /\ UNCHANGED <<pseRb, lock>>
      BY <2>4 DEF ReadRest, RecycleFree
    <3>2. /\ rd' \in [Readers -> {"user", "wait", "woken", "lock", "copy", "clear", "return", "crashed"}]
          /\ rd'[r] = "clear"
          /\ \A q \in Readers : q # r => rd'[q] = rd[q]
      BY <3>1 DEF PseInv, LockInv, GotoRd
    <3>3. held' = {}
      BY <3>1, OneRecycler DEF PseInv, HoldsWhatItShows, Recycling
    <3>4. LockInv'
      BY <3>1, <3>2 DEF PseInv, LockInv
    <3>5. QED
      BY <3>2, <3>3, <3>4 DEF PseInv, HoldsWhatItShows, Recycling
  <2>5. CASE ReadRecycles(r)
    BY <1>1, <2>5, HeldStays DEF ReadRecycles, readVars, places, Readers
  <2>6. CASE ReadClear(r)
    <3>1. /\ rd[r] = "clear" /\ GotoRd(r, "return") /\ pseRb' = None /\ lock' = None
          /\ held' = held
      BY <2>6 DEF ReadClear, vars
    <3>2. /\ rd' \in [Readers -> {"user", "wait", "woken", "lock", "copy", "clear", "return", "crashed"}]
          /\ rd'[r] = "return"
          /\ \A q \in Readers : q # r => rd'[q] = rd[q]
      BY <3>1 DEF PseInv, LockInv, GotoRd
    <3>3. \A q \in Readers : rd'[q] \notin {"copy", "clear"}
      BY <3>1, <3>2, OneRecycler DEF PseInv
    <3>4. held' = {}
      BY <3>1 DEF PseInv, Recycling
    <3>5. QED
      BY <3>1, <3>2, <3>3, <3>4 DEF PseInv, LockInv, HoldsWhatItShows, Recycling
  <2>7. QED
    BY <1>6, <2>1, <2>2, <2>3, <2>4, <2>5, <2>6 DEF Read, ReadWithLock
<1>7. CASE UNCHANGED pseVars
  BY <1>1, <1>7 DEF pseVars, vars, readVars, places
<1>8. QED
  BY <1>2, <1>3, <1>4, <1>5, <1>6, <1>7 DEF PseNext, Event

(***************************************************************************)
(* The buffer in pse_rb.rb is the only one the driver has, whatever the    *)
(* number of readers: none is taken and forgotten, none used after it was  *)
(* given back.                                                             *)
(***************************************************************************)
THEOREM DriverHoldsOne == PseSpec => []HoldsWhatItShows
<1>1. PseInv => HoldsWhatItShows
  BY DEF PseInv
<1>2. QED
  BY <1>1, PseInvInit, PseInvStep, PseTypes, PTL DEF PseSpec
-----------------------------------------------------------------------------
ReaderStates == {"user", "wait", "woken", "lock", "copy", "clear", "return", "crashed"}

\* The types of what the readers have.
ReadTypes ==
    /\ rd \in [Readers -> ReaderStates]
    /\ fpos \in Nat
    /\ off \in [Readers -> Nat]
    /\ got \in Seq(Nat \X Nat)
    /\ msgsRead \in Nat

PseTypeInv ==
    /\ ReadTypes
    /\ pseRb \in Rbs \cup {None}
    /\ waitException \in BOOLEAN
    /\ lock \in Readers \cup {None}
    /\ inCallback \in BOOLEAN
    /\ seen \subseteq PseMarks

(***************************************************************************)
(* A part of what is in a buffer, and what the user has with it.           *)
(***************************************************************************)
LEMMA CopyTypes ==
    ASSUME got \in Seq(Nat \X Nat), NEW c \in Seq(Nat \X Nat), NEW a \in Nat, NEW b \in Nat,
           a < b, b <= Len(c)
    PROVE  /\ got \o SubSeq(c, a + 1, b) \in Seq(Nat \X Nat)
           /\ Len(got \o SubSeq(c, a + 1, b)) = Len(got) + (b - a)
           /\ \A i \in 1 .. Len(got) : (got \o SubSeq(c, a + 1, b))[i] = got[i]
           /\ \A i \in 1 .. b - a : (got \o SubSeq(c, a + 1, b))[Len(got) + i] = c[a + i]
<1> DEFINE part == SubSeq(c, a + 1, b)
<1>1. Len(c) \in Nat /\ \A i \in 1 .. Len(c) : c[i] \in Nat \X Nat
  BY LenProperties
<1>2. \A i \in a + 1 .. b : c[i] \in Nat \X Nat
  BY <1>1
<1>3. /\ part \in Seq(Nat \X Nat) /\ Len(part) = b - a
      /\ \A i \in 1 .. b - a : part[i] = c[a + i]
  <2>1. /\ part \in Seq(Nat \X Nat)
        /\ Len(part) = (IF a + 1 <= b THEN b - (a + 1) + 1 ELSE 0)
        /\ \A i \in 1 .. b - (a + 1) + 1 : part[i] = c[a + 1 + i - 1]
    BY <1>2, SubSeqProperties
  <2>2. b - (a + 1) + 1 = b - a /\ a + 1 <= b /\ \A i \in 1 .. b - a : a + 1 + i - 1 = a + i
    OBVIOUS
  <2> HIDE DEF part
  <2>3. QED
    BY <2>1, <2>2
<1> HIDE DEF part
<1>4. /\ got \o part \in Seq(Nat \X Nat)
      /\ Len(got \o part) = Len(got) + Len(part)
      /\ \A i \in 1 .. Len(got) + Len(part) :
             (got \o part)[i] = IF i <= Len(got) THEN got[i] ELSE part[i - Len(got)]
  <2>1. got \in Seq(Nat \X Nat) /\ part \in Seq(Nat \X Nat)
    BY <1>3
  <2>2. QED
    BY <2>1, ConcatProperties
<1>5. Len(got) \in Nat
  BY LenProperties
<1>6. \A i \in 1 .. b - a : (got \o part)[Len(got) + i] = part[i]
  <2> SUFFICES ASSUME NEW i \in 1 .. b - a PROVE (got \o part)[Len(got) + i] = part[i]
    OBVIOUS
  <2>1. Len(part) = b - a /\ Len(got) \in Nat
    BY <1>3, <1>5
  <2>2. /\ Len(got) + i \in 1 .. Len(got) + Len(part) /\ ~(Len(got) + i <= Len(got))
        /\ Len(got) + i - Len(got) = i
    BY <2>1
  <2> DEFINE k == Len(got) + i
  <2>3. k \in 1 .. Len(got) + Len(part) /\ ~(k <= Len(got)) /\ k - Len(got) = i
    BY <2>2
  <2> HIDE DEF k
  <2>4. (got \o part)[k] = part[k - Len(got)]
    BY <1>4, <2>3
  <2>5. QED
    BY <2>3, <2>4 DEF k
<1>7. \A i \in 1 .. Len(got) : i \in 1 .. Len(got) + Len(part) /\ i <= Len(got)
  BY <1>3, <1>5
<1>8. QED
  BY <1>3, <1>4, <1>6, <1>7 DEF part

(***************************************************************************)
(* The steps of a reader keep the types.                                   *)
(***************************************************************************)
LEMMA ReadTypesStep ==
    ASSUME TypeInv, PseTypeInv, NEW r \in Readers, Read(r)
    PROVE  ReadTypes'
<1> USE DEF PseTypeInv, ReadTypes, ReaderStates, GotoRd
<1>1. CASE ReadNoLock(r)
  <2>1. CASE ReadCall(r)
    BY <2>1 DEF ReadCall
  <2>2. CASE ReadWake(r) \/ ReadTimeout(r) \/ ReadRecheck(r)
    BY <2>2 DEF ReadWake, ReadTimeout, ReadRecheck
  <2>3. CASE ReadReturn(r)
    BY <2>3 DEF ReadReturn
  <2>4. QED
    BY <1>1, <2>1, <2>2, <2>3 DEF ReadNoLock
<1>2. CASE ReadLock(r)
  BY <1>2 DEF ReadLock
<1>3. CASE ReadNull(r) \/ ReadRefused(r)
  BY <1>3 DEF ReadNull, ReadRefused
<1>4. CASE ReadPart(r)
  <2>1. PICK n \in 1 .. MaxFrags :
             /\ off[r] + n < Len(content[pseRb])
             /\ got' = got \o SubSeq(content[pseRb], off[r] + 1, off[r] + n)
             /\ off' = [off EXCEPT ![r] = @ + n]
    BY <1>4 DEF ReadPart
  <2>2. pseRb # None /\ GotoRd(r, "return") /\ UNCHANGED <<fpos, msgsRead>>
    BY <1>4 DEF ReadPart
  <2>3. content[pseRb] \in Seq(Nat \X Nat) /\ off[r] \in Nat /\ n \in Nat \ {0}
    BY <2>2, BoundsAssumption DEF TypeInv, TypeOK
  <2>4. Len(content[pseRb]) \in Nat /\ off[r] + n < Len(content[pseRb])
    BY <2>1, <2>3, LenProperties
  <2>5. off[r] < off[r] + n /\ off[r] + n <= Len(content[pseRb]) /\ off[r] + n \in Nat
    BY <2>3, <2>4
  <2>6. got' \in Seq(Nat \X Nat)
    BY <2>1, <2>3, <2>5, CopyTypes
  <2>7. off' \in [Readers -> Nat]
    BY <2>1, <2>5
  <2>8. QED
    BY <2>2, <2>6, <2>7
<1>5. CASE ReadRest(r)
  <2>1. /\ pseRb # None /\ off[r] <= Len(content[pseRb])
        /\ got' = got \o SubSeq(content[pseRb], off[r] + 1, Len(content[pseRb]))
        /\ GotoRd(r, "clear") /\ UNCHANGED <<fpos, off, msgsRead>>
    BY <1>5 DEF ReadRest
  <2>2. content[pseRb] \in Seq(Nat \X Nat) /\ off[r] \in Nat /\ Len(content[pseRb]) \in Nat
    BY <2>1, LenProperties DEF TypeInv, TypeOK
  <2> DEFINE c == content[pseRb]
             n == Len(c)
  <2>3. ASSUME off[r] < n PROVE got' \in Seq(Nat \X Nat)
    <3>1. c \in Seq(Nat \X Nat) /\ off[r] \in Nat /\ n \in Nat /\ n <= n
      BY <2>2
    <3>2. got \o SubSeq(c, off[r] + 1, n) \in Seq(Nat \X Nat)
      BY <2>3, <3>1, CopyTypes
    <3>3. QED
      BY <2>1, <3>2
  <2>4. ASSUME off[r] = n PROVE got' \in Seq(Nat \X Nat)
    <3>1. SubSeq(content[pseRb], off[r] + 1, Len(content[pseRb])) = <<>>
      BY <2>2, <2>4, SubSeqEmpty
    <3>2. got' = got
      BY <2>1, <3>1, ConcatEmptySeq
    <3>3. QED
      BY <2>1, <3>2
  <2>5. QED
    BY <2>1, <2>2, <2>3, <2>4
<1>6. CASE ReadRecycles(r)
  BY <1>6 DEF ReadRecycles, readVars, places
<1>7. CASE ReadClear(r)
  BY <1>7 DEF ReadClear
<1>8. QED
  BY <1>1, <1>2, <1>3, <1>4, <1>5, <1>6, <1>7 DEF Read, ReadWithLock

(***************************************************************************)
(* Every step of the PSE driver keeps the types.                           *)
(***************************************************************************)
LEMMA PseTypeStep == TypeInv /\ PseTypeInv /\ [PseNext]_pseVars => PseTypeInv'
<1> SUFFICES ASSUME TypeInv, PseTypeInv, [PseNext]_pseVars PROVE PseTypeInv'
  OBVIOUS
<1>1. CASE RecvStep \/ ConnectReads \/ UNCHANGED pseVars
  BY <1>1 DEF RecvStep, ConnectReads, pseVars, readVars, places, PseTypeInv, ReadTypes
<1>2. CASE EventStart \/ EventLeaves
  BY <1>2 DEF EventStart, EventLeaves, readVars, places, See, PseMarks, PseTypeInv, ReadTypes
<1>3. CASE EventTake
  <2>1. pseRb' \in Rbs \cup {None}
    BY <1>3, TailList DEF EventTake, GetRb, TypeInv, TypeOK, PseTypeInv
  <2>2. waitException' \in BOOLEAN
    BY <1>3 DEF EventTake, PseTypeInv
  <2>3. QED
    BY <1>3, <2>1, <2>2 DEF EventTake, places, See, PseMarks, PseTypeInv, ReadTypes
<1>4. ASSUME NEW r \in Readers, Read(r) PROVE PseTypeInv'
  <2>1. ReadTypes'
    BY <1>4, ReadTypesStep
  <2>2. inCallback' = inCallback /\ pseRb' \in {pseRb, None} /\ lock' \in {lock, None, r}
    BY <1>4 DEF Read, ReadNoLock, ReadLock, ReadWithLock, ReadNull, ReadRefused, ReadPart, ReadRest,
                ReadRecycles, ReadClear, ReadCall, ReadWake, ReadTimeout, ReadRecheck, ReadReturn
  <2>3. waitException' = waitException \/ waitException' = FALSE
    BY <1>4 DEF Read, ReadNoLock, ReadLock, ReadWithLock, ReadNull, ReadRefused, ReadPart, ReadRest,
                ReadRecycles, ReadClear, ReadCall, ReadWake, ReadTimeout, ReadRecheck, ReadReturn
  <2>4. seen' \subseteq seen \cup {"oops", "overlapped"}
    BY <1>4 DEF Read, ReadNoLock, ReadLock, ReadWithLock, ReadNull, ReadRefused, ReadPart, ReadRest,
                ReadRecycles, ReadClear, ReadCall, ReadWake, ReadTimeout, ReadRecheck, ReadReturn,
                See, readVars
  <2>5. QED
    BY <2>1, <2>2, <2>3, <2>4 DEF PseTypeInv, PseMarks
<1>5. QED
  BY <1>1, <1>2, <1>3, <1>4 DEF PseNext, Event

LEMMA PseTypeInit == PseInit => PseTypeInv
<1> SUFFICES ASSUME PseInit PROVE PseTypeInv
  OBVIOUS
<1>1. got \in Seq(Nat \X Nat)
  BY EmptySeq DEF PseInit
<1>2. rd \in [Readers -> ReaderStates] /\ off \in [Readers -> Nat]
  BY DEF PseInit, ReaderStates
<1>3. QED
  BY <1>1, <1>2 DEF PseInit, PseTypeInv, ReadTypes

(***************************************************************************)
(* The types of the driver's and of the readers' variables hold in every   *)
(* reachable state.                                                        *)
(***************************************************************************)
THEOREM PseTypeCorrect == PseSpec => []PseTypeOK
<1>1. TypeInv /\ PseTypeInv => PseTypeOK
  BY DEF TypeInv, PseTypeInv, ReadTypes, ReaderStates, PseTypeOK
<1>2. QED
  BY <1>1, PseTypeInit, PseTypeStep, PseTypes, PTL DEF PseSpec
-----------------------------------------------------------------------------
\* While no two threads were in the read call at a time, the one that is past
\* the look at pse_rb.rb finds it as it saw it.
OnlyReader ==
    /\ \A q, r \in Readers : rd[q] # "user" /\ rd[r] # "user" => q = r
    /\ \A r \in Readers : rd[r] \in {"lock", "copy", "clear"} => pseRb # None
    /\ "oops" \notin seen

NullInv == "overlapped" \in seen \/ OnlyReader

(***************************************************************************)
(* What happened stays in the history.                                     *)
(***************************************************************************)
LEMMA SeenStays == [PseNext]_pseVars => seen \subseteq seen'
<1> SUFFICES ASSUME [PseNext]_pseVars PROVE seen \subseteq seen'
  OBVIOUS
<1>1. CASE RecvStep \/ ConnectReads \/ Event \/ UNCHANGED pseVars
  BY <1>1 DEF RecvStep, ConnectReads, Event, EventStart, EventTake, EventLeaves, See,
              pseVars, readVars
<1>2. ASSUME NEW r \in Readers, Read(r) PROVE seen \subseteq seen'
  BY <1>2 DEF Read, ReadNoLock, ReadLock, ReadWithLock, ReadNull, ReadRefused, ReadPart, ReadRest,
              ReadRecycles, ReadClear, ReadCall, ReadWake, ReadTimeout, ReadRecheck, ReadReturn,
              See, readVars
<1>3. QED
  BY <1>1, <1>2 DEF PseNext

(***************************************************************************)
(* A thread that goes on in the read call, or leaves it.                   *)
(***************************************************************************)
LEMMA OnlyReaderMoves ==
    ASSUME OnlyReader, rd \in [Readers -> ReaderStates], NEW r \in Readers, NEW l \in ReaderStates,
           rd[r] # "user" \/ \A q \in Readers : rd[q] = "user",
           GotoRd(r, l), l \in {"lock", "copy", "clear"} => pseRb' # None,
           pseRb' = pseRb \/ l = "return", seen' \subseteq seen \cup {"overlapped"}
    PROVE  OnlyReader'
<1>1. rd'[r] = l /\ \A q \in Readers : q # r => rd'[q] = rd[q]
  BY DEF GotoRd
<1>2. \A q \in Readers : q # r => rd[q] = "user"
  BY DEF OnlyReader
<1>3. QED
  BY <1>1, <1>2 DEF OnlyReader

(***************************************************************************)
(* The steps of the readers.                                               *)
(***************************************************************************)
LEMMA OnlyReaderReads ==
    ASSUME PseTypeInv, OnlyReader, NEW r \in Readers, Read(r)
    PROVE  NullInv'
<1> SUFFICES ASSUME "overlapped" \notin seen' PROVE OnlyReader'
  BY DEF NullInv
<1>0. rd \in [Readers -> ReaderStates]
  BY DEF PseTypeInv, ReadTypes
<1>1. CASE ReadCall(r)
  <2>1. \A q \in Readers : rd[q] = "user"
    BY <1>1 DEF ReadCall, See
  <2>2. PICK l \in {"wait", "lock"} : GotoRd(r, l) /\ (l = "lock" => pseRb # None)
    BY <1>1 DEF ReadCall
  <2>3. pseRb' = pseRb /\ seen' \subseteq seen \cup {"overlapped"}
    BY <1>1 DEF ReadCall, See
  <2>4. QED
    BY <1>0, <2>1, <2>2, <2>3, OnlyReaderMoves DEF ReaderStates
<1>2. CASE ReadWake(r) \/ ReadTimeout(r) \/ ReadRecheck(r) \/ ReadReturn(r)
  <2>1. PICK l \in {"woken", "user", "lock"} :
             GotoRd(r, l) /\ rd[r] # "user" /\ (l = "lock" => pseRb # None)
    BY <1>2 DEF ReadWake, ReadTimeout, ReadRecheck, ReadReturn
  <2>2. pseRb' = pseRb /\ seen' = seen
    BY <1>2 DEF ReadWake, ReadTimeout, ReadRecheck, ReadReturn
  <2>3. QED
    BY <1>0, <2>1, <2>2, OnlyReaderMoves DEF ReaderStates
<1>3. CASE ReadNull(r)
  BY <1>3 DEF ReadNull, OnlyReader
<1>4. CASE ReadLock(r) \/ ReadRefused(r) \/ ReadPart(r) \/ ReadRest(r)
  <2>1. PICK l \in {"copy", "user", "return", "clear"} :
             GotoRd(r, l) /\ rd[r] \in {"lock", "copy"}
    BY <1>4 DEF ReadLock, ReadRefused, ReadPart, ReadRest
  <2>2. pseRb' = pseRb /\ seen' = seen
    BY <1>4 DEF ReadLock, ReadRefused, ReadPart, ReadRest
  <2>3. pseRb # None
    BY <2>1 DEF OnlyReader
  <2>4. QED
    BY <1>0, <2>1, <2>2, <2>3, OnlyReaderMoves DEF ReaderStates
<1>5. CASE ReadRecycles(r)
  BY <1>5 DEF ReadRecycles, readVars, places, OnlyReader
<1>6. CASE ReadClear(r)
  <2>1. rd[r] = "clear" /\ GotoRd(r, "return") /\ seen' = seen
    BY <1>6 DEF ReadClear
  <2>2. QED
    BY <1>0, <2>1, OnlyReaderMoves DEF ReaderStates
<1>7. QED
  BY <1>1, <1>2, <1>3, <1>4, <1>5, <1>6 DEF Read, ReadNoLock, ReadWithLock

LEMMA NullStep == TypeInv /\ PseTypeInv /\ NullInv /\ [PseNext]_pseVars => NullInv'
<1> SUFFICES ASSUME TypeInv, PseTypeInv, NullInv, [PseNext]_pseVars PROVE NullInv'
  OBVIOUS
<1>1. CASE "overlapped" \in seen
  BY <1>1, SeenStays DEF NullInv
<1>2. CASE OnlyReader
  <2>1. CASE RecvStep \/ ConnectReads \/ EventStart \/ UNCHANGED pseVars
    BY <1>2, <2>1 DEF RecvStep, ConnectReads, EventStart, pseVars, readVars, places,
                      OnlyReader, NullInv
  <2>2. CASE EventTake \/ EventLeaves
    <3>1. rd' = rd /\ seen' \subseteq seen \cup {"left"}
      BY <2>2 DEF EventTake, EventLeaves, places, See
    <3>2. pseRb # None => pseRb' = pseRb
      BY <2>2 DEF EventTake, EventLeaves
    <3>3. QED
      BY <1>2, <3>1, <3>2 DEF OnlyReader, NullInv
  <2>3. ASSUME NEW r \in Readers, Read(r) PROVE NullInv'
    BY <1>2, <2>3, OnlyReaderReads
  <2>4. QED
    BY <2>1, <2>2, <2>3 DEF PseNext, Event
<1>3. QED
  BY <1>1, <1>2 DEF NullInv

LEMMA NullInit == PseInit => NullInv
BY DEF PseInit, NullInv, OnlyReader

(***************************************************************************)
(* A reader never finds the buffer gone that made it stop waiting, unless  *)
(* another thread was in the call, although it looks without the lock.     *)
(***************************************************************************)
THEOREM ReaderFindsBuffer == PseSpec => []NoNullRead
<1>1. NullInv => NoNullRead
  BY DEF NullInv, OnlyReader, NoNullRead
<1>2. QED
  BY <1>1, NullInit, NullStep, PseTypeInit, PseTypeStep, PseTypes, PTL DEF PseSpec
-----------------------------------------------------------------------------
(***************************************************************************)
(* Where the user is: the fragment to read next.  A place in a message is  *)
(* right if that is the fragment behind it.                                *)
(***************************************************************************)
NextGot == IF got = <<>> THEN <<1, 1>> ELSE After(got[Len(got)])

RightPlace(pos) ==
    /\ NextGot = <<msgsRead + 1, pos + 1>>
    /\ pos > 0 => msgsRead < Sent /\ pos < sizes[msgsRead + 1]

BufferRight ==
    /\ Taken = msgsRead + (IF pseRb = None THEN 0 ELSE 1)
    /\ pseRb # None /\ ~Recycling => Filled(content[pseRb], msgsRead + 1, sizes[msgsRead + 1])

PlacesRight ==
    /\ (\A r \in Readers : rd[r] = "user") => RightPlace(fpos)
    /\ \A r \in Readers :
           /\ rd[r] \in {"wait", "woken", "lock", "copy"} => off[r] = fpos /\ RightPlace(fpos)
           /\ rd[r] = "return" => RightPlace(off[r])
           /\ rd[r] = "clear" => NextGot = <<msgsRead + 2, 1>>

GotInv   == GotInOrder /\ BufferRight /\ PlacesRight
OrderInv == "overlapped" \notin seen /\ undone = {} => GotInv

(***************************************************************************)
(* What the user has stays in order while the firmware sends more.         *)
(***************************************************************************)
LEMMA OrderKept ==
    ASSUME TypeInv, ReadTypes, GotInOrder, got' = got, msgsRead' = msgsRead,
           Sent' >= Sent, Sent' \in Nat, \A m \in 1 .. Sent : sizes'[m] = sizes[m]
    PROVE  /\ GotInOrder'
           /\ NextGot' = NextGot
           /\ \A pos \in Nat : RightPlace(pos) => RightPlace(pos)'
<1>1. Sent \in Nat /\ Len(got) \in Nat /\ DOMAIN got = 1 .. Len(got)
      /\ (Len(got) = 0 <=> got = <<>>)
  BY Counts, LenProperties, EmptySeq DEF ReadTypes
<1>2. \A i \in DOMAIN got : After(got[i])' = After(got[i])
  BY DEF GotInOrder, After
<1>3. GotInOrder'
  <2> SUFFICES ASSUME NEW i \in DOMAIN got
               PROVE  /\ got[i][1] \in 1 .. Sent'
                      /\ got[i][2] \in 1 .. sizes'[got[i][1]]
                      /\ got[i] = IF i = 1 THEN <<1, 1>> ELSE After(got[i - 1])'
    BY DEF GotInOrder
  <2>1. got[i][1] \in 1 .. Sent /\ got[i][2] \in 1 .. sizes[got[i][1]]
    BY DEF GotInOrder
  <2>2. got[i] = IF i = 1 THEN <<1, 1>> ELSE After(got[i - 1])
    BY DEF GotInOrder
  <2>3. i # 1 => i - 1 \in DOMAIN got
    BY <1>1
  <2>4. got[i][1] \in 1 .. Sent'
    BY <1>1, <2>1
  <2>5. got[i][2] \in 1 .. sizes'[got[i][1]]
    BY <2>1
  <2>6. i # 1 => After(got[i - 1])' = After(got[i - 1])
    BY <1>2, <2>3
  <2>7. QED
    BY <2>2, <2>4, <2>5, <2>6
<1>4. NextGot' = NextGot
  BY <1>1, <1>2 DEF NextGot
<1>5. \A pos \in Nat : RightPlace(pos) => RightPlace(pos)'
  <2> SUFFICES ASSUME NEW pos \in Nat, RightPlace(pos) PROVE RightPlace(pos)'
    OBVIOUS
  <2>1. pos > 0 => msgsRead + 1 \in 1 .. Sent /\ msgsRead < Sent'
    BY <1>1 DEF RightPlace, ReadTypes
  <2>2. pos > 0 => pos < sizes'[msgsRead + 1]
    BY <2>1 DEF RightPlace
  <2>3. QED
    BY <1>4, <2>1, <2>2 DEF RightPlace
<1>6. QED
  BY <1>3, <1>4, <1>5

(***************************************************************************)
(* The fragment behind the k-th of message m.                              *)
(***************************************************************************)
LEMMA AfterPlace ==
    ASSUME NEW m \in Nat, NEW k \in Nat
    PROVE  /\ k = sizes[m] => After(<<m, k>>) = <<m + 1, 1>>
           /\ k # sizes[m] => After(<<m, k>>) = <<m, k + 1>>
BY DEF After

(***************************************************************************)
(* An index behind the first n.                                            *)
(***************************************************************************)
LEMMA IndexBehind ==
    ASSUME NEW n \in Nat, NEW d \in Nat, NEW i \in 1 .. n + d, i \notin 1 .. n
    PROVE  \E j \in 1 .. d :
               /\ n + j = i
               /\ j = 1 => (i = 1 <=> n = 0) /\ i - 1 = n
               /\ j # 1 => j - 1 \in 1 .. d /\ n + (j - 1) = i - 1 /\ i # 1
<1>1. i - n \in 1 .. d /\ n + (i - n) = i
  OBVIOUS
<1>2. i - n = 1 => (i = 1 <=> n = 0) /\ i - 1 = n
  OBVIOUS
<1>3. i - n # 1 => (i - n) - 1 \in 1 .. d /\ n + ((i - n) - 1) = i - 1 /\ i # 1
  OBVIOUS
<1>4. QED
  BY <1>1, <1>2, <1>3

(***************************************************************************)
(* g is what the user has, n fragments, and behind it the fragments a + 1  *)
(* to a + d of message m, which are in order there.                        *)
(***************************************************************************)
Continues(g, n, m, a, d) ==
    /\ DOMAIN got = 1 .. n
    /\ (IF n = 0 THEN <<1, 1>> ELSE After(got[n])) = <<m, a + 1>>
    /\ \A i \in 1 .. n : g[i] = got[i]
    /\ \A i \in 1 .. d : g[n + i] = <<m, a + i>>

OrderAt(g, i) ==
    /\ g[i][1] \in 1 .. Sent
    /\ g[i][2] \in 1 .. sizes[g[i][1]]
    /\ g[i] = IF i = 1 THEN <<1, 1>> ELSE After(g[i - 1])

LEMMA InOrderBehind ==
    ASSUME GotInOrder, Sent \in Nat, NEW m \in 1 .. Sent, sizes[m] \in Nat,
           NEW n \in Nat, NEW a \in Nat, NEW d \in Nat, a + d <= sizes[m],
           NEW g, Continues(g, n, m, a, d), NEW i \in 1 .. n + d
    PROVE  OrderAt(g, i)
<1>1. CASE i \in 1 .. n
  <2>1. g[i] = got[i] /\ (i # 1 => g[i - 1] = got[i - 1]) /\ i \in DOMAIN got
    BY <1>1 DEF Continues
  <2>2. /\ got[i][1] \in 1 .. Sent
        /\ got[i][2] \in 1 .. sizes[got[i][1]]
        /\ got[i] = IF i = 1 THEN <<1, 1>> ELSE After(got[i - 1])
    BY <2>1, Zenon DEF GotInOrder
  <2>3. QED
    BY <2>1, <2>2 DEF OrderAt
<1>2. CASE i \notin 1 .. n
  <2>1. PICK j \in 1 .. d :
             /\ n + j = i
             /\ j = 1 => (i = 1 <=> n = 0) /\ i - 1 = n
             /\ j # 1 => j - 1 \in 1 .. d /\ n + (j - 1) = i - 1 /\ i # 1
    BY <1>2, IndexBehind
  <2>2. a + j \in 1 .. sizes[m]
    OBVIOUS
  <2>3. g[i] = <<m, a + j>>
    BY <2>1 DEF Continues
  <2>4. CASE j = 1
    <3>1. (i = 1 <=> n = 0) /\ i - 1 = n
      BY <2>1, <2>4
    <3>2. n # 0 => g[i - 1] = got[n]
      BY <3>1 DEF Continues
    <3>3. g[i] = IF n = 0 THEN <<1, 1>> ELSE After(got[n])
      BY <2>3, <2>4 DEF Continues
    <3>4. g[i] = IF i = 1 THEN <<1, 1>> ELSE After(g[i - 1])
      <4>1. CASE n = 0
        BY <3>1, <3>3, <4>1
      <4>2. CASE n # 0
        BY <3>1, <3>2, <3>3, <4>2
      <4>3. QED
        BY <4>1, <4>2
    <3>5. g[i][1] \in 1 .. Sent /\ g[i][2] \in 1 .. sizes[g[i][1]]
      BY <2>2, <2>3
    <3>6. QED
      BY <3>4, <3>5, Zenon DEF OrderAt
  <2>5. CASE j # 1
    <3>1. j - 1 \in 1 .. d /\ n + (j - 1) = i - 1 /\ i # 1
      BY <2>1, <2>5
    <3> DEFINE k == a + (j - 1)
    <3>2. k \in Nat /\ k # sizes[m] /\ k + 1 = a + j /\ m \in Nat
      <4>1. j \in Nat \ {0, 1} /\ a + j <= sizes[m]
        BY <2>2, <2>5
      <4>2. k \in Nat /\ k + 1 = a + j
        BY <4>1
      <4>3. k # sizes[m]
        BY <4>1, <4>2
      <4>4. m \in Nat
        OBVIOUS
      <4>5. QED
        BY <4>2, <4>3, <4>4
    <3>3. g[i - 1] = <<m, k>>
      BY <3>1 DEF Continues
    <3> HIDE DEF k
    <3>4. After(<<m, k>>) = <<m, k + 1>>
      BY <3>2, AfterPlace
    <3>5. g[i] = After(g[i - 1])
      BY <2>3, <3>2, <3>3, <3>4
    <3>6. g[i][1] \in 1 .. Sent /\ g[i][2] \in 1 .. sizes[g[i][1]]
      BY <2>2, <2>3
    <3>7. i # 1
      BY <3>1
    <3>8. QED
      BY <3>5, <3>6, <3>7, Zenon DEF OrderAt
  <2>6. QED
    BY <2>4, <2>5
<1>3. QED
  BY <1>1, <1>2

(***************************************************************************)
(* A part of the message behind the place of the user.                     *)
(***************************************************************************)
LEMMA CopyMore ==
    ASSUME TypeInv, ContentInv, ReadTypes, GotInOrder, UNCHANGED sizes,
           NEW c \in Seq(Nat \X Nat), NEW m \in 1 .. Sent, Filled(c, m, sizes[m]),
           NEW a \in Nat, NEW b \in Nat, a < b, b <= sizes[m],
           NextGot = <<m, a + 1>>, got' = got \o SubSeq(c, a + 1, b)
    PROVE  /\ GotInOrder'
           /\ NextGot' = IF b = sizes[m] THEN <<m + 1, 1>> ELSE <<m, b + 1>>
<1> DEFINE g == got'
           n == Len(got)
           d == b - a
<1>1. n \in Nat /\ DOMAIN got = 1 .. n /\ (n = 0 <=> got = <<>>)
  BY LenProperties, EmptySeq DEF ReadTypes
<1>2. sizes[m] \in Nat /\ Len(c) = sizes[m] /\ \A i \in 1 .. sizes[m] : c[i] = <<m, i>>
  BY DEF ContentInv, Filled
<1>3. d \in Nat \ {0} /\ a + d = b /\ a + d <= sizes[m]
  OBVIOUS
<1>4. /\ g \in Seq(Nat \X Nat) /\ Len(g) = n + d
      /\ \A i \in 1 .. n : g[i] = got[i]
      /\ \A i \in 1 .. d : g[n + i] = c[a + i]
  <2>1. got \in Seq(Nat \X Nat) /\ b <= Len(c)
    BY <1>2 DEF ReadTypes
  <2>2. QED
    BY <2>1, CopyTypes
<1> HIDE DEF g, n, d
<1>5. \A i \in 1 .. d : g[n + i] = <<m, a + i>>
  <2>1. \A i \in 1 .. d : a + i \in 1 .. sizes[m]
    BY <1>2, <1>3
  <2>2. QED
    BY <1>2, <1>4, <2>1
<1>6. Sent \in Nat /\ Sent' = Sent /\ m \in Nat
  BY Counts DEF Sent
<1>7. (IF n = 0 THEN <<1, 1>> ELSE After(got[n])) = <<m, a + 1>>
  BY <1>1 DEF NextGot, n
<1>8. DOMAIN g = 1 .. n + d /\ Len(g) \in Nat
  BY <1>4, LenProperties
<1>9. GotInOrder'
  <2>1. Continues(g, n, m, a, d)
    BY <1>1, <1>4, <1>5, <1>7 DEF Continues
  <2>2. \A i \in 1 .. n + d : OrderAt(g, i)
    BY <1>1, <1>2, <1>3, <1>6, <2>1, InOrderBehind
  <2>3. QED
    BY <1>6, <1>8, <2>2 DEF GotInOrder, OrderAt, After, g
<1>10. NextGot' = IF b = sizes[m] THEN <<m + 1, 1>> ELSE <<m, b + 1>>
  <2>1. n \in Nat /\ d \in Nat \ {0} /\ Len(g) = n + d
    BY <1>1, <1>3, <1>4
  <2>2. d \in 1 .. d /\ Len(g) # 0
    BY <2>1
  <2>3. g[Len(g)] = <<m, b>>
    BY <1>3, <1>5, <2>1, <2>2
  <2>4. g # <<>>
    BY <2>2, EmptySeq
  <2>5. NextGot' = After(<<m, b>>)'
    BY <2>3, <2>4 DEF NextGot, g
  <2>6. After(<<m, b>>)' = After(<<m, b>>)
    BY DEF After
  <2>7. QED
    BY <1>6, <2>5, <2>6, AfterPlace
<1>11. QED
  BY <1>9, <1>10

(***************************************************************************)
(* The messages the driver was given were sent.                            *)
(***************************************************************************)
LEMMA TakenSent ==
    ASSUME TypeInv, ContentInv
    PROVE  Taken \in Nat /\ Sent \in Nat /\ Taken <= Sent
BY Counts DEF ContentInv, Taken, Arriving

(***************************************************************************)
(* Whatever the client does below the driver, the message in pse_rb.rb and *)
(* the place of the user stay.                                             *)
(***************************************************************************)
LEMMA OrderBelow ==
    ASSUME TypeInv, TypeInv', LabelsOK, PlacesInv, ContentInv, PseTypeInv, PseInv,
           GotInv, Below, "strayed" \notin undone', UNCHANGED <<pseRb, places>>
    PROVE  GotInv'
<1>1. /\ Taken' = Taken /\ Sent' >= Sent /\ Sent' \in Nat
      /\ \A m \in 1 .. Sent : sizes'[m] = sizes[m]
      /\ \A b \in held : content'[b] = content[b]
  <2>1. Sent' \in Nat
    BY LenProperties DEF Sent, TypeInv, TypeOK
  <2>2. QED
    BY <2>1, BelowKeeps
<1>2. UNCHANGED <<pseRb, rd, fpos, off, got, msgsRead>>
  BY DEF places
<1>3. ReadTypes
  BY DEF PseTypeInv
<1>4. /\ GotInOrder'
      /\ NextGot' = NextGot
      /\ \A pos \in Nat : RightPlace(pos) => RightPlace(pos)'
  BY <1>1, <1>2, <1>3, OrderKept DEF GotInv
<1>5. Recycling' <=> Recycling
  BY <1>2 DEF Recycling
<1>6. BufferRight'
  <2>1. Taken' = msgsRead' + (IF pseRb' = None THEN 0 ELSE 1)
    BY <1>1, <1>2 DEF GotInv, BufferRight
  <2>2. ASSUME pseRb # None, ~Recycling
        PROVE  Filled(content'[pseRb], msgsRead + 1, sizes'[msgsRead + 1])
    <3>1. pseRb \in held
      BY <2>2 DEF PseInv, HoldsWhatItShows
    <3>2. Filled(content[pseRb], msgsRead + 1, sizes[msgsRead + 1])
      BY <2>2 DEF GotInv, BufferRight
    <3>3. Taken = msgsRead + 1
      BY <2>2 DEF GotInv, BufferRight
    <3>4. msgsRead + 1 \in 1 .. Sent
      BY <1>3, <3>3, TakenSent DEF ReadTypes
    <3>5. QED
      BY <1>1, <3>1, <3>2, <3>4
  <2>3. QED
    BY <1>2, <1>5, <2>1, <2>2 DEF BufferRight
<1>7. PlacesRight'
  BY <1>2, <1>3, <1>4 DEF GotInv, PlacesRight, ReadTypes
<1>8. QED
  BY <1>4, <1>6, <1>7 DEF GotInv

(***************************************************************************)
(* The event callback gives the readers the next message.                  *)
(***************************************************************************)
LEMMA OrderEvent ==
    ASSUME TypeInv, ContentInv, PseTypeInv, OnlyReader, GotInv, Event
    PROVE  GotInv'
<1>1. UNCHANGED <<rd, fpos, off, got, msgsRead, sizes, content>>
  BY DEF Event, EventStart, EventTake, EventLeaves, EventWork, GetRb, readVars, places, vars, fwVars
<1>2. Sent' = Sent /\ NextGot' = NextGot /\ GotInOrder'
  BY <1>1 DEF Sent, NextGot, GotInOrder, GotInv, After
<1>3. PlacesRight'
  BY <1>1, <1>2 DEF GotInv, PlacesRight, RightPlace
<1>4. CASE UNCHANGED <<pseRb, inProcess, pc>>
  <2>1. Taken' = Taken /\ (Recycling' <=> Recycling)
    BY <1>1, <1>2, <1>4 DEF Taken, Arriving, Recycling
  <2>2. BufferRight'
    BY <1>1, <1>4, <2>1 DEF GotInv, BufferRight
  <2>3. QED
    BY <1>2, <1>3, <2>2 DEF GotInv
<1>5. CASE EventTake /\ inProcess # <<>>
  <2>1. pseRb = None /\ GetRb /\ pseRb' = Head(inProcess)
    BY <1>5 DEF EventTake
  <2>2. Taken' = Taken + 1 /\ Taken = msgsRead
    BY <2>1, ContentDriver, TakenSent DEF GotInv, BufferRight, PseTypeInv, ReadTypes
  <2>3. Head(inProcess) = inProcess[1] /\ 1 \in DOMAIN inProcess /\ Head(inProcess) # None
    BY <1>5, TailElements, TailList, ContextsAssumption DEF TypeInv, TypeOK
  <2>4. Filled(content[inProcess[1]], Taken + 1, sizes[Taken + 1])
    BY <2>3 DEF ContentInv, InProcessWhole
  <2>5. BufferRight'
    BY <1>1, <2>1, <2>2, <2>3, <2>4 DEF BufferRight
  <2>6. QED
    BY <1>2, <1>3, <2>5 DEF GotInv
<1>6. QED
  BY <1>4, <1>5 DEF Event, EventStart, EventTake, EventLeaves, EventWork, vars

(***************************************************************************)
(* The only reader moves: its place must be right where it comes to.       *)
(***************************************************************************)
LEMMA PlacesMove ==
    ASSUME rd \in [Readers -> ReaderStates], NEW r \in Readers, NEW l \in ReaderStates,
           GotoRd(r, l), \A q \in Readers : q # r => rd[q] = "user",
           l = "user" => RightPlace(fpos)',
           l \in {"wait", "woken", "lock", "copy"} => off'[r] = fpos' /\ RightPlace(fpos)',
           l = "return" => RightPlace(off[r])',
           l = "clear" => NextGot' = <<msgsRead' + 2, 1>>
    PROVE  PlacesRight'
<1>1. rd'[r] = l /\ \A q \in Readers : q # r => rd'[q] = "user"
  BY DEF GotoRd
<1>2. QED
  BY <1>1 DEF PlacesRight

(***************************************************************************)
(* A step of a reader that copies nothing and leaves the buffer alone.     *)
(***************************************************************************)
LEMMA OrderMoves ==
    ASSUME PseTypeInv, GotInv, NEW r \in Readers, NEW l \in ReaderStates \ {"clear", "return"},
           GotoRd(r, l), rd[r] # "clear", \A q \in Readers : q # r => rd[q] = "user",
           UNCHANGED <<vars, pseRb, got, msgsRead>>, RightPlace(fpos'),
           l # "user" => off'[r] = fpos'
    PROVE  GotInv'
<1>1. UNCHANGED <<sizes, content, inProcess, pc, pseRb, got, msgsRead>>
  BY DEF vars
<1>2. Sent' = Sent /\ NextGot' = NextGot /\ GotInOrder' /\ Taken' = Taken
  BY <1>1 DEF Sent, NextGot, GotInOrder, GotInv, After, Taken, Arriving
<1>3. RightPlace(fpos)'
  BY <1>1, <1>2 DEF RightPlace
<1>4. rd \in [Readers -> ReaderStates]
  BY DEF PseTypeInv, ReadTypes
<1>5. PlacesRight'
  BY <1>3, <1>4, PlacesMove DEF ReaderStates
<1>6. ~Recycling
  BY DEF Recycling
<1>7. BufferRight'
  BY <1>1, <1>2, <1>6 DEF GotInv, BufferRight
<1>8. QED
  BY <1>2, <1>5, <1>7 DEF GotInv

(***************************************************************************)
(* What a reader finds that holds the lock and is about to copy: the       *)
(* message it reads, and its place in it.                                  *)
(***************************************************************************)
LEMMA CopyPlace ==
    ASSUME TypeInv, ContentInv, PseTypeInv, OnlyReader, GotInv, NEW r \in Readers, rd[r] = "copy"
    PROVE  LET m == msgsRead + 1
           IN  /\ m \in 1 .. Sent /\ Taken = m
               /\ content[pseRb] \in Seq(Nat \X Nat) /\ Filled(content[pseRb], m, sizes[m])
               /\ off[r] \in Nat /\ off[r] < sizes[m] /\ sizes[m] \in Nat
               /\ NextGot = <<m, off[r] + 1>>
<1> DEFINE m == msgsRead + 1
<1>1. pseRb # None /\ ~Recycling
  BY DEF OnlyReader, Recycling
<1>2. Taken = m /\ Filled(content[pseRb], m, sizes[m])
  BY <1>1 DEF GotInv, BufferRight
<1>3. m \in 1 .. Sent
  <2>1. msgsRead \in Nat
    BY DEF PseTypeInv, ReadTypes
  <2>2. QED
    BY <1>2, <2>1, TakenSent
<1>4. content[pseRb] \in Seq(Nat \X Nat)
  BY <1>1 DEF PseTypeInv, TypeInv, TypeOK
<1>5. off[r] = fpos /\ RightPlace(fpos) /\ off[r] \in Nat
  BY DEF GotInv, PlacesRight, PseTypeInv, ReadTypes
<1>6. sizes[m] \in Nat \ {0}
  BY <1>3 DEF ContentInv
<1>7. off[r] < sizes[m]
  <2>1. off[r] > 0 => off[r] < sizes[m]
    BY <1>5 DEF RightPlace
  <2>2. QED
    BY <1>5, <1>6, <2>1
<1>8. NextGot = <<m, off[r] + 1>>
  BY <1>5 DEF RightPlace
<1>9. QED
  BY <1>2, <1>3, <1>4, <1>5, <1>6, <1>7, <1>8

(***************************************************************************)
(* The steps of the only reader.                                           *)
(***************************************************************************)
LEMMA OrderReads ==
    ASSUME TypeInv, TypeInv', LabelsOK, PlacesInv, ContentInv, PseTypeInv, PseTypeInv',
           PseInv, OnlyReader, GotInv, "overlapped" \notin seen', "strayed" \notin undone',
           NEW r \in Readers, Read(r)
    PROVE  GotInv'
<1>1. rd \in [Readers -> ReaderStates] /\ msgsRead \in Nat
  BY DEF PseTypeInv, ReadTypes
<1>2. rd[r] # "user" => \A q \in Readers : q # r => rd[q] = "user"
  BY DEF OnlyReader
<1>3. CASE ReadCall(r)
  <2>1. \A q \in Readers : rd[q] = "user"
    BY <1>3 DEF ReadCall, See
  <2>2. RightPlace(fpos)
    BY <2>1 DEF GotInv, PlacesRight
  <2>3. off'[r] = fpos /\ UNCHANGED <<vars, pseRb, got, msgsRead, fpos>>
    BY <1>3 DEF ReadCall, PseTypeInv, ReadTypes
  <2>4. PICK l \in {"wait", "lock"} : GotoRd(r, l)
    BY <1>3 DEF ReadCall
  <2>5. QED
    BY <2>1, <2>2, <2>3, <2>4, OrderMoves DEF ReaderStates
<1>4. CASE ReadWake(r) \/ ReadTimeout(r) \/ ReadRecheck(r) \/ ReadLock(r) \/ ReadRefused(r)
  <2>1. rd[r] \in {"wait", "woken", "lock", "copy"} /\ UNCHANGED <<vars, pseRb, got, msgsRead, fpos, off>>
    BY <1>4 DEF ReadWake, ReadTimeout, ReadRecheck, ReadLock, ReadRefused
  <2>2. PICK l \in {"woken", "user", "lock", "copy"} : GotoRd(r, l)
    BY <1>4 DEF ReadWake, ReadTimeout, ReadRecheck, ReadLock, ReadRefused
  <2>3. RightPlace(fpos) /\ off[r] = fpos
    BY <2>1 DEF GotInv, PlacesRight
  <2>4. QED
    BY <1>2, <2>1, <2>2, <2>3, OrderMoves DEF ReaderStates
<1>5. CASE ReadReturn(r)
  <2>1. /\ rd[r] = "return" /\ fpos' = off[r] /\ GotoRd(r, "user")
        /\ UNCHANGED <<vars, pseRb, got, msgsRead>>
    BY <1>5 DEF ReadReturn
  <2>2. RightPlace(off[r])
    BY <2>1 DEF GotInv, PlacesRight
  <2>3. QED
    BY <1>2, <2>1, <2>2, OrderMoves DEF ReaderStates
<1>6. CASE ReadPart(r)
  <2> DEFINE m == msgsRead + 1
  <2>1. /\ rd[r] = "copy" /\ GotoRd(r, "return")
        /\ UNCHANGED <<vars, pseRb, fpos, msgsRead>>
    BY <1>6 DEF ReadPart
  <2>2. /\ m \in 1 .. Sent /\ Taken = m
        /\ content[pseRb] \in Seq(Nat \X Nat) /\ Filled(content[pseRb], m, sizes[m])
        /\ off[r] \in Nat /\ off[r] < sizes[m] /\ sizes[m] \in Nat
        /\ NextGot = <<m, off[r] + 1>>
    BY <2>1, CopyPlace
  <2>3. PICK n \in 1 .. MaxFrags :
             /\ off[r] + n < Len(content[pseRb])
             /\ got' = got \o SubSeq(content[pseRb], off[r] + 1, off[r] + n)
             /\ off' = [off EXCEPT ![r] = @ + n]
    BY <1>6 DEF ReadPart
  <2> DEFINE b == off[r] + n
  <2>4. /\ off'[r] = b /\ b < sizes[m]
        /\ got' = got \o SubSeq(content[pseRb], off[r] + 1, b)
    BY <2>2, <2>3 DEF PseTypeInv, ReadTypes, Filled
  <2>5. b \in Nat /\ off[r] < b /\ b <= sizes[m] /\ b # sizes[m]
    <3>1. n \in Nat \ {0}
      BY BoundsAssumption
    <3>2. off[r] \in Nat /\ sizes[m] \in Nat /\ b < sizes[m]
      BY <2>2, <2>4
    <3>3. QED
      BY <3>1, <3>2
  <2>6. UNCHANGED <<sizes, content, inProcess, pc>>
    BY <2>1 DEF vars
  <2> HIDE DEF b, m
  <2>7. GotInOrder' /\ NextGot' = <<m, b + 1>>
    <3>1. ReadTypes /\ GotInOrder
      BY DEF PseTypeInv, GotInv
    <3>2. QED
      BY <2>2, <2>4, <2>5, <2>6, <3>1, CopyMore
  <2>8. Sent' = Sent /\ Taken' = Taken
    BY <2>6 DEF Sent, Taken, Arriving
  <2>9. msgsRead < Sent
    BY <1>1, <2>2, TakenSent DEF m
  <2>10. RightPlace(off[r])'
    BY <2>1, <2>4, <2>5, <2>6, <2>7, <2>8, <2>9 DEF RightPlace, m
  <2>11. PlacesRight'
    BY <1>1, <1>2, <2>1, <2>10, PlacesMove DEF ReaderStates
  <2>12. BufferRight'
    <3>1. ~Recycling
      BY <1>2, <2>1 DEF Recycling
    <3>2. QED
      BY <2>1, <2>6, <2>8, <3>1 DEF GotInv, BufferRight
  <2>13. QED
    BY <2>7, <2>11, <2>12 DEF GotInv
<1>7. CASE ReadRest(r)
  <2> DEFINE m == msgsRead + 1
             b == Len(content[pseRb])
  <2>1. /\ rd[r] = "copy" /\ pseRb # None /\ GotoRd(r, "clear") /\ RecycleFree(r, pseRb)
        /\ got' = got \o SubSeq(content[pseRb], off[r] + 1, b)
        /\ UNCHANGED <<pseRb, fpos, off, msgsRead>>
    BY <1>7 DEF ReadRest
  <2>2. /\ m \in 1 .. Sent /\ Taken = m
        /\ content[pseRb] \in Seq(Nat \X Nat) /\ Filled(content[pseRb], m, sizes[m])
        /\ off[r] \in Nat /\ off[r] < sizes[m] /\ sizes[m] \in Nat
        /\ NextGot = <<m, off[r] + 1>>
    BY <2>1, CopyPlace
  <2>3. b = sizes[m] /\ b \in Nat /\ off[r] < b /\ b <= sizes[m]
    BY <2>2 DEF Filled
  <2>4. UNCHANGED <<sizes, inProcess>> /\ Goto(r, "check")
    BY <2>1 DEF RecycleFree, fwVars
  <2> HIDE DEF b, m
  <2>5. GotInOrder' /\ NextGot' = <<m + 1, 1>>
    <3>1. ReadTypes /\ GotInOrder
      BY DEF PseTypeInv, GotInv
    <3>2. QED
      BY <2>1, <2>2, <2>3, <2>4, <3>1, CopyMore
  <2>6. Taken' = Taken
    <3>1. /\ r \in Contexts /\ Isr \in Contexts /\ r # Isr /\ "check" \in Labels
      BY ContextsAssumption DEF Readers, Contexts, Labels
    <3>2. pc'[Isr] = pc[Isr]
      BY <2>4, <3>1, GotoLabel
    <3>3. QED
      BY <2>4, <3>2 DEF Taken, Arriving, Sent
  <2>7. NextGot' = <<msgsRead' + 2, 1>>
    BY <1>1, <2>1, <2>5 DEF m
  <2>8. PlacesRight'
    BY <1>1, <1>2, <2>1, <2>7, PlacesMove DEF ReaderStates
  <2>9. Recycling'
    BY <1>1, <2>1 DEF Recycling, GotoRd
  <2>10. BufferRight'
    BY <2>1, <2>2, <2>6, <2>9 DEF BufferRight, m
  <2>11. QED
    BY <2>5, <2>8, <2>10 DEF GotInv
<1>8. CASE ReadRecycles(r)
  BY <1>8, OrderBelow DEF ReadRecycles, readVars, Below, Readers
<1>9. CASE ReadClear(r)
  <2>1. /\ rd[r] = "clear" /\ GotoRd(r, "return") /\ pseRb' = None
        /\ off' = [off EXCEPT ![r] = 0] /\ msgsRead' = msgsRead + 1
        /\ UNCHANGED <<vars, fpos, got>>
    BY <1>9 DEF ReadClear
  <2>2. pseRb # None /\ NextGot = <<msgsRead + 2, 1>> /\ off'[r] = 0
    BY <2>1 DEF OnlyReader, GotInv, PlacesRight, PseTypeInv, ReadTypes
  <2>3. UNCHANGED <<sizes, content, inProcess, pc, got>>
    BY <2>1 DEF vars
  <2>4. NextGot' = NextGot /\ GotInOrder' /\ Taken' = Taken
    BY <2>3 DEF Sent, NextGot, GotInOrder, GotInv, After, Taken, Arriving
  <2>5. Taken = msgsRead + 1
    BY <2>2 DEF GotInv, BufferRight
  <2>6. BufferRight'
    BY <1>1, <2>1, <2>4, <2>5 DEF BufferRight
  <2>7. RightPlace(off[r])'
    <3>1. msgsRead' + 1 = msgsRead + 2 /\ off'[r] + 1 = 1 /\ ~(off'[r] > 0)
      BY <1>1, <2>1, <2>2
    <3>2. NextGot' = <<msgsRead' + 1, off'[r] + 1>>
      BY <2>2, <2>4, <3>1
    <3>3. QED
      BY <3>1, <3>2 DEF RightPlace
  <2>8. PlacesRight'
    BY <1>1, <1>2, <2>1, <2>7, PlacesMove DEF ReaderStates
  <2>9. QED
    BY <2>4, <2>6, <2>8 DEF GotInv
<1>10. CASE ReadNull(r)
  BY <1>10 DEF ReadNull, OnlyReader
<1>11. QED
  BY <1>3, <1>4, <1>5, <1>6, <1>7, <1>8, <1>9, <1>10 DEF Read, ReadNoLock, ReadWithLock

(***************************************************************************)
(* Every step of the PSE driver keeps the order.                           *)
(***************************************************************************)
ClientInv == TypeInv /\ FcInv /\ SoundInv /\ WholeInv
DriverInv == PseTypeInv /\ PseInv /\ NullInv

LEMMA OrderStep ==
    ClientInv /\ DriverInv /\ OrderInv /\ [PseNext]_pseVars => OrderInv'
<1> SUFFICES ASSUME ClientInv, DriverInv, OrderInv, [PseNext]_pseVars,
                    "overlapped" \notin seen', undone' = {}
             PROVE  GotInv'
  BY DEF OrderInv
<1>0. undone = {} /\ "strayed" \notin undone'
  BY PseStep, UndoneStays DEF ClientInv
<1>1. /\ TypeInv /\ LabelsOK /\ PlacesInv /\ ContentInv /\ PseTypeInv /\ PseInv
      /\ TypeInv' /\ PseTypeInv'
  BY <1>0, PseStep, TypeStep, PseTypeStep DEF ClientInv, FcInv, SoundInv, WholeInv, ListsInv, DriverInv
<1>3. GotInv'
  <2>1. OnlyReader /\ GotInv
    BY <1>0, SeenStays DEF DriverInv, NullInv, OrderInv
  <2>2. CASE RecvStep \/ ConnectReads
    <3>1. Below /\ UNCHANGED <<pseRb, places>>
      BY <2>2, ContextsAssumption DEF RecvStep, ConnectReads, Below, Contexts, readVars
    <3>2. QED
      BY <1>0, <1>1, <2>1, <3>1, OrderBelow
  <2>3. CASE Event
    BY <1>1, <2>1, <2>3, OrderEvent
  <2>4. ASSUME NEW r \in Readers, Read(r) PROVE GotInv'
    BY <1>0, <1>1, <2>1, <2>4, OrderReads
  <2>5. CASE UNCHANGED pseVars
    <3>1. UNCHANGED <<sizes, content, inProcess, pc, pseRb, rd, fpos, off, got, msgsRead>>
      BY <2>5 DEF pseVars, vars, readVars, places
    <3>2. Sent' = Sent /\ NextGot' = NextGot /\ GotInOrder' /\ Taken' = Taken
          /\ (Recycling' <=> Recycling)
      BY <2>1, <3>1 DEF Sent, NextGot, GotInOrder, GotInv, After, Taken, Arriving, Recycling
    <3>3. BufferRight' /\ PlacesRight'
      BY <2>1, <3>1, <3>2 DEF GotInv, BufferRight, PlacesRight, RightPlace
    <3>4. QED
      BY <3>2, <3>3 DEF GotInv
  <2>6. QED
    BY <2>2, <2>3, <2>4, <2>5 DEF PseNext
<1>4. QED
  BY <1>3

LEMMA OrderInit == PseInit => OrderInv
<1> SUFFICES ASSUME PseInit PROVE GotInv
  BY DEF OrderInv
<1>1. /\ got = <<>> /\ msgsRead = 0 /\ fpos = 0 /\ pseRb = None
      /\ \A r \in Readers : rd[r] = "user"
  BY DEF PseInit
<1>2. Taken = 0
  <2>1. sizes = <<>> /\ inProcess = <<>> /\ pc[Isr] = "idle"
    BY ContextsAssumption DEF PseInit, Init, Contexts
  <2>2. QED
    BY <2>1, EmptySeq DEF Taken, Arriving, Sent
<1>3. GotInOrder
  BY <1>1, EmptySeq DEF GotInOrder
<1>4. BufferRight
  BY <1>1, <1>2 DEF BufferRight
<1>5. PlacesRight
  BY <1>1 DEF PlacesRight, RightPlace, NextGot
<1>6. QED
  BY <1>3, <1>4, <1>5 DEF GotInv

(***************************************************************************)
(* The user gets every fragment once and in order, in however many calls,  *)
(* for any number of buffers, messages and threads, unless two threads     *)
(* read at a time, and until the undoing of a read takes a buffer that was *)
(* no longer in the read list or that the firmware was filling.            *)
(***************************************************************************)
THEOREM UserReadsInOrder == PseSpec => [](undone = {} => ReadInOrder)
<1>1. OrderInv => (undone = {} => ReadInOrder)
  BY DEF OrderInv, GotInv, ReadInOrder
<1>2. PseInit => ClientInv /\ DriverInv /\ OrderInv
  BY TypeInit, FcInit, SoundInit, WholeInit, PseTypeInit, PseInvInit, NullInit, OrderInit
     DEF PseInit, ClientInv, DriverInv
<1>3. ClientInv /\ DriverInv /\ [PseNext]_pseVars => ClientInv' /\ DriverInv'
  BY PseStep, TypeStep, FcStep, SoundStep, WholeStep, PseTypeStep, PseInvStep, NullStep
     DEF ClientInv, DriverInv
<1>4. QED
  BY <1>1, <1>2, <1>3, OrderStep, PTL DEF PseSpec
=============================================================================
