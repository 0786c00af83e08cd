------------------------ MODULE BroadcastRingProofs ------------------------
(***************************************************************************)
(* The ring never overwrites what a reader it knows of is still to read,    *)
(* and implements the log, for every number of readers and every capacity.  *)
(*                                                                          *)
(* The cache of the producer is never above the position of such a reader,  *)
(* and a scan in progress has either seen a position that is not above, or  *)
(* has that reader still to look at (Window).                               *)
(***************************************************************************)
EXTENDS BroadcastRing, TLAPS

Searching == {"refresh", "scan", "fit"}

ProducerInv ==
  /\ cached <= cursor
  /\ ppc \in Searching \cup {"idle"} => written = cursor
  /\ ppc = "write" => cursor <= written /\ written < goal /\ goal <= cached + Cap
  /\ ppc = "publish" => cursor < goal /\ written = goal /\ goal <= cached + Cap
  /\ ppc \in Searching => cursor < goal /\ (~batch => goal = cursor + 1)
  /\ ppc \in {"scan", "fit"} => low <= cursor
  /\ ppc = "fit" => scan = {}

Owned ==
  /\ \A r \in Reader : rpc[r] # "out" => id[r] \in Slot /\ status[id[r]] = "live"
  /\ \A r, q \in Reader : (rpc[r] # "out" /\ rpc[q] # "out" /\ id[r] = id[q]) => r = q

Placed ==
  \A r \in Reader :
    /\ rpc[r] \in {"stored", "idle", "copy"} => rcursor[id[r]] = want[r] - 1
    /\ rpc[r] \in {"idle", "copy"} => id[r] \in bits
    /\ rpc[r] \in {"loaded", "stored", "idle", "copy"} => want[r] - 1 <= cursor
    /\ rpc[r] = "copy" => want[r] <= till[r] /\ till[r] <= cursor
    /\ rpc[r] \in {"out", "claimed"} => r \notin raced /\ got[r] = {}
    /\ rpc[r] \in {"loaded", "stored"} => got[r] = {}

Window ==
  \A r \in Reader :
    In(r) =>
      /\ cached <= want[r] - 1
      /\ written <= want[r] - 1 + Cap
      /\ ppc \in {"scan", "fit"} =>
           low <= want[r] - 1 \/ (rpc[r] \in {"idle", "copy"} /\ id[r] \in scan)

RingInv == TypeOK /\ ProducerInv /\ Owned /\ Placed /\ Window

-----------------------------------------------------------------------------
(* At the start nobody has joined.                                          *)
LEMMA InitRing == Init => RingInv
<1> SUFFICES ASSUME Init PROVE RingInv  OBVIOUS
<1> USE RingAssumption DEF Init
<1>1. TypeOK
  <2>1. /\ cursor \in -1..MaxSeq /\ cached \in -1..MaxSeq /\ goal \in -1..MaxSeq
        /\ low \in -1..MaxSeq /\ written \in -1..MaxSeq
        /\ rcursor \in [Slot -> -1..MaxSeq] /\ till \in [Reader -> -1..MaxSeq]
        /\ want \in [Reader -> Number]
    BY DEF Number
  <2>2. /\ status \in [Slot -> {"free", "live"}] /\ bits \subseteq Slot /\ scan \subseteq Slot
        /\ id \in [Reader -> Slot \cup {None}]
    OBVIOUS
  <2>3. got \in [Reader -> SUBSET (0..MaxSeq)] /\ raced \subseteq Reader  OBVIOUS
  <2>4. /\ ppc \in {"idle", "refresh", "scan", "fit", "write", "publish"}
        /\ batch \in BOOLEAN
        /\ rpc \in [Reader -> {"out", "claimed", "loaded", "stored", "idle", "copy", "cleared"}]
    OBVIOUS
  <2> QED BY <2>1, <2>2, <2>3, <2>4 DEF TypeOK
<1>2. ProducerInv  BY DEF ProducerInv, Searching
<1>3. Owned /\ Placed /\ Window  BY DEF Owned, Placed, Window, In
<1> QED BY <1>1, <1>2, <1>3 DEF RingInv

LEMMA OfferKeeps ==
  ASSUME RingInv, NEW n \in 1..MaxBatch, NEW many \in BOOLEAN, Offer(n, many)
  PROVE  RingInv'
<1> USE RingAssumption DEF sharedVars, producerVars, readerVars, Number
<1>1. TypeOK'
  BY DEF RingInv, TypeOK, ProducerInv, Searching, Owned, Placed, Offer
<1>2. ProducerInv'
  BY DEF RingInv, TypeOK, ProducerInv, Searching, Offer
<1>3. Owned'
  BY DEF RingInv, TypeOK, Owned, Offer
<1>4. Placed'
  BY DEF RingInv, TypeOK, ProducerInv, Searching, Owned, Placed, Offer
<1>5. Window'
  BY DEF RingInv, TypeOK, ProducerInv, Searching, Owned, Placed, Window, In, Offer
<1> QED BY <1>1, <1>2, <1>3, <1>4, <1>5 DEF RingInv

LEMMA LoadBitsKeeps ==
  ASSUME RingInv, LoadBits
  PROVE  RingInv'
<1> USE RingAssumption DEF sharedVars, producerVars, readerVars, Number
<1>1. TypeOK'
  BY DEF RingInv, TypeOK, ProducerInv, Searching, Owned, Placed, LoadBits
<1>2. ProducerInv'
  BY DEF RingInv, TypeOK, ProducerInv, Searching, LoadBits
<1>3. Owned'
  BY DEF RingInv, TypeOK, Owned, LoadBits
<1>4. Placed'
  BY DEF RingInv, TypeOK, ProducerInv, Searching, Owned, Placed, LoadBits
<1>5. Window'
  BY DEF RingInv, TypeOK, ProducerInv, Searching, Owned, Placed, Window, In, LoadBits
<1> QED BY <1>1, <1>2, <1>3, <1>4, <1>5 DEF RingInv

LEMMA LoadCursorKeeps ==
  ASSUME RingInv, NEW i \in Slot, LoadCursor(i)
  PROVE  RingInv'
<1> USE RingAssumption DEF sharedVars, producerVars, readerVars, Number
<1>1. TypeOK'
  BY DEF RingInv, TypeOK, ProducerInv, Searching, Owned, Placed, LoadCursor
<1>2. ProducerInv'
  BY DEF RingInv, TypeOK, ProducerInv, Searching, LoadCursor
<1>3. Owned'
  BY DEF RingInv, TypeOK, Owned, LoadCursor
<1>4. Placed'
  BY DEF RingInv, TypeOK, ProducerInv, Searching, Owned, Placed, LoadCursor
<1>5. Window'
  BY DEF RingInv, TypeOK, ProducerInv, Searching, Owned, Placed, Window, In, LoadCursor
<1> QED BY <1>1, <1>2, <1>3, <1>4, <1>5 DEF RingInv

LEMMA FitKeeps ==
  ASSUME RingInv, Fit
  PROVE  RingInv'
<1> USE RingAssumption DEF sharedVars, producerVars, readerVars, Number
<1>1. TypeOK'
  <2>1. cached' \in -1..MaxSeq /\ low' \in -1..MaxSeq
    BY DEF RingInv, TypeOK, Fit
  <2>5. batch' \in BOOLEAN  BY DEF Fit
  <2>2. goal' \in -1..MaxSeq
    <3>1. CASE Headroom < (IF batch THEN 1 ELSE 0)  BY <3>1 DEF Fit
    <3>2. CASE ~(Headroom < (IF batch THEN 1 ELSE 0))
      <4>1. CASE ~batch \/ goal - cursor <= Headroom
        BY <3>2, <4>1 DEF RingInv, TypeOK, Fit
      <4>2. CASE batch /\ ~(goal - cursor <= Headroom)
        <5>1. goal' = cursor + Headroom /\ Headroom >= 1 /\ Headroom \in Int
          BY <3>2, <4>2 DEF RingInv, TypeOK, Headroom, Fit
        <5> QED BY <4>2, <5>1 DEF RingInv, TypeOK
      <4> QED BY <4>1, <4>2 DEF RingInv, TypeOK
    <3> QED BY <3>1, <3>2
  <2>3. ppc' \in {"idle", "write"}  BY DEF Fit
  <2>4. UNCHANGED <<cursor, bits, status, rcursor, scan, written, rpc, id, want, till, got, raced>>
    BY DEF Fit
  <2> QED BY <2>1, <2>2, <2>3, <2>4, <2>5, Zenon DEF RingInv, TypeOK
<1>2. ProducerInv'
  BY DEF RingInv, TypeOK, ProducerInv, Searching, Headroom, Fit
<1>3. Owned'
  BY DEF RingInv, TypeOK, Owned, Fit
<1>4. Placed'
  BY DEF RingInv, TypeOK, ProducerInv, Searching, Owned, Placed, Headroom, Fit
<1>5. Window'
  BY DEF RingInv, TypeOK, ProducerInv, Searching, Owned, Placed, Window, In, Headroom, Fit
<1> QED BY <1>1, <1>2, <1>3, <1>4, <1>5 DEF RingInv

LEMMA WriteSlotKeeps ==
  ASSUME RingInv, WriteSlot
  PROVE  RingInv'
<1> USE RingAssumption DEF sharedVars, producerVars, readerVars, Number
<1>1. TypeOK'
  BY DEF RingInv, TypeOK, ProducerInv, Searching, Owned, Placed, WriteSlot
<1>2. ProducerInv'
  BY DEF RingInv, TypeOK, ProducerInv, Searching, WriteSlot
<1>3. Owned'
  BY DEF RingInv, TypeOK, Owned, WriteSlot
<1>4. Placed'
  BY DEF RingInv, TypeOK, ProducerInv, Searching, Owned, Placed, WriteSlot
<1>5. Window'
  BY DEF RingInv, TypeOK, ProducerInv, Searching, Owned, Placed, Window, In, WriteSlot
<1> QED BY <1>1, <1>2, <1>3, <1>4, <1>5 DEF RingInv

LEMMA PublishKeeps ==
  ASSUME RingInv, Publish
  PROVE  RingInv'
<1> USE RingAssumption DEF sharedVars, producerVars, readerVars, Number
<1>1. TypeOK'
  BY DEF RingInv, TypeOK, ProducerInv, Searching, Owned, Placed, Publish
<1>2. ProducerInv'
  BY DEF RingInv, TypeOK, ProducerInv, Searching, Publish
<1>3. Owned'
  BY DEF RingInv, TypeOK, Owned, Publish
<1>4. Placed'
  BY DEF RingInv, TypeOK, ProducerInv, Searching, Owned, Placed, Publish
<1>5. Window'
  BY DEF RingInv, TypeOK, ProducerInv, Searching, Owned, Placed, Window, In, Publish
<1> QED BY <1>1, <1>2, <1>3, <1>4, <1>5 DEF RingInv

LEMMA ClaimKeeps ==
  ASSUME RingInv, NEW r \in Reader, NEW i \in Slot, Claim(r, i)
  PROVE  RingInv'
<1> USE RingAssumption DEF sharedVars, producerVars, readerVars, Number
<1>1. TypeOK'
  BY DEF RingInv, TypeOK, ProducerInv, Searching, Owned, Placed, Claim
<1>2. ProducerInv'
  BY DEF RingInv, TypeOK, ProducerInv, Searching, Claim
<1>3. Owned'
  BY DEF RingInv, TypeOK, Owned, Claim
<1>4. Placed'
  BY DEF RingInv, TypeOK, ProducerInv, Searching, Owned, Placed, Claim
<1>5. Window'
  BY DEF RingInv, TypeOK, ProducerInv, Searching, Owned, Placed, Window, In, Claim
<1> QED BY <1>1, <1>2, <1>3, <1>4, <1>5 DEF RingInv

LEMMA LoadStartKeeps ==
  ASSUME RingInv, NEW r \in Reader, LoadStart(r)
  PROVE  RingInv'
<1> USE RingAssumption DEF sharedVars, producerVars, readerVars, Number
<1>1. TypeOK'
  BY DEF RingInv, TypeOK, ProducerInv, Searching, Owned, Placed, LoadStart
<1>2. ProducerInv'
  BY DEF RingInv, TypeOK, ProducerInv, Searching, LoadStart
<1>3. Owned'
  BY DEF RingInv, TypeOK, Owned, LoadStart
<1>4. Placed'
  BY DEF RingInv, TypeOK, ProducerInv, Searching, Owned, Placed, LoadStart
<1>5. Window'
  BY DEF RingInv, TypeOK, ProducerInv, Searching, Owned, Placed, Window, In, LoadStart
<1> QED BY <1>1, <1>2, <1>3, <1>4, <1>5 DEF RingInv

LEMMA StoreStartKeeps ==
  ASSUME RingInv, NEW r \in Reader, StoreStart(r)
  PROVE  RingInv'
<1> USE RingAssumption DEF sharedVars, producerVars, readerVars, Number
<1>1. TypeOK'
  BY DEF RingInv, TypeOK, ProducerInv, Searching, Owned, Placed, StoreStart
<1>2. ProducerInv'
  BY DEF RingInv, TypeOK, ProducerInv, Searching, StoreStart
<1>3. Owned'
  BY DEF RingInv, TypeOK, Owned, StoreStart
<1>4. Placed'
  BY DEF RingInv, TypeOK, ProducerInv, Searching, Owned, Placed, StoreStart
<1>5. Window'
  BY DEF RingInv, TypeOK, ProducerInv, Searching, Owned, Placed, Window, In, StoreStart
<1> QED BY <1>1, <1>2, <1>3, <1>4, <1>5 DEF RingInv

LEMMA SetBitKeeps ==
  ASSUME RingInv, NEW r \in Reader, SetBit(r)
  PROVE  RingInv'
<1> USE RingAssumption DEF sharedVars, producerVars, readerVars, Number
<1>1. TypeOK'
  BY DEF RingInv, TypeOK, ProducerInv, Searching, Owned, Placed, SetBit
<1>2. ProducerInv'
  BY DEF RingInv, TypeOK, ProducerInv, Searching, SetBit
<1>3. Owned'
  BY DEF RingInv, TypeOK, Owned, SetBit
<1>4. Placed'
  BY DEF RingInv, TypeOK, ProducerInv, Searching, Owned, Placed, SetBit
<1>5. Window'
  BY DEF RingInv, TypeOK, ProducerInv, Searching, Owned, Placed, Window, In, SetBit
<1> QED BY <1>1, <1>2, <1>3, <1>4, <1>5 DEF RingInv

LEMMA ReceiveKeeps ==
  ASSUME RingInv, NEW r \in Reader, NEW n \in 1..MaxBatch, Receive(r, n)
  PROVE  RingInv'
<1> USE RingAssumption DEF sharedVars, producerVars, readerVars, Number
<1>1. TypeOK'
  BY DEF RingInv, TypeOK, ProducerInv, Searching, Owned, Placed, Receive
<1>2. ProducerInv'
  BY DEF RingInv, TypeOK, ProducerInv, Searching, Receive
<1>3. Owned'
  BY DEF RingInv, TypeOK, Owned, Receive
<1>4. Placed'
  BY DEF RingInv, TypeOK, ProducerInv, Searching, Owned, Placed, Receive
<1>5. Window'
  BY DEF RingInv, TypeOK, ProducerInv, Searching, Owned, Placed, Window, In, Receive
<1> QED BY <1>1, <1>2, <1>3, <1>4, <1>5 DEF RingInv

LEMMA AdvanceKeeps ==
  ASSUME RingInv, NEW r \in Reader, Advance(r)
  PROVE  RingInv'
<1> USE RingAssumption DEF sharedVars, producerVars, readerVars, Number
<1>1. TypeOK'
  <2>1. /\ till[r] \in 0..MaxSeq /\ want[r] \in 0..MaxSeq
        /\ id[r] \in Slot
    BY DEF RingInv, TypeOK, Owned, Placed, Advance
  <2>2. got' \in [Reader -> SUBSET (0..MaxSeq)]
    <3>1. want[r]..till[r] \subseteq 0..MaxSeq  BY <2>1
    <3> QED BY <3>1 DEF RingInv, TypeOK, Advance
  <2>3. /\ rcursor' \in [Slot -> -1..MaxSeq] /\ want' \in [Reader -> Number]
        /\ till' \in [Reader -> -1..MaxSeq]
    BY <2>1 DEF RingInv, TypeOK, Advance
  <2>4. rpc' \in [Reader -> {"out", "claimed", "loaded", "stored", "idle", "copy", "cleared"}]
    BY DEF RingInv, TypeOK, Advance
  <2>5. /\ cursor' = cursor /\ bits' = bits /\ status' = status /\ cached' = cached
        /\ ppc' = ppc /\ goal' = goal /\ scan' = scan /\ low' = low
        /\ written' = written /\ id' = id /\ raced' = raced
    BY DEF Advance
  <2>6. batch' = batch  BY DEF Advance
  <2>7. /\ cursor' \in -1..MaxSeq /\ bits' \subseteq Slot /\ cached' \in -1..MaxSeq
        /\ status' \in [Slot -> {"free", "live"}]
        /\ ppc' \in {"idle", "refresh", "scan", "fit", "write", "publish"}
        /\ goal' \in -1..MaxSeq /\ scan' \subseteq Slot /\ low' \in -1..MaxSeq
        /\ written' \in -1..MaxSeq /\ id' \in [Reader -> Slot \cup {None}]
        /\ raced' \subseteq Reader
    BY <2>5 DEF RingInv, TypeOK
  <2>8. batch' \in BOOLEAN  BY <2>6, Zenon DEF RingInv, TypeOK
  <2> QED BY <2>2, <2>3, <2>4, <2>7, <2>8, Zenon DEF TypeOK
<1>2. ProducerInv'
  BY DEF RingInv, TypeOK, ProducerInv, Searching, Advance
<1>3. Owned'
  BY DEF RingInv, TypeOK, Owned, Advance
<1>4. Placed'
  <2>1. /\ id[r] \in Slot /\ rpc'[r] = "idle" /\ want'[r] = till[r] + 1
        /\ rcursor'[id[r]] = till[r] /\ till[r] \in Int /\ till[r] <= cursor
        /\ id[r] \in bits
    BY DEF RingInv, TypeOK, Owned, Placed, Advance
  <2>2. UNCHANGED <<cursor, bits, id, raced>>  BY DEF Advance
  <2> SUFFICES ASSUME NEW q \in Reader, q # r PROVE Placed!(q)'
    BY <2>1, <2>2 DEF RingInv, TypeOK, Placed
  <2>3. /\ rpc'[q] = rpc[q] /\ want'[q] = want[q] /\ till'[q] = till[q] /\ got'[q] = got[q]
    BY DEF RingInv, TypeOK, Advance
  <2>4. rpc[q] # "out" => rcursor'[id[q]] = rcursor[id[q]]
    BY DEF RingInv, TypeOK, Owned, Advance
  <2> QED BY <2>2, <2>3, <2>4 DEF RingInv, Placed
<1>5. Window'
  BY DEF RingInv, TypeOK, ProducerInv, Searching, Owned, Placed, Window, In, Advance
<1> QED BY <1>1, <1>2, <1>3, <1>4, <1>5 DEF RingInv

LEMMA ClearBitKeeps ==
  ASSUME RingInv, NEW r \in Reader, ClearBit(r)
  PROVE  RingInv'
<1> USE RingAssumption DEF sharedVars, producerVars, readerVars, Number
<1>1. TypeOK'
  BY DEF RingInv, TypeOK, ProducerInv, Searching, Owned, Placed, ClearBit
<1>2. ProducerInv'
  BY DEF RingInv, TypeOK, ProducerInv, Searching, ClearBit
<1>3. Owned'
  BY DEF RingInv, TypeOK, Owned, ClearBit
<1>4. Placed'
  BY DEF RingInv, TypeOK, ProducerInv, Searching, Owned, Placed, ClearBit
<1>5. Window'
  BY DEF RingInv, TypeOK, ProducerInv, Searching, Owned, Placed, Window, In, ClearBit
<1> QED BY <1>1, <1>2, <1>3, <1>4, <1>5 DEF RingInv

LEMMA FreeKeeps ==
  ASSUME RingInv, NEW r \in Reader, Free(r)
  PROVE  RingInv'
<1> USE RingAssumption DEF sharedVars, producerVars, readerVars, Number
<1>1. TypeOK'
  BY DEF RingInv, TypeOK, ProducerInv, Searching, Owned, Placed, Free
<1>2. ProducerInv'
  BY DEF RingInv, TypeOK, ProducerInv, Searching, Free
<1>3. Owned'
  BY DEF RingInv, TypeOK, Owned, Free
<1>4. Placed'
  BY DEF RingInv, TypeOK, ProducerInv, Searching, Owned, Placed, Free
<1>5. Window'
  BY DEF RingInv, TypeOK, ProducerInv, Searching, Owned, Placed, Window, In, Free
<1> QED BY <1>1, <1>2, <1>3, <1>4, <1>5 DEF RingInv

-----------------------------------------------------------------------------
LEMMA StepKeeps == RingInv /\ [Next]_vars => RingInv'
<1> SUFFICES ASSUME RingInv, [Next]_vars PROVE RingInv'  OBVIOUS
<1>1. ASSUME NEW n \in 1..MaxBatch, NEW many \in BOOLEAN, Offer(n, many) PROVE RingInv'
  BY <1>1, OfferKeeps
<1>2. CASE LoadBits  BY <1>2, LoadBitsKeeps
<1>3. ASSUME NEW i \in Slot, LoadCursor(i) PROVE RingInv'  BY <1>3, LoadCursorKeeps
<1>4. CASE Fit  BY <1>4, FitKeeps
<1>5. CASE WriteSlot  BY <1>5, WriteSlotKeeps
<1>6. CASE Publish  BY <1>6, PublishKeeps
<1>7. ASSUME NEW r \in Reader, Subscribe(r) PROVE RingInv'
  <2>1. ASSUME NEW i \in Slot, Claim(r, i) PROVE RingInv'  BY <2>1, ClaimKeeps
  <2>2. CASE LoadStart(r)  BY <2>2, LoadStartKeeps
  <2>3. CASE StoreStart(r)  BY <2>3, StoreStartKeeps
  <2>4. CASE SetBit(r)  BY <2>4, SetBitKeeps
  <2> QED BY <1>7, <2>1, <2>2, <2>3, <2>4 DEF Subscribe
<1>8. ASSUME NEW r \in Reader, Consume(r) PROVE RingInv'
  <2>1. ASSUME NEW n \in 1..MaxBatch, Receive(r, n) PROVE RingInv'  BY <2>1, ReceiveKeeps
  <2>2. CASE Advance(r)  BY <2>2, AdvanceKeeps
  <2> QED BY <1>8, <2>1, <2>2 DEF Consume
<1>9. ASSUME NEW r \in Reader, Unsubscribe(r) PROVE RingInv'
  BY <1>9, ClearBitKeeps, FreeKeeps DEF Unsubscribe
<1>10. CASE UNCHANGED vars
  BY <1>10 DEF vars, sharedVars, producerVars, readerVars, RingInv, TypeOK, ProducerInv,
               Searching, Owned, Placed, Window, In
<1> QED BY <1>1, <1>2, <1>3, <1>4, <1>5, <1>6, <1>7, <1>8, <1>9, <1>10 DEF Next, Producer

(* The ring keeps its invariant. *)
THEOREM RingInvariant == Spec => []RingInv
<1>1. Init => RingInv  BY InitRing
<1>2. RingInv /\ [Next]_vars => RingInv'  BY StepKeeps
<1> QED BY <1>1, <1>2, PTL DEF Spec

(* A reader the producer knows of never copies a message that is being      *)
(* overwritten.                                                             *)
THEOREM WholeCopies == Spec => []CopyIsWhole
<1>1. RingInv => CopyIsWhole
  BY RingAssumption DEF RingInv, TypeOK, Number, Window, In, CopyIsWhole
<1> QED BY <1>1, RingInvariant, PTL

-----------------------------------------------------------------------------
(* The ring implements the log.                                             *)

At    == [r \in Reader |-> IF In(r) THEN want[r] - 1 ELSE -2]
Taken == [r \in Reader |-> IF In(r) THEN got[r] ELSE {}]

(* A step that changes neither the cursor nor what a known reader has taken *)
(* is a stutter of the log.                                                 *)
LEMMA Stutter ==
  ASSUME cursor' = cursor, \A r \in Reader : In(r)' = In(r),
         \A r \in Reader : In(r) => want'[r] = want[r] /\ got'[r] = got[r]
  PROVE  UNCHANGED Log!vars
BY DEF Log!vars

LEMMA ProducerStutters ==
  ASSUME RingInv, UNCHANGED <<cursor, readerVars, got, raced>>
  PROVE  UNCHANGED Log!vars
BY Stutter DEF readerVars, In

LEMMA LoadBitsIsLeave ==
  ASSUME RingInv, LoadBits
  PROVE  \E gone \in SUBSET Reader : Log!Leave(gone)
<1> PICK gone \in SUBSET Reader : gone = raced' \ raced
  BY DEF RingInv, TypeOK, LoadBits
<1>1. /\ UNCHANGED <<cursor, rpc, want, got>>
      /\ raced \subseteq raced'
  BY DEF LoadBits, sharedVars, readerVars
<1>2. Log!Leave(gone)  BY <1>1 DEF Log!Leave, In, Log!Off
<1> QED BY <1>2, Zenon

LEMMA PublishIsSend ==
  ASSUME RingInv, Publish
  PROVE  \E n \in 1..Cap : Log!Send(n)
<1>1. /\ goal \in Int /\ cursor \in Int /\ cached \in Int
      /\ cursor < goal /\ goal <= cached + Cap /\ cached <= cursor
  BY DEF RingInv, TypeOK, ProducerInv, Publish
<1>2. goal - cursor \in 1..Cap  BY <1>1, RingAssumption
<1>3. cursor' = cursor + (goal - cursor)  BY <1>1 DEF Publish
<1>4. UNCHANGED <<rpc, want, got, raced>>  BY DEF Publish, readerVars
<1>5. ASSUME NEW r \in Reader, In(r) PROVE cursor + (goal - cursor) - (want[r] - 1) <= Cap
  <2>1. want[r] \in Int /\ cached <= want[r] - 1
    BY <1>5 DEF RingInv, TypeOK, Number, Window
  <2> QED BY <1>1, <2>1, RingAssumption
<1>6. Log!Send(goal - cursor)
  <2>1. \A r \in Log!Joined : In(r) /\ r \in Reader  BY DEF Log!Joined, Log!Off
  <2> QED BY <1>3, <1>4, <1>5, <2>1 DEF Log!Send, In
<1> QED BY <1>2, <1>6

LEMMA LoadStartIsJoin ==
  ASSUME RingInv, NEW r \in Reader, LoadStart(r)
  PROVE  Log!Join(r)
<1>1. /\ ~In(r) /\ r \notin raced /\ got[r] = {}
  BY DEF RingInv, Placed, LoadStart, In
<1>2. /\ UNCHANGED <<cursor, got, raced>>
      /\ want' = [want EXCEPT ![r] = cursor + 1]
      /\ rpc' = [rpc EXCEPT ![r] = "loaded"]
  BY DEF LoadStart, sharedVars
<1>3. In(r)' /\ \A q \in Reader \ {r} : In(q)' = In(q)
  BY <1>1, <1>2 DEF RingInv, TypeOK, In
<1>4. want'[r] - 1 = cursor /\ \A q \in Reader \ {r} : want'[q] = want[q]
  BY <1>2 DEF RingInv, TypeOK
<1>5. At' = [At EXCEPT ![r] = cursor]
  <2>1. \A q \in Reader :
          (IF In(q) THEN want[q] - 1 ELSE -2)' =
          IF q = r THEN cursor ELSE IF In(q) THEN want[q] - 1 ELSE -2
    BY <1>3, <1>4
  <2> QED BY <2>1 DEF At
<1>6. Taken' = Taken
  <2>1. \A q \in Reader :
          (IF In(q) THEN got[q] ELSE {})' = IF In(q) THEN got[q] ELSE {}
    BY <1>1, <1>2, <1>3
  <2> QED BY <2>1 DEF Taken
<1>7. r \notin Log!Joined  BY <1>1 DEF Log!Joined, Log!Off
<1> QED BY <1>2, <1>5, <1>6, <1>7 DEF Log!Join, At, Taken

LEMMA AdvanceIsTake ==
  ASSUME RingInv, NEW r \in Reader, Advance(r), In(r)
  PROVE  \E n \in 1..Cap : Log!Take(r, n)
<1>1. /\ want[r] \in Int /\ till[r] \in Int /\ cursor \in Int /\ written \in Int
      /\ want[r] <= till[r] /\ till[r] <= cursor /\ written <= want[r] - 1 + Cap
      /\ want[r] >= 0
  BY DEF RingInv, TypeOK, Number, Placed, Window, Advance
<1>2. cursor <= written
  BY DEF RingInv, TypeOK, ProducerInv, Searching
<1>3. till[r] - want[r] + 1 \in 1..Cap  BY <1>1, <1>2, RingAssumption
<1> PICK n \in 1..Cap : n = till[r] - want[r] + 1  BY <1>3
<1>4. /\ UNCHANGED <<cursor, raced>>
      /\ want' = [want EXCEPT ![r] = till[r] + 1]
      /\ got' = [got EXCEPT ![r] = @ \cup want[r]..till[r]]
      /\ rpc' = [rpc EXCEPT ![r] = "idle"]
  BY DEF Advance, producerVars
<1>5. \A q \in Reader : In(q)' = In(q)
  BY <1>4 DEF RingInv, TypeOK, In
<1>6. /\ want'[r] - 1 = want[r] - 1 + n
      /\ got'[r] = got[r] \cup (want[r] - 1 + 1)..(want[r] - 1 + n)
      /\ \A q \in Reader \ {r} : want'[q] = want[q] /\ got'[q] = got[q]
  <2>1. want[r] - 1 + 1 = want[r] /\ want[r] - 1 + n = till[r]  BY <1>1
  <2> QED BY <1>1, <1>4, <2>1 DEF RingInv, TypeOK
<1>7. r \in Log!Joined
  BY <1>1 DEF Log!Joined, Log!Off
<1>8. want[r] - 1 + n <= cursor  BY <1>1
<1>9. At' = [At EXCEPT ![r] = @ + n]
  <2>1. \A q \in Reader :
          (IF In(q) THEN want[q] - 1 ELSE -2)' =
          IF q = r THEN want[r] - 1 + n ELSE IF In(q) THEN want[q] - 1 ELSE -2
    BY <1>5, <1>6
  <2>2. At[r] = want[r] - 1  BY DEF At
  <2> QED BY <2>1, <2>2 DEF At
<1>10. Taken' = [Taken EXCEPT ![r] = @ \cup (At[r] + 1)..(At[r] + n)]
  <2>1. \A q \in Reader :
          (IF In(q) THEN got[q] ELSE {})' =
          IF q = r THEN got[r] \cup (want[r] - 1 + 1)..(want[r] - 1 + n)
          ELSE IF In(q) THEN got[q] ELSE {}
    BY <1>5, <1>6
  <2>2. At[r] = want[r] - 1 /\ Taken[r] = got[r]  BY DEF At, Taken
  <2> QED BY <2>1, <2>2 DEF Taken
<1>11. At[r] + n <= cursor  BY <1>8 DEF At
<1>12. Log!Take(r, n)
  BY <1>4, <1>7, <1>9, <1>10, <1>11 DEF Log!Take, At, Taken
<1> QED BY <1>12, Zenon

LEMMA ClearBitIsLeave ==
  ASSUME RingInv, NEW r \in Reader, ClearBit(r)
  PROVE  Log!Leave({r})
<1>1. /\ UNCHANGED <<cursor, want, got, raced>>
      /\ rpc' = [rpc EXCEPT ![r] = "cleared"]
  BY DEF ClearBit, producerVars
<1>2. ~In(r)' /\ \A q \in Reader \ {r} : In(q)' = In(q)
  BY <1>1 DEF RingInv, TypeOK, In
<1> QED BY <1>1, <1>2 DEF Log!Leave, Log!Off

(* The other steps of a reader: it stays in, or stays out.                  *)
LEMMA ReaderStutters ==
  ASSUME RingInv, NEW r \in Reader,
         \/ \E i \in Slot : Claim(r, i)
         \/ StoreStart(r) \/ SetBit(r)
         \/ \E n \in 1..MaxBatch : Receive(r, n)
         \/ Free(r)
         \/ Advance(r) /\ ~In(r)
  PROVE  UNCHANGED Log!vars
<1>1. cursor' = cursor
  BY DEF Claim, StoreStart, SetBit, Receive, Free, Advance, sharedVars
<1>2. \A q \in Reader : In(q)' = In(q)
  BY DEF RingInv, TypeOK, In, Claim, StoreStart, SetBit, Receive, Free, Advance,
         sharedVars, readerVars
<1>3. \A q \in Reader : In(q) => want'[q] = want[q] /\ got'[q] = got[q]
  BY DEF RingInv, TypeOK, In, Claim, StoreStart, SetBit, Receive, Free, Advance,
         sharedVars, readerVars
<1> QED BY <1>1, <1>2, <1>3, Stutter

LEMMA StepIsLogStep == RingInv /\ [Next]_vars => [Log!Next]_Log!vars
<1> SUFFICES ASSUME RingInv, [Next]_vars PROVE [Log!Next]_Log!vars  OBVIOUS
<1>1. CASE Producer
  <2>1. ASSUME NEW n \in 1..MaxBatch, NEW many \in BOOLEAN, Offer(n, many)
        PROVE  UNCHANGED Log!vars
    BY <2>1, ProducerStutters DEF Offer, sharedVars
  <2>2. CASE LoadBits
    <3>1. \E gone \in SUBSET Reader : Log!Leave(gone)  BY <2>2, LoadBitsIsLeave
    <3> QED BY <3>1 DEF Log!Next
  <2>3. ASSUME NEW i \in Slot, LoadCursor(i) PROVE UNCHANGED Log!vars
    BY <2>3, ProducerStutters DEF LoadCursor, sharedVars
  <2>4. CASE Fit \/ WriteSlot
    BY <2>4, ProducerStutters DEF Fit, WriteSlot, sharedVars
  <2>5. CASE Publish  BY <2>5, PublishIsSend DEF Log!Next
  <2> QED BY <1>1, <2>1, <2>2, <2>3, <2>4, <2>5 DEF Producer
<1>2. ASSUME NEW r \in Reader, Subscribe(r) \/ Consume(r) \/ Unsubscribe(r)
      PROVE  [Log!Next]_Log!vars
  <2>1. CASE LoadStart(r)  BY <2>1, LoadStartIsJoin DEF Log!Next
  <2>2. CASE Advance(r) /\ In(r)  BY <2>2, AdvanceIsTake DEF Log!Next
  <2>3. CASE ClearBit(r)
    <3>1. {r} \in SUBSET Reader  OBVIOUS
    <3>2. Log!Leave({r})  BY <2>3, ClearBitIsLeave
    <3>3. \E gone \in SUBSET Reader : Log!Leave(gone)
      <4> WITNESS {r} \in SUBSET Reader
      <4> QED BY <3>2
    <3> QED BY <3>3 DEF Log!Next
  <2> QED BY <1>2, <2>1, <2>2, <2>3, ReaderStutters DEF Subscribe, Consume, Unsubscribe
<1>3. CASE UNCHANGED vars
  BY <1>3, ProducerStutters DEF vars, sharedVars
<1> QED BY <1>1, <1>2, <1>3 DEF Next

(* For the readers it knows of the ring is a log that is read in order,     *)
(* each message once.                                                       *)
THEOREM RingIsALog == Spec => ImplementsLog
<1>1. Init => Log!Init
  BY DEF Init, Log!Init, In, Log!Off
<1>2. RingInv /\ [Next]_vars => [Log!Next]_Log!vars  BY StepIsLogStep
<1> QED BY <1>1, <1>2, RingInvariant, PTL DEF Spec, ImplementsLog, Log!Spec

=============================================================================
