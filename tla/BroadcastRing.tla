---------------------------- MODULE BroadcastRing ----------------------------
(***************************************************************************)
(* The ring of the framework with one writer and many readers               *)
(* (transport/Ring.hpp), as the ports of the nodes use it (node/Port.hpp).  *)
(*                                                                          *)
(* The producer and each reader are threads: a load or a store of a word    *)
(* another thread uses is a step.  A message stands for its number.  The    *)
(* numbers go up, so a slot still holds message m as long as the producer   *)
(* has not begun to write m + Cap: "written" is the last message whose slot *)
(* it has begun to write.  The 64-bit numbers do not wrap.                  *)
(***************************************************************************)
EXTENDS Integers, FiniteSets

CONSTANTS
  Reader,      \* the threads that read
  Slot,        \* the reader slots (kMaxRingReaders)
  None,        \* not a slot
  Cap,         \* messages the ring holds
  MaxBatch,    \* bound: messages of one call
  MaxSeq       \* bound: the last message

ASSUME RingAssumption ==
  /\ None \notin Slot
  /\ Cap \in Nat \ {0} /\ MaxBatch \in Nat \ {0} /\ MaxSeq \in Nat

VARIABLES
  cursor,      \* producer_.cursor
  bits,        \* producer_.live_readers_bitmap
  status,      \* readers_[i].status
  rcursor,     \* readers_[i].cursor
  cached,      \* cached_min_cursor_
  ppc,         \* where the producer is
  batch,       \* it looks for room for a batch
  goal,        \* last message of the call
  scan, low,   \* min_reader_cursor_: the readers to look at, the least so far
  written,     \* last message whose slot the producer has begun to write
  rpc,         \* where each reader is
  id,          \* reader_id of its handle
  want,        \* next_seq of its handle
  till,        \* last message of the call to receive
  got,         \* history: the messages each reader has copied since it joined
  raced        \* history: readers a scan of the bitmap missed

sharedVars   == <<cursor, bits, status, rcursor>>
producerVars == <<cached, ppc, batch, goal, scan, low, written>>
readerVars   == <<rpc, id, want, till>>
vars         == <<sharedVars, producerVars, readerVars, got, raced>>

Number == 0..(MaxSeq + 1)

TypeOK ==
  /\ cursor \in -1..MaxSeq
  /\ bits \subseteq Slot
  /\ status \in [Slot -> {"free", "live"}]
  /\ rcursor \in [Slot -> -1..MaxSeq]
  /\ cached \in -1..MaxSeq
  /\ ppc \in {"idle", "refresh", "scan", "fit", "write", "publish"}
  /\ batch \in BOOLEAN
  /\ goal \in -1..MaxSeq
  /\ scan \subseteq Slot /\ low \in -1..MaxSeq
  /\ written \in -1..MaxSeq
  /\ rpc \in [Reader -> {"out", "claimed", "loaded", "stored", "idle", "copy", "cleared"}]
  /\ id \in [Reader -> Slot \cup {None}]
  /\ want \in [Reader -> Number]
  /\ till \in [Reader -> -1..MaxSeq]
  /\ got \in [Reader -> SUBSET (0..MaxSeq)]
  /\ raced \subseteq Reader

Init ==
  /\ cursor = -1 /\ bits = {}
  /\ status = [i \in Slot |-> "free"] /\ rcursor = [i \in Slot |-> -1]
  /\ cached = -1 /\ ppc = "idle" /\ batch = FALSE /\ goal = -1
  /\ scan = {} /\ low = -1 /\ written = -1
  /\ rpc = [r \in Reader |-> "out"] /\ id = [r \in Reader |-> None]
  /\ want = [r \in Reader |-> 0] /\ till = [r \in Reader |-> -1]
  /\ got = [r \in Reader |-> {}] /\ raced = {}

-----------------------------------------------------------------------------
(* The producer.  next_producer_seq_ is cursor + 1 whenever it is idle.     *)

(* try_send is a call with one message; a batch is of one or more.          *)
Offer(n, many) ==
  /\ ppc = "idle"
  /\ many \/ n = 1
  /\ cursor + n <= MaxSeq
  /\ goal' = cursor + n
  /\ ppc' = IF goal' - cached > Cap THEN "refresh" ELSE "write"
  /\ batch' = (many /\ ppc' = "refresh")
  /\ UNCHANGED <<sharedVars, cached, scan, low, written, readerVars, got, raced>>

(* min_reader_cursor_: the bitmap first.  With no reader the least cursor   *)
(* is the producer's own; the cursors of readers are never above it.        *)
LoadBits ==
  /\ ppc = "refresh"
  /\ scan' = bits
  /\ low' = cursor
  /\ ppc' = IF bits = {} THEN "fit" ELSE "scan"
  /\ raced' = raced \cup {r \in Reader : rpc[r] \in {"loaded", "stored"}}
  /\ UNCHANGED <<sharedVars, cached, batch, goal, written, readerVars, got>>

(* Mutant: the scan ends at the first reader it finds. *)
LoadFirstCursor(i) ==
  /\ ppc = "scan"
  /\ i \in scan
  /\ low' = IF rcursor[i] < low THEN rcursor[i] ELSE low
  /\ scan' = {}
  /\ ppc' = "fit"
  /\ UNCHANGED <<sharedVars, cached, batch, goal, written, readerVars, got, raced>>

LoadCursor(i) ==
  /\ ppc = "scan"
  /\ i \in scan
  /\ low' = IF rcursor[i] < low THEN rcursor[i] ELSE low
  /\ scan' = scan \ {i}
  /\ ppc' = IF scan' = {} THEN "fit" ELSE "scan"
  /\ UNCHANGED <<sharedVars, cached, batch, goal, written, readerVars, got, raced>>

(* What still fits: a single message, or the part of a batch that does.  A  *)
(* batch is cut to one message less than there is room for.                 *)
Headroom == Cap - (cursor + 1 - low)

Fit ==
  /\ ppc = "fit"
  /\ cached' = low
  /\ IF Headroom < (IF batch THEN 1 ELSE 0)
     THEN ppc' = "idle" /\ goal' = -1
     ELSE /\ ppc' = "write"
          /\ goal' = IF ~batch \/ goal - cursor <= Headroom THEN goal ELSE cursor + Headroom
  /\ low' = -1 /\ batch' = FALSE
  /\ UNCHANGED <<sharedVars, scan, written, readerVars, got, raced>>

WriteSlot ==
  /\ ppc = "write"
  /\ written' = written + 1
  /\ ppc' = IF written' = goal THEN "publish" ELSE "write"
  /\ UNCHANGED <<sharedVars, cached, batch, goal, scan, low, readerVars, got, raced>>

Publish ==
  /\ ppc = "publish"
  /\ cursor' = goal
  /\ ppc' = "idle"
  /\ goal' = -1
  /\ UNCHANGED <<bits, status, rcursor, cached, batch, scan, low, written, readerVars, got, raced>>

-----------------------------------------------------------------------------
(* A reader.                                                                *)

(* subscribe: a free slot is taken; which one does not matter.  With all    *)
(* slots taken the inlet stays disconnected.                                *)
Claim(r, i) ==
  /\ rpc[r] = "out"
  /\ status[i] = "free"
  /\ status' = [status EXCEPT ![i] = "live"]
  /\ id' = [id EXCEPT ![r] = i]
  /\ rpc' = [rpc EXCEPT ![r] = "claimed"]
  /\ UNCHANGED <<cursor, bits, rcursor, producerVars, want, till, got, raced>>

LoadStart(r) ==
  /\ rpc[r] = "claimed"
  /\ want' = [want EXCEPT ![r] = cursor + 1]
  /\ rpc' = [rpc EXCEPT ![r] = "loaded"]
  /\ UNCHANGED <<sharedVars, producerVars, id, till, got, raced>>

StoreStart(r) ==
  /\ rpc[r] = "loaded"
  /\ rcursor' = [rcursor EXCEPT ![id[r]] = want[r] - 1]
  /\ rpc' = [rpc EXCEPT ![r] = "stored"]
  /\ UNCHANGED <<cursor, bits, status, producerVars, id, want, till, got, raced>>

SetBit(r) ==
  /\ rpc[r] = "stored"
  /\ bits' = bits \cup {id[r]}
  /\ rpc' = [rpc EXCEPT ![r] = "idle"]
  /\ UNCHANGED <<cursor, status, rcursor, producerVars, id, want, till, got, raced>>

(* try_receive is a call for one message. *)
Receive(r, n) ==
  /\ rpc[r] = "idle"
  /\ cursor >= want[r]
  /\ till' = [till EXCEPT ![r] = IF cursor < want[r] + n - 1 THEN cursor ELSE want[r] + n - 1]
  /\ rpc' = [rpc EXCEPT ![r] = "copy"]
  /\ UNCHANGED <<sharedVars, producerVars, id, want, got, raced>>

(* Mutant: one message too many is stepped over. *)
AdvanceTooFar(r) ==
  /\ rpc[r] = "copy"
  /\ rcursor' = [rcursor EXCEPT ![id[r]] = till[r]]
  /\ want' = [want EXCEPT ![r] = IF till[r] < cursor THEN till[r] + 2 ELSE till[r] + 1]
  /\ got' = [got EXCEPT ![r] = @ \cup want[r]..till[r]]
  /\ till' = [till EXCEPT ![r] = -1]
  /\ rpc' = [rpc EXCEPT ![r] = "idle"]
  /\ UNCHANGED <<cursor, bits, status, producerVars, id, raced>>

(* The copy has ended. *)
Advance(r) ==
  /\ rpc[r] = "copy"
  /\ rcursor' = [rcursor EXCEPT ![id[r]] = till[r]]
  /\ want' = [want EXCEPT ![r] = till[r] + 1]
  /\ got' = [got EXCEPT ![r] = @ \cup want[r]..till[r]]
  /\ till' = [till EXCEPT ![r] = -1]
  /\ rpc' = [rpc EXCEPT ![r] = "idle"]
  /\ UNCHANGED <<cursor, bits, status, producerVars, id, raced>>

(* Mutant: the slot is given back and its bit stays. *)
KeepBit(r) ==
  /\ rpc[r] = "idle"
  /\ rpc' = [rpc EXCEPT ![r] = "cleared"]
  /\ UNCHANGED <<sharedVars, producerVars, id, want, till, got, raced>>

(* unsubscribe, as the inlet is disconnected. *)
ClearBit(r) ==
  /\ rpc[r] = "idle"
  /\ bits' = bits \ {id[r]}
  /\ rpc' = [rpc EXCEPT ![r] = "cleared"]
  /\ UNCHANGED <<cursor, status, rcursor, producerVars, id, want, till, got, raced>>

Free(r) ==
  /\ rpc[r] = "cleared"
  /\ status' = [status EXCEPT ![id[r]] = "free"]
  /\ id' = [id EXCEPT ![r] = None]
  /\ want' = [want EXCEPT ![r] = 0]
  /\ rpc' = [rpc EXCEPT ![r] = "out"]
  /\ got' = [got EXCEPT ![r] = {}]
  /\ raced' = raced \ {r}
  /\ UNCHANGED <<cursor, bits, rcursor, producerVars, till>>

-----------------------------------------------------------------------------
Producer ==
  \/ \E n \in 1..MaxBatch, many \in BOOLEAN : Offer(n, many)
  \/ LoadBits
  \/ \E i \in Slot : LoadCursor(i)
  \/ Fit \/ WriteSlot \/ Publish

Subscribe(r) ==
  \/ \E i \in Slot : Claim(r, i)
  \/ LoadStart(r) \/ StoreStart(r) \/ SetBit(r)

Consume(r) == (\E n \in 1..MaxBatch : Receive(r, n)) \/ Advance(r)

Unsubscribe(r) == ClearBit(r) \/ Free(r)

Next == Producer \/ \E r \in Reader : Subscribe(r) \/ Consume(r) \/ Unsubscribe(r)

Spec == Init /\ [][Next]_vars

(* The producer tries again after a refusal (RingFull is back-pressure to a *)
(* worker of the graph), with single messages or with batches; a reader     *)
(* that is in goes on reading and one that is joining or leaving goes on.   *)
FairSpec ==
  /\ Spec
  /\ WF_vars(Producer)
  /\ \A r \in Reader :
       WF_vars(LoadStart(r) \/ StoreStart(r) \/ SetBit(r) \/ Consume(r) \/ Free(r))

-----------------------------------------------------------------------------
(* A reader that copies messages finds them whole: the producer has not     *)
(* begun to write over the first of them.  Left out are the readers that    *)
(* were between their load of the cursor and the store of their bit when    *)
(* the producer loaded the bitmap.                                          *)
CopyIsWhole ==
  \A r \in Reader \ raced : rpc[r] = "copy" => want[r] > written - Cap

(* The ring is the log of BroadcastLog, for the readers no scan has missed. *)
In(r) == rpc[r] \in {"loaded", "stored", "idle", "copy"} /\ r \notin raced

Log == INSTANCE BroadcastLog WITH
  last <- cursor,
  at   <- [r \in Reader |-> IF In(r) THEN want[r] - 1 ELSE -2],
  got  <- [r \in Reader |-> IF In(r) THEN got[r] ELSE {}]

ImplementsLog == Log!Spec

(* The producer gets everything out as long as those that read go on: it is *)
(* never refused for good, whoever joins and leaves.                        *)
AllSent == <>(cursor = MaxSeq)

=============================================================================
