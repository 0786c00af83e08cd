----------------------------- MODULE RingChannel -----------------------------
(***************************************************************************)
(* The in-process ring of several producers and several readers            *)
(* (transport/RingChannel.hpp): producers claim a place by compare-and-swap *)
(* after looking at the slowest reader, write it and then publish its       *)
(* number; readers follow with a cursor each, join and leave at any time.   *)
(* Numbers begin at 1 here, 0 is "nothing yet"; the message of place n is n.*)
(* Memory is sequentially consistent.                                       *)
(***************************************************************************)
EXTENDS Integers, FiniteSets, FiniteSetsExt

CONSTANTS Producers, Readers,   \* threads that publish; the slots for readers
          Capacity,
          MaxClaims             \* bound: places ever claimed

ChannelAssumption == Capacity \in Nat \ {0} /\ MaxClaims \in Nat /\ Readers \subseteq Nat

VARIABLES producer_cursor, live_readers, reader_cursors,
          slots,      \* place -> [seq, data]
          pub,        \* producer -> [step, pos, live, min]: its call of publish()
          rd,         \* slot -> [step, got]: what the reader that has it does
          alone       \* history: no publish() was under way when the slot's reader took its cursor

vars == <<producer_cursor, live_readers, reader_cursors, slots, pub, rd, alone>>

NoReaders == -1       \* INT64_MIN in the code
Place(n) == n % Capacity
Idle == [step |-> "idle", pos |-> 0, live |-> {}, min |-> NoReaders]

Init == /\ producer_cursor = 0 /\ live_readers = {}
        /\ reader_cursors = [r \in Readers |-> 0]
        /\ slots = [i \in 0 .. Capacity - 1 |-> [seq |-> 0, data |-> 0]]
        /\ pub = [p \in Producers |-> Idle]
        /\ rd = [r \in Readers |-> [step |-> "off", got |-> 0]]
        /\ alone = [r \in Readers |-> FALSE]

----------------------------------------------------------------------------
(* publish() *)

Producing(p, from, to) == /\ pub[p].step = from /\ pub' = [pub EXCEPT ![p] = to]
                          /\ UNCHANGED <<live_readers, reader_cursors, rd, alone>>

\* The cursor is read, then the readers.
Publish(p) == /\ producer_cursor < MaxClaims
              /\ Producing(p, "idle", [pub[p] EXCEPT !.step = "live", !.pos = producer_cursor])
              /\ UNCHANGED <<producer_cursor, slots>>

\* min_reader_cursor_: the bitmap, then the cursors of those in it.
ScanLive(p, from, to) == /\ Producing(p, from, [pub[p] EXCEPT !.step = to, !.live = live_readers])
                         /\ UNCHANGED <<producer_cursor, slots>>

MinOf(live) == IF live = {} THEN NoReaders ELSE Min({reader_cursors[r] : r \in live})

ScanCursors(p, from, to) ==
  /\ Producing(p, from, [pub[p] EXCEPT !.step = to, !.min = MinOf(pub[p].live)])
  /\ UNCHANGED <<producer_cursor, slots>>

FullOverBy(v, n) == v.min # NoReaders /\ v.pos + 1 - v.min > Capacity + n
FullOff(v) == FullOverBy(v, 1)                         \* mutant: one more than there are places
Full(v) == FullOverBy(v, 0)

\* compare_exchange: the place is taken, or the cursor that was found is tried next.
Swap(p, from) ==
  IF producer_cursor = pub[p].pos
  THEN Producing(p, from, [pub[p] EXCEPT !.step = "write"]) /\ producer_cursor' = producer_cursor + 1
  ELSE /\ Producing(p, from, [pub[p] EXCEPT !.step = "claim", !.pos = producer_cursor])
       /\ UNCHANGED producer_cursor

\* The gate: full means another look, and full again the end of the call.
Claim(p) == /\ ~Full(pub[p]) /\ Swap(p, "claim") /\ UNCHANGED slots
LookAgain(p) == Full(pub[p]) /\ ScanLive(p, "claim", "cursors2")
ClaimAgain(p) == /\ ~Full(pub[p]) /\ Swap(p, "claim2") /\ UNCHANGED slots
ReturnFull(p) == Full(pub[p]) /\ Producing(p, "claim2", Idle) /\ UNCHANGED <<producer_cursor, slots>>

\* Data, then number.
WriteData(p) == /\ Producing(p, "write", [pub[p] EXCEPT !.step = "number"])
                /\ slots' = [slots EXCEPT ![Place(pub[p].pos + 1)].data = pub[p].pos + 1]
                /\ UNCHANGED producer_cursor
WriteSeq(p) == /\ Producing(p, "number", Idle)
               /\ slots' = [slots EXCEPT ![Place(pub[p].pos + 1)].seq = pub[p].pos + 1]
               /\ UNCHANGED producer_cursor

Producer(p) == \/ ScanLive(p, "live", "cursors") \/ ScanCursors(p, "cursors", "claim")
               \/ Claim(p) \/ LookAgain(p) \/ ScanCursors(p, "cursors2", "claim2")
               \/ ClaimAgain(p) \/ ReturnFull(p) \/ WriteData(p) \/ WriteSeq(p)

----------------------------------------------------------------------------
(* Readers. *)

Reading(r, from, to) == /\ rd[r].step = from /\ rd' = [rd EXCEPT ![r] = to]
                        /\ UNCHANGED <<producer_cursor, slots, pub>>

\* subscribe(): the first free slot, then the backlog is skipped.
Subscribe(r) == /\ Readers \ live_readers # {} /\ r = Min(Readers \ live_readers)
                /\ Reading(r, "off", [step |-> "joining", got |-> 0])
                /\ live_readers' = live_readers \cup {r}
                /\ UNCHANGED <<reader_cursors, alone>>
LoadCursor(r) == /\ Reading(r, "joining", [step |-> "placed", got |-> producer_cursor])
                 /\ alone' = [alone EXCEPT ![r] = \A p \in Producers : pub[p].step = "idle"]
                 /\ UNCHANGED <<live_readers, reader_cursors>>
StoreCursor(r) == /\ Reading(r, "placed", [step |-> "in", got |-> 0])
                  /\ reader_cursors' = [reader_cursors EXCEPT ![r] = rd[r].got]
                  /\ UNCHANGED <<live_readers, alone>>

Unsubscribe(r) == /\ Reading(r, "in", [step |-> "off", got |-> 0])
                  /\ live_readers' = live_readers \ {r}
                  /\ UNCHANGED <<reader_cursors, alone>>

\* try_consume(): the next place if it has its number, its data, then the cursor.
NextOf(r) == reader_cursors[r] + 1

Find(r) == /\ slots[Place(NextOf(r))].seq = NextOf(r)
           /\ Reading(r, "in", [step |-> "found", got |-> 0])
           /\ UNCHANGED <<live_readers, reader_cursors, alone>>
Copy(r) == /\ Reading(r, "found", [step |-> "copied", got |-> slots[Place(NextOf(r))].data])
           /\ UNCHANGED <<live_readers, reader_cursors, alone>>
Advance(r) == /\ Reading(r, "copied", [step |-> "in", got |-> 0])
              /\ reader_cursors' = [reader_cursors EXCEPT ![r] = NextOf(r)]
              /\ UNCHANGED <<live_readers, alone>>

Reader(r) == LoadCursor(r) \/ StoreCursor(r) \/ Find(r) \/ Copy(r) \/ Advance(r)

Next == \/ \E p \in Producers : Publish(p) \/ Producer(p)
        \/ \E r \in Readers : Subscribe(r) \/ Unsubscribe(r) \/ Reader(r)

Spec == Init /\ [][Next]_vars

----------------------------------------------------------------------------
(* Correctness. *)

Joined(r) == rd[r].step \in {"in", "found", "copied"}

\* What the reader of a slot has still to read is not written over, and what it took is it.
KeepsItsMessages(r) ==
  /\ \A n \in NextOf(r) .. producer_cursor : slots[Place(n)].seq <= n
  /\ rd[r].step = "copied" => rd[r].got = NextOf(r)

\* A reader that took its cursor while nobody published misses nothing, whoever joins or
\* leaves or stalls afterwards.
ReadersMissNothing == \A r \in Readers : Joined(r) /\ alone[r] => KeepsItsMessages(r)

\* "Each reader sees ALL messages published after its subscribe() call" (RingChannel.hpp:187).
EachReaderSeesAll == \A r \in Readers : Joined(r) => KeepsItsMessages(r)
=============================================================================
