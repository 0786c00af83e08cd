--------------------------- MODULE RevertJournal ---------------------------
(***************************************************************************)
(* The crash-durable write-ahead journal of affinity placements            *)
(* (src/action/src/RevertJournal.cpp): a flat file of fixed-size slots.     *)
(* record_pending appends a PENDING slot; mark_applied and mark_reverted    *)
(* flip the status of the LATEST slot of a key in place; recover returns    *)
(* the surviving slots, one per key.                                        *)
(*                                                                          *)
(* A journal is a sequence of slots.  A key is the pair (pid, creation      *)
(* time).  A slot whose append stopped half-way is "torn": its magic, or    *)
(* the alignment of everything behind it, is lost, and every scan of the    *)
(* file stops there.                                                        *)
(***************************************************************************)
EXTENDS Naturals, Sequences

CONSTANTS
  Pid,      \* process identifiers
  Mask      \* affinity masks a process can have

(* The all-zero mask: nothing was captured, nothing can be restored. *)
NoMask == "no-mask"

ASSUME MaskAssumption == NoMask \notin Mask

Status == {"pending", "applied", "reverted", "torn"}

(* DiskRecord without its name, its applied mask and its wall clock, which  *)
(* nothing in the recovery path decides on.                                 *)
Slot == [pid : Pid, ct : Nat, prev : Mask \cup {NoMask}, st : Status]

NewSlot(p, ct, prev, st) == [pid |-> p, ct |-> ct, prev |-> prev, st |-> st]

(* record_pending: the slot lands behind the last one and is flushed before *)
(* the call returns.                                                        *)
RecordPending(j, p, ct, prev) == Append(j, NewSlot(p, ct, prev, "pending"))

(* append_record stopped by an I/O error or a kill: some bytes are there.   *)
RecordTorn(j, p, ct, prev) == Append(j, NewSlot(p, ct, prev, "torn"))

HasKey(slot, p, ct) == slot.st # "torn" /\ slot.pid = p /\ slot.ct = ct

(* The slots a scan from the start of the file reaches. *)
Readable(j) == {i \in DOMAIN j : \A k \in 1..i : j[k].st # "torn"}

(* find_offset: the in-memory index keeps, per key, the latest of the slots *)
(* this instance knows of.                                                  *)
IsLatest(j, known, i) ==
  /\ i \in known
  /\ \A k \in known : k > i => ~HasKey(j[k], j[i].pid, j[i].ct)

(* set_status: flip the latest known slot of the key, whatever its status.  *)
SetStatus(j, known, p, ct, st) ==
  [i \in DOMAIN j |->
     IF HasKey(j[i], p, ct) /\ IsLatest(j, known, i)
     THEN [j[i] EXCEPT !.st = st]
     ELSE j[i]]

MarkApplied(j, known, p, ct)  == SetStatus(j, known, p, ct, "applied")
MarkReverted(j, known, p, ct) == SetStatus(j, known, p, ct, "reverted")

(* recover: slots that are neither PENDING nor APPLIED are skipped first;   *)
(* of the rest the last one of each key survives.                           *)
Unresolved(j) == {i \in Readable(j) : j[i].st \in {"pending", "applied"}}

(* Mutant: the dedup keeps the first record of a key. *)
SurvivorsFirst(j) ==
  {i \in Unresolved(j) :
     \A k \in Unresolved(j) : k < i => ~HasKey(j[k], j[i].pid, j[i].ct)}

Survivors(j) ==
  {i \in Unresolved(j) :
     \A k \in Unresolved(j) : k > i => ~HasKey(j[k], j[i].pid, j[i].ct)}

Recover(j) == {j[i] : i \in Survivors(j)}
=============================================================================
