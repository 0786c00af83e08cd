------------------------ MODULE ActionExecutorProofs ------------------------
(***************************************************************************)
(* Theorems of ActionExecutor for every set of pids, masks and rules and    *)
(* every bound.  First what holds under every combination of faults: its    *)
(* types, its table, and what a recovery may write to.                      *)
(*                                                                          *)
(* Then the write-ahead guarantee of the journal: as long as the            *)
(* environment is WellBehaved, a standing pin always has an unresolved slot *)
(* under its process's own key, and what a recovery would restore from it   *)
(* is the true mask.  JournalInv is inductive relative to TypeOK.  Most     *)
(* steps only take pins away or leave them (PinsShrink); the steps that     *)
(* need an argument are ApplySet, which creates a pin, and those that write *)
(* the journal.                                                             *)
(*                                                                          *)
(* On top of it: the agent knows of every pin (AccountInv), a pass of the   *)
(* dead-man takes them all back (DeadManInv), and a graceful exit leaves    *)
(* none, threads included (ThreadInv).                                      *)
(***************************************************************************)
EXTENDS ActionExecutor, FiniteSetTheorems, TLAPS

(* Flipping a status keeps a journal a journal, of the same length.         *)
LEMMA SetStatusType ==
  ASSUME NEW j \in Seq(Slot), NEW known, NEW p, NEW ct,
         NEW st \in Status
  PROVE  /\ SetStatus(j, known, p, ct, st) \in Seq(Slot)
         /\ Len(SetStatus(j, known, p, ct, st)) = Len(j)
         /\ DOMAIN SetStatus(j, known, p, ct, st) = DOMAIN j
<1> DEFINE f == SetStatus(j, known, p, ct, st)
<1>1. \A i \in 1..Len(j) : j[i] \in Slot
  OBVIOUS
<1>2. \A i \in 1..Len(j) : f[i] \in Slot
  <2> SUFFICES ASSUME NEW i \in 1..Len(j) PROVE f[i] \in Slot
    OBVIOUS
  <2>1. f[i] = [j[i] EXCEPT !.st = st] \/ f[i] = j[i]
    BY DEF SetStatus
  <2>2. j[i] \in Slot /\ [j[i] EXCEPT !.st = st] \in Slot
    BY <1>1 DEF Slot
  <2> QED
    BY <2>1, <2>2
<1>3. f = [i \in 1..Len(j) |-> f[i]]
  BY DEF SetStatus
<1>4. f \in Seq(Slot) /\ Len(f) = Len(j)
  BY <1>2, <1>3
<1> QED
  BY <1>4 DEF SetStatus

(* So does appending a slot. *)
LEMMA AppendType ==
  ASSUME NEW j \in Seq(Slot), NEW s \in Slot
  PROVE  /\ Append(j, s) \in Seq(Slot)
         /\ Len(Append(j, s)) = Len(j) + 1
         /\ DOMAIN Append(j, s) = 1 .. Len(j) + 1
         /\ Append(j, s)[Len(j) + 1] = s
         /\ \A i \in 1..Len(j) : Append(j, s)[i] = j[i]
OBVIOUS

(* Recover returns slots. *)
LEMMA RecoverType ==
  ASSUME NEW j \in Seq(Slot)
  PROVE  Recover(j) \subseteq Slot
BY DEF Recover, Survivors, Unresolved, Readable

-----------------------------------------------------------------------------
(* The types, one step per action. *)

LEMMA TypeEnvironment ==
  ASSUME TypeOK, Environment PROVE TypeOK'
<1> USE DEF TypeOK, agentVars, dmVars
<1>1. ASSUME NEW p \in Pid, NEW m \in Mask, Spawn(p, m) PROVE TypeOK'
  BY <1>1 DEF Spawn
<1>2. ASSUME NEW p \in Pid, NEW m \in Mask, External(p, m) PROVE TypeOK'
  BY <1>2 DEF External
<1>3. ASSUME NEW p \in Pid, Exit(p) PROVE TypeOK'
  BY <1>3, ExecutorAssumption DEF Exit
<1> QED
  BY <1>1, <1>2, <1>3 DEF Environment

LEMMA TypeApply ==
  ASSUME TypeOK, Apply PROVE TypeOK'
<1> USE DEF TypeOK, osVars, dmVars, PcAll, PcRecover, PcRevert, PcApply, PcDown
<1>1. ASSUME NEW p \in Pid, NEW r \in Rule, NEW m \in Mask, ApplyBegin(p, r, m)
      PROVE  TypeOK'
  BY <1>1 DEF ApplyBegin, Action, QueryCreationTime, GetAffinity
<1>2. CASE ApplyRecord
  <2>1. cur \in Action
    BY <1>2 DEF ApplyRecord
  <2>2. NewSlot(cur.pid, cur.ct, cur.prev, "pending") \in Slot
        /\ NewSlot(cur.pid, cur.ct, cur.prev, "torn") \in Slot
    BY <2>1 DEF Action, NewSlot, Slot, Status
  <2>3. \A s \in Slot : Append(journal, s) \in Seq(Slot)
    BY AppendType
  <2>4. journal' \in Seq(Slot)
    BY <1>2, <2>2, <2>3 DEF ApplyRecord, RecordPending, RecordTorn
  <2> QED
    BY <1>2, <2>4 DEF ApplyRecord
<1>3. CASE ApplySet
  BY <1>3 DEF ApplySet, Action
<1>4. CASE ApplySetFails
  BY <1>4 DEF ApplySetFails
<1>5. CASE ApplyCommit
  <2>1. journal' \in Seq(Slot)
    BY <1>5, SetStatusType DEF ApplyCommit, MarkApplied, Status
  <2> QED
    BY <1>5, <2>1 DEF ApplyCommit
<1>6. ASSUME NEW p \in Pid, ApplyDifferentialPin(p) PROVE TypeOK'
  BY <1>6, ExecutorAssumption DEF ApplyDifferentialPin
<1> QED
  BY <1>1, <1>2, <1>3, <1>4, <1>5, <1>6 DEF Apply

LEMMA RestoreType ==
  ASSUME TypeOK, NEW p \in Pid, NEW m \in Mask \cup {NoMask}, Restore(p, m)
  PROVE  mask' \in [Pid -> Mask] /\ origin' \in [Pid -> Mask \cup {NoMask}]
BY DEF TypeOK, Restore

LEMMA TypeReverts ==
  ASSUME TypeOK, Reverts PROVE TypeOK'
<1> USE DEF TypeOK, osVars, dmVars, PcAll, PcRecover, PcRevert, PcApply, PcDown
<1>1. ASSUME NEW rows \in SUBSET active, NEW pids \in SUBSET Pid,
             NEW e \in BOOLEAN, StartRevert(rows, pids, e)
      PROVE  TypeOK'
  BY <1>1 DEF StartRevert
<1>2. ASSUME NEW p \in Pid, Revert(p) PROVE TypeOK'
  BY <1>1, <1>2 DEF Revert, FindActive
<1>3. CASE RevertAll \/ Shutdown
  BY <1>1, <1>3 DEF RevertAll, Shutdown
<1>4. ASSUME NEW r \in Rule, RevertByRuleId(r) PROVE TypeOK'
  BY <1>1, <1>4 DEF RevertByRuleId
<1>5. ASSUME NEW p \in Pid, RevertThread(p) PROVE TypeOK'
  <2>1. mask' \in [Pid -> Mask] /\ origin' \in [Pid -> Mask \cup {NoMask}]
    BY <1>5, RestoreType, ExecutorAssumption DEF RevertThread
  <2> QED
    BY <1>5, <2>1 DEF RevertThread
<1>6. ASSUME NEW a \in todo, RevertSet(a) PROVE TypeOK'
  <2>1. a \in Action
    BY <1>6 DEF RevertSet
  <2>2. mask' \in [Pid -> Mask] /\ origin' \in [Pid -> Mask \cup {NoMask}]
    BY <1>6, <2>1, RestoreType DEF RevertSet, Action
  <2> QED
    BY <1>6, <2>1, <2>2 DEF RevertSet
<1>7. CASE RevertMark
  <2>1. journal' \in Seq(Slot)
    BY <1>7, SetStatusType DEF RevertMark, MarkReverted, Status
  <2> QED
    BY <1>7, <2>1 DEF RevertMark
<1>8. CASE RevertDone
  BY <1>8 DEF RevertDone
<1> QED
  BY <1>2, <1>3, <1>4, <1>5, <1>6, <1>7, <1>8 DEF Reverts

LEMMA TypeLifecycle ==
  ASSUME TypeOK, Lifecycle PROVE TypeOK'
<1> USE DEF TypeOK, osVars, dmVars, PcAll, PcRecover, PcRevert, PcApply, PcDown
<1>1. CASE Kill
  <2>1. journal' \in Seq(Slot)
    <3>1. CASE UNCHANGED journal
      BY <3>1
    <3>2. CASE pc = "captured" /\ journal' = RecordTorn(journal, cur.pid, cur.ct, cur.prev)
      <4>1. NewSlot(cur.pid, cur.ct, cur.prev, "torn") \in Slot
        BY <3>2 DEF NewSlot, Action, Slot, Status
      <4> QED
        BY <3>2, <4>1, AppendType DEF RecordTorn
    <3> QED
      BY <1>1, <3>1, <3>2 DEF Kill
  <2> QED
    BY <1>1, <2>1 DEF Kill
<1>2. CASE Start
  <2>1. todo' \subseteq Slot
    BY <1>2, RecoverType DEF Start
  <2>2. openLen' \in Nat
    BY <1>2 DEF Start
  <2> QED
    BY <1>2, <2>1, <2>2 DEF Start
<1>3. ASSUME NEW s \in todo, RecoverCheck(s) PROVE TypeOK'
  <2>1. s \in Slot /\ [slot |-> s, seen |-> lastCt] \in Checked
    BY <1>3 DEF RecoverCheck, Checked
  <2> QED
    BY <1>3, <2>1 DEF RecoverCheck
<1>7. CASE RecoverSet
  <2>1. cur.slot \in Slot
    BY <1>7 DEF RecoverSet, Checked
  <2>2. mask' \in [Pid -> Mask] /\ origin' \in [Pid -> Mask \cup {NoMask}]
    BY <1>7, <2>1, RestoreType DEF RecoverSet, Slot
  <2> QED
    BY <1>7, <2>1, <2>2 DEF RecoverSet
<1>4. CASE RecoverMark
  <2>1. journal' \in Seq(Slot)
    BY <1>4, SetStatusType DEF RecoverMark, MarkReverted, Status
  <2> QED
    BY <1>4, <2>1 DEF RecoverMark
<1>5. CASE RecoverDone
  BY <1>5 DEF RecoverDone
<1>6. ASSUME NEW listed \in SUBSET Pid, Refresh(listed) PROVE TypeOK'
  BY <1>6 DEF Refresh
<1> QED
  BY <1>1, <1>2, <1>3, <1>4, <1>5, <1>6, <1>7 DEF Lifecycle

LEMMA TypeDeadMan ==
  ASSUME TypeOK, DeadMan PROVE TypeOK'
<1> USE DEF TypeOK, osVars, agentVars
<1>1. CASE DmStart
  BY <1>1, RecoverType DEF DmStart
<1>2. ASSUME NEW s \in dmTodo, DmCheck(s) PROVE TypeOK'
  <2>1. s \in Slot /\ [slot |-> s, seen |-> lastCt] \in Checked
    BY DEF Checked
  <2> QED
    BY <1>2, <2>1 DEF DmCheck
<1>5. CASE DmSet
  <2>1. dmCur.slot \in Slot
    BY <1>5 DEF DmSet, Checked
  <2>2. mask' \in [Pid -> Mask] /\ origin' \in [Pid -> Mask \cup {NoMask}]
    BY <1>5, <2>1, RestoreType DEF DmSet, Slot
  <2> QED
    BY <1>5, <2>1, <2>2 DEF DmSet
<1>3. CASE DmMark
  <2>1. journal' \in Seq(Slot)
    BY <1>3, SetStatusType DEF DmMark, MarkReverted, Status
  <2> QED
    BY <1>3, <2>1 DEF DmMark
<1>4. CASE DmKill
  BY <1>4 DEF DmKill
<1> QED
  BY <1>1, <1>2, <1>3, <1>4, <1>5 DEF DeadMan

(* Type correctness, under every combination of faults. *)
THEOREM TypeCorrect == Spec => []TypeOK
<1>1. ASSUME Init PROVE TypeOK
  <2>1. journal \in Seq(Slot)
    BY <1>1 DEF Init
  <2> QED
    BY <1>1, <2>1, ExecutorAssumption DEF Init, TypeOK, PcAll, PcRecover, PcRevert,
        PcApply, PcDown
<1>2. TypeOK /\ [Next]_vars => TypeOK'
  <2>1. ASSUME TypeOK, UNCHANGED vars PROVE TypeOK'
    BY <2>1 DEF TypeOK, vars, osVars, agentVars, dmVars
  <2> QED
    BY <2>1, TypeEnvironment, TypeApply, TypeReverts, TypeLifecycle, TypeDeadMan
    DEF Next
<1> QED
  BY <1>1, <1>2, PTL DEF Spec

-----------------------------------------------------------------------------
(* The table of placements.                                                 *)

(* apply() looks at the table and at its size when it begins; nothing else   *)
(* enters a row until it commits its own.                                   *)
TableInv ==
  /\ TableSound
  /\ IsFiniteSet(active) /\ IsFiniteSet(threads)
  /\ pc \in PcApply => /\ cur.pid \in tracked
                       /\ FindActive(cur.pid) = {}
                       /\ Cardinality(active) < MaxActive

(* Rows that leave, with their thread pins: what is left is sound.          *)
LEMMA FewerRows ==
  ASSUME TypeOK, TableInv,
         active' \subseteq active, threads' \subseteq threads,
         \A a \in active' : a.pid \in tracked',
         pc' \notin PcApply
  PROVE  TableInv'
<1>1. /\ IsFiniteSet(active') /\ Cardinality(active') <= Cardinality(active)
      /\ Cardinality(active') \in Nat /\ Cardinality(active) \in Nat
  BY FS_Subset, FS_CardinalityType DEF TableInv
<1>2. /\ IsFiniteSet(threads') /\ Cardinality(threads') <= Cardinality(threads)
      /\ Cardinality(threads') \in Nat /\ Cardinality(threads) \in Nat
  BY FS_Subset, FS_CardinalityType DEF TableInv
<1>3. Cardinality(active') <= MaxActive /\ Cardinality(threads') <= MaxActive
  BY <1>1, <1>2, ExecutorAssumption DEF TableInv, TableSound
<1> QED
  BY <1>1, <1>2, <1>3 DEF TableInv, TableSound

(* A step that leaves the tables alone, and the action in flight too if one  *)
(* still is.                                                                *)
LEMMA SameRows ==
  ASSUME TableInv, UNCHANGED <<active, threads, tracked>>,
         pc' \in PcApply => pc \in PcApply /\ cur' = cur
  PROVE  TableInv'
BY DEF TableInv, TableSound, FindActive

LEMMA TableStep ==
  ASSUME TypeOK, TableInv, [Next]_vars PROVE TableInv'
<1> USE DEF PcApply, PcRecover, PcRevert, PcDown
<1>1. CASE Environment \/ DeadMan \/ UNCHANGED vars
  <2>1. UNCHANGED agentVars
    BY <1>1 DEF Environment, Spawn, External, Exit, DeadMan, DmStart, DmCheck, DmSet,
        DmMark, DmKill, vars
  <2> QED
    BY <2>1, SameRows DEF agentVars
<1>2. CASE Apply
  <2>1. ASSUME NEW p \in Pid, NEW r \in Rule, NEW m \in Mask, ApplyBegin(p, r, m)
        PROVE  TableInv'
    BY <2>1 DEF ApplyBegin, TableInv, TableSound, FindActive
  <2>2. CASE ApplyRecord \/ ApplySet \/ ApplySetFails
    BY <2>2, SameRows DEF ApplyRecord, ApplySet, ApplySetFails
  <2>3. CASE ApplyCommit
    <3>1. /\ cur \notin active /\ cur.pid \in tracked
          /\ \A a \in active : a.pid # cur.pid
          /\ IsFiniteSet(active) /\ Cardinality(active) < MaxActive
      BY <2>3 DEF ApplyCommit, TableInv, FindActive
    <3>2. /\ IsFiniteSet(active \cup {cur}) /\ Cardinality(active) \in Nat
          /\ Cardinality(active \cup {cur}) = Cardinality(active) + 1
      BY <3>1, FS_AddElement, FS_CardinalityType
    <3>3. Cardinality(active') <= MaxActive
      BY <2>3, <3>1, <3>2, ExecutorAssumption DEF ApplyCommit
    <3> QED
      BY <2>3, <3>1, <3>2, <3>3 DEF ApplyCommit, TableInv, TableSound
  <2>4. ASSUME NEW p \in Pid, ApplyDifferentialPin(p) PROVE TableInv'
    <3>1. /\ IsFiniteSet(threads \cup {p}) /\ Cardinality(threads) \in Nat
          /\ Cardinality(threads \cup {p}) = Cardinality(threads) + 1
      BY <2>4, FS_AddElement, FS_CardinalityType DEF ApplyDifferentialPin, TableInv
    <3>2. Cardinality(threads') <= MaxActive
      BY <2>4, <3>1, ExecutorAssumption DEF ApplyDifferentialPin
    <3> QED
      BY <2>4, <3>1, <3>2 DEF ApplyDifferentialPin, TableInv, TableSound
  <2> QED
    BY <1>2, <2>1, <2>2, <2>3, <2>4 DEF Apply
<1>3. CASE Reverts
  <2>1. ASSUME NEW rows, NEW pids, NEW e, StartRevert(rows, pids, e) PROVE TableInv'
    BY <2>1, SameRows DEF StartRevert
  <2>2. ASSUME NEW p \in Pid, RevertThread(p) PROVE TableInv'
    BY <2>2, FewerRows DEF RevertThread, TableInv, TableSound
  <2>3. ASSUME NEW a \in todo, RevertSet(a) PROVE TableInv'
    BY <2>3, SameRows DEF RevertSet
  <2>4. CASE RevertMark
    BY <2>4, FewerRows DEF RevertMark, TableInv, TableSound
  <2>5. CASE RevertDone
    BY <2>5, SameRows DEF RevertDone
  <2> QED
    BY <1>3, <2>1, <2>2, <2>3, <2>4, <2>5
    DEF Reverts, Revert, RevertAll, RevertByRuleId, Shutdown
<1>4. CASE Lifecycle
  <2>1. CASE Kill \/ Start
    BY <2>1, FewerRows DEF Kill, Start
  <2>2. CASE RecoverSet \/ RecoverMark \/ RecoverDone \/ \E s \in todo : RecoverCheck(s)
    BY <2>2, SameRows DEF RecoverMark, RecoverDone, RecoverCheck, RecoverSet
  <2>3. ASSUME NEW listed \in SUBSET Pid, Refresh(listed) PROVE TableInv'
    BY <2>3, FewerRows DEF Refresh
  <2> QED
    BY <1>4, <2>1, <2>2, <2>3 DEF Lifecycle
<1> QED
  BY <1>1, <1>2, <1>3, <1>4 DEF Next

(* The active table never holds two rows of a pid nor more rows than it has  *)
(* room for, and every row is of a tracked process, whatever faults happen   *)
(* (ActionExecutor::apply, prune_dead).                                      *)
THEOREM TableStaysSound == Spec => []TableSound
<1>1. Init => TableInv
  <2>1. IsFiniteSet({}) /\ Cardinality({}) = 0
    BY FS_EmptySet
  <2> QED
    BY <2>1, ExecutorAssumption DEF Init, TableInv, TableSound, PcApply
<1>2. TableInv => TableSound
  BY DEF TableInv
<1> QED
  BY <1>1, <1>2, TableStep, TypeCorrect, PTL DEF Spec

-----------------------------------------------------------------------------
(* What a recovery writes.                                                  *)

(* Whatever is still to reconcile is in the journal, whole, under its key.  *)
OnRecord(s) ==
  \E i \in DOMAIN journal : HasKey(journal[i], s.pid, s.ct) /\ journal[i].prev = s.prev

(* What the guard has recognised is that, and still is the process behind    *)
(* the pid, unless one was created since.                                   *)
Guarded(c) ==
  /\ OnRecord(c.slot) /\ c.seen <= lastCt
  /\ c.slot.ct = ctime[c.slot.pid] \/ ctime[c.slot.pid] > c.seen

RecoveryInv ==
  /\ pc \in PcRecover => \A s \in todo : OnRecord(s)
  /\ dm # "off" => \A s \in dmTodo : OnRecord(s)
  /\ pc = "recover_set" => Guarded(cur)
  /\ dm = "set" => Guarded(dmCur)

(* The journal forgets no slot: appends leave the others alone, and a change *)
(* of status is no change of key or mask.                                   *)
LEMMA AppendKeepsRecords ==
  ASSUME journal \in Seq(Slot), NEW s \in Slot, NEW slot,
         journal' = Append(journal, slot), slot \in Slot, OnRecord(s)
  PROVE  OnRecord(s)'
<1>1. PICK i \in DOMAIN journal : HasKey(journal[i], s.pid,
s.ct) /\ journal[i].prev = s.prev
  BY DEF OnRecord
<1>2. i \in DOMAIN journal' /\ journal'[i] = journal[i]
  BY <1>1, AppendType
<1> QED
  BY <1>1, <1>2 DEF OnRecord

LEMMA MarkKeepsRecords ==
  ASSUME journal \in Seq(Slot), NEW s \in Slot, NEW known, NEW p, NEW ct,
         NEW st \in {"applied", "reverted"},
         journal' = SetStatus(journal, known, p, ct, st), OnRecord(s)
  PROVE  OnRecord(s)'
<1>1. PICK i \in DOMAIN journal : HasKey(journal[i], s.pid,
s.ct) /\ journal[i].prev = s.prev
  BY DEF OnRecord
<1>2. i \in DOMAIN journal' /\ journal[i] \in Slot
  BY <1>1 DEF SetStatus
<1>3. journal'[i] = journal[i] \/ journal'[i] = [journal[i] EXCEPT !.st = st]
  BY <1>1 DEF SetStatus
<1>4. HasKey(journal'[i], s.pid, s.ct) /\ journal'[i].prev = s.prev
  BY <1>1, <1>2, <1>3 DEF HasKey, Slot
<1> QED
  BY <1>2, <1>4 DEF OnRecord

LEMMA StepKeepsRecords ==
  ASSUME TypeOK, [Next]_vars, NEW s \in Slot, OnRecord(s) PROVE OnRecord(s)'
<1> USE DEF TypeOK
<1>1. CASE UNCHANGED journal
  BY <1>1 DEF OnRecord
<1>2. CASE ApplyRecord \/ (Kill /\ ~UNCHANGED journal)
  <2>1. cur \in Action
    BY <1>2 DEF ApplyRecord, Kill, PcApply
  <2>2. \A st \in Status : NewSlot(cur.pid, cur.ct, cur.prev, st) \in Slot
    BY <2>1 DEF Action, NewSlot, Slot
  <2>3. PICK st \in {"pending", "torn"} :
          journal' = Append(journal, NewSlot(cur.pid, cur.ct, cur.prev, st))
    BY <1>2 DEF ApplyRecord, Kill, RecordPending, RecordTorn
  <2> QED
    BY <2>2, <2>3, AppendKeepsRecords DEF Status
<1>3. CASE ApplyCommit
  BY <1>3, MarkKeepsRecords DEF ApplyCommit, MarkApplied
<1>4. CASE RevertMark \/ RecoverMark
  BY <1>4, MarkKeepsRecords DEF RevertMark, RecoverMark, MarkReverted
<1>5. CASE DmMark
  BY <1>5, MarkKeepsRecords DEF DmMark, MarkReverted
<1>6. \/ UNCHANGED journal \/ ApplyRecord \/ ApplyCommit \/ RevertMark \/ Kill \/ RecoverMark
      \/ DmMark
  BY DEF Next, vars, Environment, Spawn, External, Exit,
         Apply, ApplyBegin, ApplySet, ApplySetFails, ApplyDifferentialPin,
         Reverts, Revert, RevertAll, RevertByRuleId, Shutdown, StartRevert, RevertThread,
         RevertSet, RevertDone,
         Lifecycle, Start, RecoverCheck, RecoverSet, RecoverDone, Refresh, DeadMan,
         DmStart, DmCheck, DmSet, DmKill
<1> QED
  BY <1>1, <1>2, <1>3, <1>4, <1>5, <1>6

(* recover() returns what it read.                                          *)
LEMMA RecoverReads ==
  ASSUME TypeOK PROVE \A s \in Recover(journal) : OnRecord(s)
<1> SUFFICES ASSUME NEW i \in Survivors(journal) PROVE OnRecord(journal[i])
  BY DEF Recover
<1>1. i \in DOMAIN journal /\ journal[i].st # "torn"
  BY DEF Survivors, Unresolved, Readable
<1> QED
  BY <1>1 DEF OnRecord, HasKey

LEMMA StepKeepsGuarded ==
  ASSUME TypeOK, [Next]_vars, NEW c \in Checked, Guarded(c) PROVE Guarded(c)'
<1> DEFINE q == c.slot.pid
<1>1. c.slot \in Slot /\ c.seen \in Nat /\ q \in Pid /\ lastCt \in Nat /\ ctime[q] \in Nat
  BY DEF Checked, Slot, TypeOK
<1>2. OnRecord(c.slot)'
  BY <1>1, StepKeepsRecords DEF Guarded
<1>3. \/ UNCHANGED <<lastCt, ctime>>
      \/ \E p \in Pid : lastCt' = lastCt + 1 /\ ctime' = [ctime EXCEPT ![p] = lastCt + 1]
  BY DEF Next, vars, osVars, Environment, Spawn, External, Exit,
         Apply, ApplyBegin, ApplyRecord, ApplySet, ApplySetFails, ApplyCommit,
         ApplyDifferentialPin, Reverts, Revert, RevertAll, RevertByRuleId, Shutdown,
         StartRevert, RevertThread, RevertSet, RevertMark, RevertDone,
         Lifecycle, Kill, Start, RecoverCheck, RecoverSet, RecoverMark, RecoverDone,
         Refresh,
         DeadMan, DmStart, DmCheck, DmSet, DmMark, DmKill
<1>4. lastCt' >= lastCt /\ (ctime'[q] = ctime[q] \/ ctime'[q] = lastCt + 1)
  BY <1>1, <1>3 DEF TypeOK
<1>5. lastCt' \in Nat /\ ctime'[q] \in Nat
  BY <1>1, <1>3, <1>4
<1> QED
  BY <1>1, <1>2, <1>4, <1>5 DEF Guarded

LEMMA RecoveryStep ==
  ASSUME TypeOK, RecoveryInv, [Next]_vars PROVE RecoveryInv'
<1> USE DEF PcRecover
<1>1. pc' \in PcRecover => \A s \in todo' : OnRecord(s)'
  <2>1. CASE Start
    BY <2>1, RecoverReads, RecoverType, StepKeepsRecords DEF Start, TypeOK
  <2>2. CASE pc \in PcRecover /\ todo' \subseteq todo
    BY <2>2, StepKeepsRecords DEF RecoveryInv, TypeOK
  <2>3. pc' \in PcRecover => Start \/ (pc \in PcRecover /\ todo' \subseteq todo)
    BY DEF Next, vars, Environment, Spawn, External, Exit,
           Apply, ApplyBegin, ApplyRecord, ApplySet, ApplySetFails, ApplyCommit,
           ApplyDifferentialPin, Reverts, Revert, RevertAll, RevertByRuleId, Shutdown,
           StartRevert, RevertThread, RevertSet, RevertMark, RevertDone,
           Lifecycle, Kill, RecoverCheck, RecoverSet, RecoverMark, RecoverDone, Refresh,
           DeadMan, DmStart, DmCheck, DmSet, DmMark, DmKill, agentVars
  <2> QED
    BY <2>1, <2>2, <2>3
<1>2. dm' # "off" => \A s \in dmTodo' : OnRecord(s)'
  <2>1. CASE DmStart
    BY <2>1, RecoverReads, RecoverType, StepKeepsRecords DEF DmStart, TypeOK
  <2>2. CASE dm # "off" /\ dmTodo' \subseteq dmTodo
    BY <2>2, StepKeepsRecords DEF RecoveryInv, TypeOK
  <2>3. dm' # "off" => DmStart \/ (dm # "off" /\ dmTodo' \subseteq dmTodo)
    BY DEF Next, vars, Environment, Spawn, External, Exit,
           Apply, ApplyBegin, ApplyRecord, ApplySet, ApplySetFails, ApplyCommit,
           ApplyDifferentialPin, Reverts, Revert, RevertAll, RevertByRuleId, Shutdown,
           StartRevert, RevertThread, RevertSet, RevertMark, RevertDone,
           Lifecycle, Kill, Start, RecoverCheck, RecoverSet, RecoverMark, RecoverDone,
           Refresh,
           DeadMan, DmCheck, DmSet, DmMark, DmKill, dmVars
  <2> QED
    BY <2>1, <2>2, <2>3
<1>3. pc' = "recover_set" => Guarded(cur)'
  <2>1. ASSUME NEW s \in todo, RecoverCheck(s), pc' = "recover_set" PROVE Guarded(cur)'
    <3>1. /\ StillMatches(s) /\ cur' = [slot |-> s, seen |-> lastCt] /\ lastCt \in Nat
          /\ OnRecord(s) /\ UNCHANGED <<lastCt, ctime, journal>>
      BY <2>1 DEF RecoverCheck, RecoveryInv, TypeOK, osVars
    <3> QED
      BY <3>1 DEF Guarded, OnRecord, StillMatches
  <2>2. CASE pc = "recover_set" /\ cur' = cur
    BY <2>2, StepKeepsGuarded DEF RecoveryInv, TypeOK
  <2>3. pc' = "recover_set" =>
          (\E s \in todo : RecoverCheck(s)) \/ (pc = "recover_set" /\ cur' = cur)
    BY DEF Next, vars, Environment, Spawn, External, Exit,
           Apply, ApplyBegin, ApplyRecord, ApplySet, ApplySetFails, ApplyCommit,
           ApplyDifferentialPin, Reverts, Revert, RevertAll, RevertByRuleId, Shutdown,
           StartRevert, RevertThread, RevertSet, RevertMark, RevertDone,
           Lifecycle, Kill, Start, RecoverSet, RecoverMark, RecoverDone, Refresh,
           DeadMan, DmStart, DmCheck, DmSet, DmMark, DmKill, agentVars
  <2> QED
    BY <2>1, <2>2, <2>3
<1>4. dm' = "set" => Guarded(dmCur)'
  <2>1. ASSUME NEW s \in dmTodo, DmCheck(s), dm' = "set" PROVE Guarded(dmCur)'
    <3>1. /\ StillMatches(s) /\ dmCur' = [slot |-> s, seen |-> lastCt] /\ lastCt \in Nat
          /\ OnRecord(s) /\ UNCHANGED <<lastCt, ctime, journal>>
      BY <2>1 DEF DmCheck, RecoveryInv, TypeOK, osVars
    <3> QED
      BY <3>1 DEF Guarded, OnRecord, StillMatches
  <2>2. CASE dm = "set" /\ dmCur' = dmCur
    BY <2>2, StepKeepsGuarded DEF RecoveryInv, TypeOK
  <2>3. dm' = "set" =>
          (\E s \in dmTodo : DmCheck(s)) \/ (dm = "set" /\ dmCur' = dmCur)
    BY DEF Next, vars, Environment, Spawn, External, Exit,
           Apply, ApplyBegin, ApplyRecord, ApplySet, ApplySetFails, ApplyCommit,
           ApplyDifferentialPin, Reverts, Revert, RevertAll, RevertByRuleId, Shutdown,
           StartRevert, RevertThread, RevertSet, RevertMark, RevertDone,
           Lifecycle, Kill, Start, RecoverCheck, RecoverSet, RecoverMark, RecoverDone,
           Refresh,
           DeadMan, DmStart, DmSet, DmMark, DmKill, dmVars
  <2> QED
    BY <2>1, <2>2, <2>3
<1> QED
  BY <1>1, <1>2, <1>3, <1>4 DEF RecoveryInv

(* A recovery, of the agent or of the dead-man, writes only a mask that a     *)
(* slot of the journal captured, and only to the process incarnation this     *)
(* slot names, or to one that took its pid after the guard had looked,        *)
(* whatever faults happen (process_still_matches and the Set* that follows).  *)
THEOREM RecoveryIsAimed == Spec => RecoveryHitsItsOwnProcess
<1>1. Init => RecoveryInv
  BY DEF Init, RecoveryInv, PcRecover
<1>2. ASSUME TypeOK, NEW c \in Checked, Guarded(c), Restore(c.slot.pid, c.slot.prev),
             NEW p \in Pid, mask'[p] # mask[p]
      PROVE  Aimed(p, mask'[p], c.seen)
  <2>1. p = c.slot.pid /\ mask'[p] = c.slot.prev
    BY <1>2 DEF Restore, TypeOK
  <2>2. PICK i \in DOMAIN journal : HasKey(journal[i], p,
  c.slot.ct) /\ journal[i].prev = mask'[p]
    BY <1>2, <2>1 DEF Guarded, OnRecord
  <2> QED
    BY <1>2, <2>1, <2>2 DEF Guarded, Aimed, HasKey
<1>3. ASSUME TypeOK, RecoveryInv, Next, NEW p \in Pid, mask'[p] # mask[p]
      PROVE  /\ pc = "recover_set" /\ pc' = "recover_mark" => Aimed(p, mask'[p], cur.seen)
             /\ dm = "set" /\ dm' = "mark" => Aimed(p, mask'[p], dmCur.seen)
  <2>1. pc = "recover_set" /\ pc' = "recover_mark" => RecoverSet
    BY <1>3 DEF Next, Environment, Spawn, External, Exit,
           Apply, ApplyBegin, ApplyRecord, ApplySet, ApplySetFails, ApplyCommit,
           ApplyDifferentialPin, Reverts, Revert, RevertAll, RevertByRuleId, Shutdown,
           StartRevert, RevertThread, RevertSet, RevertMark, RevertDone,
           Lifecycle, Kill, Start, RecoverCheck, RecoverMark, RecoverDone, Refresh,
           DeadMan, DmStart, DmCheck, DmSet, DmMark, DmKill, agentVars
  <2>2. dm = "set" /\ dm' = "mark" => DmSet
    BY <1>3 DEF Next, Environment, Spawn, External, Exit,
           Apply, ApplyBegin, ApplyRecord, ApplySet, ApplySetFails, ApplyCommit,
           ApplyDifferentialPin, Reverts, Revert, RevertAll, RevertByRuleId, Shutdown,
           StartRevert, RevertThread, RevertSet, RevertMark, RevertDone,
           Lifecycle, Kill, Start, RecoverCheck, RecoverSet, RecoverMark, RecoverDone,
           Refresh,
           DeadMan, DmStart, DmCheck, DmMark, DmKill, dmVars
  <2>3. (pc = "recover_set" => cur \in Checked) /\ (dm = "set" => dmCur \in Checked)
    BY <1>3 DEF TypeOK
  <2> QED
    BY <1>2, <1>3, <2>1, <2>2, <2>3 DEF RecoverSet, DmSet, RecoveryInv
<1>4. TypeOK /\ RecoveryInv /\ [Next]_vars =>
        [\A p \in Pid : mask'[p] # mask[p] =>
           /\ pc = "recover_set" /\ pc' = "recover_mark" => Aimed(p, mask'[p], cur.seen)
           /\ dm = "set" /\ dm' = "mark" => Aimed(p, mask'[p], dmCur.seen)]_vars
  BY <1>3
<1> QED
  BY <1>1, <1>4, RecoveryStep, TypeCorrect, PTL DEF Spec, RecoveryHitsItsOwnProcess

----------------------------------------------------------------------------
(* The write-ahead protocol.                                                *)

(* The invariant holds when every append reaches the disk whole, a Set* that *)
(* undoes a placement of a live process is never refused, nothing touches a  *)
(* process between its capture and its Set*, and the dead-man does not        *)
(* overlap an agent; kills, refused placements, recycled pids, foreign        *)
(* affinity changes and failed enumerations are all allowed.                 *)
WellBehaved == Faults \cap {"race", "torn", "revert_fails", "overlap"} = {}

NoTornSlot == \A i \in DOMAIN journal : journal[i].st # "torn"

(* A pin lives and dies with its process, and shows in its affinity: this   *)
(* is what keeps the observer from admitting a pinned process anew.         *)
PinsShow == \A p \in Pinned : p \in alive /\ mask[p] # Default

(* Slot i of the journal is the one that describes the pin of p, and the    *)
(* last of its key.                                                         *)
Describes(i, p) ==
  /\ HasKey(journal[i], p, ctime[p])
  /\ journal[i].prev = origin[p]
  /\ journal[i].st \in {"pending", "applied"}
  /\ \A k \in DOMAIN journal : k > i => ~HasKey(journal[k], p, ctime[p])

PinsDescribed == \A p \in Pinned : \E i \in DOMAIN journal : Describes(i, p)

(* apply() holds what it captured, and has written it down before its Set*. *)
ApplyWindow ==
  /\ pc \in PcApply => cur.new # Default
  /\ pc \in {"captured", "journaled"} =>
       /\ cur.pid \notin Pinned
       /\ cur.pid \in alive => cur.ct = ctime[cur.pid] /\ cur.prev = mask[cur.pid]
  /\ pc = "journaled" =>
       /\ journal # <<>>
       /\ journal[Len(journal)] = NewSlot(cur.pid, cur.ct, cur.prev, "pending")
  /\ pc = "set" => cur.prev # NoMask

(* A tracked process with a pin has a row, so apply() will not start over   *)
(* and capture our own mask as the one to restore.                          *)
TrackedPinsHaveRows ==
  \A p \in Pinned \cap tracked :
    (\E a \in active : a.pid = p) \/ (pc = "set" /\ cur.pid = p)

(* A row always has a mask to restore, so no revert is refused for want of  *)
(* one and marked reverted all the same.                                    *)
RowsRestorable ==
  /\ \A a \in active : a.prev # NoMask
  /\ pc \in PcRevert => \A a \in todo : a.prev # NoMask
  /\ pc = "revert_mark" => cur.pid \notin Pinned

(* The pin a slot would restore, if it is still there. *)
StandsFor(s) == s.pid \in Pinned /\ s.ct = ctime[s.pid]

RecoveriesSound ==
  /\ pc \in PcRecover => \A s \in todo : StandsFor(s) => s.prev = origin[s.pid]
  /\ pc = "recover_set" => (StandsFor(cur.slot) => cur.slot.prev = origin[cur.slot.pid])
  /\ pc = "recover_mark" => ~StandsFor(cur)
  /\ dm # "off" => /\ \A s \in dmTodo : StandsFor(s) => s.prev = origin[s.pid]
                   /\ pc \in PcDown
  /\ dm = "set" => (StandsFor(dmCur.slot) => dmCur.slot.prev = origin[dmCur.slot.pid])
  /\ dm = "mark" => ~StandsFor(dmCur)

JournalInv ==
  /\ NoTornSlot
  /\ PinsShow
  /\ PinsDescribed
  /\ ApplyWindow
  /\ TrackedPinsHaveRows
  /\ RowsRestorable
  /\ RecoveriesSound
-----------------------------------------------------------------------------

(* A step after which every pin is an old one, on the same process.         *)
PinsShrink ==
  \A p \in Pinned' : /\ p \in Pinned
                     /\ origin'[p] = origin[p]
                     /\ ctime'[p] = ctime[p]
                     /\ mask'[p] = mask[p]
                     /\ p \in alive'

LEMMA ShrinkKeepsPins ==
  ASSUME TypeOK, PinsShow, PinsDescribed, PinsShrink, UNCHANGED journal
  PROVE  PinsShow' /\ PinsDescribed'
BY DEF PinsShow, PinsDescribed, Describes, HasKey, PinsShrink, Pinned

(* A Restore that cannot be refused takes the pin of a live process away.   *)
LEMMA RestoreShrinks ==
  ASSUME TypeOK, WellBehaved, PinsShow, NEW p \in Pid,
         NEW m \in Mask \cup {NoMask}, Restore(p, m), UNCHANGED <<alive, ctime>>
  PROVE  /\ PinsShrink
         /\ m # NoMask => p \notin Pinned'
<1>1. \A q \in Pid : \/ origin'[q] = origin[q] /\ mask'[q] = mask[q]
                     \/ origin'[q] = NoMask
  BY DEF Restore, TypeOK
<1>2. p \in alive /\ m # NoMask => origin'[p] = NoMask
  BY DEF Restore, TypeOK, WellBehaved
<1>3. p \notin alive => origin'[p] = NoMask
  BY DEF Restore, PinsShow, Pinned
<1> QED
  BY <1>1, <1>2, <1>3 DEF PinsShrink, Pinned, PinsShow

(* Flipping the status of a slot that no pin needs, or to APPLIED, leaves   *)
(* every pin described.                                                     *)
LEMMA MarkKeepsPins ==
  ASSUME TypeOK, NoTornSlot, PinsDescribed,
         NEW known, NEW q, NEW ct, NEW st \in {"applied", "reverted"},
         journal' = SetStatus(journal, known, q, ct, st),
         st = "reverted" => ~(q \in Pinned /\ ct = ctime[q]),
         UNCHANGED <<origin, ctime>>
  PROVE  NoTornSlot' /\ PinsDescribed'
<1> USE DEF TypeOK
<1>1. DOMAIN journal' = DOMAIN journal
  BY DEF SetStatus
<1>2. \A i \in DOMAIN journal : journal[i] \in Slot
  OBVIOUS
<1>3. ASSUME NEW i \in DOMAIN journal
      PROVE  /\ journal'[i].pid = journal[i].pid
             /\ journal'[i].ct = journal[i].ct
             /\ journal'[i].prev = journal[i].prev
             /\ \/ journal'[i].st = journal[i].st
                \/ journal'[i].st = st /\ HasKey(journal[i], q, ct)
  <2>1. \/ journal'[i] = journal[i]
        \/ HasKey(journal[i], q, ct) /\ journal'[i] = [journal[i] EXCEPT !.st = st]
    BY DEF SetStatus
  <2> QED
    BY <2>1, <1>2 DEF Slot
<1>4. NoTornSlot'
  BY <1>1, <1>3 DEF NoTornSlot
<1>5. ASSUME NEW p \in Pinned' PROVE \E i \in DOMAIN journal' : Describes(i, p)'
  <2>1. p \in Pinned
    BY DEF Pinned
  <2>2. PICK i \in DOMAIN journal : Describes(i, p)
    BY <2>1 DEF PinsDescribed
  <2>3. \A k \in DOMAIN journal :
          HasKey(journal'[k], p, ctime[p]) <=> HasKey(journal[k], p, ctime[p])
    BY <1>1, <1>3, <1>4 DEF HasKey, NoTornSlot
  <2>4. journal'[i].st \in {"pending", "applied"}
    <3>1. HasKey(journal[i], p, ctime[p]) /\ journal[i].st \in {"pending", "applied"}
      BY <2>2 DEF Describes
    <3>2. CASE HasKey(journal[i], q, ct) /\ journal'[i].st = st
      BY <2>1, <3>1, <3>2 DEF HasKey
    <3> QED
      BY <1>3, <3>1, <3>2
  <2>5. Describes(i, p)'
    BY <1>1, <1>3, <2>2, <2>3, <2>4 DEF Describes
  <2> QED
    BY <1>1, <2>5
<1> QED
  BY <1>4, <1>5 DEF PinsDescribed

-----------------------------------------------------------------------------
(* What the invariant says of the two reads of the journal.                 *)

LEMMA DescribedIsRecovered ==
  ASSUME TypeOK, NoTornSlot, PinsDescribed PROVE WriteAhead
<1> SUFFICES ASSUME NEW p \in Pinned
             PROVE  \E s \in Recover(journal) : s.pid = p /\ s.ct = ctime[p]
  BY DEF WriteAhead
<1>1. PICK i \in DOMAIN journal : Describes(i, p)
  BY DEF PinsDescribed
<1>2. journal[i].pid = p /\ journal[i].ct = ctime[p]
  BY <1>1 DEF Describes, HasKey
<1>3. \A k \in DOMAIN journal : k \in Readable(journal)
  BY DEF Readable, NoTornSlot, TypeOK
<1>4. i \in Unresolved(journal)
  BY <1>1, <1>3 DEF Unresolved, Describes
<1>5. \A k \in Unresolved(journal) : k \in DOMAIN journal
  BY DEF Unresolved, Readable
<1>6. i \in Survivors(journal)
  BY <1>1, <1>2, <1>4, <1>5 DEF Survivors, Describes
<1> QED
  BY <1>2, <1>6 DEF Recover

LEMMA DescribedIsTrue ==
  ASSUME TypeOK, NoTornSlot, PinsDescribed PROVE CapturedPrevIsTrue
<1> SUFFICES ASSUME NEW s \in Recover(journal),
                    s.pid \in Pinned, s.ct = ctime[s.pid]
             PROVE  s.prev = origin[s.pid]
  BY DEF CapturedPrevIsTrue
<1>1. PICK k \in Survivors(journal) : s = journal[k]
  BY DEF Recover
<1>2. k \in DOMAIN journal /\ k \in Unresolved(journal)
  BY <1>1 DEF Survivors, Unresolved, Readable
<1>3. PICK i \in DOMAIN journal : Describes(i, s.pid)
  BY DEF PinsDescribed
<1>4. \A n \in DOMAIN journal : n \in Readable(journal)
  BY DEF Readable, NoTornSlot, TypeOK
<1>5. i \in Unresolved(journal)
  BY <1>3, <1>4 DEF Unresolved, Describes
<1>6. HasKey(journal[k], s.pid, ctime[s.pid])
  BY <1>1, <1>2 DEF HasKey, NoTornSlot
<1>7. ~(k > i)
  BY <1>2, <1>3, <1>6 DEF Describes
<1>8. ~(i > k)
  <2>1. HasKey(journal[i], journal[k].pid, journal[k].ct)
    BY <1>1, <1>3 DEF Describes
  <2> QED
    BY <1>1, <1>5, <2>1 DEF Survivors
<1>9. i = k
  BY <1>2, <1>3, <1>7, <1>8 DEF TypeOK
<1> QED
  BY <1>1, <1>3, <1>9 DEF Describes

-----------------------------------------------------------------------------
(* Every action preserves JournalInv.                                       *)

(* What a step must still show when pins only shrink and the journal stays. *)
LEMMA QuietStep ==
  ASSUME TypeOK, JournalInv, PinsShrink, UNCHANGED journal
  PROVE  NoTornSlot' /\ PinsShow' /\ PinsDescribed'
BY ShrinkKeepsPins DEF JournalInv, NoTornSlot

(* A pin that shrinks away only helps those who count on its absence.       *)
LEMMA QuietRecoveries ==
  ASSUME JournalInv, PinsShrink,
         UNCHANGED <<pc, cur, dm, dmCur>>, todo' \subseteq todo, dmTodo' \subseteq dmTodo
  PROVE  RecoveriesSound'
BY DEF JournalInv, RecoveriesSound, StandsFor, PinsShrink

LEMMA InvEnvironment ==
  ASSUME TypeOK, WellBehaved, JournalInv, Environment PROVE JournalInv'
<1> USE DEF WellBehaved
<1> SUFFICES ASSUME NEW p \in Pid,
                    \/ \E m \in Mask : Spawn(p, m) \/ External(p, m)
                    \/ Exit(p)
             PROVE  JournalInv'
  BY DEF Environment
<1>1. UNCHANGED <<journal, agentVars, dmVars>>
  BY DEF Spawn, External, Exit
<1>2. ~InApplyWindow(p)
  BY DEF Spawn, External, Exit, EnvMayTouch
<1>3. \A q \in Pid \ {p} : /\ q \in alive' <=> q \in alive
                           /\ ctime'[q] = ctime[q]
                           /\ mask'[q] = mask[q]
                           /\ origin'[q] = origin[q]
  BY DEF Spawn, External, Exit, TypeOK
<1>4. p \notin Pinned'
  <2>1. ASSUME NEW m \in Mask, Spawn(p, m) PROVE p \notin Pinned'
    BY <2>1 DEF Spawn, Pinned, JournalInv, PinsShow
  <2>2. ASSUME \/ Exit(p)
               \/ \E m \in Mask : External(p, m)
        PROVE  p \notin Pinned'
    BY <2>2 DEF Exit, External, Pinned, TypeOK
  <2> QED
    BY <2>1, <2>2
<1>5. PinsShrink
  BY <1>3, <1>4 DEF PinsShrink, Pinned, JournalInv, PinsShow
<1>6. ApplyWindow'
  <2>1. pc \in {"captured", "journaled"} => cur.pid \in Pid \ {p}
    BY <1>2 DEF InApplyWindow, TypeOK, PcApply, Action
  <2> QED
    BY <1>1, <1>3, <1>5, <2>1
    DEF JournalInv, ApplyWindow, PinsShrink, agentVars, PcApply
<1>7. TrackedPinsHaveRows' /\ RowsRestorable'
  BY <1>1, <1>5
  DEF JournalInv, TrackedPinsHaveRows, RowsRestorable, PinsShrink, agentVars
<1>8. RecoveriesSound'
  BY <1>1, <1>5, QuietRecoveries DEF agentVars, dmVars
<1> QED
  BY <1>1, <1>5, <1>6, <1>7, <1>8, QuietStep DEF JournalInv

(* apply() ----------------------------------------------------------------- *)

LEMMA InvApplyBegin ==
  ASSUME TypeOK, JournalInv, NEW p \in Pid, NEW r \in Rule, NEW m \in Mask,
         ApplyBegin(p, r, m)
  PROVE  JournalInv'
<1> USE DEF JournalInv, ApplyBegin, osVars, dmVars
<1>1. PinsShrink
  BY DEF PinsShrink, Pinned, PinsShow
<1>2. p \notin Pinned
  BY DEF TrackedPinsHaveRows, FindActive
<1>3. ApplyWindow'
  BY <1>2 DEF ApplyWindow, PcApply, QueryCreationTime, GetAffinity, Pinned
<1>4. TrackedPinsHaveRows' /\ RowsRestorable'
  BY <1>1 DEF TrackedPinsHaveRows, RowsRestorable, PcRevert, PinsShrink
<1>5. RecoveriesSound'
  BY DEF RecoveriesSound, PcRecover, PcDown
<1> QED
  BY <1>1, <1>3, <1>4, <1>5, QuietStep

LEMMA InvApplyRecord ==
  ASSUME TypeOK, WellBehaved, JournalInv, ApplyRecord
  PROVE  JournalInv'
<1> USE DEF JournalInv, ApplyRecord, osVars, dmVars
<1> DEFINE s == NewSlot(cur.pid, cur.ct, cur.prev, "pending")
<1>1. cur \in Action
  BY DEF TypeOK, PcApply
<1>2. s \in Slot /\ s.st = "pending" /\ s.pid = cur.pid /\ s.ct = cur.ct
  BY <1>1 DEF Action, Slot, NewSlot, Status
<1>3. journal \in Seq(Slot) /\ journal' = Append(journal, s)
  BY DEF WellBehaved, RecordPending, TypeOK
<1>4. /\ Len(journal') = Len(journal) + 1
      /\ DOMAIN journal' = 1 .. Len(journal) + 1
      /\ DOMAIN journal = 1 .. Len(journal)
      /\ Len(journal) \in Nat
      /\ journal'[Len(journal) + 1] = s
      /\ \A i \in 1..Len(journal) : journal'[i] = journal[i]
  BY <1>2, <1>3, AppendType
<1>5. NoTornSlot'
  BY <1>2, <1>4 DEF NoTornSlot
<1>6. PinsShow'
  BY DEF PinsShow, Pinned
<1>7. PinsDescribed'
  <2> SUFFICES ASSUME NEW p \in Pinned' PROVE \E i \in DOMAIN journal' : Describes(i, p)'
    BY DEF PinsDescribed
  <2>1. p \in Pinned
    BY DEF Pinned
  <2>2. p # cur.pid
    BY <2>1 DEF ApplyWindow
  <2>3. PICK i \in DOMAIN journal : Describes(i, p)
    BY <2>1 DEF PinsDescribed
  <2>4. ~HasKey(s, p, ctime[p])
    BY <1>2, <2>2 DEF HasKey
  <2>5. i \in 1..Len(journal) /\ journal'[i] = journal[i]
    BY <1>4, <2>3
  <2>6. \A k \in DOMAIN journal' : k > i => ~HasKey(journal'[k], p, ctime[p])
    BY <1>4, <2>3, <2>4 DEF Describes
  <2>7. Describes(i, p)'
    BY <2>3, <2>5, <2>6 DEF Describes
  <2> QED
    BY <1>4, <2>5, <2>7
<1>8. ApplyWindow'
  <2>1. journal' # <<>>
    BY <1>4
  <2> QED
    BY <1>4, <2>1 DEF ApplyWindow, PcApply, Pinned
<1>9. TrackedPinsHaveRows' /\ RowsRestorable'
  BY DEF TrackedPinsHaveRows, RowsRestorable, PcRevert, Pinned
<1>10. RecoveriesSound'
  BY DEF RecoveriesSound, PcRecover, PcDown
<1> QED
  BY <1>5, <1>6, <1>7, <1>8, <1>9, <1>10

(* The Set* creates a pin: on the process the captured slot names, with the *)
(* mask that slot holds.                                                    *)
LEMMA InvApplySet ==
  ASSUME TypeOK, JournalInv, ApplySet
  PROVE  JournalInv'
<1> USE DEF JournalInv, ApplySet, dmVars
<1> DEFINE c == cur.pid
           n == Len(journal)
<1>1. cur \in Action /\ c \in Pid
  BY DEF TypeOK, PcApply, Action
<1>2. /\ c \notin Pinned /\ c \in alive
      /\ cur.ct = ctime[c] /\ cur.prev = mask[c]
      /\ journal # <<>> /\ journal[n] = NewSlot(c, cur.ct, cur.prev, "pending")
  BY DEF ApplyWindow
<1>3. \A q \in Pid \ {c} : origin'[q] = origin[q] /\ mask'[q] = mask[q]
  BY DEF TypeOK
<1>4. origin'[c] = mask[c] /\ mask'[c] = cur.new /\ mask[c] \in Mask /\ mask[c] # NoMask
  BY <1>1, <1>2, MaskAssumption DEF TypeOK, Pinned
<1>5. NoTornSlot'
  BY DEF NoTornSlot
<1>6. PinsShow'
  BY <1>2, <1>3, <1>4 DEF PinsShow, Pinned, ApplyWindow, PcApply
<1>7. PinsDescribed'
  <2> SUFFICES ASSUME NEW p \in Pinned' PROVE \E i \in DOMAIN journal : Describes(i, p)'
    BY DEF PinsDescribed
  <2>1. CASE p = c
    <3>1. n \in DOMAIN journal /\ \A k \in DOMAIN journal : ~(k > n)
      BY <1>2 DEF TypeOK
    <3>2. journal[n].pid = c /\ journal[n].ct = ctime[c] /\ journal[n].prev = mask[c]
          /\ journal[n].st = "pending"
      BY <1>2 DEF NewSlot
    <3>3. Describes(n, c)'
      BY <1>4, <3>1, <3>2 DEF Describes, HasKey
    <3> QED
      BY <2>1, <3>1, <3>3
  <2>2. CASE p # c
    <3>1. p \in Pinned /\ origin'[p] = origin[p]
      BY <1>3, <2>2 DEF Pinned
    <3> QED
      BY <3>1 DEF PinsDescribed, Describes
  <2> QED
    BY <2>1, <2>2
<1>8. ApplyWindow'
  BY <1>2, <1>4 DEF ApplyWindow, PcApply
<1>9. TrackedPinsHaveRows' /\ RowsRestorable'
  BY <1>3 DEF TrackedPinsHaveRows, RowsRestorable, PcRevert, Pinned
<1>10. RecoveriesSound'
  BY DEF RecoveriesSound, PcRecover, PcDown
<1> QED
  BY <1>5, <1>6, <1>7, <1>8, <1>9, <1>10

LEMMA InvApplySetFails ==
  ASSUME TypeOK, JournalInv, ApplySetFails
  PROVE  JournalInv'
<1> USE DEF JournalInv, ApplySetFails, osVars, dmVars
<1>1. PinsShrink
  BY DEF PinsShrink, Pinned, PinsShow
<1>2. ApplyWindow' /\ TrackedPinsHaveRows' /\ RowsRestorable'
  BY DEF ApplyWindow, PcApply, TrackedPinsHaveRows, RowsRestorable, PcRevert, Pinned
<1>3. RecoveriesSound'
  BY DEF RecoveriesSound, PcRecover, PcDown
<1> QED
  BY <1>1, <1>2, <1>3, QuietStep

LEMMA InvApplyCommit ==
  ASSUME TypeOK, JournalInv, ApplyCommit
  PROVE  JournalInv'
<1> USE DEF JournalInv, ApplyCommit, osVars, dmVars
<1>1. NoTornSlot' /\ PinsDescribed'
  BY MarkKeepsPins DEF MarkApplied
<1>2. PinsShow'
  BY DEF PinsShow, Pinned
<1>3. ApplyWindow' /\ TrackedPinsHaveRows' /\ RowsRestorable'
  BY DEF ApplyWindow, PcApply, TrackedPinsHaveRows, RowsRestorable, PcRevert, Pinned
<1>4. RecoveriesSound'
  BY DEF RecoveriesSound, PcRecover, PcDown
<1> QED
  BY <1>1, <1>2, <1>3, <1>4

LEMMA InvApplyDifferentialPin ==
  ASSUME TypeOK, JournalInv, NEW p \in Pid, ApplyDifferentialPin(p)
  PROVE  JournalInv'
<1> USE DEF JournalInv, ApplyDifferentialPin, dmVars
<1>1. \A q \in Pid \ {p} : origin'[q] = origin[q] /\ mask'[q] = mask[q]
  BY DEF TypeOK
<1>2. origin'[p] = NoMask
  BY DEF TypeOK
<1>3. PinsShrink
  BY <1>1, <1>2 DEF PinsShrink, Pinned, PinsShow
<1>4. ApplyWindow' /\ TrackedPinsHaveRows' /\ RowsRestorable'
  BY <1>3 DEF ApplyWindow, PcApply, TrackedPinsHaveRows, RowsRestorable, PcRevert,
      PinsShrink
<1>5. RecoveriesSound'
  BY <1>3, QuietRecoveries
<1> QED
  BY <1>3, <1>4, <1>5, QuietStep

LEMMA InvApply ==
  ASSUME TypeOK, WellBehaved, JournalInv, Apply PROVE JournalInv'
BY InvApplyBegin, InvApplyRecord, InvApplySet, InvApplySetFails, InvApplyCommit,
   InvApplyDifferentialPin DEF Apply

(* The reverts ------------------------------------------------------------- *)

LEMMA InvStartRevert ==
  ASSUME TypeOK, JournalInv, NEW rows \in SUBSET active, NEW pids, NEW e,
         StartRevert(rows, pids, e)
  PROVE  JournalInv'
<1> USE DEF JournalInv, StartRevert, osVars, dmVars
<1>1. PinsShrink
  BY DEF PinsShrink, Pinned, PinsShow
<1>2. ApplyWindow' /\ TrackedPinsHaveRows' /\ RowsRestorable'
  BY DEF ApplyWindow, PcApply, TrackedPinsHaveRows, RowsRestorable, PcRevert, Pinned
<1>3. RecoveriesSound'
  BY DEF RecoveriesSound, PcRecover, PcDown
<1> QED
  BY <1>1, <1>2, <1>3, QuietStep

LEMMA InvRevertThread ==
  ASSUME TypeOK, WellBehaved, JournalInv, NEW p \in Pid, RevertThread(p)
  PROVE  JournalInv'
<1> USE DEF JournalInv, RevertThread, dmVars
<1>1. PinsShrink
  BY RestoreShrinks, ExecutorAssumption
<1>2. ApplyWindow' /\ TrackedPinsHaveRows' /\ RowsRestorable'
  BY <1>1 DEF ApplyWindow, PcApply, TrackedPinsHaveRows, RowsRestorable, PcRevert,
      PinsShrink
<1>3. RecoveriesSound'
  BY <1>1, QuietRecoveries
<1> QED
  BY <1>1, <1>2, <1>3, QuietStep

LEMMA InvRevertSet ==
  ASSUME TypeOK, WellBehaved, JournalInv, NEW a \in todo, RevertSet(a)
  PROVE  JournalInv'
<1> USE DEF JournalInv, RevertSet, dmVars
<1>1. a \in Action
  BY DEF TypeOK, PcRevert
<1>2. a.prev # NoMask
  BY DEF RowsRestorable, PcRevert
<1>3. PinsShrink /\ a.pid \notin Pinned'
  BY <1>1, <1>2, RestoreShrinks DEF Action
<1>4. ApplyWindow' /\ TrackedPinsHaveRows' /\ RowsRestorable'
  BY <1>3 DEF ApplyWindow, PcApply, TrackedPinsHaveRows, RowsRestorable, PcRevert,
      PinsShrink
<1>5. RecoveriesSound'
  BY DEF RecoveriesSound, PcRecover, PcDown
<1> QED
  BY <1>3, <1>4, <1>5, QuietStep

LEMMA InvRevertMark ==
  ASSUME TypeOK, JournalInv, RevertMark
  PROVE  JournalInv'
<1> USE DEF JournalInv, RevertMark, osVars, dmVars
<1>1. cur.pid \notin Pinned
  BY DEF RowsRestorable
<1>2. NoTornSlot' /\ PinsDescribed'
  BY <1>1, MarkKeepsPins DEF MarkReverted
<1>3. PinsShow'
  BY DEF PinsShow, Pinned
<1>4. TrackedPinsHaveRows'
  BY <1>1 DEF TrackedPinsHaveRows, Pinned
<1>5. ApplyWindow' /\ RowsRestorable'
  BY DEF ApplyWindow, PcApply, RowsRestorable, PcRevert, Pinned
<1>6. RecoveriesSound'
  BY DEF RecoveriesSound, PcRecover, PcDown
<1> QED
  BY <1>2, <1>3, <1>4, <1>5, <1>6

LEMMA InvRevertDone ==
  ASSUME TypeOK, JournalInv, RevertDone
  PROVE  JournalInv'
<1> USE DEF JournalInv, RevertDone, osVars, dmVars
<1>1. PinsShrink
  BY DEF PinsShrink, Pinned, PinsShow
<1>2. ApplyWindow' /\ TrackedPinsHaveRows' /\ RowsRestorable'
  BY DEF ApplyWindow, PcApply, TrackedPinsHaveRows, RowsRestorable, PcRevert, Pinned
<1>3. RecoveriesSound'
  BY DEF RecoveriesSound, PcRecover, PcDown
<1> QED
  BY <1>1, <1>2, <1>3, QuietStep

LEMMA InvReverts ==
  ASSUME TypeOK, WellBehaved, JournalInv, Reverts PROVE JournalInv'
<1>1. ASSUME NEW p \in Pid, Revert(p) PROVE JournalInv'
  BY <1>1, InvStartRevert DEF Revert, FindActive
<1>2. ASSUME NEW r \in Rule, RevertByRuleId(r) PROVE JournalInv'
  BY <1>2, InvStartRevert DEF RevertByRuleId
<1>3. CASE RevertAll \/ Shutdown
  BY <1>3, InvStartRevert DEF RevertAll, Shutdown
<1> QED
  BY <1>1, <1>2, <1>3, InvRevertThread, InvRevertSet, InvRevertMark, InvRevertDone
  DEF Reverts

(* Death, recovery, refresh ------------------------------------------------- *)

LEMMA InvKill ==
  ASSUME TypeOK, WellBehaved, JournalInv, Kill
  PROVE  JournalInv'
<1> USE DEF JournalInv, Kill, osVars, dmVars
<1>1. UNCHANGED journal
  BY DEF WellBehaved
<1>2. PinsShrink
  BY DEF PinsShrink, Pinned, PinsShow
<1>3. ApplyWindow' /\ TrackedPinsHaveRows' /\ RowsRestorable'
  BY DEF ApplyWindow, PcApply, TrackedPinsHaveRows, RowsRestorable, PcRevert
<1>4. RecoveriesSound'
  BY DEF RecoveriesSound, PcRecover, PcDown
<1> QED
  BY <1>1, <1>2, <1>3, <1>4, QuietStep

(* What recover() returns for a standing pin is its true mask.              *)
LEMMA RecoverIsSound ==
  ASSUME TypeOK, JournalInv
  PROVE  \A s \in Recover(journal) : StandsFor(s) => s.prev = origin[s.pid]
BY DescribedIsTrue DEF JournalInv, CapturedPrevIsTrue, StandsFor

LEMMA InvStart ==
  ASSUME TypeOK, WellBehaved, JournalInv, Start
  PROVE  JournalInv'
<1> USE DEF JournalInv, Start, osVars, dmVars
<1>1. PinsShrink
  BY DEF PinsShrink, Pinned, PinsShow
<1>2. ApplyWindow' /\ TrackedPinsHaveRows' /\ RowsRestorable'
  BY DEF ApplyWindow, PcApply, TrackedPinsHaveRows, RowsRestorable, PcRevert
<1>3. dm = "off"
  BY DEF WellBehaved
<1>4. RecoveriesSound'
  BY <1>3, RecoverIsSound DEF RecoveriesSound, StandsFor, Pinned
<1> QED
  BY <1>1, <1>2, <1>4, QuietStep

(* A restored slot: its pin is gone, and nothing else was disturbed; one the *)
(* guard does not recognise has none.                                       *)
LEMMA ReconcileShrinks ==
  ASSUME TypeOK, WellBehaved, PinsShow, NEW s \in Slot,
         StandsFor(s) => s.prev = origin[s.pid],
         Restore(s.pid, s.prev), UNCHANGED <<alive, ctime>>
  PROVE  PinsShrink /\ ~StandsFor(s)'
<1>1. s.pid \in Pid /\ s.prev \in Mask \cup {NoMask}
  BY DEF Slot
<1>2. PinsShrink /\ (s.prev # NoMask /\ s.pid \in alive => s.pid \notin Pinned')
  BY <1>1, RestoreShrinks
<1>3. s.prev = NoMask \/ s.pid \notin alive => ~StandsFor(s)
  BY DEF StandsFor, Pinned, PinsShow
<1> QED
  BY <1>2, <1>3 DEF StandsFor, PinsShrink

LEMMA StaleIsNoPin ==
  ASSUME PinsShow, NEW s, ~StillMatches(s) PROVE ~StandsFor(s)
BY DEF StillMatches, StandsFor, Pinned, PinsShow

LEMMA InvRecoverCheck ==
  ASSUME TypeOK, JournalInv, NEW s \in todo, RecoverCheck(s)
  PROVE  JournalInv'
<1> USE DEF JournalInv, RecoverCheck, osVars, dmVars
<1>1. PinsShrink
  BY DEF PinsShrink, Pinned, PinsShow
<1>2. ApplyWindow' /\ TrackedPinsHaveRows' /\ RowsRestorable'
  BY DEF ApplyWindow, PcApply, TrackedPinsHaveRows, RowsRestorable, PcRevert, Pinned
<1>3. StandsFor(s) => s.prev = origin[s.pid]
  BY DEF RecoveriesSound, PcRecover
<1>4. RecoveriesSound'
  BY <1>3, StaleIsNoPin DEF RecoveriesSound, PcRecover, PcDown, StandsFor, Pinned
<1> QED
  BY <1>1, <1>2, <1>4, QuietStep

LEMMA InvRecoverSet ==
  ASSUME TypeOK, WellBehaved, JournalInv, RecoverSet
  PROVE  JournalInv'
<1> USE DEF JournalInv, RecoverSet, dmVars
<1>1. PICK s \in Slot : s = cur.slot /\ (StandsFor(s) => s.prev = origin[s.pid])
  BY DEF TypeOK, Checked, RecoveriesSound
<1>2. PinsShrink /\ ~StandsFor(s)'
  BY <1>1, ReconcileShrinks
<1>3. ApplyWindow' /\ TrackedPinsHaveRows' /\ RowsRestorable'
  BY <1>2 DEF ApplyWindow, PcApply, TrackedPinsHaveRows, RowsRestorable, PcRevert,
      PinsShrink
<1>4. \A r \in todo : StandsFor(r)' => StandsFor(r) /\ origin'[r.pid] = origin[r.pid]
  BY <1>2 DEF StandsFor, PinsShrink
<1>5. ~StandsFor(cur)'
  BY <1>1, <1>2 DEF StandsFor, Pinned
<1>6. RecoveriesSound'
  BY <1>2, <1>4, <1>5 DEF RecoveriesSound, PcRecover, PcDown, StandsFor
<1> QED
  BY <1>2, <1>3, <1>6, QuietStep

LEMMA InvRecoverMark ==
  ASSUME TypeOK, JournalInv, RecoverMark
  PROVE  JournalInv'
<1> USE DEF JournalInv, RecoverMark, osVars, dmVars
<1>1. ~StandsFor(cur)
  BY DEF RecoveriesSound
<1>2. NoTornSlot' /\ PinsDescribed'
  BY <1>1, MarkKeepsPins DEF MarkReverted, StandsFor
<1>3. PinsShow'
  BY DEF PinsShow, Pinned
<1>4. ApplyWindow' /\ TrackedPinsHaveRows' /\ RowsRestorable'
  BY DEF ApplyWindow, PcApply, TrackedPinsHaveRows, RowsRestorable, PcRevert, Pinned
<1>5. RecoveriesSound'
  BY DEF RecoveriesSound, PcRecover, PcDown, StandsFor, Pinned
<1> QED
  BY <1>2, <1>3, <1>4, <1>5

LEMMA InvRecoverDone ==
  ASSUME TypeOK, JournalInv, RecoverDone
  PROVE  JournalInv'
<1> USE DEF JournalInv, RecoverDone, osVars, dmVars
<1>1. PinsShrink
  BY DEF PinsShrink, Pinned, PinsShow
<1>2. ApplyWindow' /\ TrackedPinsHaveRows' /\ RowsRestorable'
  BY DEF ApplyWindow, PcApply, TrackedPinsHaveRows, RowsRestorable, PcRevert, Pinned
<1>3. RecoveriesSound'
  BY DEF RecoveriesSound, PcRecover, PcDown
<1> QED
  BY <1>1, <1>2, <1>3, QuietStep

(* The observer admits a process only while it has the default mask, so     *)
(* never one with a pin: a pinned process in the new set was in the old one.*)
LEMMA InvRefresh ==
  ASSUME TypeOK, JournalInv, NEW listed \in SUBSET Pid, Refresh(listed)
  PROVE  JournalInv'
<1> USE DEF JournalInv, Refresh, osVars, dmVars
<1>1. PinsShrink
  BY DEF PinsShrink, Pinned, PinsShow
<1>2. TrackedPinsHaveRows'
  <2>1. ASSUME NEW p \in Pinned', p \in tracked' PROVE \E a \in active' : a.pid = p
    <3>1. p \in Pinned /\ p \in tracked
      BY <2>1 DEF Pinned, PinsShow
    <3>2. PICK a \in active : a.pid = p
      BY <3>1 DEF TrackedPinsHaveRows
    <3> QED
      BY <2>1, <3>2
  <2> QED
    BY <2>1 DEF TrackedPinsHaveRows
<1>3. ApplyWindow' /\ RowsRestorable'
  BY DEF ApplyWindow, PcApply, RowsRestorable, PcRevert
<1>4. RecoveriesSound'
  BY DEF RecoveriesSound, PcRecover, PcDown
<1> QED
  BY <1>1, <1>2, <1>3, <1>4, QuietStep

LEMMA InvLifecycle ==
  ASSUME TypeOK, WellBehaved, JournalInv, Lifecycle PROVE JournalInv'
BY InvKill, InvStart, InvRecoverCheck, InvRecoverSet, InvRecoverMark, InvRecoverDone,
InvRefresh
DEF Lifecycle

(* The dead-man -------------------------------------------------------------- *)

LEMMA InvDeadMan ==
  ASSUME TypeOK, WellBehaved, JournalInv, DeadMan PROVE JournalInv'
<1> USE DEF JournalInv
<1>1. UNCHANGED agentVars
  BY DEF DeadMan, DmStart, DmCheck, DmSet, DmMark, DmKill
<1>2. dm # "off" => pc \in PcDown
  BY DEF RecoveriesSound
<1>3. CASE DmStart
  <2>1. PinsShrink
    BY <1>3 DEF DmStart, PinsShrink, Pinned, PinsShow, osVars
  <2>2. RecoveriesSound'
    BY <1>1, <1>3, RecoverIsSound
    DEF DmStart, RecoveriesSound, WellBehaved, PcDown, PcRecover, agentVars, osVars,
        StandsFor, Pinned
  <2>3. ApplyWindow' /\ TrackedPinsHaveRows' /\ RowsRestorable'
    BY <1>1, <1>3
    DEF DmStart, ApplyWindow, TrackedPinsHaveRows, RowsRestorable, Pinned, agentVars, osVars
  <2> QED
    BY <1>3, <2>1, <2>2, <2>3, QuietStep DEF DmStart
<1>7. ASSUME NEW s \in dmTodo, DmCheck(s) PROVE JournalInv'
  <2>1. PinsShrink
    BY <1>7 DEF DmCheck, PinsShrink, Pinned, PinsShow, osVars
  <2>2. StandsFor(s) => s.prev = origin[s.pid]
    BY <1>7 DEF DmCheck, RecoveriesSound
  <2>3. RecoveriesSound'
    BY <1>1, <1>7, <2>2, StaleIsNoPin
    DEF DmCheck, RecoveriesSound, StandsFor, Pinned, agentVars, osVars
  <2>4. ApplyWindow' /\ TrackedPinsHaveRows' /\ RowsRestorable'
    BY <1>1, <1>7
    DEF DmCheck, ApplyWindow, TrackedPinsHaveRows, RowsRestorable, Pinned, agentVars, osVars
  <2> QED
    BY <1>7, <2>1, <2>3, <2>4, QuietStep DEF DmCheck
<1>4. CASE DmSet
  <2>1. PICK s \in Slot : s = dmCur.slot /\ (StandsFor(s) => s.prev = origin[s.pid])
    BY <1>4 DEF DmSet, RecoveriesSound, TypeOK, Checked
  <2>6. pc \in PcDown
    BY <1>2, <1>4 DEF DmSet
  <2>2. PinsShrink /\ ~StandsFor(s)'
    BY <1>4, <2>1, ReconcileShrinks DEF DmSet
  <2>3. \A r \in dmTodo : StandsFor(r)' => StandsFor(r) /\ origin'[r.pid] = origin[r.pid]
    BY <2>2 DEF StandsFor, PinsShrink
  <2>4. RecoveriesSound'
    <3>1. ~StandsFor(dmCur)'
      BY <1>4, <2>1, <2>2 DEF DmSet, StandsFor, Pinned
    <3> QED
      BY <1>1, <1>4, <2>3, <2>6, <3>1
      DEF DmSet, RecoveriesSound, PcDown, PcRecover, StandsFor, agentVars
  <2>5. ApplyWindow' /\ TrackedPinsHaveRows' /\ RowsRestorable'
    BY <1>1, <2>2, <2>6
    DEF ApplyWindow, PcApply, PcDown, PcRevert, TrackedPinsHaveRows, RowsRestorable,
        PinsShrink, agentVars
  <2> QED
    BY <1>4, <2>2, <2>4, <2>5, QuietStep DEF DmSet
<1>5. CASE DmMark
  <2>1. ~StandsFor(dmCur) /\ pc \in PcDown
    BY <1>2, <1>5 DEF DmMark, RecoveriesSound
  <2>2. NoTornSlot' /\ PinsDescribed'
    BY <1>5, <2>1, MarkKeepsPins DEF DmMark, MarkReverted, StandsFor, osVars
  <2>3. PinsShow'
    BY <1>5 DEF DmMark, PinsShow, Pinned, osVars
  <2>4. RecoveriesSound'
    BY <1>1, <1>5, <2>1
    DEF DmMark, RecoveriesSound, PcDown, PcRecover, StandsFor, Pinned, agentVars, osVars
  <2>5. ApplyWindow' /\ TrackedPinsHaveRows' /\ RowsRestorable'
    BY <1>1, <1>5, <2>1
    DEF DmMark, ApplyWindow, PcApply, PcDown, PcRevert, TrackedPinsHaveRows,
        RowsRestorable, Pinned, agentVars, osVars
  <2> QED
    BY <2>2, <2>3, <2>4, <2>5
<1>6. CASE DmKill
  <2>1. PinsShrink
    BY <1>6 DEF DmKill, PinsShrink, Pinned, PinsShow, osVars
  <2>2. RecoveriesSound'
    BY <1>1, <1>6 DEF DmKill, RecoveriesSound, StandsFor, Pinned, agentVars, osVars
  <2>3. ApplyWindow' /\ TrackedPinsHaveRows' /\ RowsRestorable'
    BY <1>1, <1>6
    DEF DmKill, ApplyWindow, TrackedPinsHaveRows, RowsRestorable, Pinned, agentVars, osVars
  <2> QED
    BY <1>6, <2>1, <2>2, <2>3, QuietStep DEF DmKill
<1> QED
  BY <1>3, <1>4, <1>5, <1>6, <1>7 DEF DeadMan

-----------------------------------------------------------------------------
(* JournalInv holds in every reachable state of a well-behaved environment. *)
THEOREM JournalInvariant ==
  ASSUME WellBehaved PROVE Spec => []JournalInv
<1>1. Init => JournalInv
  BY DEF Init, JournalInv, NoTornSlot, PinsShow, PinsDescribed, Pinned, ApplyWindow,
         TrackedPinsHaveRows, RowsRestorable, RecoveriesSound,
         PcApply, PcRevert, PcRecover, PcDown
<1>2. TypeOK /\ JournalInv /\ [Next]_vars => JournalInv'
  <2>1. ASSUME TypeOK, JournalInv, UNCHANGED vars PROVE JournalInv'
    BY <2>1
    DEF vars, osVars, agentVars, dmVars, JournalInv, NoTornSlot, PinsShow, PinsDescribed,
        Describes, Pinned, ApplyWindow, TrackedPinsHaveRows, RowsRestorable,
        RecoveriesSound, StandsFor
  <2> QED
    BY <2>1, InvEnvironment, InvApply, InvReverts, InvLifecycle, InvDeadMan DEF Next
<1> QED
  BY <1>1, <1>2, TypeCorrect, PTL DEF Spec

(* Every standing pin has an unresolved slot under its process's own key    *)
(* that the next agent and the dead-man find (ActionExecutor::apply's       *)
(* write-ahead order).                                                      *)
THEOREM WriteAheadHolds ==
  ASSUME WellBehaved PROVE Spec => []WriteAhead
<1>1. TypeOK /\ JournalInv => WriteAhead
  BY DescribedIsRecovered DEF JournalInv
<1> QED
  BY <1>1, JournalInvariant, TypeCorrect, PTL

(* What that slot would restore is the affinity the process had before our  *)
(* first write.                                                             *)
THEOREM CapturedPrevHolds ==
  ASSUME WellBehaved PROVE Spec => []CapturedPrevIsTrue
<1>1. TypeOK /\ JournalInv => CapturedPrevIsTrue
  BY DescribedIsTrue DEF JournalInv
<1> QED
  BY <1>1, JournalInvariant, TypeCorrect, PTL

-----------------------------------------------------------------------------
(* Who takes the pins back.                                                 *)

(* What the agent knows, phase by phase: past its recovery it has a row for  *)
(* every pin; the pin just set is the captured one; in its recovery a pin    *)
(* that stands is still to be reconciled; the revert of a shutdown has all   *)
(* rows before it; and after a graceful exit there is no pin.               *)
AccountInv ==
  /\ PinsAccountedFor
  /\ (pc = "set" /\ cur.pid \in Pinned) =>
       cur.ct = ctime[cur.pid] /\ cur.prev = origin[cur.pid]
  /\ pc \in PcRecover => \A p \in Pinned : \E s \in todo : s.pid = p /\ StandsFor(s)
  /\ (pc \in PcRevert /\ exiting) => todo = active
  /\ pc = "stopped" => Pinned = {}

(* While the dead-man runs, a pin that stands is one it still has before it. *)
DeadManInv == dm # "off" => \A p \in Pinned : \E s \in dmTodo : s.pid = p /\ StandsFor(s)

(* Without a kill every pinned thread is in the table, and the revert of a   *)
(* shutdown has the whole table before it.                                  *)
ThreadInv ==
  /\ pc # "killed"
  /\ tpin \subseteq threads \cap alive
  /\ threads \subseteq tracked
  /\ pc \in PcDown \cup PcRecover => tpin = {}
  /\ (pc \in PcRevert /\ exiting) => ttodo = threads

(* Only the Set* of apply() makes a pin.                                    *)
LEMMA OnlyApplyPins ==
  ASSUME TypeOK, WellBehaved, JournalInv, [Next]_vars, ~ApplySet
  PROVE  PinsShrink
<1> USE DEF JournalInv
<1>1. ASSUME UNCHANGED <<alive, ctime, mask, origin>> PROVE PinsShrink
  BY <1>1 DEF PinsShrink, Pinned, PinsShow
<1>2. CASE Environment
  <2> SUFFICES ASSUME NEW p \in Pid,
                      \/ \E m \in Mask : Spawn(p, m) \/ External(p, m)
                      \/ Exit(p)
               PROVE  PinsShrink
    BY <1>2 DEF Environment
  <2>1. \A q \in Pid \ {p} : /\ q \in alive' <=> q \in alive
                             /\ ctime'[q] = ctime[q]
                             /\ mask'[q] = mask[q]
                             /\ origin'[q] = origin[q]
    BY DEF Spawn, External, Exit, TypeOK
  <2>2. origin'[p] = NoMask
    BY DEF Spawn, External, Exit, TypeOK, PinsShow, Pinned
  <2> QED
    BY <2>1, <2>2 DEF PinsShrink, Pinned, PinsShow
<1>3. ASSUME NEW p \in Pid, ApplyDifferentialPin(p) PROVE PinsShrink
  <2>1. \A q \in Pid \ {p} : origin'[q] = origin[q] /\ mask'[q] = mask[q]
    BY <1>3 DEF ApplyDifferentialPin, TypeOK
  <2>2. origin'[p] = NoMask /\ UNCHANGED <<alive, ctime>>
    BY <1>3 DEF ApplyDifferentialPin, TypeOK
  <2> QED
    BY <2>1, <2>2 DEF PinsShrink, Pinned, PinsShow
<1>4. ASSUME NEW p \in Pid, RevertThread(p) PROVE PinsShrink
  BY <1>4, RestoreShrinks, ExecutorAssumption DEF RevertThread
<1>5. ASSUME NEW a \in todo, RevertSet(a) PROVE PinsShrink
  <2>1. a \in Action
    BY <1>5 DEF RevertSet, TypeOK, PcRevert
  <2> QED
    BY <1>5, <2>1, RestoreShrinks DEF RevertSet, Action
<1>6. CASE RecoverSet
  <2>1. /\ cur.slot \in Slot
        /\ StandsFor(cur.slot) => cur.slot.prev = origin[cur.slot.pid]
    BY <1>6 DEF RecoverSet, TypeOK, Checked, RecoveriesSound
  <2> QED
    BY <1>6, <2>1, ReconcileShrinks DEF RecoverSet
<1>7. CASE DmSet
  <2>1. /\ dmCur.slot \in Slot
        /\ StandsFor(dmCur.slot) => dmCur.slot.prev = origin[dmCur.slot.pid]
    BY <1>7 DEF DmSet, TypeOK, Checked, RecoveriesSound
  <2> QED
    BY <1>7, <2>1, ReconcileShrinks DEF DmSet
<1> QED
  BY <1>1, <1>2, <1>3, <1>4, <1>5, <1>6, <1>7
  DEF Next, vars, osVars,
      Apply, ApplyBegin, ApplyRecord, ApplySetFails, ApplyCommit,
      Reverts, Revert, RevertAll, RevertByRuleId, Shutdown, StartRevert, RevertMark,
      RevertDone,
      Lifecycle, Kill, Start, RecoverCheck, RecoverMark, RecoverDone, Refresh,
      DeadMan, DmStart, DmCheck, DmMark, DmKill

(* The key and the mask of a pin stay while it stands, so the slot that      *)
(* stands for it goes on doing so.                                          *)
LEMMA StillStands ==
  ASSUME TypeOK, PinsShrink
  PROVE  \A s : StandsFor(s) /\ s.pid \in Pinned' => StandsFor(s)'
BY DEF StandsFor, PinsShrink, Pinned

(* When a recovery begins, every pin is in the list it works from.          *)
LEMMA RecoverCovers ==
  ASSUME TypeOK, JournalInv
  PROVE  \A p \in Pinned : \E s \in Recover(journal) : s.pid = p /\ StandsFor(s)
BY DescribedIsRecovered DEF JournalInv, WriteAhead, StandsFor

-----------------------------------------------------------------------------
(* The agent.                                                               *)

(* The faults under which the agent keeps its hold of the pins: an            *)
(* enumeration that comes back empty makes it forget all it tracks.          *)
Accountable == WellBehaved /\ "enum_fails" \notin Faults

LEMMA AccountApply ==
  ASSUME TypeOK, Accountable, JournalInv, AccountInv, Apply
  PROVE  AccountInv'
<1> USE DEF Accountable, AccountInv, PinsAccountedFor, PcApply, PcRecover, PcRevert, PcDown
<1>1. ASSUME NEW p \in Pid, NEW r \in Rule, NEW m \in Mask, ApplyBegin(p, r, m)
      PROVE  AccountInv'
  BY <1>1 DEF ApplyBegin, osVars, Pinned
<1>2. CASE ApplyRecord \/ ApplySetFails
  BY <1>2 DEF ApplyRecord, ApplySetFails, osVars, Pinned
<1>3. CASE ApplySet
  <2> DEFINE c == cur.pid
  <2>1. c \in Pid /\ c \notin Pinned /\ cur.ct = ctime[c] /\ cur.prev = mask[c]
    BY <1>3 DEF ApplySet, JournalInv, ApplyWindow, TypeOK, Action
  <2>2. origin' = [origin EXCEPT ![c] = mask[c]] /\ UNCHANGED <<ctime, cur,
  active>> /\ pc' = "set"
    BY <1>3, <2>1 DEF ApplySet, Pinned, TypeOK
  <2>3. \A p \in Pinned' : p = c \/ (p \in Pinned /\ origin'[p] = origin[p])
    BY <2>1, <2>2 DEF Pinned, TypeOK
  <2>4. origin'[c] = cur.prev
    BY <2>1, <2>2 DEF TypeOK
  <2>5. pc = "journaled"
    BY <1>3 DEF ApplySet
  <2> QED
    BY <2>1, <2>2, <2>3, <2>4, <2>5
<1>4. CASE ApplyCommit
  BY <1>4 DEF ApplyCommit, osVars, Pinned
<1>5. ASSUME NEW p \in Pid, ApplyDifferentialPin(p) PROVE AccountInv'
  <2>1. PinsShrink
    BY <1>5, OnlyApplyPins DEF Next, Apply, ApplyDifferentialPin, ApplySet
  <2> QED
    BY <1>5, <2>1 DEF ApplyDifferentialPin, PinsShrink
<1> QED
  BY <1>1, <1>2, <1>3, <1>4, <1>5 DEF Apply

LEMMA AccountReverts ==
  ASSUME TypeOK, Accountable, JournalInv, AccountInv, Reverts
  PROVE  AccountInv'
<1> USE DEF Accountable, AccountInv, PinsAccountedFor, PcApply, PcRecover, PcRevert, PcDown
<1>1. PinsShrink
  BY OnlyApplyPins
  DEF Next, Reverts, Revert, RevertAll, RevertByRuleId, Shutdown, StartRevert, RevertThread,
      RevertSet, RevertMark, RevertDone, ApplySet
<1>2. ASSUME NEW rows, NEW pids, NEW e, StartRevert(rows, pids, e), e => rows = active
      PROVE  AccountInv'
  BY <1>1, <1>2 DEF StartRevert, PinsShrink
<1>3. ASSUME NEW p \in Pid, RevertThread(p) PROVE AccountInv'
  BY <1>1, <1>3 DEF RevertThread, PinsShrink
<1>4. ASSUME NEW a \in todo, RevertSet(a) PROVE AccountInv'
  BY <1>1, <1>4 DEF RevertSet, PinsShrink
<1>5. CASE RevertMark
  <2>1. cur.pid \notin Pinned
    BY <1>5 DEF RevertMark, JournalInv, RowsRestorable
  <2> QED
    BY <1>1, <1>5, <2>1 DEF RevertMark, PinsShrink
<1>6. CASE RevertDone
  <2>1. exiting => Pinned = {}
    BY <1>6 DEF RevertDone
  <2> QED
    BY <1>1, <1>6, <2>1 DEF RevertDone, PinsShrink
<1> QED
  BY <1>2, <1>3, <1>4, <1>5, <1>6
  DEF Reverts, Revert, RevertAll, RevertByRuleId, Shutdown

LEMMA AccountLifecycle ==
  ASSUME TypeOK, Accountable, JournalInv, TableInv, AccountInv, Lifecycle
  PROVE  AccountInv'
<1> USE DEF Accountable, AccountInv, PinsAccountedFor, PcApply, PcRecover, PcRevert, PcDown
<1>1. PinsShrink
  BY OnlyApplyPins
  DEF Next, Lifecycle, Kill, Start, RecoverCheck, RecoverSet, RecoverMark, RecoverDone,
  Refresh, ApplySet
<1>2. CASE Kill
  BY <1>2 DEF Kill
<1>3. CASE Start
  <2>1. \A p \in Pinned' : \E s \in todo' : s.pid = p /\ StandsFor(s)'
    BY <1>1, <1>3, RecoverCovers, StillStands DEF Start, PinsShrink
  <2> QED
    BY <1>3, <2>1 DEF Start
<1>4. CASE RecoverSet \/ \E s \in todo : RecoverCheck(s)
  <2>1. \A p \in Pinned' : \E r \in todo' : r.pid = p /\ StandsFor(r)'
    BY <1>1, <1>4, StillStands DEF RecoverCheck, RecoverSet, PinsShrink
  <2> QED
    BY <1>4, <2>1 DEF RecoverCheck, RecoverSet
<1>5. CASE RecoverMark
  <2>1. ~StandsFor(cur)
    BY <1>5 DEF RecoverMark, JournalInv, RecoveriesSound
  <2>2. \A p \in Pinned' : \E s \in todo' : s.pid = p /\ StandsFor(s)'
    BY <1>1, <1>5, <2>1, StillStands DEF RecoverMark, PinsShrink
  <2> QED
    BY <1>5, <2>2 DEF RecoverMark
<1>6. CASE RecoverDone
  BY <1>1, <1>6 DEF RecoverDone, PinsShrink
<1>7. ASSUME NEW listed \in SUBSET Pid, Refresh(listed) PROVE AccountInv'
  <2>1. listed = alive
    BY <1>7 DEF Refresh
  <2>2. \A a \in active : a.pid \in Pinned => a \in active'
    BY <1>7, <2>1 DEF Refresh, TableInv, TableSound, JournalInv, PinsShow
  <2> QED
    BY <1>1, <1>7, <2>2 DEF Refresh, PinsShrink
<1> QED
  BY <1>2, <1>3, <1>4, <1>5, <1>6, <1>7 DEF Lifecycle

LEMMA AccountOthers ==
  ASSUME TypeOK, Accountable, JournalInv, AccountInv,
  Environment \/ DeadMan \/ UNCHANGED vars
  PROVE  AccountInv'
<1> USE DEF Accountable, AccountInv, PinsAccountedFor, PcApply, PcRecover, PcRevert, PcDown
<1>1. UNCHANGED agentVars
  BY DEF Environment, Spawn, External, Exit, DeadMan, DmStart, DmCheck, DmSet, DmMark,
      DmKill, vars
<1>2. PinsShrink
  BY <1>1, OnlyApplyPins DEF Next, ApplySet, agentVars
<1>3. pc \in PcRecover => \A p \in Pinned' : \E s \in todo' : s.pid = p /\ StandsFor(s)'
  BY <1>1, <1>2, StillStands DEF agentVars, PinsShrink
<1> QED
  BY <1>1, <1>2, <1>3 DEF agentVars, PinsShrink

LEMMA AccountStep ==
  ASSUME Accountable, TypeOK, JournalInv, TableInv, AccountInv, [Next]_vars
  PROVE  AccountInv'
BY AccountApply, AccountReverts, AccountLifecycle, AccountOthers DEF Next

(* TableInv is established on its way to TableStaysSound.                   *)
LEMMA AccountInvariant ==
  ASSUME Accountable PROVE Spec => []AccountInv
<1>1. Init => AccountInv /\ TableInv
  <2>1. IsFiniteSet({}) /\ Cardinality({}) = 0
    BY FS_EmptySet
  <2> QED
    BY <2>1, ExecutorAssumption
    DEF Init, AccountInv, PinsAccountedFor, Pinned, TableInv, TableSound,
        PcApply, PcRecover, PcRevert, PcDown
<1>2. WellBehaved
  BY DEF Accountable
<1>3. TypeOK /\ JournalInv /\ TableInv /\ AccountInv /\ [Next]_vars => TableInv' /\ AccountInv'
  BY AccountStep, TableStep
<1> QED
  BY <1>1, <1>2, <1>3, JournalInvariant, TypeCorrect, PTL DEF Spec

(* Past its recovery the agent knows of every standing pin, by a row that    *)
(* would restore the right mask on the right incarnation.                   *)
THEOREM PinsStayAccountedFor ==
  ASSUME Accountable PROVE Spec => []PinsAccountedFor
<1>1. AccountInv => PinsAccountedFor
  BY DEF AccountInv
<1> QED
  BY <1>1, AccountInvariant, PTL

LEMMA ThreadStep ==
  ASSUME Accountable, "kill" \notin Faults, TypeOK, ThreadInv, [Next]_vars
  PROVE  ThreadInv'
<1> USE DEF Accountable, WellBehaved, ThreadInv, PcApply, PcRecover, PcRevert, PcDown
<1>1. CASE Environment
  BY <1>1 DEF Environment, Spawn, External, Exit, agentVars
<1>2. CASE Apply
  BY <1>2 DEF Apply, ApplyBegin, ApplyRecord, ApplySet, ApplySetFails, ApplyCommit,
              ApplyDifferentialPin, osVars
<1>3. CASE Reverts
  BY <1>3 DEF Reverts, Revert, RevertAll, RevertByRuleId, Shutdown, StartRevert,
      RevertThread,
              RevertSet, RevertMark, RevertDone, osVars
<1>4. CASE Lifecycle
  BY <1>4 DEF Lifecycle, Kill, Start, RecoverCheck, RecoverSet, RecoverMark,
      RecoverDone, Refresh, osVars
<1>5. CASE DeadMan \/ UNCHANGED vars
  BY <1>5 DEF DeadMan, DmStart, DmCheck, DmSet, DmMark, DmKill, vars, osVars, agentVars
<1> QED
  BY <1>1, <1>2, <1>3, <1>4, <1>5 DEF Next

(* A graceful exit leaves no pin standing, not even one inherited from an    *)
(* instance that was killed, and, where no instance is killed, no thread     *)
(* pinned (ActionExecutor::~ActionExecutor, revert_all).                     *)
THEOREM StopsClean ==
  ASSUME Accountable PROVE Spec => []CleanStop
<1>1. AccountInv => (pc = "stopped" => Pinned = {})
  BY DEF AccountInv
<1>2. CASE "kill" \in Faults
  <2>1. AccountInv => CleanStop
    BY <1>1, <1>2 DEF CleanStop
  <2> QED
    BY <2>1, AccountInvariant, PTL
<1>3. CASE "kill" \notin Faults
  <2>1. Init => ThreadInv
    BY DEF Init, ThreadInv, PcRecover, PcRevert, PcDown
  <2>2. TypeOK /\ ThreadInv /\ [Next]_vars => ThreadInv'
    BY <1>3, ThreadStep
  <2>3. AccountInv /\ ThreadInv => CleanStop
    BY <1>1 DEF CleanStop, ThreadInv, PcDown
  <2> QED
    BY <2>1, <2>2, <2>3, AccountInvariant, TypeCorrect, PTL DEF Spec
<1> QED
  BY <1>2, <1>3

-----------------------------------------------------------------------------
(* The marks, and the dead-man.                                             *)

(* No slot is marked reverted while the placement it describes stands, by    *)
(* the agent, its recovery or the dead-man (RevertJournal.hpp: "flips ->    *)
(* REVERTED after a successful revert").                                    *)
THEOREM MarksFollowSuccess ==
  ASSUME WellBehaved PROVE Spec => RevertedAfterSuccess
<1>1. ASSUME TypeOK, NEW known, NEW p, NEW ct, ~(p \in Pinned /\ ct = ctime[p]),
             journal' = MarkReverted(journal, known, p, ct), NEW i \in DOMAIN journal,
             journal[i].st # "reverted", journal'[i].st = "reverted"
      PROVE  ~(journal[i].pid \in Pinned /\ journal[i].ct = ctime[journal[i].pid])
  BY <1>1 DEF MarkReverted, SetStatus, HasKey
<1>2. ASSUME TypeOK, JournalInv, Next, NEW i \in DOMAIN journal,
             journal[i].st # "reverted", journal'[i].st = "reverted"
      PROVE  ~(journal[i].pid \in Pinned /\ journal[i].ct = ctime[journal[i].pid])
  <2>1. ASSUME ApplyRecord \/ Kill PROVE journal'[i] = journal[i]
    <3>1. CASE Kill
      BY <3>1 DEF Kill, WellBehaved
    <3>2. CASE ApplyRecord
      <4>1. cur \in Action /\ journal \in Seq(Slot)
        BY <1>2, <3>2 DEF ApplyRecord, TypeOK, PcApply
      <4>2. NewSlot(cur.pid, cur.ct, cur.prev, "pending") \in Slot
        BY <4>1 DEF Action, NewSlot, Slot, Status
      <4>3. journal' = Append(journal, NewSlot(cur.pid, cur.ct, cur.prev, "pending"))
        BY <3>2 DEF ApplyRecord, WellBehaved, RecordPending
      <4> QED
        BY <1>2, <4>1, <4>2, <4>3, AppendType
    <3> QED
      BY <2>1, <3>1, <3>2
  <2>2. ASSUME ApplyCommit PROVE journal'[i].st \in {journal[i].st, "applied"}
    <3>1. journal[i] \in Slot
      BY <1>2 DEF TypeOK
    <3> QED
      BY <1>2, <2>2, <3>1 DEF ApplyCommit, MarkApplied, SetStatus, Slot
  <2>3. CASE RevertMark
    BY <1>1, <1>2, <2>3 DEF RevertMark, JournalInv, RowsRestorable
  <2>4. CASE RecoverMark
    BY <1>1, <1>2, <2>4 DEF RecoverMark, JournalInv, RecoveriesSound, StandsFor
  <2>5. CASE DmMark
    BY <1>1, <1>2, <2>5 DEF DmMark, JournalInv, RecoveriesSound, StandsFor

   <2>6. \/ UNCHANGED journal \/ ApplyRecord \/ ApplyCommit \/ RevertMark \/ Kill \/ RecoverMark
        \/ DmMark
    BY <1>2
    DEF Next, Environment, Spawn, External, Exit,
        Apply, ApplyBegin, ApplySet, ApplySetFails, ApplyDifferentialPin,
        Reverts, Revert, RevertAll, RevertByRuleId, Shutdown, StartRevert, RevertThread,
        RevertSet, RevertDone,
        Lifecycle, Start, RecoverCheck, RecoverSet, RecoverDone, Refresh, DeadMan,
        DmStart, DmCheck, DmSet, DmKill
  <2> QED
    BY <1>2, <2>1, <2>2, <2>3, <2>4, <2>5, <2>6
<1>3. TypeOK /\ JournalInv /\ [Next]_vars =>
        [\A i \in DOMAIN journal :
           (journal[i].st # "reverted" /\ journal'[i].st = "reverted") =>
             ~(journal[i].pid \in Pinned /\ journal[i].ct = ctime[journal[i].pid])]_vars
  BY <1>2
<1> QED
  BY <1>3, JournalInvariant, TypeCorrect, PTL DEF Spec, RevertedAfterSuccess

LEMMA DeadManStep ==
  ASSUME WellBehaved, TypeOK, JournalInv, DeadManInv, [Next]_vars
  PROVE  DeadManInv'
<1> SUFFICES ASSUME dm' # "off"
             PROVE  \A p \in Pinned' : \E s \in dmTodo' : s.pid = p /\ StandsFor(s)'
  BY DEF DeadManInv
<1>1. CASE DmStart
  <2>1. PinsShrink
    BY <1>1, OnlyApplyPins DEF Next, DeadMan, DmStart, ApplySet, agentVars, osVars
  <2> QED
    BY <1>1, <2>1, RecoverCovers, StillStands DEF DmStart, PinsShrink
<1>2. CASE ~DmStart
  <2>1. dm # "off" /\ (dmTodo' = dmTodo \/ (dmTodo' = dmTodo \ {dmCur} /\ dm = "mark"))
    BY <1>2
    DEF Next, vars, Environment, Spawn, External, Exit,
        Apply, ApplyBegin, ApplyRecord, ApplySet, ApplySetFails, ApplyCommit,
        ApplyDifferentialPin, Reverts, Revert, RevertAll, RevertByRuleId, Shutdown,
        StartRevert, RevertThread, RevertSet, RevertMark, RevertDone,
        Lifecycle, Kill, Start, RecoverCheck, RecoverSet, RecoverMark, RecoverDone, Refresh,
        DeadMan, DmCheck, DmSet, DmMark, DmKill, dmVars
  <2>2. ~ApplySet
    BY <2>1 DEF JournalInv, RecoveriesSound, ApplySet, PcDown
  <2>3. PinsShrink
    BY <2>2, OnlyApplyPins
  <2>4. \A s \in dmTodo : s \in dmTodo' \/ ~StandsFor(s)
    BY <2>1 DEF JournalInv, RecoveriesSound
  <2> QED
    BY <2>1, <2>3, <2>4, StillStands DEF DeadManInv, PinsShrink
<1> QED
  BY <1>1, <1>2

(* A completed pass of the dead-man leaves no pin standing (run_dead_man).  *)
THEOREM DeadManFinishes ==
  ASSUME WellBehaved PROVE Spec => DeadManRestoresAll
<1>1. Init => DeadManInv
  BY DEF Init, DeadManInv
<1>2. TypeOK /\ JournalInv /\ DeadManInv /\ [Next]_vars =>
        [(DmMark /\ dm' = "off") => Pinned = {}]_vars
  <2> SUFFICES ASSUME TypeOK, JournalInv, DeadManInv, DmMark, dm' = "off"
               PROVE  Pinned = {}
    OBVIOUS
  <2>1. dmTodo \subseteq {dmCur} /\ ~StandsFor(dmCur)
    BY DEF DmMark, JournalInv, RecoveriesSound
  <2> QED
    BY <2>1 DEF DmMark, DeadManInv
<1> QED
  BY <1>1, <1>2, DeadManStep, JournalInvariant, TypeCorrect, PTL DEF Spec,
      DeadManRestoresAll
=============================================================================
