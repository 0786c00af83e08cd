--------------------------- MODULE ActionExecutor ---------------------------
(***************************************************************************)
(* Placements on live processes: the executor's tables and its journal      *)
(* (src/action/src/ActionExecutor.cpp), the observer's set of tracked        *)
(* processes that feeds it (src/observer/src/ProcessObserver.cpp), the       *)
(* external dead-man (src/tools/phynned-revert/main.cpp), and the operating  *)
(* system they all write to.                                                 *)
(*                                                                           *)
(* The agent is one thread, but its process can be killed between any two    *)
(* system calls, and the targets, other tools and the dead-man act between   *)
(* any two of them as well: apply() and the reverts are split at their       *)
(* system calls and their flushed journal writes.                            *)
(*                                                                           *)
(* Faults names what the environment may do to the agent:                    *)
(*   "kill"         the agent process is killed                              *)
(*   "set_fails"    a Set* of apply() is refused                             *)
(*   "revert_fails" a Set* of a revert or a recovery is refused              *)
(*   "recycle"      the system reuses the pid of a process that exited       *)
(*   "race"         a target exits, or is changed by someone else, between   *)
(*                  the capture and the Set* of the apply() that pins it     *)
(*   "external"     someone else sets a target's affinity                    *)
(*   "enum_fails"   a process enumeration comes back empty                   *)
(*   "torn"         an append to the journal stops half-way                  *)
(*   "overlap"      phynned-revert and an agent run at the same time         *)
(***************************************************************************)
EXTENDS RevertJournal, FiniteSets

CONSTANTS
  Default,     \* the system-wide mask: what a process starts with
  Rule,        \* rule ids
  MaxActive,   \* kMaxActiveActions = kMaxActiveThreadActions
  Faults,      \* the faults that may happen
  MaxCt,       \* bound: process creations
  MaxSlots     \* bound: journal slots

FaultKind == {"kill", "set_fails", "revert_fails", "recycle", "race", "external",
              "enum_fails", "torn", "overlap"}

ASSUME ExecutorAssumption ==
  /\ Default \in Mask
  /\ MaxActive \in Nat
  /\ Faults \subseteq FaultKind
  /\ MaxCt \in Nat /\ MaxSlots \in Nat

VARIABLES
  alive,     \* pids with a running process
  ctime,     \* creation time of the last process behind a pid; 0: none yet
  mask,      \* its affinity
  tpin,      \* pids whose hot thread is pinned
  lastCt,    \* creation times handed out so far
  journal,   \* the journal file
  openLen,   \* its length when the running agent opened it
  pc,        \* where the agent is
  cur,       \* the action in flight
  todo,      \* actions still to revert, or slots still to reconcile
  ttodo,     \* pids whose thread action is still to revert
  exiting,   \* the revert in progress is the one of the shutdown
  active,    \* active_: process-level actions
  threads,   \* active_threads_: pids with a differential pin
  tracked,   \* the observer's targets_
  dm,        \* the dead-man: "off", "check", "set" or "mark"
  dmLen,     \* the journal's length when the dead-man opened it
  dmTodo,    \* slots it still has to reconcile
  dmCur,     \* the slot it is reconciling
  origin     \* history: NoMask, or, while the affinity of a process is one
             \* that apply() set, the affinity it had before our first write

osVars    == <<alive, ctime, mask, tpin, lastCt>>
agentVars == <<openLen, pc, cur, todo, ttodo, exiting, active, threads, tracked>>
dmVars    == <<dm, dmLen, dmTodo, dmCur>>
vars      == <<osVars, journal, agentVars, dmVars, origin>>

(* The processes with a standing pin. *)
Pinned == {p \in Pid : origin[p] # NoMask}

Action == [pid : Pid, rule : Rule, ct : Nat, prev : Mask \cup {NoMask}, new : Mask]

NoAction == [pid |-> "none"]
NoSlot   == [pid |-> "none"]

(* A slot that the guard of a recovery has recognised; history: how many     *)
(* processes had been created when it looked.                               *)
Checked == [slot : Slot, seen : Nat]

PcRecover == {"recover", "recover_set", "recover_mark"}
PcRevert  == {"revert", "revert_mark"}
PcApply   == {"captured", "journaled", "set"}
PcDown    == {"killed", "stopped"}
PcAll     == {"idle"} \cup PcRecover \cup PcRevert \cup PcApply \cup PcDown

TypeOK ==
  /\ alive \subseteq Pid
  /\ ctime \in [Pid -> Nat]
  /\ mask \in [Pid -> Mask]
  /\ tpin \subseteq Pid
  /\ lastCt \in Nat
  /\ journal \in Seq(Slot)
  /\ openLen \in Nat
  /\ pc \in PcAll
  /\ cur \in Action \cup Slot \cup Checked \cup {NoAction}
  /\ pc \in PcApply \cup {"revert_mark"} => cur \in Action
  /\ pc = "recover_set" => cur \in Checked
  /\ pc = "recover_mark" => cur \in Slot
  /\ todo \subseteq Action \cup Slot
  /\ pc \in PcRecover => todo \subseteq Slot
  /\ pc \in PcRevert => todo \subseteq Action
  /\ ttodo \subseteq Pid
  /\ exiting \in BOOLEAN
  /\ active \subseteq Action
  /\ threads \subseteq Pid
  /\ tracked \subseteq Pid
  /\ dm \in {"off", "check", "set", "mark"}
  /\ dmLen \in Nat
  /\ dmTodo \subseteq Slot
  /\ dmCur \in Slot \cup Checked \cup {NoSlot}
  /\ dm = "set" => dmCur \in Checked
  /\ dm = "mark" => dmCur \in Slot
  /\ origin \in [Pid -> Mask \cup {NoMask}]

Init ==
  /\ alive = {}
  /\ ctime = [p \in Pid |-> 0]
  /\ mask = [p \in Pid |-> Default]
  /\ tpin = {}
  /\ lastCt = 0
  /\ journal = <<>>
  /\ openLen = 0
  /\ pc = "stopped"
  /\ cur = NoAction
  /\ todo = {} /\ ttodo = {}
  /\ exiting = FALSE
  /\ active = {} /\ threads = {} /\ tracked = {}
  /\ dm = "off" /\ dmLen = 0 /\ dmTodo = {} /\ dmCur = NoSlot
  /\ origin = [p \in Pid |-> NoMask]

-----------------------------------------------------------------------------
(* The operating system and the other programs on the machine.             *)

(* p is the target of an apply() that has captured its state and not yet   *)
(* made its Set*.                                                          *)
InApplyWindow(p) == pc \in {"captured", "journaled"} /\ cur.pid = p

EnvMayTouch(p) == InApplyWindow(p) => "race" \in Faults

(* A process starts, on a pid never used before or on a recycled one, with *)
(* the affinity it inherits or asks for.                                   *)
Spawn(p, m) ==
  /\ p \notin alive
  /\ lastCt < MaxCt
  /\ ctime[p] # 0 => "recycle" \in Faults
  /\ m # Default => "external" \in Faults
  /\ EnvMayTouch(p)
  /\ alive' = alive \cup {p}
  /\ lastCt' = lastCt + 1
  /\ ctime' = [ctime EXCEPT ![p] = lastCt + 1]
  /\ mask' = [mask EXCEPT ![p] = m]
  /\ UNCHANGED <<tpin, journal, agentVars, dmVars, origin>>

(* A process exits; the placements on it go with it. *)
Exit(p) ==
  /\ p \in alive
  /\ EnvMayTouch(p)
  /\ alive' = alive \ {p}
  /\ mask' = [mask EXCEPT ![p] = Default]
  /\ tpin' = tpin \ {p}
  /\ origin' = [origin EXCEPT ![p] = NoMask]
  /\ UNCHANGED <<ctime, lastCt, journal, agentVars, dmVars>>

(* Someone else (the process itself, Task Manager, another tool) sets the  *)
(* affinity of a process.                                                  *)
External(p, m) ==
  /\ "external" \in Faults
  /\ p \in alive
  /\ EnvMayTouch(p)
  /\ mask' = [mask EXCEPT ![p] = m]
  /\ origin' = [origin EXCEPT ![p] = NoMask]
  /\ UNCHANGED <<alive, ctime, tpin, lastCt, journal, agentVars, dmVars>>

(* The outcome of set_process_affinity(p, m) made to undo a placement: it  *)
(* is refused for a zero mask and when there is no such process, and may   *)
(* be refused otherwise; the callers ignore the result.                    *)
Restore(p, m) ==
  \/ /\ p \in alive /\ m # NoMask
     /\ mask' = [mask EXCEPT ![p] = m]
     /\ origin' = [origin EXCEPT ![p] = NoMask]
  \/ /\ p \notin alive \/ m = NoMask \/ "revert_fails" \in Faults
     /\ UNCHANGED <<mask, origin>>

(* query_creation_time and get_process_affinity of a pid. *)
QueryCreationTime(p) == IF p \in alive THEN ctime[p] ELSE 0
GetAffinity(p)       == IF p \in alive THEN mask[p] ELSE NoMask

(* Mutant: the recycle guard compares the pid only. *)
StillMatchesByPid(s) == s.pid \in alive

(* process_still_matches: the recycle guard of every recovery. *)
StillMatches(s) == s.pid \in alive /\ s.ct = ctime[s.pid]

-----------------------------------------------------------------------------
(* ActionExecutor::apply, split at its system calls.                       *)

(* What the agent's journal index covers: the slots its opening scan read  *)
(* and those it appended itself.                                           *)
Known == {i \in DOMAIN journal : i \in Readable(journal) \/ i > openLen}

FindActive(p) == {a \in active : a.pid = p}

(* Mutant: no look at the table before a pid is pinned again. *)
ApplyBeginTwice(p, r, m) ==
  /\ pc = "idle"
  /\ p \in tracked
  /\ m # Default
  /\ Cardinality(active) < MaxActive
  /\ Len(journal) < MaxSlots
  /\ cur' = [pid |-> p, rule |-> r, ct |-> QueryCreationTime(p),
             prev |-> GetAffinity(p), new |-> m]
  /\ pc' = "captured"
  /\ UNCHANGED <<osVars, journal, openLen, todo, ttodo, exiting, active,
                 threads, tracked, dmVars, origin>>

(* The agent decides to pin a tracked process that has no active action    *)
(* while the table has room: capture the affinity and the journal key.     *)
ApplyBegin(p, r, m) ==
  /\ pc = "idle"
  /\ p \in tracked
  /\ m # Default
  /\ FindActive(p) = {}
  /\ Cardinality(active) < MaxActive
  /\ Len(journal) < MaxSlots
  /\ cur' = [pid |-> p, rule |-> r, ct |-> QueryCreationTime(p),
             prev |-> GetAffinity(p), new |-> m]
  /\ pc' = "captured"
  /\ UNCHANGED <<osVars, journal, openLen, todo, ttodo, exiting, active,
                 threads, tracked, dmVars, origin>>

(* Mutant: the record is left for after the Set*. *)
ApplyRecordLater ==
  /\ pc = "captured"
  /\ pc' = "journaled"
  /\ UNCHANGED <<osVars, journal, openLen, cur, todo, ttodo, exiting, active,
                 threads, tracked, dmVars, origin>>

(* The write-ahead step; the outcome of the append is not looked at. *)
ApplyRecord ==
  /\ pc = "captured"
  /\ \/ journal' = RecordPending(journal, cur.pid, cur.ct, cur.prev)
     \/ /\ "torn" \in Faults
        /\ journal' = RecordTorn(journal, cur.pid, cur.ct, cur.prev)
  /\ pc' = "journaled"
  /\ UNCHANGED <<osVars, openLen, cur, todo, ttodo, exiting, active, threads,
                 tracked, dmVars, origin>>

(* The Set* lands on whatever process has the pid now. *)
ApplySet ==
  /\ pc = "journaled"
  /\ cur.pid \in alive
  /\ mask' = [mask EXCEPT ![cur.pid] = cur.new]
  /\ origin' = [origin EXCEPT ![cur.pid] = IF @ = NoMask THEN mask[cur.pid] ELSE @]
  /\ pc' = "set"
  /\ UNCHANGED <<alive, ctime, tpin, lastCt, journal, openLen, cur, todo,
                 ttodo, exiting, active, threads, tracked, dmVars>>

(* The Set* is refused: apply() returns the error and leaves the PENDING   *)
(* slot.                                                                   *)
ApplySetFails ==
  /\ pc = "journaled"
  /\ cur.pid \notin alive \/ "set_fails" \in Faults
  /\ pc' = "idle"
  /\ cur' = NoAction
  /\ UNCHANGED <<osVars, journal, openLen, todo, ttodo, exiting, active,
                 threads, tracked, dmVars, origin>>

(* Mutant: the row is not entered in the table. *)
ApplyCommitNoRow ==
  /\ pc = "set"
  /\ journal' = MarkApplied(journal, Known, cur.pid, cur.ct)
  /\ pc' = "idle"
  /\ cur' = NoAction
  /\ UNCHANGED <<osVars, openLen, todo, ttodo, exiting, active, threads,
                 tracked, dmVars, origin>>

(* mark_applied, then the row enters the active table. *)
ApplyCommit ==
  /\ pc = "set"
  /\ journal' = MarkApplied(journal, Known, cur.pid, cur.ct)
  /\ active' = active \cup {cur}
  /\ pc' = "idle"
  /\ cur' = NoAction
  /\ UNCHANGED <<osVars, openLen, todo, ttodo, exiting, threads, tracked,
                 dmVars, origin>>

(* apply_differential_pin, as its caller uses it: the process gets the     *)
(* full system mask and its hot thread a narrow one; nothing is journaled. *)
(* A refused first call changes nothing; a refused second one rolls the    *)
(* process back.                                                           *)
ApplyDifferentialPin(p) ==
  /\ pc = "idle"
  /\ p \in tracked \cap alive
  /\ p \notin threads
  /\ Cardinality(threads) < MaxActive
  /\ mask' = [mask EXCEPT ![p] = Default]
  /\ origin' = [origin EXCEPT ![p] = NoMask]
  /\ tpin' = tpin \cup {p}
  /\ threads' = threads \cup {p}
  /\ UNCHANGED <<alive, ctime, lastCt, journal, openLen, pc, cur, todo, ttodo,
                 exiting, active, tracked, dmVars>>

-----------------------------------------------------------------------------
(* The reverts: thread actions first, then the process-level rows.         *)

StartRevert(rows, pids, exit) ==
  /\ pc = "idle"
  /\ todo' = rows
  /\ ttodo' = pids
  /\ exiting' = exit
  /\ pc' = "revert"
  /\ UNCHANGED <<osVars, journal, openLen, cur, active, threads, tracked,
                 dmVars, origin>>

(* Mutant: compacting while iterating makes the loop skip a row. *)
ShutdownSkipping ==
  StartRevert(IF Cardinality(active) > 1 THEN {CHOOSE a \in active : TRUE}
              ELSE active, threads, TRUE)

Revert(p)           == StartRevert(FindActive(p), threads \cap {p}, FALSE)
RevertAll           == StartRevert(active, threads, FALSE)
RevertByRuleId(r)   == StartRevert({a \in active : a.rule = r}, {}, FALSE)
Shutdown            == StartRevert(active, threads, TRUE)

(* revert_thread_action: the thread, then the process, to the default mask.*)
RevertThread(p) ==
  /\ pc = "revert"
  /\ p \in ttodo
  /\ Restore(p, Default)
  /\ \/ tpin' = tpin \ {p}
     \/ "revert_fails" \in Faults /\ UNCHANGED tpin
  /\ threads' = threads \ {p}
  /\ ttodo' = ttodo \ {p}
  /\ UNCHANGED <<alive, ctime, lastCt, journal, openLen, pc, cur, todo,
                 exiting, active, tracked, dmVars>>

(* Mutant: the row is marked without the Set*. *)
RevertSetNothing(a) ==
  /\ pc = "revert"
  /\ ttodo = {}
  /\ a \in todo
  /\ cur' = a
  /\ pc' = "revert_mark"
  /\ UNCHANGED <<osVars, journal, openLen, todo, ttodo, exiting, active,
                 threads, tracked, dmVars, origin>>

(* Mutant: the row in hand is not the one that was restored. *)
RevertSetUnlatched(a) ==
  /\ pc = "revert"
  /\ ttodo = {}
  /\ a \in todo
  /\ Restore(a.pid, a.prev)
  /\ pc' = "revert_mark"
  /\ UNCHANGED <<alive, ctime, tpin, lastCt, journal, openLen, cur, todo, ttodo,
                 exiting, active, threads, tracked, dmVars>>

(* Restore the captured mask on whatever process has the pid now. *)
RevertSet(a) ==
  /\ pc = "revert"
  /\ ttodo = {}
  /\ a \in todo
  /\ Restore(a.pid, a.prev)
  /\ cur' = a
  /\ pc' = "revert_mark"
  /\ UNCHANGED <<alive, ctime, tpin, lastCt, journal, openLen, todo, ttodo,
                 exiting, active, threads, tracked, dmVars>>

(* mark_reverted, then the row leaves the table. *)
RevertMark ==
  /\ pc = "revert_mark"
  /\ journal' = MarkReverted(journal, Known, cur.pid, cur.ct)
  /\ active' = active \ {cur}
  /\ todo' = todo \ {cur}
  /\ pc' = "revert"
  /\ cur' = NoAction
  /\ UNCHANGED <<osVars, openLen, ttodo, exiting, threads, tracked, dmVars,
                 origin>>

RevertDone ==
  /\ pc = "revert"
  /\ todo = {} /\ ttodo = {}
  /\ pc' = IF exiting THEN "stopped" ELSE "idle"
  /\ UNCHANGED <<osVars, journal, openLen, cur, todo, ttodo, exiting, active,
                 threads, tracked, dmVars, origin>>

-----------------------------------------------------------------------------
(* ProcessObserver::refresh and the prune_dead that follows it.            *)

(* A tracked pid that is still listed stays, whoever runs behind it; an    *)
(* untracked one is admitted only with the default affinity.  prune_dead   *)
(* drops the rows of every pid no longer tracked: no Set*, no journal.     *)
Refresh(listed) ==
  /\ pc = "idle"
  /\ \/ listed = alive
     \/ "enum_fails" \in Faults /\ listed = {}
  /\ tracked' = {p \in listed : p \in tracked \/ mask[p] = Default}
  /\ active' = {a \in active : a.pid \in tracked'}
  /\ threads' = threads \cap tracked'
  /\ UNCHANGED <<osVars, journal, openLen, pc, cur, todo, ttodo, exiting,
                 dmVars, origin>>

-----------------------------------------------------------------------------
(* Death and construction of the agent.                                    *)

(* taskkill /f or a crash, between any two steps. *)
Kill ==
  /\ "kill" \in Faults
  /\ pc \notin PcDown
  /\ \/ UNCHANGED journal
     \/ /\ "torn" \in Faults /\ pc = "captured"
        /\ journal' = RecordTorn(journal, cur.pid, cur.ct, cur.prev)
  /\ pc' = "killed"
  /\ cur' = NoAction
  /\ todo' = {} /\ ttodo' = {}
  /\ active' = {} /\ threads' = {} /\ tracked' = {}
  /\ openLen' = 0 /\ exiting' = FALSE
  /\ UNCHANGED <<osVars, dmVars, origin>>

(* The constructor opens the journal and asks for the survivors. *)
Start ==
  /\ pc \in PcDown
  /\ dm # "off" => "overlap" \in Faults
  /\ openLen' = Len(journal)
  /\ todo' = Recover(journal)
  /\ exiting' = FALSE
  /\ pc' = "recover"
  /\ cur' = NoAction
  /\ ttodo' = {} /\ active' = {} /\ threads' = {} /\ tracked' = {}
  /\ UNCHANGED <<osVars, journal, dmVars, origin>>

(* One survivor: the guard opens its process, reads the creation time and    *)
(* closes it again; a slot it does not recognise is only marked.            *)
RecoverCheck(s) ==
  /\ pc = "recover"
  /\ s \in todo
  /\ IF StillMatches(s) THEN cur' = [slot |-> s, seen |-> lastCt] /\ pc' = "recover_set"
                        ELSE cur' = s /\ pc' = "recover_mark"
  /\ UNCHANGED <<osVars, journal, openLen, todo, ttodo, exiting, active, threads,
                 tracked, dmVars, origin>>

(* set_process_affinity opens the pid anew: it restores whatever process has *)
(* it by now.                                                               *)
RecoverSet ==
  /\ pc = "recover_set"
  /\ Restore(cur.slot.pid, cur.slot.prev)
  /\ cur' = cur.slot
  /\ pc' = "recover_mark"
  /\ UNCHANGED <<alive, ctime, tpin, lastCt, journal, openLen, todo, ttodo,
                 exiting, active, threads, tracked, dmVars>>

RecoverMark ==
  /\ pc = "recover_mark"
  /\ journal' = MarkReverted(journal, Known, cur.pid, cur.ct)
  /\ todo' = todo \ {cur}
  /\ pc' = "recover"
  /\ cur' = NoAction
  /\ UNCHANGED <<osVars, openLen, ttodo, exiting, active, threads, tracked,
                 dmVars, origin>>

RecoverDone ==
  /\ pc = "recover"
  /\ todo = {}
  /\ pc' = "idle"
  /\ UNCHANGED <<osVars, journal, openLen, cur, todo, ttodo, exiting, active,
                 threads, tracked, dmVars, origin>>

-----------------------------------------------------------------------------
(* phynned-revert: run_dead_man, a process of its own with its own handle  *)
(* and its own index of the same file.                                     *)

DmKnown == {i \in Readable(journal) : i <= dmLen}

DmStart ==
  /\ dm = "off"
  /\ pc \in PcDown \/ "overlap" \in Faults
  /\ Recover(journal) # {}
  /\ dm' = "check"
  /\ dmLen' = Len(journal)
  /\ dmTodo' = Recover(journal)
  /\ dmCur' = NoSlot
  /\ UNCHANGED <<osVars, journal, agentVars, origin>>

(* Mutant: the dead-man restores APPLIED records only. *)
DmCheckApplied(s) ==
  /\ dm = "check"
  /\ s \in dmTodo
  /\ IF StillMatches(s) /\ s.st = "applied"
     THEN dmCur' = [slot |-> s, seen |-> lastCt] /\ dm' = "set"
     ELSE dmCur' = s /\ dm' = "mark"
  /\ UNCHANGED <<osVars, journal, agentVars, dmLen, dmTodo, origin>>

(* The same guard, and revert_to_prev, which opens the pid anew.            *)
DmCheck(s) ==
  /\ dm = "check"
  /\ s \in dmTodo
  /\ IF StillMatches(s) THEN dmCur' = [slot |-> s, seen |-> lastCt] /\ dm' = "set"
                        ELSE dmCur' = s /\ dm' = "mark"
  /\ UNCHANGED <<osVars, journal, agentVars, dmLen, dmTodo, origin>>

DmSet ==
  /\ dm = "set"
  /\ Restore(dmCur.slot.pid, dmCur.slot.prev)
  /\ dmCur' = dmCur.slot
  /\ dm' = "mark"
  /\ UNCHANGED <<alive, ctime, tpin, lastCt, journal, agentVars, dmLen, dmTodo>>

DmMark ==
  /\ dm = "mark"
  /\ journal' = MarkReverted(journal, DmKnown, dmCur.pid, dmCur.ct)
  /\ dmTodo' = dmTodo \ {dmCur}
  /\ dm' = IF dmTodo' = {} THEN "off" ELSE "check"
  /\ dmLen' = IF dmTodo' = {} THEN 0 ELSE dmLen
  /\ dmCur' = NoSlot
  /\ UNCHANGED <<osVars, agentVars, origin>>

(* The dead-man is itself killed. *)
DmKill ==
  /\ dm # "off"
  /\ dm' = "off" /\ dmLen' = 0 /\ dmTodo' = {} /\ dmCur' = NoSlot
  /\ UNCHANGED <<osVars, journal, agentVars, origin>>

-----------------------------------------------------------------------------
Environment ==
  \E p \in Pid :
    \/ \E m \in Mask : Spawn(p, m) \/ External(p, m)
    \/ Exit(p)

Apply ==
  \/ \E p \in Pid, r \in Rule, m \in Mask : ApplyBegin(p, r, m)
  \/ ApplyRecord \/ ApplySet \/ ApplySetFails \/ ApplyCommit
  \/ \E p \in Pid : ApplyDifferentialPin(p)

Reverts ==
  \/ \E p \in Pid : Revert(p) \/ RevertThread(p)
  \/ RevertAll \/ Shutdown
  \/ \E r \in Rule : RevertByRuleId(r)
  \/ \E a \in todo : RevertSet(a)
  \/ RevertMark \/ RevertDone

Lifecycle ==
  \/ Kill \/ Start
  \/ \E s \in todo : RecoverCheck(s)
  \/ RecoverSet \/ RecoverMark \/ RecoverDone
  \/ \E listed \in SUBSET Pid : Refresh(listed)

DeadMan ==
  \/ DmStart \/ DmSet \/ DmMark \/ DmKill
  \/ \E s \in dmTodo : DmCheck(s)

Next == Environment \/ Apply \/ Reverts \/ Lifecycle \/ DeadMan

Spec == Init /\ [][Next]_vars

-----------------------------------------------------------------------------
(* A standing pin has an unresolved slot under its process's own key that   *)
(* every scan of the journal returns: whoever kills the agent, and whenever,*)
(* the next agent and the dead-man find the placement.                      *)
WriteAhead ==
  \A p \in Pinned : \E s \in Recover(journal) : s.pid = p /\ s.ct = ctime[p]

(* What a recovery restores on a pinned process is the affinity it had      *)
(* before the first of our writes, never an affinity we set ourselves.      *)
CapturedPrevIsTrue ==
  \A s \in Recover(journal) :
    (s.pid \in Pinned /\ s.ct = ctime[s.pid]) => s.prev = origin[s.pid]

(* Past its recovery, the agent knows of every standing pin: the row it     *)
(* holds would restore the right mask on the right incarnation.             *)
PinsAccountedFor ==
  pc \notin PcDown \cup PcRecover =>
    \A p \in Pinned :
      \/ \E a \in active : a.pid = p /\ a.ct = ctime[p] /\ a.prev = origin[p]
      \/ pc = "set" /\ cur.pid = p

(* A graceful exit leaves no pin standing, not even one inherited from an   *)
(* instance that was killed; thread pins are not journaled, so theirs is    *)
(* promised only when no instance was killed.                               *)
CleanStop ==
  pc = "stopped" => /\ Pinned = {}
                    /\ "kill" \in Faults \/ tpin = {}

(* "flips -> REVERTED after a successful revert": no slot is resolved while *)
(* the placement it describes still stands.                                 *)
RevertedAfterSuccess ==
  [][\A i \in DOMAIN journal :
       (journal[i].st # "reverted" /\ journal'[i].st = "reverted") =>
         ~(journal[i].pid \in Pinned /\ journal[i].ct = ctime[journal[i].pid])]_vars

(* A completed dead-man pass leaves no pin standing. *)
DeadManRestoresAll ==
  [][(DmMark /\ dm' = "off") => Pinned = {}]_vars

(* A slot names process p, and what it would restore is m; or it named the   *)
(* process that had the pid when the guard looked, and p was created since. *)
Aimed(p, m, seen) ==
  \E i \in DOMAIN journal :
    /\ HasKey(journal[i], p, journal[i].ct) /\ journal[i].prev = m
    /\ journal[i].ct = ctime[p] \/ ctime[p] > seen

(* Whatever the environment does, a recovery writes only a mask that a slot  *)
(* captured, and only to the process incarnation this slot names, or to one *)
(* that took its pid after the guard had looked.                            *)
RecoveryHitsItsOwnProcess ==
  [][\A p \in Pid : mask'[p] # mask[p] =>
       /\ pc = "recover_set" /\ pc' = "recover_mark" => Aimed(p, mask'[p], cur.seen)
       /\ dm = "set" /\ dm' = "mark" => Aimed(p, mask'[p], dmCur.seen)]_vars

(* "A recycled PID fails process_still_matches() -> dropped, never           *)
(* clobbered" (ActionExecutor.cpp:49): not so when the pid is recycled       *)
(* between the guard and the write.                                         *)
RecycledIsNeverClobbered ==
  [][\A p \in Pid : mask'[p] # mask[p] /\ pc = "recover_set" /\ pc' = "recover_mark"
                    => cur.slot.ct = ctime[p]]_vars

(* The active table never holds two rows of a pid, nor more than its        *)
(* capacity, and a row survives only while its pid is tracked or about to   *)
(* be looked at by the next prune.                                          *)
TableSound ==
  /\ \A a, b \in active : a.pid = b.pid => a = b
  /\ Cardinality(active) <= MaxActive
  /\ Cardinality(threads) <= MaxActive
  /\ \A a \in active : a.pid \in tracked

=============================================================================
