---------------------------- MODULE TuningDaemon ----------------------------
(***************************************************************************)
(* The framework's tuning daemon (framework/tuning): it changes settings   *)
(* of the operating system, keeps a snapshot of what it changed, in memory *)
(* and on disk, and rolls a crashed session back at the next start.  One   *)
(* action per step a crash can separate; the settings are those of the     *)
(* Windows and of the Linux tuner, by name.  A setting reads "owner" (what *)
(* the machine's owner had), "tuned" (what the tuner writes) or "other".   *)
(***************************************************************************)
EXTENDS Naturals, Sequences, FiniteSets

CONSTANTS MaxCrashes,      \* bound: crashes of the process
          MaxBegun,        \* bound: timeBeginPeriod calls counted
          MaxChanges       \* bound: settings changed by somebody else

VARIABLES os,         \* the value of every setting of the platform
          begun,      \* timeBeginPeriod calls not ended yet
          powercfg,   \* the values that started powercfg processes will set
          file,       \* the records in the snapshot file, NoFile when it is not there
          snap,       \* current_snap_: the records in memory
          at,         \* the setting apply_full is at, 5 when it is through
          step,       \* where start_with_snapshot_recovery, the loop or stop is
          exposed,    \* history: a tuning was left without a record on purpose
          crashes, changes

vars == <<os, begun, powercfg, file, snap, at, step, exposed, crashes, changes>>

NoFile == <<[op |-> "none", old |-> "none", new |-> "none"]>>

Windows == <<"power", "timer", "workset", "boost">>
Linux == <<"thp", "governor", "cstate", "irq">>

\* The settings apply_full goes through, in its order.
Plan == IF "power" \in DOMAIN os THEN Windows ELSE Linux

\* Settings of the process itself: the system forgets them when it dies.
OwnProcess == {"timer", "workset", "boost"}

\* What a refused call means for apply_full: an error, or on to the next one.
MayFail == {"power", "timer", "workset", "boost", "thp"}
MaySkip == {"workset", "thp", "governor", "cstate", "irq"}

TypeOK == /\ os \in [{Windows[i] : i \in 1..4} -> {"owner", "tuned", "other"}]
                \cup [{Linux[i] : i \in 1..4} -> {"owner", "tuned", "other"}]
          /\ begun \in 0..MaxBegun /\ powercfg \subseteq {"owner", "other"}
          /\ step \in {"off", "recover", "remove", "apply", "run", "failed"} /\ at \in 1..5
          /\ crashes \in 0..MaxCrashes /\ changes \in 0..MaxChanges

\* "timer" is the shortest period of the device, which nothing here changes.
Init == /\ os \in {[s \in {p[i] : i \in 1..4} |-> IF s = "timer" THEN t ELSE "owner"] :
                    p \in {Windows, Linux}, t \in {"owner", "tuned"}}
        /\ begun = 0 /\ powercfg = {} /\ file = NoFile /\ snap = <<>>
        /\ at = 1 /\ step = "off" /\ exposed = FALSE /\ crashes = 0 /\ changes = 0

Record(s) == [op |-> s, old |-> os[s], new |-> "tuned"]

\* What rolling the records back, from the last to the first, leaves of a setting: of its
\* records the first has the last word.  powercfg runs on its own, and the kernel
\* refuses the list of choices that "defrag" reads as.
RolledBack(records, s) ==
  LET mine == {i \in DOMAIN records : records[i].op = s}
  IN  IF s \in {"power", "thp", "timer"} \/ mine = {} THEN os[s]
      ELSE records[CHOOSE i \in mine : \A j \in mine : i <= j].old

\* rollback_all
RollbackAll(records) ==
  /\ os' = [s \in DOMAIN os |-> RolledBack(records, s)]
  /\ powercfg' = powercfg \cup {records[i].old : i \in {j \in DOMAIN records : records[j].op = "power"}}

----------------------------------------------------------------------------
\* Mutant of Start: the orphan is overwritten instead of rolled back.
StartOver == /\ step \in {"off", "failed"} /\ step' = "apply" /\ snap' = <<>> /\ at' = 1
             /\ UNCHANGED <<os, begun, powercfg, file, exposed, crashes, changes>>

\* start_with_snapshot_recovery, called on a daemon that is not running.
Start == /\ step \in {"off", "failed"}
         /\ step' = IF file = NoFile THEN "apply" ELSE "recover"
         /\ snap' = <<>> /\ at' = 1
         /\ UNCHANGED <<os, begun, powercfg, file, exposed, crashes, changes>>

\* The orphan is rolled back, and its file removed after that.
Recover == /\ step = "recover" /\ RollbackAll(file) /\ step' = "remove"
           /\ UNCHANGED <<at, begun, file, snap, exposed, crashes, changes>>

Remove == /\ step = "remove" /\ file' = NoFile /\ step' = "apply"
          /\ UNCHANGED <<at, os, begun, powercfg, snap, exposed, crashes, changes>>

\* What the snapshot has a record of.
Done == {snap[i].op : i \in DOMAIN snap}

\* timeBeginPeriod, counted up to a bound: no timeEndPeriod matches it.
Begin == IF begun < MaxBegun THEN begun + 1 ELSE begun

\* apply_*: the change is made, then recorded.
Apply(s) == /\ step = "apply" /\ at <= 4 /\ s = Plan[at] /\ os[s] # "tuned"
            /\ at' = at + 1
            /\ snap' = Append(snap, Record(s))
            /\ os' = IF s = "timer" THEN os ELSE [os EXCEPT ![s] = "tuned"]
            /\ begun' = IF s = "timer" THEN Begin ELSE begun
            /\ UNCHANGED <<powercfg, file, step, exposed, crashes, changes>>

\* A refused call that matters: the snapshot's destructor rolls back.
ApplyFails(s) == /\ step = "apply" /\ at <= 4 /\ s = Plan[at] /\ s \in MayFail
                 /\ RollbackAll(snap) /\ snap' = <<>> /\ step' = "failed"
                 /\ UNCHANGED <<at, begun, file, exposed, crashes, changes>>

\* Tuned already, or refused without it mattering.
Skip(s) == /\ step = "apply" /\ at <= 4 /\ s = Plan[at] /\ (os[s] = "tuned" \/ s \in MaySkip)
           /\ at' = at + 1
           /\ UNCHANGED <<os, begun, powercfg, file, snap, step, exposed, crashes, changes>>

\* save() replaces the file in one rename; its failure is ignored.
Save == /\ step = "apply" /\ at = 5 /\ step' = "run"
        /\ \/ file' = snap /\ UNCHANGED exposed
           \/ exposed' = TRUE /\ UNCHANGED file
        /\ UNCHANGED <<at, os, begun, powercfg, snap, crashes, changes>>

----------------------------------------------------------------------------
\* verify_snapshot: only the power scheme and the boost are read back on
\* Windows; "defrag" never reads as the word that was written to it.
Holds(s) == s \in {"timer", "workset"} \/ (s # "thp" /\ os[s] = "tuned")

Verified == \A i \in DOMAIN snap : Holds(snap[i].op)

\* reapply_snapshot: the boost is recorded as enabled/disabled and written back as
\* if it were the "disable" argument.
Reapplied(s) == IF s = "boost" THEN "owner" ELSE "tuned"

Reapply == /\ step = "run" /\ ~Verified
           /\ os' = [s \in DOMAIN os |-> IF s \in Done \ {"timer"} THEN Reapplied(s) ELSE os[s]]
           /\ begun' = IF "timer" \in Done THEN Begin ELSE begun
           /\ UNCHANGED <<at, powercfg, file, snap, step, exposed, crashes, changes>>

\* stop: the tunings stay, the records go.
Stop == /\ step = "run" /\ step' = "off" /\ snap' = <<>> /\ file' = NoFile
        /\ exposed' = TRUE
        /\ UNCHANGED <<at, os, begun, powercfg, crashes, changes>>

\* A powercfg process that a rollback started gets to run.
Powercfg(v) == /\ v \in powercfg /\ powercfg' = powercfg \ {v}
               /\ os' = [os EXCEPT !["power"] = v]
               /\ UNCHANGED <<at, begun, file, snap, step, exposed, crashes, changes>>

\* Somebody else changes a setting: the system after a resume, the owner.
Changed(s) == /\ changes < MaxChanges /\ changes' = changes + 1
              /\ s \notin OwnProcess /\ os[s] # "other" /\ os' = [os EXCEPT ![s] = "other"]
              /\ UNCHANGED <<at, begun, powercfg, file, snap, step, exposed, crashes>>

\* The process dies: its own settings with it, and the snapshot in memory.
Crash == /\ crashes < MaxCrashes /\ crashes' = crashes + 1
         /\ step \notin {"off"} /\ step' = "off" /\ snap' = <<>> /\ begun' = 0
         /\ os' = [s \in DOMAIN os |-> IF s \in OwnProcess \ {"timer"} THEN "owner" ELSE os[s]]
         /\ exposed' = (exposed \/ (step = "apply" /\ snap # <<>>))
         /\ UNCHANGED <<at, powercfg, file, changes>>

----------------------------------------------------------------------------
OnRecord(records, s) == \E i \in DOMAIN records : records[i].op = s
                                               /\ (records[i].old = "owner" \/ changes > 0)

\* Whatever the tuner changed can be given back: it is in the snapshot in memory, in
\* the file a crash leaves, or a powercfg process is about to restore it; after a
\* refused start nothing is left changed.  The file may go only once its
\* records were rolled back, and the next session's save replaces it.  Not covered:
\* a crash before the first save, a failed save, a stop ("exposed"), the timer
\* period and "defrag", which no rollback restores.
EverythingCanBeGivenBack ==
  ~exposed => \A s \in DOMAIN os \ {"timer", "thp"} : os[s] = "tuned" =>
                 \/ OnRecord(snap, s) \/ OnRecord(file, s)
                 \/ s = "power" /\ powercfg # {}

\* "reapply_snapshot() to restore our settings": every recorded setting has its new
\* value after it.
ReapplyRestores == [][Reapply => \A s \in Done \ {"timer"} : os'[s] = "tuned"]_vars

\* "treat as orphaned crash snapshot" (TuningDaemon.hpp:16): what a kill leaves tuned of the
\* machine is in the file.  It is saved once apply_full is through (:106); no run checks this.
KillsAreRolledBack ==
  [][Crash => \A s \in DOMAIN os \ {"timer", "thp"} : os'[s] = "tuned" =>
                 \/ OnRecord(file, s)
                 \/ s = "power" /\ powercfg # {}]_vars

----------------------------------------------------------------------------
Next == \/ Start \/ Recover \/ Remove \/ Save \/ Reapply \/ Stop \/ Crash
        \/ \E s \in DOMAIN os : Apply(s) \/ Skip(s) \/ ApplyFails(s) \/ Changed(s)
        \/ \E v \in powercfg : Powercfg(v)

Spec == Init /\ [][Next]_vars
=============================================================================
