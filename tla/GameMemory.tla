----------------------------- MODULE GameMemory -----------------------------
(***************************************************************************)
(* What the agent knows of a game by its executable, and how it comes to    *)
(* know it: PerGameMemory (memory.toml), the label of the anti-cheat probe  *)
(* (AcProbe), the shortcut from memory to a placement (AutoPolicySelector)  *)
(* and AutoRevertGuard, which takes a placement back and blacklists its     *)
(* executable when frame times get worse.                                   *)
(*                                                                          *)
(* Every entry is for this machine's hardware_id: find() looks at no other. *)
(* A monitor entry keeps what is left of its window and the ticks since its *)
(* last check in place of two TSC values, so that time needs no bound.      *)
(***************************************************************************)
EXTENDS Naturals, Sequences, SequencesExt

CONSTANTS
  Exe,          \* executables
  Pid,          \* process ids; a pid is used again when its process is gone
  None,         \* no process, no file
  Refused,      \* executables the oracle says not to probe
  FirstFile,    \* the memory.toml the user may start with
  MaxEntries,   \* kMaxEntries
  MaxBad,       \* kMaxBadEntries
  MaxMonitored, \* kMaxMonitored
  Window,       \* kMonitorSeconds, in ticks
  CheckEvery,   \* kCheckSeconds, in ticks
  MaxStarts,    \* bound: processes that are started
  MaxLives,     \* bound: runs of the agent
  Faults        \* subset of {"crash", "io", "cli"}

Entry == [exe : Exe, best : BOOLEAN, locked : BOOLEAN,
          label : {"unknown", "allowed", "blocked"}]

(* At most one entry of a table is for an executable.                        *)
OneEach(t) == \A i, j \in DOMAIN t : t[i].exe = t[j].exe => i = j

(* What a memory.toml can hold; "whole" when save() wrote it to its end, which *)
(* nobody who reads it can tell.                                             *)
File == {f \in [learned : Seq(Entry), bad : Seq(Exe), whole : BOOLEAN] :
           /\ Len(f.learned) <= MaxEntries /\ OneEach(f.learned)
           /\ Len(f.bad) <= MaxBad}
Whole(f) == f # None /\ f.whole

GameMemoryAssumption ==
  /\ MaxEntries \in Nat \ {0} /\ MaxBad \in Nat \ {0} /\ MaxMonitored \in Nat \ {0}
  /\ Window \in Nat \ {0} /\ CheckEvery \in Nat \ {0}
  /\ MaxStarts \in Nat /\ MaxLives \in Nat
  /\ Refused \subseteq Exe /\ None \notin Exe
  /\ FirstFile \subseteq {f \in File : f.whole} /\ None \notin File

VARIABLES
  file, bak, tmp, \* memory.toml, memory.toml.bak and memory.toml.tmp
  cut,            \* history: failures since memory.toml was last whole
  learned, bad,   \* entries_ and bad_
  agent,          \* where the agent is
  todo,           \* the targets the phase of the tick has not come to
  proc,           \* the executable of each process
  rough,          \* the frame-time variance of each process is high
  row,            \* processes with a row in the executor's table
  monitors,       \* AutoRevertGuard::entries_
  starts, lives,  \* bounds
  probed,         \* history: times an executable was opened by the probe in this run
  before,         \* history: executables that were opened in earlier runs
  hurt,           \* history: executables the guard reverted in this run
  calm            \* history: processes that ran well when they got their row

disk == <<file, bak, tmp, cut>>
memory == <<learned, bad>>
procs == <<proc, rough, starts>>
history == <<before, hurt, calm>>
vars == <<disk, memory, agent, todo, procs, row, monitors, lives, probed, history>>

NewEntry(e, label) == [exe |-> e, best |-> FALSE, locked |-> FALSE, label |-> label]

(* PerGameMemory::find, in a table that has at most one entry for it.        *)
IndexIn(t, e) ==
  IF \E i \in DOMAIN t : t[i].exe = e THEN CHOOSE i \in DOMAIN t : t[i].exe = e ELSE 0
Index(e) == IndexIn(learned, e)
Label(e) == IF Index(e) = 0 THEN "unknown" ELSE learned[Index(e)].label
InMemory(e) == Index(e) # 0 /\ learned[Index(e)].best
IsBad(e) == e \in ToSet(bad)

(* PerGameMemory::upsert: replace, append, or drop when the table is full. *)
Upsert(t, x) ==
  LET i == IndexIn(t, x.exe)
  IN  IF i # 0 THEN [t EXCEPT ![i] = x]
      ELSE IF Len(t) < MaxEntries THEN Append(t, x) ELSE t

(* PerGameMemory::mark_bad. *)
MarkBad(e) == IF IsBad(e) \/ Len(bad) >= MaxBad THEN bad ELSE Append(bad, e)

(* PerGameMemory::load.  The scan for [[learned]] knows no other header: the *)
(* lines of a [[bad]] section that follows are read into the entry that is  *)
(* still open, the last one, and each "exe" replaces its executable.         *)
ReadLearned(f) ==
  LET open == Last(f.learned)
  IN  IF f.learned = <<>> THEN <<>>
      ELSE Upsert(Front(f.learned),
                  IF f.bad = <<>> THEN open ELSE [open EXCEPT !.exe = Last(f.bad)])

(* load_bad_list. *)
ReadBad(f) == IF Len(f.bad) <= MaxBad THEN f.bad ELSE SubSeq(f.bad, 1, MaxBad)

(* PerGameMemory::expire_stale_entries: of the entries with a date, those of *)
(* "old" are past it.                                                        *)
Expire(t, old) ==
  [i \in DOMAIN t |-> IF t[i].locked \/ (t[i].best /\ i \notin old)
                      THEN t[i] ELSE [t[i] EXCEPT !.best = FALSE]]

Saving == {"save", "write", "delete", "backup", "replace", "restore"}

Init ==
  /\ file \in FirstFile /\ bak = None /\ tmp = None /\ cut = 0
  /\ learned = <<>> /\ bad = <<>>
  /\ agent = "off" /\ todo = {} /\ monitors = <<>> /\ row = {}
  /\ proc = [p \in Pid |-> None] /\ rough = [p \in Pid |-> FALSE]
  /\ starts = 0 /\ lives = 0
  /\ probed = [e \in Exe |-> 0] /\ before = {} /\ hurt = {} /\ calm = {}

MonitorEntry == [pid : Pid, exe : Exe, base : BOOLEAN, left : 0..Window,
                 since : 0..CheckEvery, active : BOOLEAN]

TypeOK ==
  /\ file \in File \cup {None} /\ bak \in File \cup {None} /\ tmp \in File \cup {None}
  /\ cut \in 0..2
  /\ learned \in Seq(Entry) /\ Len(learned) <= MaxEntries /\ OneEach(learned)
  /\ bad \in Seq(Exe) /\ Len(bad) <= MaxBad
  /\ agent \in {"off", "idle", "guard", "decide"} \cup Saving
  /\ todo \subseteq Pid /\ row \subseteq Pid
  /\ proc \in [Pid -> Exe \cup {None}] /\ rough \in [Pid -> BOOLEAN]
  /\ monitors \in Seq(MonitorEntry) /\ Len(monitors) <= MaxMonitored
  /\ starts \in 0..MaxStarts /\ lives \in 0..MaxLives
  /\ probed \in [Exe -> 0..2] /\ before \subseteq Exe /\ hurt \subseteq Exe /\ calm \subseteq Pid

-----------------------------------------------------------------------------
(* The processes. *)

Launch(p, e) ==
  /\ proc[p] = None /\ starts < MaxStarts
  /\ proc' = [proc EXCEPT ![p] = e]
  /\ rough' = [rough EXCEPT ![p] = FALSE]
  /\ starts' = starts + 1
  /\ UNCHANGED <<disk, memory, agent, todo, row, monitors, lives, probed, history>>

Exit(p) ==
  /\ proc[p] # None
  /\ proc' = [proc EXCEPT ![p] = None]
  /\ UNCHANGED <<disk, memory, agent, todo, rough, starts, row, monitors, lives, probed, history>>

FrameTimes(p) ==
  /\ proc[p] # None
  /\ rough' = [rough EXCEPT ![p] = ~@]
  /\ UNCHANGED <<disk, memory, agent, todo, proc, starts, row, monitors, lives, probed, history>>

-----------------------------------------------------------------------------
(* The life of the agent. *)

(* AgentRuntime::start: load, then expire what is older than 30 days. *)
Start(old) ==
  /\ agent = "off" /\ lives < MaxLives
  /\ learned' = IF file = None THEN <<>> ELSE Expire(ReadLearned(file), old)
  /\ bad' = IF file = None THEN <<>> ELSE ReadBad(file)
  /\ agent' = "idle" /\ lives' = lives + 1
  /\ monitors' = <<>> /\ hurt' = {}
  /\ probed' = [e \in Exe |-> 0]
  /\ before' = before \cup {e \in Exe : probed[e] > 0}
  /\ UNCHANGED <<disk, todo, procs, row, calm>>

(* The clean end of run(): revert_all, then save. *)
Stop ==
  /\ agent = "idle"
  /\ row' = {}
  /\ agent' = "save"
  /\ UNCHANGED <<disk, memory, todo, procs, monitors, lives, probed, history>>

Another == IF cut < 2 THEN cut + 1 ELSE cut

(* The failures there are when a save ends with f for memory.toml: a file cut  *)
(* short has been counted when it was written.                               *)
CutOnce(f) == IF Whole(f) THEN 0 ELSE IF Whole(tmp) THEN Another ELSE cut

Crash ==
  /\ "crash" \in Faults /\ agent # "off"
  /\ agent' = "off" /\ todo' = {} /\ row' = {}
  /\ learned' = <<>> /\ bad' = <<>>
  /\ cut' = IF agent \in Saving \ {"save", "write"} THEN CutOnce(file) ELSE cut
  /\ UNCHANGED <<file, bak, tmp, procs, monitors, lives, probed, history>>

Image == [learned |-> learned, bad |-> bad, whole |-> TRUE]

(* Nothing looks at what fprintf, fflush and fclose return: a full disk cuts *)
(* the file short, here behind one of its entries.                           *)
Short == {[learned |-> SubSeq(learned, 1, i), bad |-> SubSeq(bad, 1, j), whole |-> FALSE] :
            i \in 0..Len(learned), j \in 0..Len(bad)}
Torn == {f \in Short : /\ f.bad = <<>> \/ f.learned = learned
                       /\ f.bad # bad \/ f.learned # learned}

(* PerGameMemory::save, step 1: truncate memory.toml.tmp and write it.       *)
SaveOpen ==
  /\ agent = "save"
  /\ tmp' = [learned |-> <<>>, bad |-> <<>>, whole |-> FALSE] /\ agent' = "write"
  /\ UNCHANGED <<file, bak, cut, memory, todo, procs, row, monitors, lives, probed, history>>

SaveRefused ==
  /\ "io" \in Faults /\ agent = "save"
  /\ agent' = "off"
  /\ learned' = <<>> /\ bad' = <<>>
  /\ UNCHANGED <<disk, todo, procs, row, monitors, lives, probed, history>>

SaveWrite ==
  /\ agent = "write" /\ agent' = "delete"
  /\ \/ tmp' = Image /\ UNCHANGED cut
     \/ "io" \in Faults /\ tmp' \in Torn /\ cut' = Another
  /\ UNCHANGED <<file, bak, memory, todo, procs, row, monitors, lives, probed, history>>

(* Step 2: delete the old backup, whether that works or not ...              *)
DeleteBackup(ok) ==
  /\ agent = "delete" /\ agent' = "backup"
  /\ ok \/ "io" \in Faults
  /\ bak' = IF ok THEN None ELSE bak
  /\ UNCHANGED <<file, tmp, cut, memory, todo, procs, row, monitors, lives, probed, history>>

(* mutant: the old file is deleted instead of kept.                         *)
SaveBackupDropped(ok) ==
  /\ agent = "backup" /\ agent' = "replace"
  /\ ok /\ file' = None
  /\ UNCHANGED <<bak, tmp, cut, memory, todo, procs, row, monitors, lives, probed, history>>

(* ... make the current file the backup, which a file in the way prevents ... *)
SaveBackup(ok) ==
  /\ agent = "backup" /\ agent' = "replace"
  /\ IF ok THEN /\ file # None /\ bak = None
                /\ bak' = file /\ file' = None /\ UNCHANGED cut
     ELSE /\ file = None \/ "io" \in Faults
          /\ cut' = (IF file = None THEN cut ELSE Another) /\ UNCHANGED <<file, bak>>
  /\ UNCHANGED <<tmp, memory, todo, procs, row, monitors, lives, probed, history>>

Over == agent' = "off" /\ learned' = <<>> /\ bad' = <<>> /\ cut' = CutOnce(file')

(* ... and the new one the current file, in place of one that is still there; *)
(* if that is refused, the backup is to go back, where no file is.           *)
SaveReplace(ok) ==
  /\ agent = "replace"
  /\ IF ok THEN file' = tmp /\ tmp' = None /\ Over
     ELSE "io" \in Faults /\ agent' = "restore" /\ UNCHANGED <<file, tmp, cut, memory>>
  /\ UNCHANGED <<bak, todo, procs, row, monitors, lives, probed, history>>

Restore(ok) ==
  /\ agent = "restore"
  /\ IF ok THEN bak # None /\ file = None /\ file' = bak /\ bak' = None
     ELSE UNCHANGED <<file, bak>>
  /\ Over
  /\ UNCHANGED <<tmp, todo, procs, row, monitors, lives, probed, history>>

(* "phynned-cli memory clear-bad", in a process of its own: load, forget the *)
(* blacklist, save.  Not at the moment the agent saves.                      *)
ClearBad ==
  /\ "cli" \in Faults
  /\ agent \notin Saving
  /\ file' = [learned |-> IF file = None THEN <<>> ELSE ReadLearned(file), bad |-> <<>>,
               whole |-> TRUE]
  /\ bak' = file /\ tmp' = None /\ cut' = 0
  /\ UNCHANGED <<memory, agent, todo, procs, row, monitors, lives, probed, history>>

-----------------------------------------------------------------------------
(* A tick: the guard for every target, then the decisions. *)

Live == {p \in Pid : proc[p] # None}

Aged(m) == [m EXCEPT !.left = IF @ = 0 THEN 0 ELSE @ - 1,
                     !.since = IF @ = CheckEvery THEN @ ELSE @ + 1]

(* Time has passed, the targets are read, and rows whose process is gone are *)
(* pruned.                                                                   *)
BeginTick ==
  /\ agent = "idle"
  /\ agent' = "guard" /\ todo' = Live
  /\ row' = row \cap Live
  /\ monitors' = [i \in DOMAIN monitors |-> Aged(monitors[i])]
  /\ UNCHANGED <<disk, memory, procs, lives, probed, history>>

BeginDecide ==
  /\ agent = "guard" /\ todo = {}
  /\ agent' = "decide" /\ todo' = Live
  /\ UNCHANGED <<disk, memory, procs, row, monitors, lives, probed, history>>

EndTick ==
  /\ agent = "decide" /\ todo = {}
  /\ agent' = "idle"
  /\ UNCHANGED <<disk, memory, todo, procs, row, monitors, lives, probed, history>>

Monitor(p) ==
  IF \E i \in DOMAIN monitors : monitors[i].pid = p
  THEN CHOOSE i \in DOMAIN monitors : monitors[i].pid = p ELSE 0

(* AutoRevertGuard::on_tick. *)
Worse(p) == rough[p] /\ ~monitors[Monitor(p)].base
Watched == {m.pid : m \in {x \in ToSet(monitors) : x.active}}

GuardSkips(p) ==
  /\ agent = "guard" /\ p \in todo
  /\ \/ p \notin Watched
     \/ p \in Watched /\ monitors[Monitor(p)].left > 0 /\ monitors[Monitor(p)].since < CheckEvery
  /\ todo' = todo \ {p}
  /\ UNCHANGED <<disk, memory, agent, procs, row, monitors, lives, probed, history>>

GuardEnds(p) ==
  /\ agent = "guard" /\ p \in todo /\ p \in Watched
  /\ monitors[Monitor(p)].left = 0
  /\ monitors' = [monitors EXCEPT ![Monitor(p)].active = FALSE]
  /\ todo' = todo \ {p}
  /\ UNCHANGED <<disk, memory, agent, procs, row, lives, probed, history>>

GuardChecks(p) ==
  LET m == monitors[Monitor(p)] IN
  /\ agent = "guard" /\ p \in todo /\ p \in Watched
  /\ m.left > 0 /\ m.since = CheckEvery
  /\ row' = IF Worse(p) THEN row \ {p} ELSE row
  /\ bad' = IF Worse(p) THEN MarkBad(m.exe) ELSE bad
  /\ hurt' = IF Worse(p) THEN hurt \cup {m.exe} ELSE hurt
  /\ monitors' = [monitors EXCEPT ![Monitor(p)].since = 0,
                                  ![Monitor(p)].active = ~Worse(p)]
  /\ todo' = todo \ {p}
  /\ UNCHANGED <<disk, learned, agent, procs, lives, probed, before, calm>>

(* AutoRevertGuard::on_policy_applied: find the entry of the pid or make one. *)
Watch(p) ==
  LET m == [pid |-> p, exe |-> proc[p], base |-> rough[p], left |-> Window,
            since |-> 0, active |-> TRUE]
  IN  IF Monitor(p) # 0 THEN [monitors EXCEPT ![Monitor(p)] = m]
      ELSE IF Len(monitors) < MaxMonitored THEN Append(monitors, m)
      ELSE monitors

(* ActionExecutor::apply and what follows its success.  A pid that has a row *)
(* is a success that changes nothing.                                        *)
Placed(p) ==
  /\ row' = row \cup {p}
  /\ monitors' = Watch(p)
  /\ calm' = IF p \in row THEN calm ELSE IF rough[p] THEN calm \ {p} ELSE calm \cup {p}

(* No rule matches and memory knows no mask, or the target is skipped. *)
Skipped(e) == IsBad(e) \/ e \in Refused \/ Label(e) = "blocked"

NoDecision(p) ==
  /\ agent = "decide" /\ p \in todo
  /\ proc[p] = None \/ ~InMemory(proc[p]) \/ Skipped(proc[p])
  /\ todo' = todo \ {p}
  /\ UNCHANGED <<disk, memory, agent, procs, row, monitors, lives, probed, history>>

(* A decision for p, from its memory entry or from a rule that matches.  A   *)
(* label skips the probe; a blocked one also skips the placement.            *)
DecideLabelled(p) ==
  /\ agent = "decide" /\ p \in todo
  /\ proc[p] # None /\ ~IsBad(proc[p])
  /\ Label(proc[p]) = "allowed"
  /\ Placed(p)
  /\ todo' = todo \ {p}
  /\ UNCHANGED <<disk, memory, agent, procs, lives, probed, before, hurt>>

(* AcProbe::probe_and_label opens the process, and sets its affinity to what *)
(* it is; set_label stamps the entry, or makes one.                          *)
SetLabelIfKnown(e, label) ==
  IF Index(e) # 0 THEN [learned EXCEPT ![Index(e)].label = label] ELSE learned
SetLabel(e, label) ==
  IF Index(e) # 0 THEN [learned EXCEPT ![Index(e)].label = label]
  ELSE Upsert(learned, NewEntry(e, label))

Probe(p, label) ==
  /\ agent = "decide" /\ p \in todo
  /\ proc[p] # None /\ ~IsBad(proc[p])
  /\ Label(proc[p]) = "unknown" /\ proc[p] \notin Refused
  /\ learned' = SetLabel(proc[p], label)
  /\ probed' = [probed EXCEPT ![proc[p]] = IF @ = 2 THEN 2 ELSE @ + 1]
  /\ IF label = "allowed" THEN Placed(p) ELSE UNCHANGED <<row, monitors, calm>>
  /\ todo' = todo \ {p}
  /\ UNCHANGED <<disk, bad, agent, procs, lives, before, hurt>>

Tick == BeginTick \/ BeginDecide \/ EndTick
         \/ \E p \in Pid : \/ GuardSkips(p) \/ GuardEnds(p) \/ GuardChecks(p)
                           \/ NoDecision(p) \/ DecideLabelled(p)
                           \/ \E label \in {"allowed", "blocked"} : Probe(p, label)

Save == \/ SaveOpen \/ SaveRefused \/ SaveWrite
        \/ \E ok \in BOOLEAN : DeleteBackup(ok) \/ SaveBackup(ok) \/ SaveReplace(ok) \/ Restore(ok)

Next ==
  \/ Tick \/ Save \/ Stop \/ Crash \/ ClearBad
  \/ \E old \in SUBSET (1..MaxEntries) : Start(old)
  \/ \E p \in Pid : Exit(p) \/ FrameTimes(p) \/ \E e \in Exe : Launch(p, e)

Spec == Init /\ [][Next]_vars
FairSpec == Spec /\ WF_vars(Tick)

-----------------------------------------------------------------------------
(* One failure at any step of the saves leaves one whole copy: the file, its   *)
(* backup or the finished new one.  Failures are a crash between the renames,  *)
(* a file cut short and a refused rename; a second one is outside of this     *)
(* until memory.toml is whole again, for load() misses the copy there is and   *)
(* the next save writes over it.                                             *)
DiskKeepsACopy == cut < 2 => \E f \in {file, bak, tmp} : Whole(f)

(* An executable is opened by the probe once in a run of the agent, however  *)
(* many of its processes come and go, unless the table has no entry left to  *)
(* keep the label in.                                                        *)
ProbedOncePerRun ==
  [][\A e \in Exe : probed[e] = 1 /\ probed'[e] = 2 => Len(learned) = MaxEntries]_vars

(* An executable the guard has reverted gets no row again in this run,       *)
(* whatever process of it starts, unless the blacklist was full.             *)
RegressedStaysOff ==
  [][\A p \in Pid : p \in row' \ row /\ proc[p] \in hurt => Len(bad) = MaxBad]_vars

Regressing(p) ==
  /\ agent # "off"
  /\ p \in row /\ p \in Watched /\ rough[p]

(* AutoRevertGuard.hpp: a placement that makes a process run worse than it   *)
(* did when the policy was applied is reverted while it is monitored.        *)
RegressionIsReverted ==
  \A p \in Pid : (Regressing(p) /\ p \in calm) ~> ~(Regressing(p) /\ p \in calm)

(* AcProbe.hpp: one probe per identity, ever. *)
ProbedOnceEver ==
  \A e \in Exe : probed[e] > 0 => e \notin before /\ probed[e] = 1

=============================================================================
