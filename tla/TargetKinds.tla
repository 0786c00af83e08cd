----------------------------- MODULE TargetKinds ----------------------------
(***************************************************************************)
(* What a process is taken for.  The user writes kind overrides to a file   *)
(* from the UI; the agent polls the file's time, reloads its table and      *)
(* forgets the classifications it cached; each tick it classifies its       *)
(* targets from the table, their names and what the foreground watcher and  *)
(* the list of loaded modules say.  Processes come, go and reuse pids.      *)
(***************************************************************************)
EXTENDS Naturals, Sequences, SequencesExt

CONSTANTS
  Pid, Exe,
  NameKind,    \* kind the lists of known names give an executable, or "none"
  Asked,       \* overrides the user may ask for: set of <<exe, kind>>
  MaxEntries,  \* entries of the classification cache
  DllMax,      \* kDllCacheMax
  MaxPidEntries, \* kMaxPidEntries of the foreground watcher
  MaxClock,    \* bound: grains of the file system's clock
  MaxStarts,   \* bound: processes started
  None

Kind == {"Unknown", "Game", "Browser", "System"}

Running == [exe: Exe, win: Nat, dll: BOOLEAN, full: BOOLEAN]
Verdict == [pid: Pid, exe: Exe, kind: Kind, stale: BOOLEAN]

KindsAssumption ==
  /\ NameKind \in [Exe -> Kind \cup {"none"}]
  /\ Asked \subseteq Exe \X Kind
  /\ None \notin Running
  /\ MaxEntries \in Nat \ {0} /\ DllMax \in Nat \ {0} /\ MaxPidEntries \in Nat \ {0}

VARIABLES
  file, mtime, clock,  \* overrides.txt: a set of pairs, and its last write
  ui, uiPc,            \* the panel's table, or None before its first load
  table, seen, apc,    \* the agent's table, the time it read, its step
  overlap,             \* history: the file was written while it was read
  proc,                \* the process of each pid: its name, modules, window
  front,               \* the pid in the foreground
  watch,               \* the foreground watcher
  cache,               \* entries of the classification cache
  dll,                 \* entries of the module cache
  probed, patterns,    \* the discovery's last probe, the names observed
  starts, reused       \* bound; history: pids recycled since the last clear

files    == <<file, mtime, clock, ui, uiPc>>
overs    == <<table, seen, apc, overlap>>
world    == <<proc, front, starts>>
verdicts == <<watch, cache, dll, probed, patterns, reused>>
vars     == <<files, overs, world, verdicts>>

TypeOK ==
  /\ file \subseteq Asked /\ table \subseteq Asked /\ (ui # None \/ uiPc = "open" => ui \subseteq Asked)
  /\ uiPc \in {"idle", "open"} /\ apc \in {"tick", "read", "stamp"}
  /\ proc \in [Pid -> Running \cup {None}] /\ starts \in Nat
  /\ cache \in Seq(Verdict)
  /\ Len(cache) <= MaxEntries /\ Len(dll) <= DllMax /\ Len(watch.ms) <= MaxPidEntries
  /\ patterns \subseteq Exe

Init ==
  /\ file = {} /\ mtime = 0 /\ clock = 1 /\ ui = None /\ uiPc = "idle"
  /\ table = {} /\ seen = 0 /\ apc = "tick" /\ overlap = FALSE
  /\ proc = [p \in Pid |-> None] /\ front = None /\ starts = 0
  /\ watch = [hwnd |-> None, pid |-> None, full |-> FALSE, ms |-> <<>>]
  /\ cache = <<>> /\ dll = <<>> /\ probed = None /\ patterns = {} /\ reused = {}

-----------------------------------------------------------------------------
(* overrides.txt: the panel's edits and the agent's polling.                *)

lookup(t, n) == {pair \in t : pair[1] = n}

set(t, n, k)  == (t \ lookup(t, n)) \cup {<<n, k>>}
remove(t, n)  == t \ lookup(t, n)

(* The panel loads the file once, when it is first drawn.                   *)
OpenPanel ==
  /\ ui = None /\ uiPc = "idle" /\ ui' = file
  /\ UNCHANGED <<file, mtime, clock, uiPc, overs, world, verdicts>>

(* A click changes the panel's table and truncates the file.                *)
Edit ==
  /\ ui # None /\ uiPc = "idle"
  /\ \E pair \in Asked : ui' \in {set(ui, pair[1], pair[2]), remove(ui, pair[1])}
  /\ uiPc' = "open" /\ file' = {} /\ mtime' = clock
  /\ overlap' = (overlap \/ apc # "tick")
  /\ UNCHANGED <<clock, table, seen, apc, world, verdicts>>

(* The text goes out when the file is closed.                               *)
save ==
  /\ uiPc = "open" /\ uiPc' = "idle" /\ file' = ui /\ mtime' = clock
  /\ overlap' = (overlap \/ apc # "tick" \/ seen = clock)
  /\ UNCHANGED <<clock, ui, table, seen, apc, world, verdicts>>

ClockAdvances ==
  /\ clock < MaxClock /\ clock' = clock + 1
  /\ UNCHANGED <<file, mtime, ui, uiPc, overs, world, verdicts>>

reload_if_changed ==
  /\ apc = "tick" /\ mtime # seen /\ apc' = "read"
  /\ UNCHANGED <<files, table, seen, overlap, world, verdicts>>

(* mutant: the table is not emptied before the file is read.                *)
loadMore ==
  /\ apc = "read" /\ apc' = "stamp" /\ table' = table \cup file
  /\ UNCHANGED <<files, seen, overlap, world, verdicts>>

load ==
  /\ apc = "read" /\ apc' = "stamp" /\ table' = file
  /\ UNCHANGED <<files, seen, overlap, world, verdicts>>

(* mutant: the agent keeps its classifications when the table changes.      *)
cache_mtimeOnly ==
  /\ apc = "stamp" /\ apc' = "tick" /\ seen' = mtime
  /\ overlap' = (overlap /\ uiPc = "open")
  /\ UNCHANGED <<files, table, world, verdicts>>

(* The time is taken after the text; the classifications are forgotten.     *)
cache_mtime ==
  /\ apc = "stamp" /\ apc' = "tick" /\ seen' = mtime
  /\ cache' = <<>> /\ reused' = {}
  /\ UNCHANGED <<files, table, overlap, world, watch, dll, probed, patterns>>

-----------------------------------------------------------------------------
(* Processes and their windows.                                             *)

StartProcess(p) ==
  /\ starts < MaxStarts /\ starts' = starts + 1 /\ proc[p] = None
  /\ \E n \in Exe : proc' = [proc EXCEPT ![p] = [exe |-> n, win |-> starts', dll |-> FALSE,
                                          full |-> FALSE]]
  /\ reused' = IF \E i \in DOMAIN cache : cache[i].pid = p THEN reused \cup {p} ELSE reused
  /\ UNCHANGED <<files, overs, front, watch, cache, dll, probed, patterns>>

ExitProcess(p) ==
  /\ proc[p] # None /\ proc' = [proc EXCEPT ![p] = None]
  /\ front' = IF front = p THEN None ELSE front
  /\ UNCHANGED <<files, overs, starts, verdicts>>

LoadsGraphics(p) ==
  /\ proc[p] # None /\ proc' = [proc EXCEPT ![p].dll = TRUE] /\ proc' # proc
  /\ UNCHANGED <<files, overs, front, starts, verdicts>>

GoesFullscreen(p) ==
  /\ proc[p] # None /\ proc' = [proc EXCEPT ![p].full = TRUE] /\ proc' # proc
  /\ UNCHANGED <<files, overs, front, starts, verdicts>>

AltTab(p) ==
  /\ p \in {None} \cup {q \in Pid : proc[q] # None} /\ front # p /\ front' = p
  /\ UNCHANGED <<files, overs, proc, starts, verdicts>>

-----------------------------------------------------------------------------
(* The tick.  Times in front are 0, 5 s and 60 s.                           *)

MsOf(p) == LET at == {i \in DOMAIN watch.ms : watch.ms[i].pid = p}
           IN IF at = {} THEN 0 ELSE watch.ms[CHOOSE i \in at : TRUE].t

(* The table of times is a list, the least recently seen first.             *)
Seen(p) ==
  LET rest == SelectSeq(watch.ms, LAMBDA e : e.pid # p)
      kept == IF Len(rest) = MaxPidEntries THEN Tail(rest) ELSE rest
      t    == IF \E i \in DOMAIN watch.ms : watch.ms[i].pid = p
              THEN IF MsOf(p) = 2 THEN 2 ELSE MsOf(p) + 1 ELSE 0
  IN  Append(kept, [pid |-> p, t |-> t])

(* on_tick: the window is looked at when it is not the one of the last tick.*)
on_tick ==
  /\ apc = "tick"
  /\ watch' = IF front = None THEN [watch EXCEPT !.hwnd = None, !.pid = None, !.full = FALSE]
              ELSE [hwnd |-> proc[front].win, pid |-> front, ms |-> Seen(front),
                    full |-> IF watch.hwnd = proc[front].win THEN watch.full ELSE proc[front].full]
  /\ UNCHANGED <<files, overs, world, cache, dll, probed, patterns, reused>>

(* check_d3d_vk_modules: the first answer for a pid is kept.                *)
HasModules(p) ==
  LET at == {i \in DOMAIN dll : dll[i].pid = p}
  IN  IF at = {} THEN proc[p].dll ELSE dll[CHOOSE i \in at : TRUE].has

ModulesSeen(p) ==
  LET e == [pid |-> p, has |-> HasModules(p)]
  IN  IF \E i \in DOMAIN dll : dll[i].pid = p THEN dll
      ELSE IF Len(dll) < DllMax THEN Append(dll, e) ELSE [dll EXCEPT ![1] = e]

(* Auto-discovery of the foreground process, when the last probe was of     *)
(* another one or is 30 s old.                                              *)
Discover ==
  /\ apc = "tick" /\ watch.pid # None /\ proc[watch.pid] # None
  /\ probed # watch.pid /\ watch.full /\ proc[watch.pid].exe \notin patterns
  /\ probed' = watch.pid /\ dll' = ModulesSeen(watch.pid)
  /\ patterns' = IF HasModules(watch.pid) /\ NameKind[proc[watch.pid].exe] # "System"
                 THEN patterns \cup {proc[watch.pid].exe} ELSE patterns
  /\ UNCHANGED <<files, overs, world, watch, cache, reused>>

ProbeIsOld ==
  /\ probed # None /\ probed' = None
  /\ UNCHANGED <<files, overs, world, watch, cache, dll, patterns, reused>>

(* classify: the override, the lists of names, then the evidence; busy says *)
(* that the process uses the processor the way a game does.                 *)
classify(p, busy) ==
  LET n == proc[p].exe
      t == IF watch.pid = p THEN MsOf(p) ELSE 0
  IN  IF lookup(table, n) # {} THEN (CHOOSE pair \in lookup(table, n) : TRUE)[2]
      ELSE IF NameKind[n] # "none" THEN NameKind[n]
      ELSE IF \/ watch.pid = p /\ watch.full /\ t >= 1 /\ (HasModules(p) \/ busy)
              \/ t = 2 /\ HasModules(p) /\ busy
           THEN "Game" ELSE "Unknown"

(* mutant: an old verdict is replaced by whatever the new one is.           *)
ReverifiedBlindly(e, k) == [e EXCEPT !.kind = k, !.stale = FALSE]

(* A known kind is not given up for Unknown.                                *)
Reverified(e, k) ==
  [e EXCEPT !.stale = FALSE,
            !.kind = IF @ \notin {"Unknown", "System"} /\ k = "Unknown" THEN @ ELSE k]

(* classify_cached, for one of the targets of a refresh tick.               *)
classify_cached(p) ==
  /\ apc = "tick" /\ proc[p] # None
  /\ \E busy \in BOOLEAN :
       LET k  == classify(p, busy)
           at == {i \in DOMAIN cache : cache[i].pid = p}
       IN  cache' = IF at = {}
                    THEN IF Len(cache) < MaxEntries
                         THEN Append(cache, [pid |-> p, exe |-> proc[p].exe, kind |-> k,
                                             stale |-> FALSE])
                         ELSE cache
                    ELSE [i \in DOMAIN cache |->
                            IF i \in at /\ cache[i].stale THEN Reverified(cache[i], k)
                            ELSE cache[i]]
  /\ dll' = ModulesSeen(p)
  /\ UNCHANGED <<files, overs, world, watch, probed, patterns, reused>>

(* The time to live of an entry ends.                                       *)
Expires ==
  /\ \E i \in DOMAIN cache : cache' = [cache EXCEPT ![i].stale = TRUE]
  /\ cache' # cache
  /\ UNCHANGED <<files, overs, world, watch, dll, probed, patterns, reused>>

Next ==
  \/ OpenPanel \/ Edit \/ save \/ ClockAdvances
  \/ reload_if_changed \/ load \/ cache_mtime
  \/ \E p \in Pid : \/ StartProcess(p) \/ ExitProcess(p) \/ LoadsGraphics(p)
                    \/ GoesFullscreen(p) \/ AltTab(p) \/ classify_cached(p)
  \/ AltTab(None) \/ on_tick \/ Discover \/ ProbeIsOld \/ Expires

Spec == Init /\ [][Next]_vars

-----------------------------------------------------------------------------
(* Unless the panel wrote while the agent read, an agent that sees no newer *)
(* time has the overrides of the file, and no others.                       *)
TableFollowsFile ==
  apc = "tick" /\ uiPc = "idle" /\ mtime = seen /\ ~overlap => table = file

(* An override is the kind of every process of its name as soon as the      *)
(* table has it: no verdict from before the reload is left.  (A recycled    *)
(* pid keeps the verdict on its predecessor until it expires.)              *)
OverrideWins ==
  apc = "tick" =>
    \A i \in DOMAIN cache :
      cache[i].pid \notin reused /\ lookup(table, cache[i].exe) # {} =>
        <<cache[i].exe, cache[i].kind>> \in table

(* A process once known for what it is does not become Unknown because the  *)
(* user looks elsewhere when it is verified again.                          *)
KnownStaysKnown ==
  [][\A i \in DOMAIN cache :
       cache[i].kind \notin {"Unknown", "System"} /\ cache' # <<>> =>
         cache'[i].kind # "Unknown"]_vars
=============================================================================
