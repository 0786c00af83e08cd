--------------------------- MODULE PlacementTick ---------------------------
(***************************************************************************)
(* The tick of the agent (AgentRuntime::run, src/core/src/AgentRuntime.cpp) *)
(* as far as it decides where processes run: the command of the UI, the     *)
(* observation of the targets, and the three passes that place them, the    *)
(* user's pins, the background corral and the automatic policies, all of    *)
(* which write through one executor.                                        *)
(*                                                                          *)
(* A tick is five steps taken in order by one thread; processes start, exit *)
(* and are repinned by others between any two of them.  The executor is a   *)
(* table of rows here, apply() and the reverts one step each: ActionExecutor*)
(* models what happens inside them.                                         *)
(*                                                                          *)
(* A process stands for one executable with a pid of its own, never reused. *)
(* The machine is a dual-CCD X3D: masks are the whole system, the V-Cache   *)
(* CCD and the frequency CCD.  Neither the 64-row tables, nor the 16        *)
(* decisions and 8 evictions of a cycle, nor the 24 user rules fill up, and *)
(* a Set* that is refused once is refused always (Denied), which leaves the *)
(* corral's backoff nothing to do.                                          *)
(***************************************************************************)
EXTENDS Integers, FiniteSets

CONSTANTS
  Proc,          \* the processes
  Eligible,      \* those whose name matches a placement pattern
  Games, Streams, \* what the classifier makes of them, given evidence
  Protected,     \* on the denylists of the corral and of the load defense
  Denied,        \* whose Set* is refused
  Bad,           \* on the bad list of the per-game memory
  Remembered,    \* with a validated mask (the V-Cache one) in that memory
  Load,          \* loads a sample may show
  Verdict,       \* outcomes a first anti-cheat probe may have
  Commands,      \* command kinds the UI sends
  RuleAction,    \* actions a rule it sends may have
  ForeignMask,   \* masks others give a process
  Env,           \* what the environment does: "exit", "repin", "ac",
                 \* "optimizer", "override"
  StartProfile, StartPaused, StartLive,  \* what the configuration may hold
  MaxLaunch,     \* bound: processes that start
  RefreshEvery,  \* kProcessRefreshInterval (5)
  AcEvery,       \* kAcScanInterval (3)
  CoexistEvery,  \* kCoexistScanInterval (8)
  Cycle          \* bound: ticks are counted modulo a common multiple

Kind    == {"game", "stream", "other"}     \* Comm is treated as Stream
Mask    == {"full", "vcache", "freq"}
Profile == {"monitor", "games", "corral"}  \* Full behaves as GamesCorral
CommandKind == {"pause", "resume", "reset", "diff", "live", "rule", "unrule", "profile"}

ASSUME TickAssumption ==
  /\ Eligible \subseteq Proc /\ Protected \subseteq Proc /\ Denied \subseteq Proc
  /\ Bad \subseteq Proc /\ Remembered \subseteq Eligible
  /\ Games \subseteq Proc /\ Streams \subseteq Proc /\ Games \cap Streams = {}
  /\ Load \subseteq {"idle", "busy", "cached"}
  /\ Verdict \subseteq {"allowed", "blocked", "refused"}
  /\ Commands \subseteq CommandKind
  /\ RuleAction \subseteq {"never", "freq", "vcache"} /\ ForeignMask \subseteq Mask
  /\ Env \subseteq {"exit", "repin", "ac", "optimizer", "override"}
  /\ StartProfile \subseteq Profile
  /\ StartPaused \subseteq BOOLEAN /\ StartLive \subseteq BOOLEAN
  /\ MaxLaunch \in Nat
  /\ {RefreshEvery, AcEvery, CoexistEvery, Cycle} \subseteq Nat \ {0}
  /\ Cycle % RefreshEvery = 0 /\ Cycle % AcEvery = 0 /\ Cycle % CoexistEvery = 0

(* What classify() says of a process once it has the evidence. *)
TrueKind(p) == CASE p \in Games   -> "game"
                 [] p \in Streams -> "stream"
                 [] OTHER         -> "other"

VARIABLES
  up,        \* running processes
  gone,      \* processes that exited
  mask,      \* the affinity of each
  acRunning, \* a kernel anti-cheat title runs somewhere on the machine
  phase,     \* the step the tick takes next
  tick,      \* number of the tick, modulo Cycle
  paused,    \* policies_paused
  profile,   \* agent_cfg.profile
  live,      \* corral_live
  diff,      \* the policy engine's differential pin mode
  rule,      \* agent_cfg.process_rules
  tracked,   \* target_buf
  cache,     \* class_cache: the kind it holds, or "absent"
  kind,      \* the kind target_buf shows
  sample,    \* the collector's load and affinity of each target
  acQuiet,   \* ac_quiet
  coexist,   \* coexist_full_scan_result
  row,       \* the executor's active_, by process, or NoRow
  thread,    \* processes with a differential pin in active_threads_
  label      \* the per-game memory's anti-cheat label

osVars   == <<up, gone, mask, acRunning>>
confVars == <<paused, profile, live, diff, rule>>
seeVars  == <<tracked, cache, kind, sample, acQuiet, coexist>>
execVars == <<row, thread, label>>
vars     == <<osVars, phase, tick, confVars, seeVars, execVars>>

NoRow == [rule |-> "none"]
Row   == [rule : {"game", "evict", "memory", "corral", "user"}, prev : Mask, new : Mask]

Unseen == [load |-> "new", seen |-> "none"]

TypeOK ==
  /\ up \subseteq Proc /\ gone \subseteq Proc
  /\ mask \in [Proc -> Mask]
  /\ {acRunning, paused, live, diff, acQuiet, coexist} \subseteq BOOLEAN
  /\ phase \in {"command", "observe", "user", "corral", "policy"}
  /\ tick \in 0..(Cycle - 1)
  /\ profile \in Profile
  /\ rule \in [Proc -> {"none", "never", "freq", "vcache"}]
  /\ tracked \subseteq Proc
  /\ cache \in [Proc -> Kind \cup {"unknown", "absent"}]
  /\ kind \in [Proc -> Kind \cup {"unknown"}]
  /\ sample \in [Proc -> [load : {"new", "idle"} \cup Load, seen : Mask \cup {"none"}]]
  /\ row \in [Proc -> Row \cup {NoRow}]
  /\ thread \subseteq Proc
  /\ label \in [Proc -> {"none", "allowed", "blocked"}]

Init ==
  /\ up = {} /\ gone = {}
  /\ mask = [p \in Proc |-> "full"]
  /\ acRunning \in {FALSE, "ac" \in Env}
  /\ phase = "command" /\ tick = 0
  /\ paused \in StartPaused /\ profile \in StartProfile /\ live \in StartLive
  /\ diff = FALSE
  /\ rule = [p \in Proc |-> "none"]
  /\ tracked = {}
  /\ cache = [p \in Proc |-> "absent"]
  /\ kind = [p \in Proc |-> "unknown"]
  /\ sample = [p \in Proc |-> Unseen]
  /\ acQuiet = FALSE /\ coexist = FALSE
  /\ row = [p \in Proc |-> NoRow]
  /\ thread = {}
  /\ label = [p \in Proc |-> "none"]

-----------------------------------------------------------------------------
(* The machine.                                                             *)

Launch(p) ==
  /\ p \notin up \cup gone
  /\ Cardinality(up \cup gone) < MaxLaunch
  /\ up' = up \cup {p}
  /\ UNCHANGED <<gone, mask, acRunning, phase, tick, confVars, seeVars, execVars>>

Exit(p) ==
  /\ "exit" \in Env
  /\ p \in up
  /\ up' = up \ {p}
  /\ gone' = gone \cup {p}
  /\ mask' = [mask EXCEPT ![p] = "full"]
  /\ UNCHANGED <<acRunning, phase, tick, confVars, seeVars, execVars>>

(* Another affinity manager, or the process itself, changes the mask. *)
Repin(p, m) ==
  /\ "repin" \in Env
  /\ p \in up
  /\ mask' = [mask EXCEPT ![p] = m]
  /\ UNCHANGED <<up, gone, acRunning, phase, tick, confVars, seeVars, execVars>>

AcToggle ==
  /\ "ac" \in Env
  /\ acRunning' = ~acRunning
  /\ UNCHANGED <<up, gone, mask, phase, tick, confVars, seeVars, execVars>>

-----------------------------------------------------------------------------
(* The executor.                                                            *)

(* apply() of target[p] to every p of S under rule r[p]: a process that has *)
(* a row already is left as it is, and the call succeeds.                   *)
Apply(S, target, r) ==
  LET done == {p \in S : row[p] = NoRow /\ p \in up \ Denied}
  IN  /\ mask' = [p \in Proc |-> IF p \in done THEN target[p] ELSE mask[p]]
      /\ row'  = [p \in Proc |-> IF p \in done
                                 THEN [rule |-> r[p], prev |-> mask[p], new |-> target[p]]
                                 ELSE row[p]]

(* The same, with apply_differential_pin for the processes of D: the whole  *)
(* process is set free and its hot thread pinned.                           *)
ApplyWithDifferential(S, D, target, r) ==
  LET done == {p \in S : row[p] = NoRow /\ p \in up \ Denied}
      free == {p \in D : p \notin thread /\ p \in up \ Denied}
  IN  /\ mask' = [p \in Proc |-> IF p \in done THEN target[p]
                                 ELSE IF p \in free THEN "full" ELSE mask[p]]
      /\ row'  = [p \in Proc |-> IF p \in done
                                 THEN [rule |-> r[p], prev |-> mask[p], new |-> target[p]]
                                 ELSE row[p]]
      /\ thread' = thread \cup free

(* Mutant: the rows go, the masks stay. *)
RevertRowsTableOnly(S) ==
  /\ row' = [p \in Proc |-> IF p \in S THEN NoRow ELSE row[p]]
  /\ UNCHANGED mask

(* revert_by_rule_id, for the rows whose process is in S. *)
RevertRows(S) ==
  /\ mask' = [p \in Proc |-> IF p \in S /\ p \in up THEN row[p].prev ELSE mask[p]]
  /\ row'  = [p \in Proc |-> IF p \in S THEN NoRow ELSE row[p]]

RowsOf(R) == {p \in Proc : row[p].rule \in R}

(* revert_all: the differential pins first, then every row. *)
RevertAll ==
  /\ mask' = [p \in Proc |-> IF p \notin up THEN mask[p]
                             ELSE IF row[p] # NoRow THEN row[p].prev
                             ELSE IF p \in thread THEN "full" ELSE mask[p]]
  /\ row' = [p \in Proc |-> NoRow]
  /\ thread' = {}

RevertNone == UNCHANGED <<mask, row, thread>>

(* active_applied_mask *)
OurMask(p) == IF row[p] # NoRow THEN row[p].new
              ELSE IF p \in thread THEN "full" ELSE "none"

-----------------------------------------------------------------------------
(* The command slot.                                                        *)

Handle(c) ==
  /\ phase = "command"
  /\ c \in Commands
  /\ phase' = "observe"
  /\ UNCHANGED <<up, gone, acRunning, tick, seeVars, label>>

NoCommand ==
  /\ phase = "command"
  /\ phase' = "observe"
  /\ UNCHANGED <<osVars, tick, confVars, seeVars, execVars>>

PausePolicies ==
  /\ Handle("pause")
  /\ RevertAll
  /\ paused' = TRUE
  /\ UNCHANGED <<profile, live, diff, rule>>

ResumePolicies ==
  /\ Handle("resume")
  /\ RevertNone
  /\ paused' = FALSE
  /\ UNCHANGED <<profile, live, diff, rule>>

(* ForceRevertAll also leaves the agent paused. *)
ForceRevertAll ==
  /\ Handle("reset")
  /\ RevertAll
  /\ paused' = TRUE
  /\ UNCHANGED <<profile, live, diff, rule>>

SetDifferentialPin(enable) ==
  /\ Handle("diff")
  /\ IF enable = diff THEN RevertNone ELSE RevertAll
  /\ diff' = enable
  /\ UNCHANGED <<paused, profile, live, rule>>

(* The corral rows go when the switch is turned off without "keep". *)
SetCorralLive(enable, keep) ==
  /\ Handle("live")
  /\ RevertRows(IF live /\ ~enable /\ ~keep THEN RowsOf({"corral"}) ELSE {})
  /\ live' = enable
  /\ UNCHANGED <<thread, paused, profile, diff, rule>>

(* The rule changes; a pin it caused, or one it now contradicts, stays. *)
SetProcessRule(p, action) ==
  /\ Handle("rule")
  /\ p \in up
  /\ RevertNone
  /\ rule' = [rule EXCEPT ![p] = action]
  /\ UNCHANGED <<paused, profile, live, diff>>

RemoveProcessRule(p) ==
  /\ Handle("unrule")
  /\ rule[p] # "none"
  /\ RevertRows(RowsOf({"user"}) \cap {p})
  /\ rule' = [rule EXCEPT ![p] = "none"]
  /\ UNCHANGED <<thread, paused, profile, live, diff>>

SetProfile(new) ==
  /\ Handle("profile")
  /\ RevertRows(IF new = "monitor" THEN RowsOf({"corral", "user"})
                ELSE IF profile = "corral" /\ new # "corral" THEN RowsOf({"corral"})
                ELSE {})
  /\ profile' = new
  /\ UNCHANGED <<thread, paused, live, diff, rule>>

Command ==
  \/ NoCommand \/ PausePolicies \/ ResumePolicies \/ ForceRevertAll
  \/ \E b \in BOOLEAN : SetDifferentialPin(b)
  \/ \E b, keep \in BOOLEAN : SetCorralLive(b, keep)
  \/ \E p \in Proc, a \in RuleAction : SetProcessRule(p, a)
  \/ \E p \in Proc : RemoveProcessRule(p)
  \/ \E f \in Profile : SetProfile(f)

PlacementAllowed == profile # "monitor"

(* Mutant: the user's pins are forgotten. *)
AcQuietRulesCorralOnly == {"corral"}

(* The rules whose rows are reverted when an anti-cheat title appears. *)
AcQuietRules == {"corral", "user"}

-----------------------------------------------------------------------------
(* Observation: the targets, the pruned rows, the anti-cheat scan, the      *)
(* samples and the kinds.                                                   *)

(* refresh(): a tracked process stays while it runs; another is admitted    *)
(* with the default affinity.                                               *)
Refreshed == IF tick % RefreshEvery = 0
             THEN {p \in up : p \in tracked \/ mask[p] = "full"}
             ELSE tracked

(* classify_cached, on the ticks that refreshed: "evident" has the processes*)
(* that are due and whose evidence the classifier sees now.  A kind once    *)
(* known is kept.                                                           *)
Classified(cached, p, evident) ==
  CASE cached[p] \in Kind -> cached[p]
    [] OTHER -> IF p \in evident THEN TrueKind(p) ELSE "unknown"

(* Mutant: the entry's own value, whether there is an entry or not. *)
KindOfRaw(c) == c

(* lookup_kind, on the other ticks. *)
KindOf(c) == IF c = "absent" THEN "unknown" ELSE c

(* sample(), on a tick that captures: the first capture of a process has no *)
(* load to show, and the affinity is read of active processes only, and not *)
(* in the quiet mode.                                                       *)
Captured(p, load, quiet, affinity) ==
  LET shown == IF sample[p].load = "new" THEN "idle" ELSE load
  IN  [load |-> shown,
       seen |-> IF quiet \/ shown = "idle" \/ p \notin up THEN "none" ELSE affinity[p]]

Observe(reload, capture, load, evident) ==
  LET targets == Refreshed
      scan    == tick % AcEvery = AcEvery - 1
      enter   == scan /\ acRunning /\ ~acQuiet
      cached  == IF reload THEN [p \in Proc |-> "absent"] ELSE cache
      quiet   == IF scan THEN acRunning ELSE acQuiet
      pruned  == {p \in Proc : row[p] # NoRow /\ p \notin targets}
      undone  == IF enter THEN RowsOf(AcQuietRules) \ pruned ELSE {}
  IN
  /\ phase = "observe"
  /\ phase' = "user"
  /\ reload => "override" \in Env
  /\ tracked' = targets
  /\ acQuiet' = quiet
  /\ row' = [p \in Proc |-> IF p \in pruned \cup undone THEN NoRow ELSE row[p]]
  /\ thread' = thread \cap targets
  /\ mask' = [p \in Proc |-> IF p \in undone \cap up THEN row[p].prev ELSE mask[p]]
  /\ sample' = [p \in Proc |->
                  IF p \notin targets THEN Unseen
                  ELSE IF ~capture THEN sample[p]
                  ELSE Captured(p, load[p], quiet, mask')]
  /\ cache' = IF tick % RefreshEvery = 0
              THEN [p \in Proc |-> IF p \in targets
                                   THEN Classified(cached, p, evident) ELSE cached[p]]
              ELSE cached
  /\ kind' = [p \in Proc |-> IF p \in targets THEN KindOf(cache'[p]) ELSE "unknown"]
  /\ UNCHANGED <<up, gone, acRunning, tick, confVars, coexist, label>>

-----------------------------------------------------------------------------
(* The anti-cheat gate of a placement: probe_and_label with outcome v[p] if *)
(* the process has no label yet.                                            *)

Outcome(p, v) == IF p \notin up /\ v[p] = "allowed" THEN "blocked" ELSE v[p]

(* Mutant: a refusal that left no label counts as a pass. *)
PassesRefused(p, v) == label[p] = "allowed" \/ (label[p] = "none" /\ Outcome(p, v) # "blocked")

Passes(p, v) == label[p] = "allowed" \/ (label[p] = "none" /\ Outcome(p, v) = "allowed")

Labelled(S, v) ==
  label' = [p \in Proc |-> IF p \in S /\ label[p] = "none" /\ Outcome(p, v) # "refused"
                           THEN Outcome(p, v) ELSE label[p]]

(* The user's "always" pins: not over a pin of another manager, through the *)
(* gate when the process is or may be a game.                               *)
UserWants(p) ==
  /\ p \in tracked
  /\ rule[p] \in {"freq", "vcache"}
  /\ OurMask(p) # rule[p]
  /\ OurMask(p) = "none" => sample[p].seen \in {"none", "full"}

UserPassOpen == PlacementAllowed /\ ~paused /\ ~acQuiet

UserPass(v) ==
  LET wants == IF UserPassOpen
               THEN {p \in tracked : UserWants(p)} ELSE {}
      gated == {p \in wants : kind[p] \in {"game", "unknown"}}
  IN
  /\ phase = "user"
  /\ phase' = "corral"
  /\ Labelled(gated, v)
  /\ Apply({p \in wants : p \in gated => Passes(p, v)}, rule, [p \in Proc |-> "user"])
  /\ UNCHANGED <<up, gone, acRunning, tick, confVars, seeVars, thread>>

(* The background corral: active non-game processes that nobody manages.    *)
WouldCorral(p) ==
  /\ p \in tracked
  /\ rule[p] = "none"
  /\ kind[p] # "game"
  /\ p \notin Eligible \cup Protected
  /\ sample[p] = [load |-> "busy", seen |-> "full"]

(* Mutant: any profile that may place. *)
CorralOpenGames == live /\ ~acQuiet /\ PlacementAllowed

CorralOpen == live /\ ~acQuiet /\ profile = "corral"

(* The pass, with what its scan finds of a conflicting affinity optimizer   *)
(* if this is a tick that scans.                                            *)
CorralPass(found) ==
  /\ phase = "corral"
  /\ phase' = "policy"
  /\ found => "optimizer" \in Env
  /\ coexist' = IF tick % CoexistEvery = 0 /\ ~acQuiet THEN found ELSE coexist
  /\ Apply(IF CorralOpen /\ ~coexist'
           THEN {p \in tracked : WouldCorral(p)} ELSE {},
           [p \in Proc |-> "freq"], [p \in Proc |-> "corral"])
  /\ UNCHANGED <<up, gone, acRunning, tick, confVars, tracked, cache,
                 kind, sample, acQuiet, thread, label>>

(* The automatic policies, for the eligible targets: the mask remembered    *)
(* for the executable if there is one; else the rules, over the targets     *)
(* that are left.  "hot" has the games whose hot thread is known.           *)
Recalled   == (Remembered \cap tracked) \ Bad
Evaluated  == (Eligible \cap tracked) \ Recalled

(* Mutant: a game that is placed already does not count. *)
AnyGameUnplaced == \E p \in Evaluated : kind[p] = "game" /\ row[p] = NoRow

AnyGame    == \E p \in Evaluated : kind[p] = "game"
Evicted(p) == /\ AnyGame
              /\ \/ kind[p] = "stream"
                 \/ kind[p] \in {"other", "unknown"} /\ sample[p].load \in {"busy", "cached"}
                    /\ p \notin Protected

(* Mutant: only what the memory recalls. *)
DecidedRecalled(p) == p \in Recalled

Decided(p) == p \in Recalled \/ (p \in Evaluated /\ (kind[p] = "game" \/ Evicted(p)))

(* Mutant: the pause is not looked at. *)
PolicyPassOpenPaused == PlacementAllowed

PolicyPassOpen == PlacementAllowed /\ ~paused

PolicyPass(v, hot) ==
  LET chosen == IF PolicyPassOpen
                THEN {p \in tracked \ Bad : Decided(p) /\ rule[p] = "none"} ELSE {}
      gated  == {p \in chosen : kind[p] = "game"}
      passed == {p \in chosen : p \in gated => Passes(p, v)}
      split  == {p \in passed \ Recalled : kind[p] = "game" /\ diff /\ p \in hot}
  IN
  /\ phase = "policy"
  /\ phase' = "command"
  /\ tick' = (tick + 1) % Cycle
  /\ Labelled(gated, v)
  /\ ApplyWithDifferential(passed \ split, split,
       [p \in Proc |-> IF p \in Recalled \/ kind[p] = "game" THEN "vcache" ELSE "freq"],
       [p \in Proc |-> IF p \in Recalled THEN "memory"
                       ELSE IF kind[p] = "game" THEN "game" ELSE "evict"])
  /\ kind' = [p \in Proc |-> "unknown"]  \* the next snapshot() forgets the kinds
  /\ UNCHANGED <<up, gone, acRunning, confVars, tracked, cache, sample,
                 acQuiet, coexist>>

-----------------------------------------------------------------------------
Tick ==
  \/ Command
  \/ \E reload, capture \in BOOLEAN, load \in [Refreshed -> Load],
        evident \in SUBSET Refreshed : Observe(reload, capture, load, evident)
  \/ \E v \in [tracked -> Verdict] : UserPass(v)
  \/ \E found \in BOOLEAN : CorralPass(found)
  \/ \E v \in [tracked -> Verdict], hot \in SUBSET tracked : PolicyPass(v, hot)

Machine ==
  \/ \E p \in Proc : Launch(p) \/ Exit(p) \/ \E m \in ForeignMask : Repin(p, m)
  \/ AcToggle

Next == Tick \/ Machine

Spec == Init /\ [][Next]_vars

(* The thread of the agent keeps ticking. *)
FairSpec == Spec /\ WF_vars(Tick)
-----------------------------------------------------------------------------
(* The corral never holds a process outside its profile or in the presence  *)
(* of a kernel anti-cheat the scan has seen: leaving the profile and        *)
(* entering the quiet mode take back what it placed.                        *)
CorralStaysInItsProfile ==
  RowsOf({"corral"}) # {} => profile = "corral" /\ ~acQuiet

(* A user pin stands only while its process has a rule and user placement   *)
(* is open: each of the commands and scans that close it takes it back.     *)
UserPinsHaveRules ==
  \A p \in RowsOf({"user"}) :
    rule[p] # "none" /\ ~paused /\ profile # "monitor" /\ ~acQuiet

(* A pause leaves no placement but the corral's.                            *)
PausedIsQuiet == paused => RowsOf({"game", "evict", "memory", "user"}) \cup thread = {}

(* A process known as a game is placed only with a standing ALLOWED label,  *)
(* by whichever pass and after whatever sequence of refusals.               *)
GamePlacedIfAllowed ==
  [][\A p \in Proc :
       (/\ kind[p] = "game"
        /\ (row[p] = NoRow /\ row'[p] # NoRow) \/ p \in thread' \ thread)
         => label'[p] = "allowed"]_vars

(* Where nobody else changes affinities, a process that is in neither table *)
(* has the mask it started with: no command, scan or prune loses a pin, and *)
(* what a row captured is never another placement.                          *)
NoOrphan ==
  "repin" \notin Env =>
    \A p \in up : /\ row[p] = NoRow => mask[p] = "full"
                  /\ row[p] # NoRow => row[p].prev = "full"

(* Once an anti-cheat title runs, the corral's and the user's placements    *)
(* are taken back, however the passes of the tick interleave with its start.*)
AcQuietClears == acRunning ~> (~acRunning \/ RowsOf({"corral", "user"}) = {})

(* A running eligible process the cache knows for a game is placed, or its  *)
(* placement is ruled out.                                                  *)
PlacementOpenFor(p) ==
  /\ p \in up \ (Denied \cup Bad) /\ rule[p] = "none"
  /\ PolicyPassOpen /\ label[p] # "blocked"

KnownGameIsPlaced ==
  \A p \in Eligible :
    (PlacementOpenFor(p) /\ cache[p] = "game")
      ~> (~PlacementOpenFor(p) \/ cache[p] # "game" \/ row[p] # NoRow \/ p \in thread)

(* An eligible stream known to the cache is evicted while a game is.        *)
StreamYieldsToGame ==
  \A p, g \in Eligible :
    (PlacementOpenFor(p) /\ cache[p] = "stream" /\ g \in up /\ cache[g] = "game")
      ~> (\/ ~PlacementOpenFor(p) \/ cache[p] # "stream"
          \/ g \notin up \/ cache[g] # "game" \/ mask[p] = "freq")

-----------------------------------------------------------------------------
(* What the repository says of the program and the code does not do.        *)

(* A pause leaves nothing placed and suspends every new apply.              *)
PauseSuspendsAll == paused => RowsOf({"game", "evict", "memory", "corral", "user"}) = {}

=============================================================================
