------------------------------- MODULE Corral -------------------------------
(***************************************************************************)
(* The corral of a tick of the agent (core/AgentRuntime.cpp), placement by  *)
(* placement: the advice and the predicate that choose a process, the scan  *)
(* for a program that manages affinities too, and the table that keeps a    *)
(* process that refuses from being tried, and journaled, in every tick.     *)
(* PlacementTick has the corral as one pass among the others of a tick; this *)
(* module looks into the pass.                                              *)
(***************************************************************************)
EXTENDS Naturals

CONSTANTS Pid,            \* processes that are tracked, by their id
          Samples,        \* what is known of a process: [kind, managed, denied, ruled, busy, size,
                          \* own], own the mask its owner gave it
          Cores, VCache,  \* every core, and those of the V-Cache CCD
          AdviceLogSlots, FailMax, FailBackoff, CoexistEvery

CorralAssumption ==
  /\ Pid \subseteq Nat \ {0} /\ VCache \subseteq Cores /\ {} \notin {Pid, Samples}
  /\ {AdviceLogSlots, FailMax, FailBackoff, CoexistEvery} \subseteq Nat \ {0} /\ CoexistEvery > 1

VARIABLES
  live,       \* corral_live
  quiet,      \* ac_quiet
  optimizer,  \* another program that manages affinities runs
  counter,    \* coexist_scan_counter
  coexist,    \* coexist_full_scan_result
  fail,       \* corral_fail_cache: slot -> [pid, fails, left], left in ticks, Never
  held,       \* the processes the executor holds on the other cores
  pending,    \* the targets the pass has chosen and not come to yet
  refusals,   \* ghost: process -> refusals in a row, up to FailMax + 1
  since,      \* ghost: process -> passes begun since the last one, up to FailBackoff
  evicted,    \* ghost: processes whose entry of fail another one took
  ran,        \* ghost: ticks in a row that the optimizer ran and the agent looked
  scanned     \* ghost: a full scan has been made

vars == <<live, quiet, optimizer, counter, coexist, fail, held, pending, refusals, since,
          evicted, ran, scanned>>

Never == FailBackoff + 1     \* UINT32_MAX as the next tick to try
NoFail == [pid |-> 0, fails |-> 0, left |-> 0]
Slot(p) == p % AdviceLogSlots

freqMask == Cores \ VCache

Init ==
  /\ live \in BOOLEAN /\ quiet = FALSE /\ optimizer \in BOOLEAN
  /\ counter = 0 /\ coexist = FALSE
  /\ fail = [s \in 0 .. AdviceLogSlots - 1 |-> NoFail]
  /\ held = {} /\ pending = {}
  /\ refusals = [p \in Pid |-> 0] /\ since = [p \in Pid |-> FailBackoff]
  /\ evicted = {} /\ ran = 0 /\ scanned = FALSE

----------------------------------------------------------------------------
(* The choice. *)

\* Where a process is better off, by its working set against the two caches.
advise(s) ==
  IF VCache = {} \/ s.kind = "System" \/ s.managed \/ ~s.busy \/ s.size = "over both caches" THEN "LeaveAlone"
  ELSE IF s.size = "in the big cache" THEN "VCache"
  ELSE "Frequency"

\* The process may be corralled: `cur` is its mask as the last sample has it.
would_corral(s, cur) ==
  /\ s.kind \notin {"Game", "System"} /\ ~s.managed /\ ~s.denied
  /\ VCache # {} /\ freqMask # {}
  /\ advise(s) # "VCache" /\ s.busy
  /\ cur = Cores

\* The mask a sample shows, possibly the one from before our placement.
Shown(p, s, stale) == IF p \in held /\ ~stale THEN freqMask ELSE s.own

----------------------------------------------------------------------------
(* The pass. *)

coexist_optimizer_present(tracked, full) == full \/ (optimizer /\ tracked)

\* The full scan opens every process: it is left out while an anti-cheat looks.
FullScan == IF ~quiet /\ counter = 0 THEN optimizer ELSE coexist

NextScan == IF counter + 1 >= CoexistEvery THEN 0 ELSE counter + 1

Blacklisted(f, p) == f[Slot(p)].pid = p /\ f[Slot(p)].left = Never   \* mutant: no back-off

BackingOff(f, p) == f[Slot(p)].pid = p /\ f[Slot(p)].left > 0

\* A refusal is counted in the slot of the process, whoever had it.
Refused(f, p) ==
  LET mine  == IF f[Slot(p)].pid = p THEN f[Slot(p)].fails ELSE 0
      fails == mine + 1
  IN  [f EXCEPT ![Slot(p)] =
         [pid |-> p, fails |-> fails, left |-> IF fails >= FailMax THEN Never ELSE FailBackoff]]

Granted(f, p) == IF f[Slot(p)].pid = p THEN [f EXCEPT ![Slot(p)] = NoFail] ELSE f

Aged(f) == [s \in DOMAIN f |->
              [f[s] EXCEPT !.left = IF @ \in {0, Never} THEN @ ELSE @ - 1]]

Chosen(sample, stale, apply) ==
  {p \in Pid : /\ apply /\ ~sample[p].ruled /\ p \notin held
               /\ would_corral(sample[p], Shown(p, sample[p], stale))}

\* A pass begins: the guards, and who is chosen by what the last samples say.
Tick ==
  /\ pending = {}
  /\ \E sample \in [Pid -> Samples], stale, tracked \in BOOLEAN :
       pending' = Chosen(sample, stale,
                         live /\ ~quiet /\ ~coexist_optimizer_present(tracked, FullScan))
  /\ coexist' = FullScan /\ counter' = NextScan
  /\ fail' = Aged(fail)
  /\ since' = [p \in Pid |-> IF since[p] < FailBackoff THEN since[p] + 1 ELSE since[p]]
  /\ ran' = IF quiet \/ ~optimizer THEN 0 ELSE IF ran < CoexistEvery THEN ran + 1 ELSE ran
  /\ scanned' = (scanned \/ (counter = 0 /\ ~quiet))
  /\ UNCHANGED <<live, quiet, optimizer, held, refusals, evicted>>

\* Then the targets one after the other, in the order of the list.  One that was refused
\* lately is left out ...
Skip(p) ==
  /\ p \in pending /\ pending' = pending \ {p} /\ BackingOff(fail, p)
  /\ UNCHANGED <<live, quiet, optimizer, counter, coexist, fail, held, refusals, since, evicted,
                 ran, scanned>>

\* ... and the others are applied, which the system may refuse.
Accept(p) ==
  /\ p \in pending /\ pending' = pending \ {p} /\ ~BackingOff(fail, p)
  /\ fail' = Granted(fail, p) /\ held' = held \cup {p}
  /\ refusals' = [refusals EXCEPT ![p] = 0]
  /\ UNCHANGED <<live, quiet, optimizer, counter, coexist, since, evicted, ran, scanned>>

Refuse(p) ==
  /\ p \in pending /\ pending' = pending \ {p} /\ ~BackingOff(fail, p)
  /\ fail' = Refused(fail, p)
  /\ refusals' = [refusals EXCEPT ![p] = IF @ > FailMax THEN @ ELSE @ + 1]
  /\ since' = [since EXCEPT ![p] = 0]
  /\ evicted' = evicted \cup ({fail[Slot(p)].pid} \ {0, p})
  /\ UNCHANGED <<live, quiet, optimizer, counter, coexist, held, ran, scanned>>

----------------------------------------------------------------------------
(* The rest of the agent, between two passes, and the other programs. *)

\* The switch; going off takes the placements back unless they are to be kept.
SetCorralLive(on, keep) ==
  /\ pending = {} /\ live' = on
  /\ held' = IF live /\ ~on /\ ~keep THEN {} ELSE held
  /\ UNCHANGED <<quiet, optimizer, counter, coexist, fail, pending, refusals, since, evicted, ran,
                 scanned>>

\* An anti-cheat title starts or ends; the first scan for one is not in the first tick.
SetQuiet(on) ==
  /\ pending = {} /\ scanned /\ quiet' = on
  /\ held' = IF on THEN {} ELSE held
  /\ UNCHANGED <<live, optimizer, counter, coexist, fail, pending, refusals, since, evicted, ran,
                 scanned>>

OptimizerRuns(on) ==
  /\ optimizer' = on /\ ran' = 0
  /\ UNCHANGED <<live, quiet, counter, coexist, fail, held, pending, refusals, since, evicted,
                 scanned>>

\* A process ends and another one gets its id: its row is pruned, its entry stays.
Recycled(p) ==
  /\ pending = {} /\ held' = held \ {p}
  /\ refusals' = [refusals EXCEPT ![p] = 0] /\ since' = [since EXCEPT ![p] = FailBackoff]
  /\ UNCHANGED <<live, quiet, optimizer, counter, coexist, fail, pending, evicted, ran, scanned>>

Next ==
  \/ Tick
  \/ \E on, keep \in BOOLEAN : SetCorralLive(on, keep)
  \/ \E on \in BOOLEAN : SetQuiet(on) \/ OptimizerRuns(on)
  \/ \E p \in Pid : Skip(p) \/ Accept(p) \/ Refuse(p) \/ Recycled(p)

Spec == Init /\ [][Next]_vars

----------------------------------------------------------------------------
(* Correctness. *)

\* A process that keeps refusing costs FailMax journal records, not one per tick, unless another
\* process of the same slot took its entry.  (With an eviction there is no such bound: two that
\* refuse and share a slot are both tried in every tick.)
RefusedIsLeftAlone == \A p \in Pid : refusals[p] > FailMax => p \in evicted

\* A process that is refused again has been left alone for FailBackoff passes.
RefusedIsGivenTime ==
  [][\A p \in Pid : refusals[p] > 0 /\ refusals'[p] > refusals[p] /\ p \notin evicted
                    => since[p] >= FailBackoff]_vars

\* No placement against a program that manages affinities too, once that has run for as long as
\* the scans are apart with the agent free to look; and none before the first scan: "the guard is
\* armed before the switch could ever be flipped" (AgentRuntime.cpp:1797).
OptimizerIsNotFought ==
  [][\A p \in Pid : p \in held' \ held => scanned /\ ran < CoexistEvery]_vars
=============================================================================
