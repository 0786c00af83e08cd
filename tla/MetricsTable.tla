---------------------------- MODULE MetricsTable ----------------------------
(***************************************************************************)
(* What the agent measures of each observed process (MetricsCollector on   *)
(* Windows, over ProcessMetricsSnapshot): a slot per pid found through an  *)
(* open-addressing hash with tombstones, a pool of slots for the hot       *)
(* thread, free lists, a bulk capture every few ticks and a sweep of what  *)
(* is no longer observed every few more.  Kernel and user time are one     *)
(* counter; a thread is known by the life of its process.                  *)
(***************************************************************************)
EXTENDS Naturals, Integers, Sequences, FiniteSets, FiniteSetsExt, SequencesExt

CONSTANTS Pid,            \* naturals: the hash is the pid modulo its size
          Busy,           \* those whose processes have kHotTrackMinThreads threads
          Cap, HashSize,  \* kMaxPidStates, kPidHashSize
          HotCap,         \* kMaxHotTrackStates
          Bulk, Sweep,    \* kBulkCaptureInterval, kEvictSweepInterval
          Confidence,     \* kHotConfidenceMin
          MaxLives, MaxCpu  \* bounds: processes in one run, CPU time of one

MetricsAssumption ==
  /\ Pid \subseteq Nat \ {0} /\ Busy \subseteq Pid /\ {Cap, HotCap, Bulk, Sweep, Confidence} \subseteq Nat \ {0}
  /\ HashSize \in Nat /\ HashSize >= 2 * Cap

VARIABLES proc,      \* the system's processes: [up, life, cpu, many] (many: enough threads)
          table,     \* the collector: see Init
          ticks,     \* [bulk, sweep]: the two counters
          shown      \* the last TargetMetrics: pid -> [wraps, hotOf], of the pids sampled

vars == <<proc, table, ticks, shown>>

Tombstone == -1
NoState == [pid |-> 0, wall |-> FALSE, cpu |-> 0, many |-> FALSE, hot |-> 0]
NoHot   == [owner |-> 0, prev |-> 0, cand |-> <<>>, count |-> 0, tid |-> <<>>]

Init == /\ proc = [p \in Pid |-> [up |-> FALSE, life |-> 0, cpu |-> 0, many |-> FALSE]]
        /\ table = [hash |-> [i \in 0 .. HashSize - 1 |-> [pid |-> 0, slot |-> 0]],
                    states |-> [s \in 1 .. Cap |-> NoState], n |-> 0, free |-> <<>>,
                    hot |-> [h \in 1 .. HotCap |-> NoHot], nhot |-> 0, hotFree |-> <<>>]
        /\ ticks = [bulk |-> Bulk, sweep |-> 0]
        /\ shown = <<>>

----------------------------------------------------------------------------
(* The hash from pid to slot. *)

At(p, i) == (p + i) % HashSize

\* Where a walk from p's home ends: its own entry or the first that never held any.
Ends(t, p) == {i \in 0 .. HashSize - 1 : t.hash[At(p, i)].pid \in {0, p}}

\* pid_hash_lookup: the slot, 0 when there is none.
Slot(t, p) == IF Ends(t, p) = {} THEN 0 ELSE t.hash[At(p, Min(Ends(t, p)))].slot

\* pid_hash_insert: the first entry that is empty or a tombstone.
HashInsert(t, p, s) ==
  LET open == {i \in 0 .. HashSize - 1 : t.hash[At(p, i)].pid \in {0, Tombstone}}
  IN  [t EXCEPT !.hash[At(p, Min(open))] = [pid |-> p, slot |-> s]]

HashRemoveCleared(t, p) ==                            \* mutant: the entry is emptied
  IF Slot(t, p) = 0 THEN t ELSE [t EXCEPT !.hash[At(p, Min(Ends(t, p)))] = [pid |-> 0, slot |-> 0]]

\* pid_hash_remove.
HashRemove(t, p) ==
  IF Slot(t, p) = 0 THEN t
  ELSE [t EXCEPT !.hash[At(p, Min(Ends(t, p)))] = [pid |-> Tombstone, slot |-> 0]]

----------------------------------------------------------------------------
(* The slots. *)

\* find_or_create_pid_state: a free slot before a new one, none when both are used up.
FindOrCreate(t, p) ==
  LET s == IF t.free # <<>> THEN Last(t.free) ELSE t.n + 1 IN
  IF Slot(t, p) # 0 \/ s > Cap THEN t
  ELSE HashInsert([t EXCEPT !.states[s] = [NoState EXCEPT !.pid = p],
                        !.free = IF @ = <<>> THEN @ ELSE Front(@),
                        !.n = IF t.free = <<>> THEN @ + 1 ELSE @], p, s)

\* release_hot_track.
ReleaseHot(t, s) ==
  LET h == t.states[s].hot
      u == [t EXCEPT !.states[s].hot = 0] IN
  IF h = 0 \/ t.hot[h].owner # t.states[s].pid THEN u
  ELSE [u EXCEPT !.hot[h].owner = 0, !.hotFree = Append(@, h)]

\* acquire_hot_track: its own slot, a free one, a new one, or none.
AcquireHot(t, s) ==
  LET mine == t.states[s].hot
      h == IF t.hotFree # <<>> THEN Last(t.hotFree) ELSE t.nhot + 1 IN
  IF mine # 0 /\ t.hot[mine].owner = t.states[s].pid THEN t
  ELSE IF h > HotCap THEN [t EXCEPT !.states[s].hot = 0]
  ELSE [t EXCEPT !.states[s].hot = h, !.hot[h] = [NoHot EXCEPT !.owner = t.states[s].pid],
                 !.hotFree = IF @ = <<>> THEN @ ELSE Front(@),
                 !.nhot = IF t.hotFree = <<>> THEN @ + 1 ELSE @]

\* evict_absent_pids: every slot whose pid is not observed this tick.
Evict(t, pids) ==
  LET live == {Slot(t, p) : p \in pids}
      Drop(u, s) == [ReleaseHot(HashRemove(u, u.states[s].pid), s)
                       EXCEPT !.states[s] = NoState, !.free = Append(@, s)]
  IN  FoldLeft(Drop, t, SetToSortSeq({s \in 1 .. t.n : t.states[s].pid # 0 /\ s \notin live}, <))

----------------------------------------------------------------------------
(* sample(). *)

\* What extract() gives of a pid; one that is not in the snapshot is all zero.
Measured(p) == IF proc[p].up THEN proc[p] ELSE [proc[p] EXCEPT !.cpu = 0, !.many = FALSE]

RecycledIgnored(t, s, pm) == t                    \* mutant: no PID-reuse guard

\* Times that went down are another process's: everything of the old one goes.
Recycled(t, s, pm) ==
  IF t.states[s].wall /\ pm.cpu < t.states[s].cpu
  THEN [ReleaseHot(t, s) EXCEPT !.states[s] = [NoState EXCEPT !.pid = t.states[s].pid]]
  ELSE t

\* One hot-thread round: k is the thread that ran most, 0 if none did; a thread without an
\* earlier reading does not count.
HotRound(hs, p, k) ==
  LET life == proc[p].life
      cand == IF k = 0 \/ hs.prev # life THEN <<>> ELSE <<p, life, k>>
      count == IF cand = hs.cand THEN Min({hs.count + 1, Confidence}) ELSE 1
      next == IF cand = <<>> THEN hs
              ELSE [hs EXCEPT !.cand = cand, !.count = count,
                              !.tid = IF count >= Confidence THEN cand ELSE @]
  IN  [next EXCEPT !.prev = life]

NoReading == [wraps |-> FALSE, hotOf |-> 0]
Process(tid) == IF tid = <<>> THEN 0 ELSE tid[1]

\* One pid of one capture tick; what it shows is the pair.
Fresh(t, p, k) ==
  LET pm == Measured(p)
      c == FindOrCreate(t, p)
      s == Slot(c, p)
      r == Recycled(c, s, pm)
      old == r.states[s]
      w == [r EXCEPT !.states[s].wall = TRUE, !.states[s].cpu = pm.cpu, !.states[s].many = pm.many]
      a == IF pm.many THEN AcquireHot(w, s) ELSE w
      h == IF pm.many THEN a.states[s].hot ELSE 0
      z == IF h = 0 THEN a ELSE [a EXCEPT !.hot[h] = HotRound(@, p, k)]
  IN  IF s = 0 THEN [t |-> c, out |-> NoReading]
      ELSE [t |-> z, out |-> [wraps |-> old.wall /\ pm.cpu < old.cpu,
                              hotOf |-> IF h = 0 THEN 0 ELSE Process(z.hot[h].tid)]]

\* One pid of a tick between captures.
Cached(t, p) ==
  LET c == FindOrCreate(t, p)
      s == Slot(c, p)
      a == IF s # 0 /\ c.states[s].many THEN AcquireHot(c, s) ELSE c
  IN  [t |-> a, out |-> [NoReading EXCEPT !.hotOf =
                          IF s # 0 /\ a.states[s].many /\ a.states[s].hot # 0
                          THEN Process(a.hot[a.states[s].hot].tid) ELSE 0]]

\* One call; the capture may fail, and is then a tick between captures.
Sample(pids, k, got) ==
  LET swept  == ticks.sweep + 1 >= Sweep
      full   == ticks.bulk + 1 >= Bulk
      ok     == full /\ got
      start  == IF swept THEN Evict(table, pids) ELSE table
      One(acc, p) == LET r == IF ok THEN Fresh(acc.t, p, k) ELSE Cached(acc.t, p)
                     IN  [t |-> r.t, out |-> [q \in DOMAIN acc.out \cup {p} |->
                                                IF q = p THEN r.out ELSE acc.out[q]]]
      done   == FoldLeft(One, [t |-> start, out |-> <<>>], SetToSortSeq(pids, <))
  IN  /\ pids # {} /\ (~full => got) /\ (~ok => k = 0)
      /\ table' = done.t /\ shown' = done.out
      /\ ticks' = [bulk |-> IF full THEN 0 ELSE ticks.bulk + 1,
                   sweep |-> IF swept THEN 0 ELSE ticks.sweep + 1]
      /\ UNCHANGED proc

----------------------------------------------------------------------------
(* The processes. *)

Lives == Max({proc[p].life : p \in Pid})

Spawn(p) == /\ ~proc[p].up /\ Lives < MaxLives
            /\ proc' = [proc EXCEPT ![p] = [up |-> TRUE, life |-> Lives + 1, cpu |-> 0, many |-> p \in Busy]]
            /\ UNCHANGED <<table, ticks, shown>>

Exit(p) == /\ proc[p].up
           /\ proc' = [proc EXCEPT ![p] = [@ EXCEPT !.up = FALSE, !.cpu = 0, !.many = FALSE]]
           /\ UNCHANGED <<table, ticks, shown>>

Runs(p) == /\ proc[p].up /\ proc[p].cpu < MaxCpu
           /\ proc' = [proc EXCEPT ![p].cpu = @ + 1]
           /\ UNCHANGED <<table, ticks, shown>>

\* What the observer lists: what runs, or with what ended since it looked.
Running == {p \in Pid : proc[p].up}
Remembered == {p \in Pid : Slot(table, p) # 0}

Next == \/ \E p \in Pid : Exit(p) \/ Runs(p) \/ Spawn(p)
        \/ \E pids \in {Running, Running \cup Remembered}, k \in 0 .. 1, got \in BOOLEAN :
             Sample(pids, k, got)

Spec == Init /\ [][Next]_vars

----------------------------------------------------------------------------
(* Correctness. *)

Used == {s \in 1 .. table.n : table.states[s].pid # 0}
Owned == {h \in 1 .. table.nhot : table.hot[h].owner # 0}

\* The collector never loses a slot and never gives one twice, however pids come, go and are
\* recycled: the hash finds exactly the slots in use, every other slot below the high-water
\* mark is on the free list once, and so for the hot-thread pool.
TableSound ==
  /\ \A s \in Used : Slot(table, table.states[s].pid) = s
  /\ IsInjective(table.free) /\ ToSet(table.free) = (1 .. table.n) \ Used
  /\ IsInjective(table.hotFree) /\ ToSet(table.hotFree) = (1 .. table.nhot) \ Owned
  /\ \A h \in Owned : \E s \in Used : table.states[s].hot = h /\ table.states[s].pid = table.hot[h].owner

\* After a sweep nothing observed goes unmeasured while it fits the table: the process churn
\* of a long run never fills it.
NoneIsBlind == ticks.sweep = 0 /\ Cardinality(DOMAIN shown) <= Cap =>
                 \A p \in DOMAIN shown : Slot(table, p) # 0

\* A CPU reading is never the difference of two processes that wraps, and the hot thread shown
\* for a pid is one of that pid.
ReadingsAreSane == \A p \in DOMAIN shown : ~shown[p].wraps /\ shown[p].hotOf \in {0, p}

MeasuresEverything == NoneIsBlind /\ ReadingsAreSane
=============================================================================
