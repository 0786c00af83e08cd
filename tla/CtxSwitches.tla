----------------------------- MODULE CtxSwitches -----------------------------
(***************************************************************************)
(* Where migrations_per_sec comes from (MetricsCollector on Windows): the   *)
(* trace session's consumer thread keeps a direct-mapped cache from thread *)
(* to process and pushes a context switch into a ring that it claims       *)
(* before it fills; the agent's thread drains the ring meanwhile, and may   *)
(* be overtaken.  The session may lose events.                             *)
(***************************************************************************)
EXTENDS Naturals

CONSTANTS Tid, Pid, Cpu,     \* naturals; 0 is no thread, no process and CPU 0
          CacheSize, RingCap,
          MaxSwitches, MaxLost   \* bounds

SwitchAssumption == /\ Tid \cup Pid \subseteq Nat \ {0} /\ Cpu \subseteq Nat
                           /\ {CacheSize, RingCap} \subseteq Nat \ {0}

VARIABLES threads,   \* the system's threads: [pid, cpu]: the CPU it last ran on
          moves,     \* pid -> how often one of its threads really changed CPU
          cache,     \* tid_pid_cache_: [tid, pid]
          ring,      \* etw_ring_: [pid, cpu]
          write, read,    \* etw_write_, etw_read_
          head,      \* write_head of the drain
          event,     \* what the callback fills in: [pid, of, cpu, half], of being the truth
          counted,   \* pid -> migration_count
          lost       \* events the session dropped

vars == <<threads, moves, cache, ring, write, read, head, event, counted, lost>>

NoEvent == [pid |-> 0, of |-> 0, cpu |-> 0, half |-> FALSE]

Init == /\ threads \in [Tid -> [pid : Pid \cup {0}, cpu : {0}]]
        /\ moves = [p \in Pid |-> 0] /\ counted = moves
        /\ cache = [i \in 0 .. CacheSize - 1 |-> [tid |-> 0, pid |-> 0]]
        /\ ring = [i \in 0 .. RingCap - 1 |-> [pid |-> 0, cpu |-> 0]]
        /\ write = 0 /\ read = 0 /\ head = 0 /\ event = NoEvent /\ lost = 0

Entry(tid) == tid % CacheSize

----------------------------------------------------------------------------
(* Thread events, each delivered to etw_record_callback or lost. *)

StartSeen(tid, p) == [cache EXCEPT ![Entry(tid)] = [tid |-> tid, pid |-> p]]

EndSeen(tid) == IF cache[Entry(tid)].tid = tid
                THEN [cache EXCEPT ![Entry(tid)] = [tid |-> 0, pid |-> 0]] ELSE cache

Delivered(next) == \/ cache' = next /\ UNCHANGED lost
                   \/ lost < MaxLost /\ lost' = lost + 1 /\ UNCHANGED cache

\* Start, or the rundown of one that was there before the session.
ThreadStart(tid, p) == /\ threads[tid].pid = 0 /\ event = NoEvent
                       /\ threads' = [threads EXCEPT ![tid] = [pid |-> p, cpu |-> 0]]
                       /\ Delivered(StartSeen(tid, p))
                       /\ UNCHANGED <<moves, ring, write, read, head, event, counted>>

Rundown(tid) == /\ threads[tid].pid # 0 /\ event = NoEvent
                /\ cache' = StartSeen(tid, threads[tid].pid)
                /\ UNCHANGED <<threads, moves, ring, write, read, head, event, counted, lost>>

ThreadEnd(tid) == /\ threads[tid].pid # 0 /\ event = NoEvent
                  /\ threads' = [threads EXCEPT ![tid] = [pid |-> 0, cpu |-> 0]]
                  /\ Delivered(EndSeen(tid))
                  /\ UNCHANGED <<moves, ring, write, read, head, event, counted>>

LookupUnchecked(tid) == cache[Entry(tid)].pid           \* mutant: the entry may be another thread's

\* lookup_pid_for_tid.
Lookup(tid) == IF cache[Entry(tid)].tid = tid THEN cache[Entry(tid)].pid ELSE 0

\* A context switch: one whose thread is not in the cache is dropped, otherwise a slot is
\* claimed.
Switch(tid, cpu) ==
  LET t == threads[tid] IN
  /\ t.pid # 0 /\ event = NoEvent /\ write < MaxSwitches /\ moves[t.pid] < MaxSwitches
  /\ threads' = [threads EXCEPT ![tid].cpu = cpu]
  /\ moves' = [moves EXCEPT ![t.pid] = IF cpu = t.cpu THEN @ ELSE @ + 1]
  /\ IF Lookup(tid) = 0 THEN UNCHANGED <<write, event>>
     ELSE write' = write + 1 /\ event' = [pid |-> Lookup(tid), of |-> t.pid, cpu |-> cpu, half |-> FALSE]
  /\ UNCHANGED <<cache, ring, read, head, counted, lost>>

\* The fields of the slot are plain stores: whoever looks between them sees one of each.
FillPid == /\ event # NoEvent /\ ~event.half
           /\ ring' = [ring EXCEPT ![(write - 1) % RingCap].pid = event.pid]
           /\ event' = [event EXCEPT !.half = TRUE]
           /\ UNCHANGED <<threads, moves, cache, write, read, head, counted, lost>>

FillCpu == /\ event.half
           /\ ring' = [ring EXCEPT ![(write - 1) % RingCap].cpu = event.cpu]
           /\ event' = NoEvent
           /\ UNCHANGED <<threads, moves, cache, write, read, head, counted, lost>>

----------------------------------------------------------------------------
(* The agent's thread: drain_etw_ring. *)

Drain == /\ head = read /\ read < write /\ head' = write
         /\ UNCHANGED <<threads, moves, cache, ring, write, read, event, counted, lost>>

\* The event carries no old CPU, which is therefore 0.  Only a pid of the table of processes
\* (MetricsTable) is charged.
Charge == /\ read < head /\ read' = read + 1
          /\ LET e == ring[read % RingCap]
             IN  \/ /\ e.pid \in Pid /\ e.cpu # 0
                    /\ counted' = [counted EXCEPT ![e.pid] = @ + 1]
                 \/ UNCHANGED counted
          /\ UNCHANGED <<threads, moves, cache, ring, write, head, event, lost>>

Next == \/ \E tid \in Tid : \/ Rundown(tid) \/ ThreadEnd(tid)
                            \/ \E p \in Pid : ThreadStart(tid, p)
                            \/ \E c \in Cpu : Switch(tid, c)
        \/ FillPid \/ FillCpu \/ Drain \/ Charge

Spec == Init /\ [][Next]_vars

----------------------------------------------------------------------------
(* Correctness. *)

\* With at most one thread event lost, a switch is attributed to the process its thread is
\* of or to none, whatever thread ids collide in the cache and are used again.
AttributionIsRight == event.pid \in {0, event.of}

\* "migrations_per_sec: worst thread migration rate" (TargetMetrics.hpp:31): a process is
\* charged no more migrations than its threads made.
OnlyMigrationsCount == \A p \in Pid : counted[p] <= moves[p]
=============================================================================
