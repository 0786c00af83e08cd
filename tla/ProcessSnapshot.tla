-------------------------- MODULE ProcessSnapshot --------------------------
(***************************************************************************)
(* The snapshot of all processes and their threads                          *)
(* (framework/process, ProcessMetricsSnapshot).  Windows answers one call   *)
(* with everything, if the buffer holds it; on Linux the directory of the   *)
(* processes is walked and then that of the threads of each, file after     *)
(* file, while processes and threads come and go.  Readers find the threads *)
(* of a process through an index into the buffer.                           *)
(*                                                                         *)
(* What a file or a record says of a process is the life it was read of: 0  *)
(* is a file that could not be opened, whose fields stay zero.  The buffer  *)
(* is counted in entries.  A create() that fails leaves no object, and a    *)
(* larger buffer that cannot be had ends the program (noexcept).           *)
(***************************************************************************)
EXTENDS Naturals, Sequences, SequencesExt, FiniteSets, FiniteSetsExt

CONSTANTS Pid,       \* naturals
          Threads,   \* the thread ids of a process
          Cap,       \* entries of the buffer create() allocates
          Slack,     \* what a retry adds to the size the system asked for
          Attempts,  \* calls one capture makes
          MaxLives   \* bound: processes and threads begun in one run

SnapshotAssumption ==
  /\ Pid \subseteq Nat \ {0} /\ Threads \subseteq Nat \ {0}
  /\ {Cap, Attempts} \subseteq Nat \ {0} /\ {Slack, MaxLives} \subseteq Nat

VARIABLES os,      \* "windows" or "linux", fixed
          procs,   \* the system: pid -> [life, threads]; life 0: none
          born,    \* processes and threads begun so far
          snap,    \* the object: [metrics, index, buf]
          job,     \* the capture that runs, or Idle
          result,  \* of the last capture
          stayed   \* history: the <<pid, tid>> that ran since the capture began, tid 0 for the process

vars == <<os, procs, born, snap, job, result, stayed>>

Idle   == [step |-> "idle", names |-> {}, last |-> 0, tids |-> {}, from |-> 0, off |-> 0, tries |-> 0]
NoProc == [life |-> 0, threads |-> {}]
Blank  == [pid |-> 0, life |-> 0, tid |-> 0]
Zeroed == [stat |-> 0, status |-> 0, io |-> 0, threads |-> 0]

Empty(n) == [i \in 1 .. n |-> Blank]

\* create(): the buffer is zeroed.
create == [metrics |-> <<>>, index |-> <<>>, buf |-> Empty(Cap)]

Init == /\ os \in {"windows", "linux"}
        /\ procs = [p \in Pid |-> NoProc] /\ born = 0 /\ snap = create
        /\ job = Idle /\ result = "none" /\ stayed = {}

Up == {p \in Pid : procs[p].life # 0}

Running == UNION {{p} \X (procs[p].threads \cup {0}) : p \in Up}

With(f, k, v) == [x \in DOMAIN f \cup {k} |-> IF x = k THEN v ELSE f[x]]

Entry(p, t) == [pid |-> p, life |-> IF <<p, t>> \in Running THEN procs[p].life ELSE 0, tid |-> t]

\* The least n elements of a set of numbers, in order.
Least(S, n) == LET s == SetToSortSeq(S, <) IN ToSet(SubSeq(s, 1, n))

----------------------------------------------------------------------------
(* Windows. *)

\* NtQuerySystemInformation: for each process its own record and then those of its threads.
Reply == LET Of(p) == LET ts == SetToSortSeq(procs[p].threads \cup {0}, <)
                      IN  [i \in DOMAIN ts |-> Entry(p, ts[i])]
             ps == SetToSortSeq(Up, <)
         IN  FlattenSeq([i \in DOMAIN ps |-> Of(ps[i])])

Ends(how) == job' = Idle /\ result' = how

\* A buffer that is too small is replaced by a larger one and the call made again; the
\* metrics and the index of the last capture stay.
TooSmall ==
  /\ Len(Reply) > Len(snap.buf)
  /\ snap' = [snap EXCEPT !.buf = Empty(Max({2 * Len(@), Len(Reply) + Slack}))]
  /\ IF job.tries + 1 < Attempts
     THEN job' = [job EXCEPT !.tries = @ + 1] /\ UNCHANGED result
     ELSE Ends("failed")

\* The list is parsed: the metrics of each process, and where its threads begin.
Parsed ==
  /\ Len(Reply) <= Len(snap.buf)
  /\ LET At(p) == CHOOSE i \in DOMAIN Reply : Reply[i].pid = p /\ Reply[i].tid = 0
         n(p)  == Cardinality(procs[p].threads)
         l(p)  == procs[p].life
     IN  snap' = [snap EXCEPT
                   !.metrics = [p \in Up |-> [stat |-> l(p), status |-> l(p), io |-> l(p), threads |-> n(p)]],
                   !.index = [p \in Up |-> [at |-> At(p), n |-> n(p)]],
                   !.buf = [i \in DOMAIN @ |-> IF i \in DOMAIN Reply THEN Reply[i] ELSE @[i]]]
  /\ Ends("ok")

\* Any other status.
Refused == UNCHANGED snap /\ Ends("failed")

Query == /\ job.step = "query" /\ (TooSmall \/ Parsed \/ Refused)
         /\ UNCHANGED <<os, procs, born, stayed>>

----------------------------------------------------------------------------
(* Linux. *)

\* readdir of the processes: the system hands out names by the handful, in the order of the
\* pids, those that run when it is asked.  After the last come the threads of those found.
List ==
  /\ job.step = "list" /\ job.names = {}
  /\ LET ahead == {p \in Up : p > job.last}
     IN  IF ahead = {} THEN job' = [job EXCEPT !.step = "threads", !.names = DOMAIN snap.metrics]
         ELSE \E n \in 1 .. Cardinality(ahead) : LET names == Least(ahead, n) IN
                job' = [job EXCEPT !.step = "stat", !.names = names, !.last = Max(names)]
  /\ UNCHANGED <<os, procs, born, snap, result, stayed>>

\* The three files of a process, each of whoever has the pid when it is opened.
parse_stat ==
  /\ job.step = "stat"
  /\ LET p == Min(job.names)
     IN  snap' = [snap EXCEPT !.metrics = With(@, p, [Zeroed EXCEPT !.stat = procs[p].life])]
  /\ job' = [job EXCEPT !.step = "status"]
  /\ UNCHANGED <<os, procs, born, result, stayed>>

parse_status ==
  /\ job.step = "status"
  /\ LET p == Min(job.names)
     IN  snap' = [snap EXCEPT !.metrics[p].status = procs[p].life,
                              !.metrics[p].threads = Cardinality(procs[p].threads)]
  /\ job' = [job EXCEPT !.step = "io"]
  /\ UNCHANGED <<os, procs, born, result, stayed>>

\* The last one may be denied.
parse_io ==
  /\ job.step = "io"
  /\ LET p == Min(job.names)
     IN  /\ \E life \in {0, procs[p].life} : snap' = [snap EXCEPT !.metrics[p].io = life]
         /\ job' = [job EXCEPT !.names = @ \ {p}, !.step = IF job.names = {p} THEN "list" ELSE "stat"]
  /\ UNCHANGED <<os, procs, born, result, stayed>>

\* The second walk: a process that has ended since the first has no directory any more.
OpenTask ==
  /\ job.step = "threads" /\ job.names # {}
  /\ LET p == Min(job.names)
     IN  job' = IF p \notin Up THEN [job EXCEPT !.names = @ \ {p}]
                ELSE [job EXCEPT !.step = "task", !.tids = procs[p].threads, !.from = job.off]
  /\ UNCHANGED <<os, procs, born, snap, result, stayed>>

\* grow_buf_for: the buffer is doubled when the next entry does not fit; what was written stays.
Grown == IF job.off + 1 <= Len(snap.buf) THEN snap.buf
         ELSE [i \in 1 .. 2 * Len(snap.buf) |-> IF i <= job.off THEN snap.buf[i] ELSE Blank]

\* parse_thread_stat: a thread that has ended by now keeps its entry, with zeroes.
ReadThread ==
  /\ job.step = "task" /\ job.tids # {}
  /\ snap' = [snap EXCEPT !.buf = [Grown EXCEPT ![job.off + 1] = Entry(Min(job.names), Min(job.tids))]]
  /\ job' = [job EXCEPT !.tids = @ \ {Min(@)}, !.off = @ + 1]
  /\ UNCHANGED <<os, procs, born, result, stayed>>

CloseTask ==
  /\ job.step = "task" /\ job.tids = {}
  /\ LET p == Min(job.names)
         range == [at |-> job.from, n |-> job.off - job.from]
     IN  /\ snap' = IF range.n = 0 THEN snap ELSE [snap EXCEPT !.index = With(@, p, range)]
         /\ job' = [job EXCEPT !.step = "threads", !.names = @ \ {p}]
  /\ UNCHANGED <<os, procs, born, result, stayed>>

\* There is no memory for the row of a process or for its place in the index.
NoMemory ==
  /\ \/ /\ job.step = "io"
        /\ snap' = [snap EXCEPT !.metrics = [q \in DOMAIN @ \ {Min(job.names)} |-> @[q]]]
     \/ job.step = "task" /\ job.tids = {} /\ job.off # job.from /\ UNCHANGED snap
  /\ Ends("failed")
  /\ UNCHANGED <<os, procs, born, stayed>>

Done == /\ job.step = "threads" /\ job.names = {} /\ Ends("ok")
        /\ UNCHANGED <<os, procs, born, snap, stayed>>

----------------------------------------------------------------------------
(* The capture begins.  Only Linux forgets the last one before it has a new one: it writes the
   buffer from its start, and Blank stands for what is left of the last one behind that.  There
   the directory of the processes may fail to open. *)
Capture ==
  /\ job = Idle /\ stayed' = Running
  /\ IF os = "windows"
     THEN job' = [Idle EXCEPT !.step = "query"] /\ UNCHANGED <<snap, result>>
     ELSE /\ snap' = [snap EXCEPT !.metrics = <<>>, !.index = <<>>, !.buf = Empty(Len(@))]
          /\ \/ job' = [Idle EXCEPT !.step = "list"] /\ UNCHANGED result
             \/ Ends("failed")
  /\ UNCHANGED <<os, procs, born>>

(* Processes and threads come and go. *)

Spawn(p, t) == /\ p \notin Up /\ born < MaxLives /\ born' = born + 1
               /\ procs' = [procs EXCEPT ![p] = [life |-> born + 1, threads |-> {t}]]
               /\ UNCHANGED <<os, snap, job, result, stayed>>

BeginThread(p, t) == /\ p \in Up /\ t \notin procs[p].threads
                     /\ born < MaxLives /\ born' = born + 1
                     /\ procs' = [procs EXCEPT ![p].threads = @ \cup {t}]
                     /\ UNCHANGED <<os, snap, job, result, stayed>>

EndThread(p, t) == /\ p \in Up /\ t \in procs[p].threads /\ procs[p].threads # {t}
                   /\ procs' = [procs EXCEPT ![p].threads = @ \ {t}]
                   /\ stayed' = stayed \ {<<p, t>>}
                   /\ UNCHANGED <<os, born, snap, job, result>>

Exit(p) == /\ p \in Up
           /\ procs' = [procs EXCEPT ![p] = NoProc] /\ stayed' = {s \in stayed : s[1] # p}
           /\ UNCHANGED <<os, born, snap, job, result>>

Next == \/ Capture \/ Query \/ List \/ parse_stat \/ parse_status \/ parse_io
        \/ OpenTask \/ ReadThread \/ CloseTask \/ NoMemory \/ Done
        \/ \E p \in Pid : \/ Exit(p)
                          \/ \E t \in Threads : Spawn(p, t) \/ BeginThread(p, t) \/ EndThread(p, t)

Spec == Init /\ [][Next]_vars

----------------------------------------------------------------------------
(* The readers, between captures. *)

find(p) == IF p \in DOMAIN snap.metrics THEN snap.metrics[p] ELSE Zeroed

thread_count_for(p) == IF p \in DOMAIN snap.index THEN snap.index[p].n ELSE 0

extract_threads(p, max_count) ==
  LET count == Min({thread_count_for(p), max_count})
  IN  IF count = 0 THEN <<>> ELSE SubSeq(snap.buf, snap.index[p].at + 1, snap.index[p].at + count)

----------------------------------------------------------------------------
(* Correctness. *)

\* Whatever became of the last capture, a reader stays inside the buffer, though it was
\* replaced since the index was made.
InsideTheBuffer == \A p \in DOMAIN snap.index : snap.index[p].at + snap.index[p].n <= Len(snap.buf)

\* After a capture that succeeded the threads found for a pid are threads of that pid, each
\* one once, though the buffer was replaced while it was filled.
ThreadsAreItsOwn ==
  \A p \in Pid : \A max_count \in Threads : LET ts == extract_threads(p, max_count) IN
    /\ Len(ts) <= max_count /\ IsInjective(ts) /\ \A i \in DOMAIN ts : ts[i].pid = p /\ ts[i].tid # 0
    /\ os = "windows" => Len(ts) = Min({find(p).threads, max_count})

\* Whatever ran from the beginning of the capture to its end is in it: what the files say of
\* such a process is all its own, and none of its threads is missing.
NobodyIsMissed ==
  \A s \in stayed : LET p == s[1]
                         t == s[2] IN
    IF t = 0 THEN /\ find(p).stat = procs[p].life /\ find(p).status = procs[p].life
                  /\ find(p).io \in {0, procs[p].life}
    ELSE Entry(p, t) \in ToSet(extract_threads(p, thread_count_for(p)))

SnapshotIsSound ==
  job = Idle => InsideTheBuffer /\ (result = "ok" => ThreadsAreItsOwn /\ NobodyIsMissed)
=============================================================================
