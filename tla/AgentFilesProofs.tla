-------------------------- MODULE AgentFilesProofs --------------------------
(***************************************************************************)
(* Theorems of MCAgentFiles, for any executables, processes, rules and      *)
(* sizes of tables, any number of runs of the agent and crashes at any step:*)
(* what memory.toml, policies.toml and overrides.txt keep, and what the     *)
(* agent knows from them.  Each part has an inductive invariant of its own; *)
(* the three are put together at the end.                                   *)
(***************************************************************************)
EXTENDS MCAgentFiles, SequenceTheorems, TLAPS

-----------------------------------------------------------------------------
(* memory.toml.                                                             *)

(* A table as the agent has it: it fits, with one entry for an executable.  *)
Table(t) == t \in Seq(Memory!Entry) /\ Len(t) <= MaxEntries /\ Memory!OneEach(t)

(* What is appended comes last.                                             *)
LEMMA AppendedIsLast ==
  ASSUME NEW S, NEW t \in Seq(S), NEW x \in S
  PROVE  \E j \in DOMAIN Append(t, x) : Append(t, x)[j] = x
PROOF
<1>1. Len(Append(t, x)) = Len(t) + 1 /\ Append(t, x)[Len(t) + 1] = x
  BY AppendProperties
<1>2. Append(t, x) \in Seq(S)
  BY AppendProperties
<1>3. Len(t) + 1 \in DOMAIN Append(t, x)
  BY <1>1, <1>2
<1> QED BY <1>1, <1>3

(* The front of a sequence is all of it but the last.                       *)
LEMMA FrontIsPrefix ==
  ASSUME NEW S, NEW t \in Seq(S), Len(t) # 0
  PROVE  /\ Memory!Front(t) \in Seq(S) /\ Len(Memory!Front(t)) = Len(t) - 1
         /\ \A i \in 1..(Len(t) - 1) : Memory!Front(t)[i] = t[i]
PROOF
<1> DEFINE n == Len(t) - 1
<1>1. n \in Nat /\ \A i \in 1..n : t[i] \in S
  OBVIOUS
<1>2. Memory!Front(t) = SubSeq(t, 1, n)
  BY DEF Memory!Front
<1> HIDE DEF n
<1>3. /\ SubSeq(t, 1, n) \in Seq(S)
      /\ Len(SubSeq(t, 1, n)) = IF 1 <= n THEN n - 1 + 1 ELSE 0
      /\ \A i \in 1..(n - 1 + 1) : SubSeq(t, 1, n)[i] = t[1 + i - 1]
  BY <1>1, SubSeqProperties
<1>4. n - 1 + 1 = n /\ (~(1 <= n) => n = 0) /\ \A i \in 1..n : 1 + i - 1 = i
  BY <1>1
<1>5. /\ Memory!Front(t) \in Seq(S) /\ Len(Memory!Front(t)) = n
      /\ \A i \in 1..n : Memory!Front(t)[i] = t[i]
  BY <1>2, <1>3, <1>4
<1> QED BY <1>5 DEF n

(* The index that is found is that of the one entry for the executable.     *)
LEMMA FoundAt ==
  ASSUME NEW t, NEW e, NEW i \in DOMAIN t, Memory!OneEach(t), t[i].exe = e
  PROVE  Memory!IndexIn(t, e) = i
PROOF BY DEF Memory!IndexIn, Memory!OneEach

(* An index that is found is that of an entry for the executable.           *)
LEMMA FoundIs ==
  ASSUME NEW t, NEW e, Memory!IndexIn(t, e) # 0
  PROVE  Memory!IndexIn(t, e) \in DOMAIN t /\ t[Memory!IndexIn(t, e)].exe = e
PROOF BY DEF Memory!IndexIn

(* An index of 0 says that no entry is for the executable.                  *)
LEMMA NotFound ==
  ASSUME NEW t, NEW e, Memory!IndexIn(t, e) = 0, 0 \notin DOMAIN t
  PROVE  \A i \in DOMAIN t : t[i].exe # e
PROOF BY DEF Memory!IndexIn

(* An upsert keeps a table a table, has the new entry in it unless the      *)
(* table is full, and leaves the entries of other executables where they    *)
(* are.                                                                     *)
LEMMA UpsertKeepsTables ==
  ASSUME NEW t, Table(t), NEW x \in Memory!Entry
  PROVE  /\ Table(Memory!Upsert(t, x))
         /\ Len(Memory!Upsert(t, x)) >= Len(t)
         /\ \/ Len(t) = MaxEntries
            \/ \E i \in DOMAIN Memory!Upsert(t, x) : Memory!Upsert(t, x)[i] = x
         /\ \A i \in DOMAIN t : t[i].exe # x.exe => Memory!Upsert(t, x)[i] = t[i]
PROOF
<1> DEFINE i == Memory!IndexIn(t, x.exe)
<1>1. /\ MaxEntries \in Nat
      /\ t \in Seq(Memory!Entry) /\ Len(t) <= MaxEntries /\ DOMAIN t = 1..Len(t)
  BY AgentFilesAssumption DEF Memory!GameMemoryAssumption, Table
<1>2. CASE i # 0
  <2>1. i \in DOMAIN t /\ t[i].exe = x.exe
    BY <1>2, FoundIs
  <2>2. Memory!Upsert(t, x) = [t EXCEPT ![i] = x]
    BY <1>2 DEF Memory!Upsert
  <2>3. Memory!OneEach([t EXCEPT ![i] = x])
    BY <1>1, <2>1 DEF Memory!OneEach, Table
  <2> QED BY <1>1, <2>1, <2>2, <2>3 DEF Table
<1>3. CASE i = 0 /\ Len(t) < MaxEntries
  <2>1. \A j \in DOMAIN t : t[j].exe # x.exe
    BY <1>1, <1>3, NotFound
  <2>2. Memory!Upsert(t, x) = Append(t, x)
    BY <1>3 DEF Memory!Upsert
  <2>3. Memory!OneEach(Append(t, x))
    BY <1>1, <2>1 DEF Memory!OneEach, Table
  <2>4. /\ Append(t, x) \in Seq(Memory!Entry) /\ Len(Append(t, x)) = Len(t) + 1
        /\ \A j \in DOMAIN t : Append(t, x)[j] = t[j]
    BY <1>1
  <2>5. \E j \in DOMAIN Append(t, x) : Append(t, x)[j] = x
    BY <1>1, AppendedIsLast
  <2>6. Table(Append(t, x))
    BY <1>1, <1>3, <2>3, <2>4 DEF Table
  <2>7. Len(Append(t, x)) >= Len(t)
    BY <1>1
  <2> HIDE DEF i
  <2> QED BY <2>2, <2>4, <2>5, <2>6, <2>7 DEF Table
<1>4. CASE i = 0 /\ ~(Len(t) < MaxEntries)
  BY <1>1, <1>4 DEF Memory!Upsert, Table
<1> QED BY <1>2, <1>3, <1>4

(* A table read from a saved file is a table: the last entry, whatever        *)
(* executable it is given, replaces one or comes last.                        *)
LEMMA ReadIsATable ==
  ASSUME NEW f \in Memory!File
  PROVE  Table(Memory!ReadLearned(f))
PROOF
<1> DEFINE t == f.learned
<1>1. /\ MaxEntries \in Nat \ {0}
      /\ t \in Seq(Memory!Entry) /\ Len(t) <= MaxEntries /\ Memory!OneEach(t)
      /\ f.bad \in Seq(Exe)
  BY AgentFilesAssumption DEF Memory!GameMemoryAssumption, Memory!File
<1>2. CASE t = <<>>
  BY <1>1, <1>2 DEF Memory!ReadLearned, Table, Memory!OneEach
<1>3. CASE t # <<>>
  <2> DEFINE x == IF f.bad = <<>> THEN Memory!Last(t) ELSE [Memory!Last(t) EXCEPT !.exe = Memory!Last(f.bad)]
  <2>1. Len(t) \in Nat \ {0} /\ Memory!Last(t) = t[Len(t)] /\ t[Len(t)] \in Memory!Entry
    BY <1>1, <1>3 DEF Memory!Last
  <2>2. x \in Memory!Entry
    <3>1. CASE f.bad = <<>>
      BY <2>1, <3>1
    <3>2. CASE f.bad # <<>>
      <4>1. Memory!Last(f.bad) \in Exe
        BY <1>1, <3>2 DEF Memory!Last
      <4> QED BY <2>1, <3>2, <4>1 DEF Memory!Entry
    <3> QED BY <3>1, <3>2
  <2>3. Table(Memory!Front(t))
    <3>1. /\ Memory!Front(t) \in Seq(Memory!Entry) /\ Len(Memory!Front(t)) = Len(t) - 1
          /\ \A i \in 1..(Len(t) - 1) : Memory!Front(t)[i] = t[i]
      BY <1>1, <2>1, FrontIsPrefix
    <3>2. Len(Memory!Front(t)) <= MaxEntries
      BY <1>1, <2>1, <3>1
    <3>3. DOMAIN Memory!Front(t) = 1..(Len(t) - 1) /\ DOMAIN t = 1..Len(t)
      BY <1>1, <2>1, <3>1
    <3>4. \A i \in 1..(Len(t) - 1) : i \in 1..Len(t)
      BY <2>1
    <3>5. Memory!OneEach(Memory!Front(t))
      BY <1>1, <3>1, <3>3, <3>4 DEF Memory!OneEach
    <3> QED BY <3>1, <3>2, <3>5 DEF Table
  <2>4. Memory!ReadLearned(f) = Memory!Upsert(Memory!Front(t), x)
    BY <1>3 DEF Memory!ReadLearned
  <2> QED BY <2>2, <2>3, <2>4, UpsertKeepsTables
<1> QED BY <1>2, <1>3

(* Expiry changes no executable: what it makes of a table is one.           *)
LEMMA ExpiredIsATable ==
  ASSUME NEW t, Table(t), NEW old
  PROVE  Table(Memory!Expire(t, old))
PROOF
<1>1. t \in Seq(Memory!Entry) /\ DOMAIN t = 1..Len(t) /\ Len(t) \in Nat
  BY DEF Table
<1>2. \A i \in DOMAIN t : /\ Memory!Expire(t, old)[i] \in Memory!Entry
                          /\ Memory!Expire(t, old)[i].exe = t[i].exe
  <2> SUFFICES ASSUME NEW i \in DOMAIN t
               PROVE  /\ Memory!Expire(t, old)[i] \in Memory!Entry
                      /\ Memory!Expire(t, old)[i].exe = t[i].exe
    OBVIOUS
  <2>1. t[i] \in Memory!Entry
    BY <1>1
  <2>2. Memory!Expire(t, old)[i] \in {t[i], [t[i] EXCEPT !.best = FALSE]}
    BY <1>1 DEF Memory!Expire
  <2> QED BY <2>1, <2>2 DEF Memory!Entry
<1>3. DOMAIN Memory!Expire(t, old) = 1..Len(t)
  BY <1>1 DEF Memory!Expire
<1>4. Memory!Expire(t, old) = [i \in 1..Len(t) |-> Memory!Expire(t, old)[i]]
  BY <1>1, <1>3 DEF Memory!Expire
<1>5. Memory!Expire(t, old) \in Seq(Memory!Entry) /\ Len(Memory!Expire(t, old)) = Len(t)
  BY <1>1, <1>2, <1>3, <1>4
<1> QED BY <1>1, <1>2, <1>3, <1>5 DEF Table, Memory!OneEach

(* The blacklist read from a saved file fits.                               *)
LEMMA BadListFits ==
  ASSUME NEW f \in Memory!File
  PROVE  Memory!ReadBad(f) \in Seq(Exe) /\ Len(Memory!ReadBad(f)) <= MaxBad
PROOF BY DEF Memory!ReadBad, Memory!File

(* The label of an executable is that of its one entry.                       *)
LEMMA LabelIs ==
  ASSUME Table(learned), NEW e, NEW i \in DOMAIN learned, learned[i].exe = e
  PROVE  Memory!Label(e) = learned[i].label
PROOF
<1>1. Memory!IndexIn(learned, e) = i
  BY FoundAt DEF Table
<1>2. i # 0
  BY DEF Table
<1> QED BY <1>1, <1>2 DEF Memory!Label, Memory!Index

(* While no failure is counted memory.toml is whole, or its backup, from the  *)
(* rename that makes it one.  After one failure the backup is, outside of a    *)
(* save; within one, the file or the backup if the new file was cut short.    *)
Exchange == {"delete", "backup", "replace", "restore"}
Away == {"replace", "restore"}

DiskInv ==
  /\ cut = 0 /\ agent \notin Away => Memory!Whole(file)
  /\ cut = 0 /\ agent \in Away => Memory!Whole(bak)
  /\ cut = 0 /\ agent \in Exchange => Memory!Whole(tmp)
  /\ cut = 1 /\ agent \notin Exchange => Memory!Whole(bak)
  /\ cut = 1 /\ agent \in Exchange \ Away /\ ~Memory!Whole(tmp) => Memory!Whole(file)
  /\ cut = 1 /\ agent \in Away /\ ~Memory!Whole(tmp) => Memory!Whole(bak)
  /\ agent \in Exchange => tmp # None

(* What this run probed has a label, unless the table is full.              *)
ProbedInv ==
  agent # "off" =>
    \A e \in Exe : probed[e] > 0 => Memory!Label(e) # "unknown" \/ Len(learned) = MaxEntries

(* What the guard reverted in this run is on the blacklist, unless that is  *)
(* full.                                                                    *)
HurtInv == agent # "off" => \A e \in hurt : Memory!IsBad(e) \/ Len(bad) = MaxBad

MemoryInv == Memory!TypeOK /\ DiskInv /\ ProbedInv /\ HurtInv

(* The memory begins in its invariant.                                      *)
LEMMA MemoryStarts == Memory!Init => MemoryInv
PROOF
<1> SUFFICES ASSUME Memory!Init PROVE MemoryInv
  OBVIOUS
<1>1. Memory!TypeOK
  BY AgentFilesAssumption
  DEF Memory!Init, Memory!TypeOK, Memory!GameMemoryAssumption, Memory!OneEach, Memory!Saving
<1>2. DiskInv
  BY AgentFilesAssumption
  DEF Memory!Init, DiskInv, Memory!GameMemoryAssumption, Memory!Whole, Exchange, Away
<1> QED BY <1>1, <1>2 DEF Memory!Init, MemoryInv, ProbedInv, HurtInv

(* The same of the table after a step.                                      *)
LEMMA LabelIsThen ==
  ASSUME Table(learned'), NEW e, NEW i \in DOMAIN learned', learned'[i].exe = e
  PROVE  Memory!Label(e)' = learned'[i].label
PROOF
<1>1. Memory!IndexIn(learned', e) = i
  BY FoundAt DEF Table
<1>2. i # 0
  BY DEF Table
<1> QED BY <1>1, <1>2 DEF Memory!Label, Memory!Index

(* The guard knows the process it looks at.                                    *)
LEMMA WatchedIsMonitored ==
  ASSUME NEW q \in Memory!Watched, monitors \in Seq(Memory!MonitorEntry)
  PROVE  Memory!Monitor(q) \in DOMAIN monitors /\ monitors[Memory!Monitor(q)].pid = q
PROOF
<1>1. PICK m \in Memory!ToSet(monitors) : m.pid = q
  BY DEF Memory!Watched
<1>2. \E i \in DOMAIN monitors : monitors[i].pid = q
  BY <1>1 DEF Memory!ToSet
<1> QED BY <1>2 DEF Memory!Monitor

(* Ending the watch of a process keeps the monitors what they are.          *)
LEMMA MonitorKept ==
  ASSUME monitors \in Seq(Memory!MonitorEntry), NEW i \in DOMAIN monitors
  PROVE  /\ [monitors EXCEPT ![i].active = FALSE] \in Seq(Memory!MonitorEntry)
         /\ Len([monitors EXCEPT ![i].active = FALSE]) = Len(monitors)
PROOF
<1>1. monitors[i] \in Memory!MonitorEntry
  OBVIOUS
<1>2. [monitors[i] EXCEPT !.active = FALSE] \in Memory!MonitorEntry
  BY <1>1 DEF Memory!MonitorEntry
<1> QED BY <1>2

(* A placement keeps the types of the rows, the monitors and the history.   *)
LEMMA PlacedKeepsTypes ==
  ASSUME Memory!TypeOK, NEW q \in Pid, proc[q] # None, Memory!Placed(q)
  PROVE  /\ row' \subseteq Pid /\ calm' \subseteq Pid
         /\ monitors' \in Seq(Memory!MonitorEntry) /\ Len(monitors') <= MaxMonitored
PROOF
<1> USE AgentFilesAssumption DEF Memory!GameMemoryAssumption
<1> DEFINE m == [pid |-> q, exe |-> proc[q], base |-> rough[q], left |-> Window,
                 since |-> 0, active |-> TRUE]
<1>1. m \in Memory!MonitorEntry
  BY DEF Memory!TypeOK, Memory!MonitorEntry
<1>2. /\ monitors \in Seq(Memory!MonitorEntry) /\ Len(monitors) <= MaxMonitored
      /\ Memory!Monitor(q) # 0 => Memory!Monitor(q) \in DOMAIN monitors
  BY DEF Memory!TypeOK, Memory!Monitor
<1>3. monitors' = IF Memory!Monitor(q) # 0 THEN [monitors EXCEPT ![Memory!Monitor(q)] = m]
                  ELSE IF Len(monitors) < MaxMonitored THEN Append(monitors, m)
                  ELSE monitors
  BY DEF Memory!Placed, Memory!Watch
<1>4. monitors' \in Seq(Memory!MonitorEntry) /\ Len(monitors') <= MaxMonitored
  <2> HIDE DEF m
  <2> QED BY <1>1, <1>2, <1>3
<1>5. row' \subseteq Pid /\ calm' \subseteq Pid
  BY DEF Memory!TypeOK, Memory!Placed
<1> QED BY <1>4, <1>5

(* Stamping a label keeps a table a table, gives the executable an entry with  *)
(* that label unless the table is full, and leaves the other entries.          *)
LEMMA LabelStamped ==
  ASSUME Table(learned), NEW e \in Exe, NEW label \in {"allowed", "blocked"}
  PROVE  /\ Table(Memory!SetLabel(e, label))
         /\ Len(Memory!SetLabel(e, label)) >= Len(learned)
         /\ \/ Len(learned) = MaxEntries
            \/ \E i \in DOMAIN Memory!SetLabel(e, label) :
                 /\ Memory!SetLabel(e, label)[i].exe = e
                 /\ Memory!SetLabel(e, label)[i].label = label
         /\ \A i \in DOMAIN learned :
              learned[i].exe # e => Memory!SetLabel(e, label)[i] = learned[i]
PROOF
<1>1. CASE Memory!Index(e) # 0
  <2> DEFINE i == Memory!Index(e)
             x == [learned[i] EXCEPT !.label = label]
  <2>1. i \in DOMAIN learned /\ learned[i].exe = e
    BY <1>1, FoundIs DEF Memory!Index
  <2>2. x \in Memory!Entry /\ x.exe = e /\ x.label = label
    <3>1. learned[i] \in Memory!Entry
      BY <2>1 DEF Table
    <3> QED BY <2>1, <3>1 DEF Memory!Entry
  <2>3. Memory!Index(x.exe) = i
    BY <2>2
  <2>4. Memory!SetLabel(e, label) = Memory!Upsert(learned, x)
    BY <1>1, <2>3 DEF Memory!SetLabel, Memory!Upsert, Memory!Index
  <2> HIDE DEF x
  <2>5. /\ Table(Memory!Upsert(learned, x))
        /\ Len(Memory!Upsert(learned, x)) >= Len(learned)
        /\ \/ Len(learned) = MaxEntries
           \/ \E j \in DOMAIN Memory!Upsert(learned, x) : Memory!Upsert(learned, x)[j] = x
        /\ \A j \in DOMAIN learned : learned[j].exe # x.exe => Memory!Upsert(learned, x)[j] = learned[j]
    BY <2>2, UpsertKeepsTables
  <2> QED BY <2>2, <2>4, <2>5
<1>2. CASE Memory!Index(e) = 0
  <2> DEFINE x == Memory!NewEntry(e, label)
  <2>1. x \in Memory!Entry /\ x.exe = e /\ x.label = label
    BY DEF Memory!NewEntry, Memory!Entry
  <2>2. Memory!SetLabel(e, label) = Memory!Upsert(learned, x)
    BY <1>2 DEF Memory!SetLabel
  <2> HIDE DEF x
  <2>3. /\ Table(Memory!Upsert(learned, x))
        /\ Len(Memory!Upsert(learned, x)) >= Len(learned)
        /\ \/ Len(learned) = MaxEntries
           \/ \E j \in DOMAIN Memory!Upsert(learned, x) : Memory!Upsert(learned, x)[j] = x
        /\ \A j \in DOMAIN learned : learned[j].exe # x.exe => Memory!Upsert(learned, x)[j] = learned[j]
    BY <2>1, UpsertKeepsTables
  <2> QED BY <2>1, <2>2, <2>3
<1> QED BY <1>1, <1>2

(* What the command line writes when it clears the blacklist is a file that *)
(* a save could have written.                                               *)
LEMMA ClearedIsAFile ==
  ASSUME Memory!TypeOK, Memory!ClearBad
  PROVE  file' \in Memory!File /\ Memory!Whole(file')
PROOF
<1> USE AgentFilesAssumption DEF Memory!GameMemoryAssumption
<1> DEFINE t == IF file = None THEN <<>> ELSE Memory!ReadLearned(file)
<1>1. t \in Seq(Memory!Entry) /\ Len(t) <= MaxEntries /\ Memory!OneEach(t)
  <2>1. CASE file = None
    BY <2>1 DEF Memory!OneEach
  <2>2. CASE file # None
    BY <2>2, ReadIsATable DEF Memory!TypeOK, Table
  <2> QED BY <2>1, <2>2
<1>2. file' = [learned |-> t, bad |-> <<>>, whole |-> TRUE]
  BY DEF Memory!ClearBad
<1> HIDE DEF t
<1>3. file' \in Memory!File
  BY <1>1, <1>2 DEF Memory!File
<1> QED BY <1>2, <1>3 DEF Memory!Whole

(* What the agent knows, and any prefix of it, is a file.                   *)
LEMMA WrittenIsAFile ==
  ASSUME Memory!TypeOK
  PROVE  /\ Memory!Image \in Memory!File /\ Memory!Whole(Memory!Image)
         /\ \A f \in Memory!Torn : f \in Memory!File /\ ~Memory!Whole(f)
PROOF
<1> USE AgentFilesAssumption DEF Memory!GameMemoryAssumption
<1>1. /\ learned \in Seq(Memory!Entry) /\ Len(learned) <= MaxEntries /\ Memory!OneEach(learned)
      /\ bad \in Seq(Exe) /\ Len(bad) <= MaxBad
  BY DEF Memory!TypeOK
<1>2. Memory!Image \in Memory!File
  BY <1>1 DEF Memory!Image, Memory!File
<1>3. Memory!Whole(Memory!Image)
  BY <1>2 DEF Memory!Whole, Memory!Image
<1>4. ASSUME NEW f \in Memory!Torn PROVE f \in Memory!File /\ ~Memory!Whole(f)
  <2>1. PICK i \in 0..Len(learned), j \in 0..Len(bad) :
          f = [learned |-> SubSeq(learned, 1, i), bad |-> SubSeq(bad, 1, j), whole |-> FALSE]
    BY <1>4 DEF Memory!Torn, Memory!Short
  <2> DEFINE t == SubSeq(learned, 1, i)
             b == SubSeq(bad, 1, j)
  <2>2. i \in Nat /\ j \in Nat /\ i <= Len(learned) /\ j <= Len(bad) /\ Len(learned) \in Nat /\ Len(bad) \in Nat
    BY <1>1
  <2>3. t \in Seq(Memory!Entry) /\ Len(t) = i /\ \A k \in 1..i : t[k] = learned[k]
    BY <1>1, <2>2
  <2>4. b \in Seq(Exe) /\ Len(b) = j
    BY <1>1, <2>2
  <2>5. Memory!OneEach(t)
    BY <1>1, <2>2, <2>3 DEF Memory!OneEach
  <2> HIDE DEF t, b
  <2>6. f = [learned |-> t, bad |-> b, whole |-> FALSE]
    BY <2>1 DEF t, b
  <2>7. Len(t) <= MaxEntries /\ Len(b) <= MaxBad
    BY <1>1, <2>2, <2>3, <2>4
  <2>8. f \in Memory!File
    BY <2>3, <2>4, <2>5, <2>6, <2>7 DEF Memory!File
  <2>9. ~f.whole
    BY <2>6
  <2> QED BY <2>8, <2>9 DEF Memory!Whole
<1> QED BY <1>2, <1>3, <1>4

(* Every step of the memory keeps its types.                                *)
LEMMA MemoryKeepsType ==
  ASSUME Memory!TypeOK, DiskInv, Memory!Next
  PROVE  Memory!TypeOK'
PROOF
<1> USE AgentFilesAssumption DEF Memory!GameMemoryAssumption
<1> USE DEF Memory!disk, Memory!memory, Memory!procs, Memory!history, Memory!Saving
<1>1. ASSUME NEW q \in Pid,
             Memory!Exit(q) \/ Memory!FrameTimes(q) \/ \E e \in Exe : Memory!Launch(q, e)
      PROVE  Memory!TypeOK'
  <2>1. CASE Memory!Exit(q)
    BY <2>1 DEF Memory!TypeOK, Memory!Exit
  <2>2. CASE Memory!FrameTimes(q)
    BY <2>2 DEF Memory!TypeOK, Memory!FrameTimes
  <2>3. ASSUME NEW e \in Exe, Memory!Launch(q, e)
        PROVE  Memory!TypeOK'
    BY <2>3 DEF Memory!TypeOK, Memory!Launch
  <2> QED BY <1>1, <2>1, <2>2, <2>3
<1>2. ASSUME NEW old \in SUBSET (1..MaxEntries), Memory!Start(old)
      PROVE  Memory!TypeOK'
  <2>1. learned' \in Seq(Memory!Entry) /\ Len(learned') <= MaxEntries /\ Memory!OneEach(learned')
    <3>1. CASE file = None
      BY <1>2, <3>1 DEF Memory!Start, Memory!OneEach
    <3>2. CASE file # None
      BY <1>2, <3>2, ReadIsATable, ExpiredIsATable DEF Memory!TypeOK, Memory!Start, Table
    <3> QED BY <3>1, <3>2
  <2>2. bad' \in Seq(Exe) /\ Len(bad') <= MaxBad
    <3>1. CASE file = None
      BY <1>2, <3>1 DEF Memory!Start
    <3>2. CASE file # None
      BY <1>2, <3>2, BadListFits DEF Memory!TypeOK, Memory!Start
    <3> QED BY <3>1, <3>2
  <2>3. probed' \in [Exe -> 0..2] /\ before' \subseteq Exe /\ hurt' = {}
    BY <1>2 DEF Memory!TypeOK, Memory!Start
  <2>4. monitors' = <<>> /\ agent' = "idle" /\ lives' \in 0..MaxLives
    BY <1>2 DEF Memory!TypeOK, Memory!Start
  <2> QED BY <1>2, <2>1, <2>2, <2>3, <2>4 DEF Memory!TypeOK, Memory!Start
<1>3. CASE Memory!Stop \/ Memory!BeginDecide \/ Memory!EndTick
  BY <1>3 DEF Memory!TypeOK, Memory!Stop, Memory!BeginDecide, Memory!EndTick, Memory!Live
<1>4. CASE Memory!Crash
  <2>1. cut' \in 0..2
    BY <1>4 DEF Memory!TypeOK, Memory!Crash, Memory!CutOnce, Memory!Another
  <2> QED BY <1>4, <2>1 DEF Memory!TypeOK, Memory!Crash, Memory!OneEach
<1>5. CASE Memory!SaveOpen \/ Memory!SaveRefused
  <2>1. CASE Memory!SaveOpen
    <3>1. [learned |-> <<>>, bad |-> <<>>, whole |-> FALSE] \in Memory!File
      BY DEF Memory!File, Memory!OneEach
    <3> QED BY <2>1, <3>1 DEF Memory!TypeOK, Memory!SaveOpen
  <2>2. CASE Memory!SaveRefused
    BY <2>2 DEF Memory!TypeOK, Memory!SaveRefused, Memory!OneEach
  <2> QED BY <1>5, <2>1, <2>2
<1>6. CASE Memory!SaveWrite
  <2>1. tmp' \in Memory!File
    BY <1>6, WrittenIsAFile DEF Memory!SaveWrite
  <2>2. cut' \in 0..2
    BY <1>6 DEF Memory!TypeOK, Memory!SaveWrite, Memory!Another
  <2> QED BY <1>6, <2>1, <2>2 DEF Memory!TypeOK, Memory!SaveWrite
<1>7. ASSUME NEW ok \in BOOLEAN,
             Memory!DeleteBackup(ok) \/ Memory!SaveBackup(ok) \/ Memory!SaveReplace(ok) \/ Memory!Restore(ok)
      PROVE  Memory!TypeOK'
  <2>1. CASE Memory!DeleteBackup(ok)
    BY <2>1 DEF Memory!TypeOK, Memory!DeleteBackup
  <2>2. CASE Memory!SaveBackup(ok)
    <3>1. cut' \in 0..2
      BY <2>2 DEF Memory!TypeOK, Memory!SaveBackup, Memory!Another
    <3> QED BY <2>2, <3>1 DEF Memory!TypeOK, Memory!SaveBackup
  <2>3. CASE Memory!SaveReplace(ok) /\ ok
    <3>1. cut' \in 0..2
      BY <2>3 DEF Memory!TypeOK, Memory!SaveReplace, Memory!Over, Memory!CutOnce, Memory!Another
    <3> QED BY <2>3, <3>1 DEF Memory!TypeOK, Memory!SaveReplace, Memory!Over, Memory!OneEach
  <2>4. CASE Memory!SaveReplace(ok) /\ ~ok
    BY <2>4 DEF Memory!TypeOK, Memory!SaveReplace
  <2>5. CASE Memory!Restore(ok)
    <3>1. cut' \in 0..2
      BY <2>5 DEF Memory!TypeOK, Memory!Restore, Memory!Over, Memory!CutOnce, Memory!Another
    <3> QED BY <2>5, <3>1 DEF Memory!TypeOK, Memory!Restore, Memory!Over, Memory!OneEach
  <2> QED BY <1>7, <2>1, <2>2, <2>3, <2>4, <2>5
<1>8. CASE Memory!ClearBad
  <2>1. file' \in Memory!File
    BY <1>8, ClearedIsAFile
  <2> QED BY <1>8, <2>1 DEF Memory!TypeOK, Memory!ClearBad
<1>9. CASE Memory!BeginTick
  <2> DEFINE aged == [i \in DOMAIN monitors |-> Memory!Aged(monitors[i])]
  <2>1. monitors \in Seq(Memory!MonitorEntry)
    BY DEF Memory!TypeOK
  <2>2. \A m \in Memory!MonitorEntry : Memory!Aged(m) \in Memory!MonitorEntry
    <3> SUFFICES ASSUME NEW m \in Memory!MonitorEntry
                 PROVE  Memory!Aged(m) \in Memory!MonitorEntry
      OBVIOUS
    <3>1. m.left \in 0..Window /\ m.since \in 0..CheckEvery
      BY DEF Memory!MonitorEntry
    <3>2. /\ (IF m.left = 0 THEN 0 ELSE m.left - 1) \in 0..Window
          /\ (IF m.since = CheckEvery THEN m.since ELSE m.since + 1) \in 0..CheckEvery
      BY <3>1
    <3> QED BY <3>2 DEF Memory!MonitorEntry, Memory!Aged
  <2>3. aged \in Seq(Memory!MonitorEntry) /\ Len(aged) = Len(monitors)
    BY <2>1, <2>2
  <2> QED BY <1>9, <2>3 DEF Memory!TypeOK, Memory!BeginTick, Memory!Live
<1>10. ASSUME NEW q \in Pid, Memory!GuardSkips(q) \/ Memory!NoDecision(q)
       PROVE  Memory!TypeOK'
  BY <1>10 DEF Memory!TypeOK, Memory!GuardSkips, Memory!NoDecision
<1>11. ASSUME NEW q \in Pid, Memory!GuardEnds(q)
       PROVE  Memory!TypeOK'
  <2>1. monitors \in Seq(Memory!MonitorEntry) /\ Memory!Monitor(q) \in DOMAIN monitors
    BY <1>11, WatchedIsMonitored DEF Memory!TypeOK, Memory!GuardEnds
  <2>2. monitors' \in Seq(Memory!MonitorEntry) /\ Len(monitors') = Len(monitors)
    BY <1>11, <2>1, MonitorKept DEF Memory!GuardEnds
  <2> QED BY <1>11, <2>2 DEF Memory!TypeOK, Memory!GuardEnds
<1>12. ASSUME NEW q \in Pid, Memory!GuardChecks(q)
       PROVE  Memory!TypeOK'
  <2>1. /\ monitors \in Seq(Memory!MonitorEntry) /\ Memory!Monitor(q) \in DOMAIN monitors
        /\ monitors[Memory!Monitor(q)] \in Memory!MonitorEntry
    BY <1>12, WatchedIsMonitored DEF Memory!TypeOK, Memory!GuardChecks
  <2>2. monitors' \in Seq(Memory!MonitorEntry) /\ Len(monitors') = Len(monitors)
    <3> DEFINE n == monitors[Memory!Monitor(q)]
    <3>1. n \in Memory!MonitorEntry /\ 0 \in 0..CheckEvery /\ (~Memory!Worse(q)) \in BOOLEAN
      BY <2>1
    <3>2. [n EXCEPT !.since = 0, !.active = ~Memory!Worse(q)] \in Memory!MonitorEntry
      BY <3>1 DEF Memory!MonitorEntry
    <3>3. monitors' = [monitors EXCEPT ![Memory!Monitor(q)] =
                         [n EXCEPT !.since = 0, !.active = ~Memory!Worse(q)]]
      BY <1>12 DEF Memory!GuardChecks
    <3> QED BY <2>1, <3>2, <3>3
  <2>3. monitors[Memory!Monitor(q)].exe \in Exe
    BY <2>1 DEF Memory!MonitorEntry
  <2>4. bad' \in Seq(Exe) /\ Len(bad') <= MaxBad
    BY <1>12, <2>3 DEF Memory!TypeOK, Memory!GuardChecks, Memory!MarkBad
  <2>5. hurt' \subseteq Exe /\ row' \subseteq Pid
    BY <1>12, <2>3 DEF Memory!TypeOK, Memory!GuardChecks
  <2> QED BY <1>12, <2>2, <2>4, <2>5 DEF Memory!TypeOK, Memory!GuardChecks
<1>13. ASSUME NEW q \in Pid, Memory!DecideLabelled(q)
       PROVE  Memory!TypeOK'
  <2>1. /\ row' \subseteq Pid /\ calm' \subseteq Pid
        /\ monitors' \in Seq(Memory!MonitorEntry) /\ Len(monitors') <= MaxMonitored
    BY <1>13, PlacedKeepsTypes DEF Memory!DecideLabelled
  <2> QED BY <1>13, <2>1 DEF Memory!TypeOK, Memory!DecideLabelled
<1>14. ASSUME NEW q \in Pid, NEW label \in {"allowed", "blocked"}, Memory!Probe(q, label)
       PROVE  Memory!TypeOK'
  <2>1. /\ row' \subseteq Pid /\ calm' \subseteq Pid
        /\ monitors' \in Seq(Memory!MonitorEntry) /\ Len(monitors') <= MaxMonitored
    <3>1. CASE label = "allowed"
      BY <1>14, <3>1, PlacedKeepsTypes DEF Memory!Probe
    <3>2. CASE label # "allowed"
      BY <1>14, <3>2 DEF Memory!Probe, Memory!TypeOK
    <3> QED BY <3>1, <3>2
  <2>2. proc[q] \in Exe
    BY <1>14 DEF Memory!Probe, Memory!TypeOK
  <2>3. Table(learned')
    BY <1>14, <2>2, LabelStamped DEF Memory!Probe, Memory!TypeOK, Table
  <2>4. probed' \in [Exe -> 0..2]
    BY <1>14, <2>2 DEF Memory!Probe, Memory!TypeOK
  <2> QED BY <1>14, <2>1, <2>3, <2>4 DEF Memory!TypeOK, Memory!Probe, Table
<1> QED
  BY <1>1, <1>2, <1>3, <1>4, <1>5, <1>6, <1>7, <1>8, <1>9, <1>10, <1>11, <1>12, <1>13, <1>14
  DEF Memory!Next, Memory!Tick, Memory!Save

(* Only a save, a crash and the command line write the files.                  *)
LEMMA DiskStays ==
  ASSUME Memory!TypeOK, DiskInv, Memory!Next
  PROVE  DiskInv'
PROOF
<1> USE AgentFilesAssumption DEF Memory!GameMemoryAssumption
<1> USE DEF Memory!disk, DiskInv, Exchange, Away, Memory!Saving
<1>0. /\ cut \in 0..2 /\ agent \in {"off", "idle", "guard", "decide"} \cup Memory!Saving
      /\ \A f \in {file, bak, tmp} : f = None => ~Memory!Whole(f)
  BY DEF Memory!TypeOK, Memory!Whole
<1>1. CASE Memory!Crash
  BY <1>0, <1>1 DEF Memory!Crash, Memory!CutOnce, Memory!Another
<1>2. CASE Memory!SaveOpen \/ Memory!SaveRefused
  BY <1>0, <1>2 DEF Memory!SaveOpen, Memory!SaveRefused
<1>3. CASE Memory!SaveWrite
  <2>1. CASE tmp' = Memory!Image /\ UNCHANGED cut
    BY <1>0, <1>3, <2>1, WrittenIsAFile DEF Memory!SaveWrite, Memory!Whole
  <2>2. CASE tmp' \in Memory!Torn /\ cut' = Memory!Another
    BY <1>0, <1>3, <2>2, WrittenIsAFile DEF Memory!SaveWrite, Memory!Another
  <2> QED BY <1>3, <2>1, <2>2 DEF Memory!SaveWrite
<1>4. ASSUME NEW ok \in BOOLEAN,
             Memory!DeleteBackup(ok) \/ Memory!SaveBackup(ok) \/ Memory!SaveReplace(ok) \/ Memory!Restore(ok)
      PROVE  DiskInv'
  <2>1. CASE Memory!DeleteBackup(ok)
    BY <1>0, <2>1 DEF Memory!DeleteBackup
  <2>2. CASE Memory!SaveBackup(ok)
    BY <1>0, <2>2 DEF Memory!SaveBackup, Memory!Another
  <2>3. CASE Memory!SaveReplace(ok)
    BY <1>0, <2>3 DEF Memory!SaveReplace, Memory!Over, Memory!CutOnce, Memory!Another
  <2>4. CASE Memory!Restore(ok)
    BY <1>0, <2>4 DEF Memory!Restore, Memory!Over, Memory!CutOnce, Memory!Another
  <2> QED BY <1>4, <2>1, <2>2, <2>3, <2>4
<1>5. CASE Memory!ClearBad
  BY <1>5, ClearedIsAFile DEF Memory!ClearBad
<1>6. ASSUME UNCHANGED Memory!disk, agent' \notin Exchange, agent \notin Exchange
      PROVE  DiskInv'
  BY <1>6
<1>7. ASSUME NEW q \in Pid,
             Memory!Exit(q) \/ Memory!FrameTimes(q) \/ \E e \in Exe : Memory!Launch(q, e)
      PROVE  DiskInv'
  BY <1>7 DEF Memory!Exit, Memory!FrameTimes, Memory!Launch
<1>8. ASSUME NEW old, Memory!Start(old)
      PROVE  DiskInv'
  BY <1>6, <1>8 DEF Memory!Start
<1>9. CASE Memory!Stop
  BY <1>6, <1>9 DEF Memory!Stop
<1>10. CASE Memory!Tick
  BY <1>10 DEF Memory!Tick, Memory!BeginTick, Memory!BeginDecide, Memory!EndTick,
     Memory!GuardSkips, Memory!GuardEnds, Memory!GuardChecks, Memory!NoDecision,
     Memory!DecideLabelled, Memory!Probe
<1> QED
  BY <1>1, <1>2, <1>3, <1>4, <1>5, <1>7, <1>8, <1>9, <1>10 DEF Memory!Next, Memory!Save

(* What is said of the table and of the blacklist stands while neither changes *)
(* and nobody is added to those it is said of.                                 *)
LEMMA KnowledgeStands ==
  ASSUME ProbedInv, HurtInv, UNCHANGED <<learned, bad, probed, hurt>>,
         agent' # "off" => agent # "off"
  PROVE  ProbedInv' /\ HurtInv'
PROOF BY DEF ProbedInv, HurtInv, Memory!Label, Memory!Index, Memory!IsBad

(* A probe labels its executable and a revert blacklists it, so that what   *)
(* was probed or hurt stays known, as far as the tables have room.          *)
LEMMA MemoryKeepsKnowledge ==
  ASSUME MemoryInv, Memory!Next
  PROVE  ProbedInv' /\ HurtInv'
PROOF
<1> USE AgentFilesAssumption DEF Memory!GameMemoryAssumption
<1> USE DEF Memory!disk, Memory!memory, Memory!procs, Memory!history
<1>1. ASSUME NEW q \in Pid,
             Memory!Exit(q) \/ Memory!FrameTimes(q) \/ \E e \in Exe : Memory!Launch(q, e)
      PROVE  ProbedInv' /\ HurtInv'
  BY <1>1, KnowledgeStands DEF MemoryInv, Memory!Exit, Memory!FrameTimes, Memory!Launch
<1>2. ASSUME NEW old, Memory!Start(old)
      PROVE  ProbedInv' /\ HurtInv'
  <2>1. \A e \in Exe : probed'[e] = 0
    BY <1>2 DEF Memory!Start
  <2>2. hurt' = {}
    BY <1>2 DEF Memory!Start
  <2> QED BY <2>1, <2>2 DEF ProbedInv, HurtInv
<1>3. CASE Memory!Stop \/ Memory!BeginTick \/ Memory!BeginDecide \/ Memory!EndTick
  BY <1>3, KnowledgeStands
  DEF MemoryInv, Memory!Stop, Memory!BeginTick, Memory!BeginDecide, Memory!EndTick
<1>4. CASE Memory!Crash
  BY <1>4 DEF Memory!Crash, ProbedInv, HurtInv
<1>5. ASSUME NEW ok \in BOOLEAN,
             Memory!SaveOpen \/ Memory!SaveWrite \/ Memory!DeleteBackup(ok) \/ Memory!SaveBackup(ok)
             \/ (Memory!SaveReplace(ok) /\ ~ok)
      PROVE  ProbedInv' /\ HurtInv'
  BY <1>5, KnowledgeStands
  DEF MemoryInv, Memory!SaveOpen, Memory!SaveWrite, Memory!DeleteBackup, Memory!SaveBackup, Memory!SaveReplace
<1>6. ASSUME NEW ok \in BOOLEAN,
             Memory!SaveRefused \/ (Memory!SaveReplace(ok) /\ ok) \/ Memory!Restore(ok)
      PROVE  ProbedInv' /\ HurtInv'
  BY <1>6 DEF Memory!SaveRefused, Memory!SaveReplace, Memory!Restore, Memory!Over, ProbedInv, HurtInv
<1>7. CASE Memory!ClearBad
  BY <1>7, KnowledgeStands DEF MemoryInv, Memory!ClearBad
<1>8. ASSUME NEW q \in Pid, Memory!GuardSkips(q) \/ Memory!GuardEnds(q) \/ Memory!NoDecision(q)
             \/ Memory!DecideLabelled(q)
      PROVE  ProbedInv' /\ HurtInv'
  BY <1>8, KnowledgeStands
  DEF MemoryInv, Memory!GuardSkips, Memory!GuardEnds, Memory!NoDecision, Memory!DecideLabelled
<1>9. ASSUME NEW q \in Pid, Memory!GuardChecks(q)
      PROVE  ProbedInv' /\ HurtInv'
  <2> DEFINE n == monitors[Memory!Monitor(q)]
  <2>1. ProbedInv'
    BY <1>9 DEF MemoryInv, Memory!GuardChecks, ProbedInv, Memory!Label, Memory!Index
  <2>2. bad' = IF Memory!Worse(q) THEN Memory!MarkBad(n.exe) ELSE bad
    BY <1>9 DEF Memory!GuardChecks
  <2>3. hurt' = IF Memory!Worse(q) THEN hurt \cup {n.exe} ELSE hurt
    BY <1>9 DEF Memory!GuardChecks
  <2>4. bad \in Seq(Exe) /\ Len(bad) <= MaxBad
    BY DEF MemoryInv, Memory!TypeOK
  <2>5. n.exe \in Exe
    <3>1. n \in Memory!MonitorEntry
      BY <1>9, WatchedIsMonitored DEF MemoryInv, Memory!TypeOK, Memory!GuardChecks
    <3> QED BY <3>1 DEF Memory!MonitorEntry
  <2> HIDE DEF n
  <2>6. ASSUME NEW e \in hurt'
        PROVE  Memory!IsBad(e)' \/ Len(bad') = MaxBad
    <3>1. agent # "off"
      BY <1>9 DEF Memory!GuardChecks
    <3>2. CASE Memory!Worse(q) /\ bad' # bad
      <4>1. bad' = Append(bad, n.exe) /\ Len(bad) < MaxBad
        BY <2>2, <2>4, <3>2 DEF Memory!MarkBad
      <4>2. \A j \in DOMAIN bad : j \in DOMAIN bad' /\ bad'[j] = bad[j]
        BY <2>4, <2>5, <4>1
      <4>3. Len(bad) + 1 \in DOMAIN bad' /\ bad'[Len(bad) + 1] = n.exe
        BY <2>4, <2>5, <4>1
      <4>4. e = n.exe \/ Memory!IsBad(e)
        BY <2>3, <2>4, <3>1, <4>1 DEF MemoryInv, HurtInv
      <4> QED BY <4>2, <4>3, <4>4 DEF Memory!IsBad, Memory!ToSet
    <3>3. CASE Memory!Worse(q) /\ bad' = bad
      <4>1. Memory!IsBad(n.exe) \/ Len(bad) = MaxBad
        <5>1. Len(Append(bad, n.exe)) = Len(bad) + 1
          BY <2>4, <2>5
        <5> QED BY <2>2, <2>4, <3>3, <5>1 DEF Memory!MarkBad
      <4> QED BY <2>3, <3>1, <3>3, <4>1 DEF MemoryInv, HurtInv, Memory!IsBad
    <3>4. CASE ~Memory!Worse(q)
      BY <2>2, <2>3, <3>1, <3>4 DEF MemoryInv, HurtInv, Memory!IsBad
    <3> QED BY <3>2, <3>3, <3>4
  <2> QED BY <2>1, <2>6 DEF HurtInv
<1>10. ASSUME NEW q \in Pid, NEW label \in {"allowed", "blocked"}, Memory!Probe(q, label)
       PROVE  ProbedInv' /\ HurtInv'
  <2>1. HurtInv'
    BY <1>10 DEF MemoryInv, Memory!Probe, HurtInv, Memory!IsBad
  <2>2. proc[q] \in Exe /\ agent # "off" /\ Table(learned) /\ probed \in [Exe -> 0..2]
    BY <1>10 DEF Memory!Probe, MemoryInv, Memory!TypeOK, Table
  <2>3. learned' = Memory!SetLabel(proc[q], label)
    BY <1>10 DEF Memory!Probe
  <2>4. /\ Table(learned')
        /\ Len(learned') >= Len(learned)
        /\ \/ Len(learned) = MaxEntries
           \/ \E i \in DOMAIN learned' : learned'[i].exe = proc[q] /\ learned'[i].label = label
        /\ \A i \in DOMAIN learned : learned[i].exe # proc[q] => learned'[i] = learned[i]
    BY <2>2, <2>3, LabelStamped
  <2>5. ASSUME NEW e \in Exe, probed'[e] > 0
        PROVE  Memory!Label(e)' # "unknown" \/ Len(learned') = MaxEntries
    <3>1. CASE Len(learned) = MaxEntries
      BY <2>2, <2>4, <3>1 DEF Table
    <3>2. CASE Len(learned) # MaxEntries /\ e = proc[q]
      <4>1. PICK i \in DOMAIN learned' : learned'[i].exe = proc[q] /\ learned'[i].label = label
        BY <2>4, <3>2
      <4>2. Memory!Label(e)' = label
        BY <2>4, <3>2, <4>1, LabelIsThen
      <4> QED BY <4>2
    <3>3. CASE Len(learned) # MaxEntries /\ e # proc[q]
      <4>1. probed[e] > 0
        BY <1>10, <2>2, <2>5, <3>3 DEF Memory!Probe
      <4>2. Memory!Label(e) # "unknown"
        BY <2>2, <3>3, <4>1 DEF MemoryInv, ProbedInv
      <4>3. PICK i \in DOMAIN learned : learned[i].exe = e /\ learned[i].label # "unknown"
        <5>1. Memory!Index(e) # 0
          BY <4>2 DEF Memory!Label
        <5> QED BY <4>2, <5>1, FoundIs DEF Memory!Label, Memory!Index
      <4>4. i \in DOMAIN learned' /\ learned'[i] = learned[i]
        BY <2>2, <2>4, <3>3, <4>3 DEF Table
      <4>5. Memory!Label(e)' = learned'[i].label
        BY <2>4, <4>3, <4>4, LabelIsThen
      <4> QED BY <4>3, <4>4, <4>5
    <3> QED BY <3>1, <3>2, <3>3
  <2> QED BY <2>1, <2>5 DEF ProbedInv
<1> QED
  BY <1>1, <1>2, <1>3, <1>4, <1>5, <1>6, <1>7, <1>8, <1>9, <1>10
  DEF Memory!Next, Memory!Tick, Memory!Save

(* A step of another part leaves the memory as it is.                       *)
LEMMA MemoryStays ==
  ASSUME MemoryInv, [Memory!Next]_memoryVars
  PROVE  MemoryInv'
PROOF
<1>1. CASE Memory!Next
  BY <1>1, MemoryKeepsType, DiskStays, MemoryKeepsKnowledge DEF MemoryInv
<1>2. CASE UNCHANGED memoryVars
  <2>1. Memory!TypeOK'
    BY <1>2 DEF memoryVars, MemoryInv, Memory!TypeOK, Memory!OneEach
  <2>2. DiskInv'
    BY <1>2 DEF memoryVars, MemoryInv, DiskInv
  <2>3. ProbedInv' /\ HurtInv'
    BY <1>2, KnowledgeStands DEF memoryVars, MemoryInv
  <2> QED BY <2>1, <2>2, <2>3 DEF MemoryInv
<1> QED BY <1>1, <1>2

(* The two promises about what the memory knows, of one step.                  *)
MemoryHeeds ==
  /\ \A e \in Exe : probed[e] = 1 /\ probed'[e] = 2 => Len(learned) = MaxEntries
  /\ \A q \in Pid : q \in row' \ row /\ proc[q] \in hurt => Len(bad) = MaxBad

(* A known label lets no probe happen and the blacklist no placement.       *)
LEMMA MemoryStepsHeed ==
  ASSUME MemoryInv, [Memory!Next]_memoryVars
  PROVE  MemoryHeeds
PROOF
<1> USE DEF Memory!disk, Memory!memory, Memory!procs, Memory!history
<1>1. ASSUME probed' = probed, row' \subseteq row
      PROVE  MemoryHeeds
  BY <1>1 DEF MemoryHeeds
<1>2. ASSUME NEW q \in Pid, Memory!DecideLabelled(q)
      PROVE  MemoryHeeds
  <2>1. probed' = probed /\ row' = row \cup {q} /\ ~Memory!IsBad(proc[q]) /\ agent # "off"
    BY <1>2 DEF Memory!DecideLabelled, Memory!Placed
  <2> QED BY <2>1 DEF MemoryHeeds, MemoryInv, HurtInv
<1>3. ASSUME NEW q \in Pid, NEW label \in {"allowed", "blocked"}, Memory!Probe(q, label)
      PROVE  MemoryHeeds
  <2>1. /\ row' \subseteq row \cup {q} /\ ~Memory!IsBad(proc[q]) /\ agent # "off"
        /\ Memory!Label(proc[q]) = "unknown"
    BY <1>3 DEF Memory!Probe, Memory!Placed
  <2>2. \A e \in Exe : e # proc[q] => probed'[e] = probed[e]
    BY <1>3 DEF Memory!Probe, MemoryInv, Memory!TypeOK
  <2>3. \A e \in Exe : probed[e] = 1 /\ probed'[e] = 2 => Len(learned) = MaxEntries
    BY <2>1, <2>2 DEF MemoryInv, ProbedInv
  <2>4. \A r \in Pid : r \in row' \ row /\ proc[r] \in hurt => Len(bad) = MaxBad
    BY <2>1 DEF MemoryInv, HurtInv
  <2> QED BY <2>3, <2>4 DEF MemoryHeeds
<1>4. ASSUME NEW old, Memory!Start(old)
      PROVE  MemoryHeeds
  BY <1>4 DEF MemoryHeeds, Memory!Start
<1>5. CASE Memory!Save \/ Memory!Stop \/ Memory!Crash \/ Memory!ClearBad
  BY <1>1, <1>5
  DEF Memory!Save, Memory!SaveOpen, Memory!SaveRefused, Memory!SaveWrite, Memory!DeleteBackup,
      Memory!SaveBackup, Memory!SaveReplace, Memory!Restore, Memory!Over, Memory!Stop,
      Memory!Crash, Memory!ClearBad
<1>6. ASSUME NEW q \in Pid,
             Memory!Exit(q) \/ Memory!FrameTimes(q) \/ \E e \in Exe : Memory!Launch(q, e)
      PROVE  MemoryHeeds
  BY <1>1, <1>6 DEF Memory!Exit, Memory!FrameTimes, Memory!Launch
<1>7. ASSUME NEW q \in Pid, Memory!GuardSkips(q) \/ Memory!GuardEnds(q) \/ Memory!GuardChecks(q)
                            \/ Memory!NoDecision(q)
      PROVE  MemoryHeeds
  BY <1>1, <1>7 DEF Memory!GuardSkips, Memory!GuardEnds, Memory!GuardChecks, Memory!NoDecision
<1>8. CASE Memory!BeginTick \/ Memory!BeginDecide \/ Memory!EndTick
  BY <1>1, <1>8 DEF Memory!BeginTick, Memory!BeginDecide, Memory!EndTick
<1>9. CASE UNCHANGED memoryVars
  BY <1>1, <1>9 DEF memoryVars
<1>10. CASE Memory!Next
  BY <1>2, <1>3, <1>4, <1>5, <1>6, <1>7, <1>8, <1>10 DEF Memory!Next, Memory!Tick
<1> QED BY <1>9, <1>10

-----------------------------------------------------------------------------
(* policies.toml.                                                              *)

(* The names of two rule tables agree where both have a slot.                  *)
Agree(rs, ts) == \A i \in DOMAIN rs \cap DOMAIN ts : rs[i].name = ts[i].name

(* The command that is there moves the slots of the rule table.             *)
Tabled == slot # None /\ slot.kind \in {"set", "remove"}

(* No command that moves the table's slots is under way.                       *)
Settled == pc = "run" \/ (pc \in {"save", "unsaved"} /\ ~Tabled)

(* When the agent is between two commands, the file holds its choices.      *)
DiskChoices ==
  /\ pc = "run" /\ ~behind => Policy!UserChoices(Policy!Loaded(disk)) = Policy!UserChoices(mem)
  /\ pc \in {"save", "unsaved"} => slot # None
  /\ pc = "unsaved" => behind

(* What was read of a table, by whom it was read: an older generation, or the  *)
(* one the agent has.                                                          *)
ReadInv ==
  /\ shown.gen <= gen
  /\ Settled /\ shown.gen = gen => Agree(shown.rules, mem.rules)
  /\ view # None /\ view.life = life =>
       /\ view.gen <= gen
       /\ Settled /\ view.gen = gen => Agree(view.rules, mem.rules)

(* A removal that will not be found stale hits the rule that was clicked.   *)
RemovalInv ==
  slot # None /\ slot.kind = "remove" /\ slot.life = life /\ pc = "run" /\ slot.gen = gen
    /\ slot.at \in DOMAIN mem.rules => mem.rules[slot.at].name = slot.meant

(* What a command carries.                                                     *)
CommandInv ==
  slot # None =>
    /\ slot.kind = "set" => slot.name \in Name /\ slot.action \in Action
    /\ slot.kind = "profile" => slot.profile \in {"monitor", "corral"}
    /\ slot.kind = "corral" => slot.corral \in BOOLEAN

PolicyInv == Policy!TypeOK /\ CommandInv /\ DiskChoices /\ ReadInv /\ RemovalInv

(* The configuration begins in its invariant.                               *)
LEMMA PolicyStarts == Policy!Init => PolicyInv
PROOF
<1> SUFFICES ASSUME Policy!Init PROVE PolicyInv
  OBVIOUS
<1> USE AgentFilesAssumption DEF Policy!PolicyAssumption
<1>1. Policy!TypeOK
  <2>1. <<>> \in Policy!Rules
    BY DEF Policy!Rules
  <2>2. Policy!Default \in Policy!Config
    BY <2>1 DEF Policy!Config, Policy!Default
  <2>3. shown.gen \in Nat /\ shown.rules \in Policy!Rules
    BY <2>1 DEF Policy!Init, Policy!Block
  <2>4. gen \in Nat /\ sent \in 0..MaxCommands /\ life \in 0..MaxAgents
    BY DEF Policy!Init
  <2>5. mem \in Policy!Config /\ disk \in Policy!Config \cup {None} /\ view = None
    BY <2>2 DEF Policy!Init
  <2>6. pc \in {"down", "run", "save", "unsaved"} /\ behind \in BOOLEAN
    BY DEF Policy!Init
  <2> QED BY <2>3, <2>4, <2>5, <2>6 DEF Policy!TypeOK
<1>2. CommandInv /\ DiskChoices /\ RemovalInv
  BY DEF Policy!Init, CommandInv, DiskChoices, RemovalInv
<1>3. ReadInv
  BY DEF Policy!Init, ReadInv, Settled, Policy!Block
<1> QED BY <1>1, <1>2, <1>3 DEF PolicyInv

(* What the commands, the user and a crash make of a rule table is one.        *)
LEMMA RulesKept ==
  ASSUME NEW rs \in Policy!Rules
  PROVE  /\ \A n \in Name, a \in Action : Policy!Placed(rs, n, a) \in Policy!Rules
         /\ \A i \in DOMAIN rs : Policy!RemoveAt(rs, i) \in Policy!Rules
         /\ Policy!Reverse(rs) \in Policy!Rules
         /\ \A k \in Nat : k - 2 <= Len(rs) => SubSeq(rs, 1, k - 2) \in Policy!Rules
PROOF
<1> USE AgentFilesAssumption DEF Policy!PolicyAssumption
<1>1. rs \in Seq(Policy!Rule) /\ Len(rs) <= MaxRules /\ Len(rs) \in Nat /\ DOMAIN rs = 1..Len(rs)
  BY DEF Policy!Rules
<1>2. ASSUME NEW n \in Name, NEW a \in Action
      PROVE  Policy!Placed(rs, n, a) \in Policy!Rules
  <2> DEFINE edited == [i \in DOMAIN rs |-> IF rs[i].name = n THEN [rs[i] EXCEPT !.action = a] ELSE rs[i]]
  <2>1. \A i \in DOMAIN rs : edited[i] \in Policy!Rule
    <3> SUFFICES ASSUME NEW i \in DOMAIN rs PROVE edited[i] \in Policy!Rule
      OBVIOUS
    <3>1. rs[i] \in Policy!Rule
      BY <1>1
    <3> QED BY <3>1 DEF Policy!Rule
  <2>2. edited \in Seq(Policy!Rule) /\ Len(edited) = Len(rs)
    BY <1>1, <2>1
  <2>3. Len(rs) < MaxRules => Append(rs, [name |-> n, action |-> a]) \in Policy!Rules
    <3>1. [name |-> n, action |-> a] \in Policy!Rule
      BY DEF Policy!Rule
    <3> QED BY <1>1, <3>1 DEF Policy!Rules
  <2>4. edited \in Policy!Rules
    BY <1>1, <2>2 DEF Policy!Rules
  <2> HIDE DEF edited
  <2>5. Policy!Placed(rs, n, a) \in {edited, Append(rs, [name |-> n, action |-> a]), rs}
    BY DEF Policy!Placed, edited
  <2> QED BY <2>3, <2>4 DEF Policy!Placed, edited
<1>3. ASSUME NEW i \in DOMAIN rs
      PROVE  Policy!RemoveAt(rs, i) \in Policy!Rules
  <2>1. /\ SubSeq(rs, 1, i - 1) \in Seq(Policy!Rule) /\ Len(SubSeq(rs, 1, i - 1)) = i - 1
        /\ SubSeq(rs, i + 1, Len(rs)) \in Seq(Policy!Rule)
        /\ Len(SubSeq(rs, i + 1, Len(rs))) = Len(rs) - i
    BY <1>1
  <2> QED BY <1>1, <2>1 DEF Policy!RemoveAt, Policy!Rules
<1>4. Policy!Reverse(rs) \in Policy!Rules
  <2> DEFINE back == [i \in 1..Len(rs) |-> rs[(Len(rs) - i) + 1]]
  <2>1. \A i \in 1..Len(rs) : back[i] \in Policy!Rule
    BY <1>1
  <2>2. back \in Seq(Policy!Rule) /\ Len(back) = Len(rs)
    BY <1>1, <2>1
  <2> QED BY <1>1, <2>2 DEF Policy!Reverse, Policy!Rules
<1>5. ASSUME NEW k \in Nat,
             k - 2 <= Len(rs)
      PROVE  SubSeq(rs, 1, k - 2) \in Policy!Rules
  <2>1. CASE k <= 2
    BY <1>1, <2>1 DEF Policy!Rules
  <2>2. CASE k > 2
    BY <1>1, <1>5, <2>2 DEF Policy!Rules
  <2> QED BY <2>1, <2>2
<1> QED BY <1>2, <1>3, <1>4, <1>5

(* The commands that change the configuration, and the clicks that send     *)
(* one.                                                                     *)
ConfigChanges ==
  \/ Policy!SetProcessRule \/ Policy!RemoveProcessRule \/ Policy!SetProfile \/ Policy!SetCorralLive

Clicks ==
  Policy!ClickRule \/ Policy!ClickRemove \/ Policy!ClickProfile \/ Policy!ClickCorral

(* A prefix of the text of a configuration is one.                             *)
LEMMA CutIsAConfig ==
  ASSUME NEW cfg \in Policy!Config, NEW k \in 0..(2 + Len(cfg.rules))
  PROVE  Policy!Cut(cfg, k) \in Policy!Config
PROOF
<1>1. cfg.rules \in Policy!Rules /\ Len(cfg.rules) \in Nat
  BY DEF Policy!Config, Policy!Rules
<1>2. SubSeq(cfg.rules, 1, k - 2) \in Policy!Rules
  BY <1>1, RulesKept
<1> QED BY <1>1, <1>2 DEF Policy!Config, Policy!Cut, Policy!Default

(* A command changes the configuration to one, opens its file or does not, and *)
(* is still there: only its effect on the table of rules differs.              *)
LEMMA ConfigChanged ==
  ASSUME Policy!TypeOK, CommandInv, ConfigChanges
  PROVE  /\ pc = "run" /\ slot # None /\ mem' \in Policy!Config /\ disk' \in Policy!Config \cup {None}
         /\ pc' \in {"save", "unsaved"} /\ behind' \in BOOLEAN /\ (pc' = "unsaved" => behind')
         /\ UNCHANGED <<gen, shown, view, slot, sent, life>>
         /\ slot.kind \notin {"set", "remove"} => mem'.rules = mem.rules
PROOF
<1> DEFINE saved(cfg) ==
      /\ cfg \in Policy!Config => disk' \in Policy!Config \cup {None}
      /\ mem' = cfg /\ pc' \in {"save", "unsaved"} /\ behind' \in BOOLEAN
      /\ pc' = "unsaved" => behind'
      /\ UNCHANGED <<gen, shown, view, slot, sent, life>>
<1>1. ASSUME NEW cfg, Policy!Save(cfg)
      PROVE  saved(cfg)
  <2>1. cfg \in Policy!Config => Policy!Cut(cfg, 0) \in Policy!Config
    <3>1. cfg \in Policy!Config => Len(cfg.rules) \in Nat
      BY DEF Policy!Config, Policy!Rules
    <3> QED BY <3>1, CutIsAConfig
  <2> QED BY <1>1, <2>1 DEF Policy!Save, Policy!TypeOK
<1>2. mem \in Policy!Config /\ mem.rules \in Policy!Rules
  BY DEF Policy!TypeOK, Policy!Config
<1>3. CASE Policy!SetProcessRule
  <2>1. Policy!Placed(mem.rules, slot.name, slot.action) \in Policy!Rules
    BY <1>2, <1>3, RulesKept DEF Policy!SetProcessRule, CommandInv
  <2> DEFINE cfg == [mem EXCEPT !.rules = Policy!Placed(mem.rules, slot.name, slot.action)]
  <2>2. cfg \in Policy!Config
    BY <1>2, <2>1 DEF Policy!Config
  <2>3. Policy!Save(cfg) /\ pc = "run" /\ slot # None /\ slot.kind = "set"
    BY <1>3 DEF Policy!SetProcessRule
  <2> HIDE DEF cfg
  <2> QED BY <1>1, <2>2, <2>3
<1>4. CASE Policy!RemoveProcessRule
  <2>1. Policy!RemoveAt(mem.rules, slot.at) \in Policy!Rules
    BY <1>2, <1>4, RulesKept DEF Policy!RemoveProcessRule, Policy!Valid
  <2> DEFINE cfg == [mem EXCEPT !.rules = Policy!RemoveAt(mem.rules, slot.at)]
  <2>2. cfg \in Policy!Config
    BY <1>2, <2>1 DEF Policy!Config
  <2>3. Policy!Save(cfg) /\ pc = "run" /\ slot # None /\ slot.kind = "remove"
    BY <1>4 DEF Policy!RemoveProcessRule
  <2> HIDE DEF cfg
  <2> QED BY <1>1, <2>2, <2>3
<1>5. CASE Policy!SetProfile
  <2> DEFINE cfg == [mem EXCEPT !.profile = slot.profile]
  <2>1. cfg \in Policy!Config /\ cfg.rules = mem.rules
    BY <1>2, <1>5 DEF Policy!Config, Policy!SetProfile, CommandInv
  <2>2. Policy!Save(cfg) /\ pc = "run" /\ slot # None
    BY <1>5 DEF Policy!SetProfile
  <2> HIDE DEF cfg
  <2> QED BY <1>1, <2>1, <2>2
<1>6. CASE Policy!SetCorralLive
  <2> DEFINE cfg == [mem EXCEPT !.corral = slot.corral]
  <2>1. cfg \in Policy!Config /\ cfg.rules = mem.rules
    BY <1>2, <1>6 DEF Policy!Config, Policy!SetCorralLive, CommandInv
  <2>2. Policy!Save(cfg) /\ pc = "run" /\ slot # None
    BY <1>6 DEF Policy!SetCorralLive
  <2> HIDE DEF cfg
  <2> QED BY <1>1, <2>1, <2>2
<1> QED BY <1>3, <1>4, <1>5, <1>6 DEF ConfigChanges

(* A start of the agent has the configuration that the file holds, or the   *)
(* default one with the rules of the engine.                                *)
LEMMA StartLoads ==
  ASSUME Policy!TypeOK, Policy!Start
  PROVE  /\ mem' \in Policy!Config /\ disk' \in Policy!Config \cup {None}
         /\ Policy!UserChoices(Policy!Loaded(disk)') = Policy!UserChoices(mem')
PROOF
<1> USE AgentFilesAssumption DEF Policy!PolicyAssumption
<1>1. Policy!Default \in Policy!Config
  BY DEF Policy!Config, Policy!Default, Policy!Rules
<1> DEFINE pack == [Policy!Default EXCEPT !.over = Policy!write_rules]
<1>2. /\ pack \in Policy!Config
      /\ Policy!UserChoices(pack) = Policy!UserChoices(Policy!Default)
  <2>1. Policy!write_rules \subseteq Policy!EngineRules
    BY DEF Policy!write_rules, Policy!EngineRules
  <2> QED BY <1>1, <2>1 DEF Policy!Config, Policy!UserChoices
<1>3. mem' = Policy!Loaded(disk) /\ disk' \in {disk} \cup (IF disk = None THEN {pack} ELSE {})
  BY DEF Policy!Start, Policy!write_if_missing
<1>4. disk \in Policy!Config \cup {None}
  BY DEF Policy!TypeOK
<1> HIDE DEF pack
<1> QED BY <1>1, <1>2, <1>3, <1>4 DEF Policy!Loaded

(* Every step of the configuration keeps its types.                         *)
LEMMA PolicyKeepsType ==
  ASSUME Policy!TypeOK, CommandInv, DiskChoices, Policy!Next
  PROVE  Policy!TypeOK' /\ CommandInv'
PROOF
<1> USE AgentFilesAssumption DEF Policy!PolicyAssumption
<1>1. mem \in Policy!Config /\ mem.rules \in Policy!Rules /\ Len(mem.rules) \in Nat
  BY DEF Policy!TypeOK, Policy!Config, Policy!Rules
<1>2. CASE Policy!Start
  <2>1. <<>> \in Policy!Rules
    BY DEF Policy!Rules
  <2>2. /\ shown'.gen = 0 /\ shown'.rules = <<>> /\ gen' = 0 /\ slot' = None /\ pc' = "run"
        /\ life' = life + 1 /\ life' \in 0..MaxAgents /\ UNCHANGED <<view, sent>> /\ behind' = FALSE
    BY <1>2 DEF Policy!Start, Policy!Block, Policy!TypeOK
  <2>3. view' # None => view'.gen \in Nat /\ view'.rules \in Policy!Rules /\ view'.life \in 0..life'
    BY <2>2 DEF Policy!TypeOK
  <2>4. mem' \in Policy!Config /\ disk' \in Policy!Config \cup {None}
    BY <1>2, StartLoads
  <2>5. shown'.gen \in Nat /\ shown'.rules \in Policy!Rules /\ gen' \in Nat
    BY <2>1, <2>2
  <2> QED BY <2>2, <2>3, <2>4, <2>5 DEF Policy!TypeOK, CommandInv
<1>3. CASE Policy!Publish
  <2>1. shown'.gen = gen /\ shown'.rules = mem.rules
    BY <1>3 DEF Policy!Publish, Policy!Block
  <2> QED BY <1>1, <1>3, <2>1 DEF Policy!TypeOK, Policy!Publish, CommandInv
<1>4. CASE Policy!Draw
  <2>1. view'.gen = shown.gen /\ view'.rules = shown.rules /\ view'.life = life
    BY <1>4 DEF Policy!Draw
  <2>2. life \in 0..life
    BY DEF Policy!TypeOK
  <2> QED BY <1>4, <2>1, <2>2 DEF Policy!TypeOK, Policy!Draw, CommandInv
<1>5. CASE Clicks
  <2>1. sent' \in 0..MaxCommands /\ UNCHANGED <<disk, mem, pc, gen, shown, view, life, behind>>
    BY <1>5
    DEF Clicks, Policy!ClickRule, Policy!ClickRemove, Policy!ClickProfile, Policy!ClickCorral,
        Policy!Send, Policy!TypeOK
  <2>2. CommandInv'
    BY <1>5
    DEF Clicks, Policy!ClickRule, Policy!ClickRemove, Policy!ClickProfile, Policy!ClickCorral,
        Policy!Send, CommandInv
  <2> QED BY <2>1, <2>2 DEF Policy!TypeOK
<1>6. CASE ConfigChanges
  BY <1>6, ConfigChanged DEF Policy!TypeOK, CommandInv
<1>7. CASE Policy!RemoveIgnored \/ Policy!SetIgnored
  BY <1>7 DEF Policy!RemoveIgnored, Policy!SetIgnored, Policy!TypeOK, CommandInv
<1>8. CASE Policy!SaveEnds
  <2>1. gen' \in Nat
    BY <1>8 DEF Policy!SaveEnds, Policy!Generation, Policy!TypeOK
  <2>2. Policy!CutFiles \subseteq Policy!Config
    BY <1>1, CutIsAConfig DEF Policy!CutFiles
  <2>3. disk' \in Policy!Config \cup {None} /\ behind' \in BOOLEAN
    BY <1>1, <1>8, <2>2 DEF Policy!SaveEnds, Policy!TypeOK
  <2> QED BY <1>8, <2>1, <2>3 DEF Policy!SaveEnds, Policy!TypeOK, CommandInv
<1>9. CASE Policy!Crash
  <2>1. disk' \in Policy!Config \cup {None}
    BY <1>1, <1>9, CutIsAConfig DEF Policy!Crash, Policy!CutFiles, Policy!TypeOK
  <2> QED BY <1>9, <2>1 DEF Policy!Crash, Policy!TypeOK, CommandInv
<1>10. CASE Policy!HandEdit
  <2>1. disk \in Policy!Config /\ disk.rules \in Policy!Rules
    BY <1>10 DEF Policy!HandEdit, Policy!TypeOK, Policy!Config
  <2>2. \A rs \in Policy!Rules : [disk EXCEPT !.rules = rs] \in Policy!Config
    BY <2>1 DEF Policy!Config
  <2>3. disk' \in Policy!Config
    BY <1>10, <2>1, <2>2, RulesKept DEF Policy!HandEdit
  <2> QED BY <1>10, <2>3 DEF Policy!HandEdit, Policy!TypeOK, CommandInv
<1> QED
  BY <1>2, <1>3, <1>4, <1>5, <1>6, <1>7, <1>8, <1>9, <1>10
  DEF Policy!Next, Clicks, ConfigChanges

(* Between two saves the file has what the agent has.                          *)
LEMMA ChoicesStayOnDisk ==
  ASSUME Policy!TypeOK, CommandInv, DiskChoices, Policy!Next
  PROVE  DiskChoices'
PROOF
<1> USE AgentFilesAssumption DEF Policy!PolicyAssumption
<1>1. CASE Policy!Start
  BY <1>1, StartLoads DEF Policy!Start, DiskChoices, Policy!Loaded
<1>2. CASE Policy!Publish \/ Policy!Draw
  BY <1>2 DEF Policy!Publish, Policy!Draw, DiskChoices, Policy!Loaded
<1>3. CASE Clicks
  <2>1. slot = None /\ UNCHANGED <<disk, mem, pc, behind>>
    BY <1>3
    DEF Clicks, Policy!ClickRule, Policy!ClickRemove, Policy!ClickProfile, Policy!ClickCorral,
        Policy!Send
  <2> QED BY <2>1 DEF DiskChoices, Policy!Loaded
<1>4. CASE ConfigChanges
  BY <1>4, ConfigChanged DEF DiskChoices
<1>5. CASE Policy!RemoveIgnored \/ Policy!SetIgnored
  BY <1>5 DEF Policy!RemoveIgnored, Policy!SetIgnored, DiskChoices, Policy!Loaded
<1>6. CASE Policy!SaveEnds
  <2>1. mem # None
    BY DEF Policy!TypeOK
  <2> QED BY <1>6, <2>1 DEF Policy!SaveEnds, DiskChoices, Policy!Loaded
<1>7. CASE Policy!Crash \/ Policy!HandEdit
  BY <1>7 DEF Policy!Crash, Policy!HandEdit, DiskChoices
<1> QED
  BY <1>1, <1>2, <1>3, <1>4, <1>5, <1>6, <1>7 DEF Policy!Next, Clicks, ConfigChanges

(* A table that was read is of an older generation, or has the agent's names:  *)
(* the generation moves on with every set and removal.                         *)
LEMMA ReadsStayGood ==
  ASSUME PolicyInv, Policy!Next
  PROVE  ReadInv' /\ RemovalInv'
PROOF
<1> USE AgentFilesAssumption DEF Policy!PolicyAssumption
<1> USE DEF PolicyInv
<1>1. gen \in Nat /\ shown.gen \in Nat /\ life \in Nat
  BY DEF Policy!TypeOK
<1>2. CASE Policy!Start
  <2>1. /\ shown'.gen = 0 /\ shown'.rules = <<>> /\ gen' = 0 /\ slot' = None
        /\ life' = life + 1 /\ view' = view
    BY <1>2 DEF Policy!Start, Policy!Block
  <2>2. view # None => view.life # life'
    BY <1>1, <2>1 DEF Policy!TypeOK
  <2> QED BY <2>1, <2>2 DEF ReadInv, RemovalInv, Agree
<1>3. CASE Policy!Publish
  <2>1. /\ shown'.gen = gen /\ shown'.rules = mem.rules
        /\ UNCHANGED <<mem, pc, gen, view, slot, life>>
    BY <1>3 DEF Policy!Publish, Policy!Block
  <2> QED BY <1>1, <2>1 DEF ReadInv, RemovalInv, Agree, Settled, Tabled
<1>4. CASE Policy!Draw
  <2>1. /\ view'.gen = shown.gen /\ view'.rules = shown.rules /\ view'.life = life
        /\ UNCHANGED <<mem, pc, gen, shown, slot, life>>
    BY <1>4 DEF Policy!Draw
  <2> QED BY <1>1, <2>1 DEF ReadInv, RemovalInv, Agree, Settled, Tabled
<1>5. CASE Clicks
  <2>1. /\ slot = None
        /\ UNCHANGED <<mem, pc, gen, shown, view, life>>
    BY <1>5
    DEF Clicks, Policy!ClickRule, Policy!ClickRemove, Policy!ClickProfile, Policy!ClickCorral,
        Policy!Send
  <2>2. ReadInv'
    BY <2>1 DEF ReadInv, Agree, Settled, Tabled
  <2>3. CASE Policy!ClickRemove
    <3>1. PICK i \in DOMAIN view.rules :
            /\ view # None
            /\ slot' = [kind |-> "remove", at |-> i, gen |-> view.gen,
                        meant |-> view.rules[i].name, life |-> view.life]
      BY <2>3 DEF Policy!ClickRemove, Policy!Send
    <3>2. slot'.at = i /\ slot'.gen = view.gen /\ slot'.meant = view.rules[i].name /\ slot'.life = view.life
      BY <3>1
    <3> QED BY <2>1, <2>2, <3>1, <3>2 DEF ReadInv, RemovalInv, Agree, Settled
  <2>4. CASE Policy!ClickRule \/ Policy!ClickProfile \/ Policy!ClickCorral
    <3>1. slot'.kind # "remove"
      BY <2>4 DEF Policy!ClickRule, Policy!ClickProfile, Policy!ClickCorral, Policy!Send
    <3> QED BY <2>2, <3>1 DEF RemovalInv
  <2> QED BY <1>5, <2>2, <2>3, <2>4 DEF Clicks
<1>6. CASE ConfigChanges
  <2>1. /\ pc = "run" /\ slot # None /\ pc' \in {"save", "unsaved"} /\ UNCHANGED <<gen, shown, view, slot, life>>
        /\ slot.kind \notin {"set", "remove"} => mem'.rules = mem.rules
    BY <1>6, ConfigChanged
  <2> QED BY <2>1 DEF ReadInv, RemovalInv, Agree, Settled, Tabled
<1>7. CASE Policy!RemoveIgnored \/ Policy!SetIgnored
  <2>1. pc = "run" /\ slot' = None /\ UNCHANGED <<mem, pc, gen, shown, view, life>>
    BY <1>7 DEF Policy!RemoveIgnored, Policy!SetIgnored
  <2> QED BY <2>1 DEF ReadInv, RemovalInv, Agree, Settled
<1>8. CASE Policy!SaveEnds
  <2>1. /\ pc \in {"save", "unsaved"} /\ slot # None /\ slot' = None /\ UNCHANGED <<mem, shown, view, life>>
        /\ gen' = IF Tabled THEN gen + 1 ELSE gen
    BY <1>8 DEF Policy!SaveEnds, Policy!Generation, Tabled, DiskChoices
  <2>2. view # None => view.gen \in Nat
    BY DEF Policy!TypeOK
  <2>3. CASE Tabled
    <3>1. gen' = gen + 1
      BY <2>1, <2>3
    <3> QED BY <1>1, <2>1, <2>2, <3>1 DEF ReadInv, RemovalInv
  <2>4. CASE ~Tabled
    BY <2>1, <2>4 DEF ReadInv, RemovalInv, Agree, Settled
  <2> QED BY <2>3, <2>4
<1>9. CASE Policy!Crash
  <2>1. pc' = "down" /\ UNCHANGED <<gen, shown, view, slot, life>>
    BY <1>9 DEF Policy!Crash
  <2> QED BY <2>1 DEF ReadInv, RemovalInv, Settled
<1>10. CASE Policy!HandEdit
  <2>1. UNCHANGED <<mem, pc, gen, shown, view, slot, life>>
    BY <1>10 DEF Policy!HandEdit
  <2> QED BY <2>1 DEF ReadInv, RemovalInv, Agree, Settled, Tabled
<1> QED
  BY <1>2, <1>3, <1>4, <1>5, <1>6, <1>7, <1>8, <1>9, <1>10 DEF Policy!Next, Clicks, ConfigChanges

(* A step of another part leaves the configuration as it is.                *)
LEMMA PolicyStays ==
  ASSUME PolicyInv, [Policy!Next]_policyVars
  PROVE  PolicyInv'
PROOF
<1>1. CASE Policy!Next
  BY <1>1, PolicyKeepsType, ChoicesStayOnDisk, ReadsStayGood DEF PolicyInv
<1>2. CASE UNCHANGED policyVars
  <2>1. Policy!TypeOK' /\ CommandInv'
    BY <1>2 DEF policyVars, PolicyInv, Policy!TypeOK, CommandInv
  <2>2. DiskChoices' /\ RemovalInv'
    BY <1>2 DEF policyVars, PolicyInv, DiskChoices, RemovalInv, Policy!Loaded
  <2>3. ReadInv'
    BY <1>2 DEF policyVars, PolicyInv, ReadInv, Agree, Settled, Tabled
  <2> QED BY <2>1, <2>2, <2>3 DEF PolicyInv
<1> QED BY <1>1, <1>2

(* The promise about removals, of one step.                                    *)
LEMMA PolicyStepsHeed ==
  ASSUME PolicyInv, NEW i \in DOMAIN mem.rules,
         Policy!RemoveProcessRule, slot.at = i, slot.life = life
  PROVE  mem.rules[i].name = slot.meant
PROOF BY DEF PolicyInv, RemovalInv, Policy!RemoveProcessRule, Policy!Valid

-----------------------------------------------------------------------------
(* overrides.txt and the classifications.                                      *)

(* The table is that of the file once it was read after the last edit.      *)
TableInv ==
  /\ Kinds!TableFollowsFile
  /\ apc = "stamp" /\ uiPc = "idle" /\ ~overlap => table = overrides

(* The verdicts follow the table until it is read again; then they are dropped. *)
Overridden ==
  apc # "stamp" =>
    \A i \in DOMAIN cache :
      cache[i].pid \notin reused /\ Kinds!lookup(table, cache[i].exe) # {} =>
        <<cache[i].exe, cache[i].kind>> \in table

(* An entry is of the process that runs, unless its pid was used again.     *)
SameProcess ==
  \A i \in DOMAIN cache :
    cache[i].pid \notin reused /\ process[cache[i].pid] # None =>
      process[cache[i].pid].exe = cache[i].exe

(* The types this proof needs; the files hold what the user may ask for.    *)
KindsTypes ==
  /\ overrides \subseteq Asked /\ table \subseteq Asked
  /\ ui # None \/ uiPc = "open" => ui \subseteq Asked
  /\ process \in [Process -> Kinds!Running \cup {None}] /\ spawned \in Nat
  /\ cache \in Seq(Kinds!Verdict)

KindsInv == KindsTypes /\ TableInv /\ Overridden /\ SameProcess

(* The classification begins in its invariant.                              *)
LEMMA KindsStart == Kinds!Init => KindsInv
PROOF
<1> SUFFICES ASSUME Kinds!Init PROVE KindsInv
  OBVIOUS
<1> USE AgentFilesAssumption DEF Kinds!KindsAssumption
<1>1. KindsTypes
  BY DEF Kinds!Init, KindsTypes
<1>2. TableInv
  BY DEF Kinds!Init, TableInv, Kinds!TableFollowsFile
<1>3. Overridden /\ SameProcess
  BY DEF Kinds!Init, Overridden, SameProcess
<1> QED BY <1>1, <1>2, <1>3 DEF KindsInv

(* What is classified is one of the kinds; an override is what it is set to.   *)
LEMMA Classified ==
  ASSUME KindsTypes, NEW q \in Process, process[q] # None, NEW busy \in BOOLEAN
  PROVE  /\ process[q].exe \in Program
         /\ Kinds!classify(q, busy) \in Kinds!Kind
         /\ Kinds!lookup(table, process[q].exe) # {} =>
              <<process[q].exe, Kinds!classify(q, busy)>> \in table
PROOF
<1> USE AgentFilesAssumption DEF Kinds!KindsAssumption
<1> DEFINE n == process[q].exe
<1>1. n \in Program
  BY DEF KindsTypes, Kinds!Running
<1>2. CASE Kinds!lookup(table, n) # {}
  <2> DEFINE pair == CHOOSE pair \in Kinds!lookup(table, n) : TRUE
  <2>1. pair \in table /\ pair[1] = n
    BY <1>2 DEF Kinds!lookup
  <2>2. pair \in Program \X Kinds!Kind
    BY <2>1 DEF KindsTypes
  <2>3. Kinds!classify(q, busy) = pair[2]
    BY <1>2 DEF Kinds!classify
  <2>4. pair = <<n, pair[2]>> /\ pair[2] \in Kinds!Kind
    BY <2>1, <2>2
  <2> HIDE DEF pair
  <2> QED BY <1>1, <2>1, <2>3, <2>4
<1>3. CASE Kinds!lookup(table, n) = {} /\ NameKind[n] # "none"
  <2>1. NameKind[n] \in Kinds!Kind
    BY <1>1, <1>3
  <2> QED BY <1>1, <1>3, <2>1 DEF Kinds!classify
<1>4. CASE Kinds!lookup(table, n) = {} /\ NameKind[n] = "none"
  <2>1. Kinds!classify(q, busy) \in {"Game", "Unknown"}
    BY <1>4 DEF Kinds!classify
  <2> QED BY <1>1, <1>4, <2>1 DEF Kinds!Kind
<1> QED BY <1>2, <1>3, <1>4

(* A classification adds an entry for its process, or looks again at those it  *)
(* has; the other entries stay where they are.                                 *)
LEMMA CacheStep ==
  ASSUME KindsTypes, NEW q \in Process, Kinds!classify_cached(q)
  PROVE  \E k \in Kinds!Kind :
           /\ process[q] # None /\ process[q].exe \in Program
           /\ Kinds!lookup(table, process[q].exe) # {} => <<process[q].exe, k>> \in table
           /\ cache' \in Seq(Kinds!Verdict) /\ DOMAIN cache \subseteq DOMAIN cache'
           /\ \A i \in DOMAIN cache :
                \/ cache'[i] = cache[i]
                \/ cache[i].pid = q /\ cache'[i] = Kinds!Reverified(cache[i], k)
           /\ \A i \in DOMAIN cache' \ DOMAIN cache :
                cache'[i] = [pid |-> q, exe |-> process[q].exe, kind |-> k, stale |-> FALSE]
PROOF
<1> DEFINE at == {i \in DOMAIN cache : cache[i].pid = q}
           new(k) == [pid |-> q, exe |-> process[q].exe, kind |-> k, stale |-> FALSE]
           seen2(k) == [i \in DOMAIN cache |->
                          IF i \in at /\ cache[i].stale THEN Kinds!Reverified(cache[i], k)
                          ELSE cache[i]]
<1>1. PICK busy \in BOOLEAN :
        cache' = IF at = {}
                 THEN IF Len(cache) < MaxVerdicts
                      THEN Append(cache, new(Kinds!classify(q, busy))) ELSE cache
                 ELSE seen2(Kinds!classify(q, busy))
  BY DEF Kinds!classify_cached
<1> DEFINE k == Kinds!classify(q, busy)
<1>2. process[q] # None
  BY DEF Kinds!classify_cached
<1>3. /\ process[q].exe \in Program /\ k \in Kinds!Kind
      /\ Kinds!lookup(table, process[q].exe) # {} => <<process[q].exe, k>> \in table
  BY <1>2, Classified
<1>4. cache \in Seq(Kinds!Verdict) /\ DOMAIN cache = 1..Len(cache) /\ Len(cache) \in Nat
  BY DEF KindsTypes
<1>5. new(k) \in Kinds!Verdict
  BY <1>3 DEF Kinds!Verdict
<1>6. \A i \in DOMAIN cache : seen2(k)[i] \in Kinds!Verdict
  <2> SUFFICES ASSUME NEW i \in DOMAIN cache PROVE seen2(k)[i] \in Kinds!Verdict
    OBVIOUS
  <2>1. cache[i] \in Kinds!Verdict
    BY <1>4
  <2>2. Kinds!Reverified(cache[i], k) \in Kinds!Verdict
    BY <1>3, <2>1 DEF Kinds!Verdict, Kinds!Reverified
  <2> QED BY <2>1, <2>2
<1>7. seen2(k) \in Seq(Kinds!Verdict) /\ DOMAIN seen2(k) = DOMAIN cache
  BY <1>4, <1>6
<1>8. \A i \in DOMAIN cache : \/ seen2(k)[i] = cache[i]
                              \/ cache[i].pid = q /\ seen2(k)[i] = Kinds!Reverified(cache[i], k)
  OBVIOUS
<1> HIDE DEF k, new, seen2
<1>9. /\ Append(cache, new(k)) \in Seq(Kinds!Verdict)
      /\ DOMAIN Append(cache, new(k)) = DOMAIN cache \cup {Len(cache) + 1}
      /\ \A i \in DOMAIN cache : Append(cache, new(k))[i] = cache[i]
      /\ Append(cache, new(k))[Len(cache) + 1] = new(k)
  BY <1>4, <1>5
<1>10. cache' \in {cache, Append(cache, new(k)), seen2(k)}
  BY <1>1 DEF k
<1>11. /\ cache' \in Seq(Kinds!Verdict) /\ DOMAIN cache \subseteq DOMAIN cache'
       /\ \A i \in DOMAIN cache :
            \/ cache'[i] = cache[i]
            \/ cache[i].pid = q /\ cache'[i] = Kinds!Reverified(cache[i], k)
       /\ \A i \in DOMAIN cache' \ DOMAIN cache : cache'[i] = new(k)
  BY <1>4, <1>7, <1>8, <1>9, <1>10
<1> QED BY <1>2, <1>3, <1>11 DEF new

(* Every step of the classification keeps its invariant.                    *)
LEMMA KindsStep ==
  ASSUME KindsInv, Kinds!Next
  PROVE  KindsInv'
PROOF
<1> USE AgentFilesAssumption DEF Kinds!KindsAssumption
<1> USE DEF Kinds!files, Kinds!overs, Kinds!world, Kinds!verdicts, KindsInv
<1>1. CASE Kinds!OpenPanel \/ Kinds!Edit \/ Kinds!save \/ Kinds!ClockAdvances
  <2>1. KindsTypes'
    <3>1. CASE Kinds!Edit
      <4>1. PICK pair \in Asked : ui' \in {Kinds!set(ui, pair[1], pair[2]), Kinds!remove(ui, pair[1])}
        BY <3>1 DEF Kinds!Edit
      <4>2. <<pair[1], pair[2]>> \in Asked
        BY <4>1
      <4>3. ui' \subseteq Asked
        BY <3>1, <4>1, <4>2 DEF Kinds!Edit, Kinds!set, Kinds!remove, Kinds!lookup, KindsTypes
      <4> QED BY <3>1, <4>3 DEF Kinds!Edit, KindsTypes
    <3>2. CASE Kinds!OpenPanel \/ Kinds!save \/ Kinds!ClockAdvances
      BY <3>2 DEF Kinds!OpenPanel, Kinds!save, Kinds!ClockAdvances, KindsTypes
    <3> QED BY <1>1, <3>1, <3>2
  <2>2. TableInv'
    BY <1>1
    DEF Kinds!OpenPanel, Kinds!Edit, Kinds!save, Kinds!ClockAdvances, TableInv, Kinds!TableFollowsFile
  <2>3. UNCHANGED <<apc, table, cache, reused, process>>
    BY <1>1 DEF Kinds!OpenPanel, Kinds!Edit, Kinds!save, Kinds!ClockAdvances
  <2>4. Overridden' /\ SameProcess'
    BY <2>3 DEF Overridden, SameProcess, Kinds!lookup
  <2> QED BY <2>1, <2>2, <2>4
<1>2. CASE Kinds!reload_if_changed \/ Kinds!load
  <2>1. KindsTypes'
    BY <1>2 DEF Kinds!reload_if_changed, Kinds!load, KindsTypes
  <2>2. TableInv'
    BY <1>2 DEF Kinds!reload_if_changed, Kinds!load, TableInv, Kinds!TableFollowsFile
  <2>3. Overridden'
    BY <1>2 DEF Kinds!reload_if_changed, Kinds!load, Overridden, Kinds!lookup
  <2>4. SameProcess'
    BY <1>2 DEF Kinds!reload_if_changed, Kinds!load, SameProcess
  <2> QED BY <2>1, <2>2, <2>3, <2>4
<1>3. CASE Kinds!cache_mtime
  <2>1. KindsTypes' /\ cache' = <<>>
    BY <1>3 DEF Kinds!cache_mtime, KindsTypes
  <2>2. TableInv'
    BY <1>3 DEF Kinds!cache_mtime, TableInv, Kinds!TableFollowsFile
  <2> QED BY <2>1, <2>2 DEF Overridden, SameProcess
<1>4. ASSUME NEW q \in Process, Kinds!StartProcess(q)
      PROVE  KindsInv'
  <2>1. KindsTypes' /\ UNCHANGED <<overrides, mtime, uiPc, table, seen, apc, overlap, cache>>
    <3>1. spawned' = spawned + 1 /\ spawned' \in Nat
      BY <1>4 DEF Kinds!StartProcess, KindsTypes
    <3>2. process' \in [Process -> Kinds!Running \cup {None}]
      BY <1>4, <3>1 DEF Kinds!StartProcess, KindsTypes, Kinds!Running
    <3> QED BY <1>4, <3>1, <3>2 DEF Kinds!StartProcess, KindsTypes
  <2>2. TableInv'
    BY <2>1 DEF TableInv, Kinds!TableFollowsFile
  <2>3. reused \subseteq reused' /\ \A i \in DOMAIN cache : cache[i].pid = q => q \in reused'
    BY <1>4 DEF Kinds!StartProcess
  <2>4. \A r \in Process \ {q} : process'[r] = process[r]
    BY <1>4 DEF Kinds!StartProcess, KindsTypes
  <2>5. \A i \in DOMAIN cache : cache[i].pid \in Process
    <3>1. \A i \in DOMAIN cache : cache[i] \in Kinds!Verdict
      BY DEF KindsTypes
    <3> QED BY <3>1 DEF Kinds!Verdict
  <2>6. Overridden'
    BY <2>1, <2>3 DEF Overridden, Kinds!lookup
  <2>7. SameProcess'
    BY <2>1, <2>3, <2>4, <2>5 DEF SameProcess
  <2> QED BY <2>1, <2>2, <2>6, <2>7
<1>5. ASSUME NEW q \in Process,
             Kinds!ExitProcess(q) \/ Kinds!LoadsGraphics(q) \/ Kinds!GoesFullscreen(q)
      PROVE  KindsInv'
  <2>1. /\ UNCHANGED <<overrides, mtime, ui, uiPc, table, seen, apc, overlap, cache, reused, spawned>>
        /\ process[q] # None
        /\ \/ process' = [process EXCEPT ![q] = None]
           \/ process' = [process EXCEPT ![q].dll = TRUE]
           \/ process' = [process EXCEPT ![q].full = TRUE]
    BY <1>5 DEF Kinds!ExitProcess, Kinds!LoadsGraphics, Kinds!GoesFullscreen
  <2>2. /\ process' \in [Process -> Kinds!Running \cup {None}]
        /\ \A r \in Process : process'[r] # None => process[r] # None /\ process'[r].exe = process[r].exe
    <3>1. process[q] \in Kinds!Running /\ process \in [Process -> Kinds!Running \cup {None}]
      BY <2>1 DEF KindsTypes
    <3>2. /\ [process[q] EXCEPT !.dll = TRUE] \in Kinds!Running
          /\ [process[q] EXCEPT !.dll = TRUE].exe = process[q].exe
          /\ [process[q] EXCEPT !.full = TRUE] \in Kinds!Running
          /\ [process[q] EXCEPT !.full = TRUE].exe = process[q].exe
      BY <3>1 DEF Kinds!Running
    <3> QED BY <2>1, <3>1, <3>2
  <2>3. KindsTypes'
    BY <2>1, <2>2 DEF KindsTypes
  <2>4. TableInv' /\ Overridden'
    BY <2>1 DEF TableInv, Kinds!TableFollowsFile, Overridden, Kinds!lookup
  <2>5. \A i \in DOMAIN cache : cache[i].pid \in Process
    <3>1. \A i \in DOMAIN cache : cache[i] \in Kinds!Verdict
      BY DEF KindsTypes
    <3> QED BY <3>1 DEF Kinds!Verdict
  <2>6. SameProcess'
    BY <2>1, <2>2, <2>5 DEF SameProcess
  <2> QED BY <2>3, <2>4, <2>6
<1>6. ASSUME UNCHANGED <<overrides, mtime, ui, uiPc, table, seen, apc, overlap, cache, reused, spawned, process>>
      PROVE  KindsInv'
  BY <1>6 DEF KindsTypes, TableInv, Kinds!TableFollowsFile, Overridden, SameProcess, Kinds!lookup
<1>7. CASE Kinds!on_tick \/ Kinds!Discover \/ Kinds!ProbeIsOld \/ \E q \in Process \cup {None} : Kinds!AltTab(q)
  BY <1>6, <1>7 DEF Kinds!on_tick, Kinds!Discover, Kinds!ProbeIsOld, Kinds!AltTab
<1>8. ASSUME NEW q \in Process, Kinds!classify_cached(q)
      PROVE  KindsInv'
  <2>1. apc = "tick" /\ UNCHANGED <<overrides, mtime, ui, uiPc, table, seen, apc, overlap, reused, spawned, process>>
    BY <1>8 DEF Kinds!classify_cached
  <2>2. PICK k \in Kinds!Kind :
           /\ process[q] # None /\ process[q].exe \in Program
           /\ Kinds!lookup(table, process[q].exe) # {} => <<process[q].exe, k>> \in table
           /\ cache' \in Seq(Kinds!Verdict) /\ DOMAIN cache \subseteq DOMAIN cache'
           /\ \A i \in DOMAIN cache :
                \/ cache'[i] = cache[i]
                \/ cache[i].pid = q /\ cache'[i] = Kinds!Reverified(cache[i], k)
           /\ \A i \in DOMAIN cache' \ DOMAIN cache :
                cache'[i] = [pid |-> q, exe |-> process[q].exe, kind |-> k, stale |-> FALSE]
    BY <1>8, CacheStep
  <2>3. KindsTypes' /\ TableInv'
    BY <2>1, <2>2 DEF KindsTypes, TableInv, Kinds!TableFollowsFile
  <2>4. ASSUME NEW i \in DOMAIN cache'
        PROVE  /\ cache'[i].pid \notin reused /\ Kinds!lookup(table, cache'[i].exe) # {} =>
                    <<cache'[i].exe, cache'[i].kind>> \in table
               /\ cache'[i].pid \notin reused /\ process[cache'[i].pid] # None =>
                    process[cache'[i].pid].exe = cache'[i].exe
    <3>1. CASE i \in DOMAIN cache /\ cache'[i] = cache[i]
      BY <2>1, <3>1 DEF Overridden, SameProcess
    <3>2. CASE i \in DOMAIN cache /\ cache[i].pid = q /\ cache'[i] = Kinds!Reverified(cache[i], k)
      <4>1. cache[i] \in Kinds!Verdict
        BY <3>2 DEF KindsTypes
      <4>2. /\ cache'[i].pid = q /\ cache'[i].exe = cache[i].exe
            /\ cache'[i].kind \in {cache[i].kind, k}
        BY <3>2, <4>1 DEF Kinds!Reverified, Kinds!Verdict
      <4>3. q \notin reused => process[q].exe = cache[i].exe
        BY <2>2, <3>2 DEF SameProcess
      <4>4. q \notin reused /\ Kinds!lookup(table, cache[i].exe) # {} => <<cache[i].exe, cache[i].kind>> \in table
        BY <2>1, <3>2 DEF Overridden
      <4> QED BY <2>2, <4>2, <4>3, <4>4
    <3>3. CASE i \notin DOMAIN cache
      <4>1. cache'[i].pid = q /\ cache'[i].exe = process[q].exe /\ cache'[i].kind = k
        BY <2>2, <3>3
      <4> QED BY <2>2, <4>1
    <3> QED BY <2>2, <3>1, <3>2, <3>3
  <2>5. Overridden' /\ SameProcess'
    BY <2>1, <2>4 DEF Overridden, SameProcess, Kinds!lookup
  <2> QED BY <2>3, <2>5
<1>9. CASE Kinds!Expires
  <2>1. /\ UNCHANGED <<overrides, mtime, ui, uiPc, table, seen, apc, overlap, reused, spawned, process>>
        /\ \E j \in DOMAIN cache : cache' = [cache EXCEPT ![j].stale = TRUE]
    BY <1>9 DEF Kinds!Expires
  <2>2. PICK j \in DOMAIN cache : cache' = [cache EXCEPT ![j].stale = TRUE]
    BY <2>1
  <2>3. cache \in Seq(Kinds!Verdict) /\ cache[j] \in Kinds!Verdict
    BY DEF KindsTypes
  <2>4. /\ [cache[j] EXCEPT !.stale = TRUE] \in Kinds!Verdict
        /\ [cache[j] EXCEPT !.stale = TRUE].pid = cache[j].pid
        /\ [cache[j] EXCEPT !.stale = TRUE].exe = cache[j].exe
        /\ [cache[j] EXCEPT !.stale = TRUE].kind = cache[j].kind
    BY <2>3 DEF Kinds!Verdict
  <2>5. /\ cache' \in Seq(Kinds!Verdict) /\ DOMAIN cache' = DOMAIN cache
        /\ \A i \in DOMAIN cache : /\ cache'[i].pid = cache[i].pid /\ cache'[i].exe = cache[i].exe
                                   /\ cache'[i].kind = cache[i].kind
    BY <2>2, <2>3, <2>4
  <2>6. KindsTypes' /\ TableInv'
    BY <2>1, <2>5 DEF KindsTypes, TableInv, Kinds!TableFollowsFile
  <2>7. Overridden' /\ SameProcess'
    BY <2>1, <2>5 DEF Overridden, SameProcess, Kinds!lookup
  <2> QED BY <2>6, <2>7
<1> QED
  BY <1>1, <1>2, <1>3, <1>4, <1>5, <1>7, <1>8, <1>9 DEF Kinds!Next

(* A step of another part leaves the classification as it is.               *)
LEMMA KindsStays ==
  ASSUME KindsInv, [Kinds!Next]_kindsVars
  PROVE  KindsInv'
PROOF
<1>1. CASE Kinds!Next
  BY <1>1, KindsStep
<1>2. CASE UNCHANGED kindsVars
  BY <1>2
  DEF kindsVars, KindsInv, KindsTypes, TableInv, Kinds!TableFollowsFile, Overridden, SameProcess,
      Kinds!lookup
<1> QED BY <1>1, <1>2

(* The promise about known kinds, of one step.                                 *)
KindsHeed ==
  \A i \in DOMAIN cache :
    cache[i].kind \notin {"Unknown", "System"} /\ cache' # <<>> => cache'[i].kind # "Unknown"

(* A classification does not lose a kind that was found.                    *)
LEMMA KindsStepsHeed ==
  ASSUME KindsInv, [Kinds!Next]_kindsVars
  PROVE  KindsHeed
PROOF
<1> USE DEF KindsInv
<1>1. ASSUME cache' = cache
      PROVE  KindsHeed
  BY <1>1 DEF KindsHeed
<1>2. ASSUME NEW q \in Process, Kinds!classify_cached(q)
      PROVE  KindsHeed
  <2>1. PICK k \in Kinds!Kind :
          /\ DOMAIN cache \subseteq DOMAIN cache'
          /\ \A i \in DOMAIN cache :
               \/ cache'[i] = cache[i]
               \/ cache'[i] = Kinds!Reverified(cache[i], k)
    BY <1>2, CacheStep
  <2>2. \A i \in DOMAIN cache : cache[i] \in Kinds!Verdict
    BY DEF KindsTypes
  <2>3. \A e \in Kinds!Verdict :
          e.kind \notin {"Unknown", "System"} => Kinds!Reverified(e, k).kind # "Unknown"
    BY DEF Kinds!Reverified, Kinds!Verdict
  <2> QED BY <2>1, <2>2, <2>3 DEF KindsHeed
<1>3. CASE Kinds!Expires
  <2>1. PICK j \in DOMAIN cache : cache' = [cache EXCEPT ![j].stale = TRUE]
    BY <1>3 DEF Kinds!Expires
  <2>2. cache[j] \in Kinds!Verdict
    BY DEF KindsTypes
  <2>3. [cache[j] EXCEPT !.stale = TRUE].kind = cache[j].kind
    BY <2>2 DEF Kinds!Verdict
  <2> QED BY <2>1, <2>3 DEF KindsHeed, KindsTypes
<1>4. CASE Kinds!cache_mtime
  BY <1>4 DEF Kinds!cache_mtime, KindsHeed
<1>5. CASE UNCHANGED kindsVars
  BY <1>1, <1>5 DEF kindsVars
<1>6. ASSUME NEW q \in Process,
             \/ Kinds!StartProcess(q) \/ Kinds!ExitProcess(q) \/ Kinds!LoadsGraphics(q)
             \/ Kinds!GoesFullscreen(q)
      PROVE  KindsHeed
  BY <1>1, <1>6
  DEF Kinds!StartProcess, Kinds!ExitProcess, Kinds!LoadsGraphics, Kinds!GoesFullscreen, Kinds!verdicts
<1>7. CASE \/ Kinds!OpenPanel \/ Kinds!Edit \/ Kinds!save \/ Kinds!ClockAdvances
           \/ Kinds!reload_if_changed \/ Kinds!load \/ Kinds!on_tick \/ Kinds!Discover
           \/ Kinds!ProbeIsOld \/ \E q \in Process \cup {None} : Kinds!AltTab(q)
  BY <1>1, <1>7
  DEF Kinds!OpenPanel, Kinds!Edit, Kinds!save, Kinds!ClockAdvances, Kinds!reload_if_changed,
      Kinds!load, Kinds!on_tick, Kinds!Discover, Kinds!ProbeIsOld, Kinds!AltTab, Kinds!verdicts
<1> QED BY <1>2, <1>3, <1>4, <1>5, <1>6, <1>7 DEF Kinds!Next

-----------------------------------------------------------------------------
(* The three parts together: a step moves one of them, the others stay.        *)

AgentFilesInv == MemoryInv /\ PolicyInv /\ KindsInv

(* A step of the whole is a step of one part, or of none.                   *)
LEMMA EachPartSteps ==
  ASSUME [Next]_vars
  PROVE  [Memory!Next]_memoryVars /\ [Policy!Next]_policyVars /\ [Kinds!Next]_kindsVars
PROOF BY DEF Next, vars, OnlyMemory, OnlyPolicy, OnlyKinds

(* The inductive invariant of the files holds always.                          *)
THEOREM AgentFilesInvariant == Spec => []AgentFilesInv
PROOF
<1>1. Init => AgentFilesInv
  BY MemoryStarts, PolicyStarts, KindsStart DEF Init, AgentFilesInv
<1>2. AgentFilesInv /\ [Next]_vars => AgentFilesInv'
  BY EachPartSteps, MemoryStays, PolicyStays, KindsStays DEF AgentFilesInv
<1> QED BY <1>1, <1>2, PTL DEF Spec

(* The files keep what was set: a whole memory.toml survives a crash at any    *)
(* step of a save, policies.toml holds the choices the agent works with, and   *)
(* the agent has the overrides the panel wrote, with no verdict left from      *)
(* before them: whatever the sizes of the tables, the executables, the         *)
(* processes and the number of runs.                                           *)
THEOREM FilesAreKept == Spec => []FilesKeepWhatWasSet
PROOF
<1>1. MemoryInv => Memory!DiskKeepsACopy
  BY AgentFilesAssumption
  DEF MemoryInv, Memory!TypeOK, DiskInv, Memory!DiskKeepsACopy, Memory!GameMemoryAssumption
<1>2. PolicyInv => Policy!DiskFollowsMemory
  BY DEF PolicyInv, DiskChoices, Policy!DiskFollowsMemory
<1>3. KindsInv => Kinds!TableFollowsFile /\ Kinds!OverrideWins
  BY DEF KindsInv, TableInv, Overridden, Kinds!OverrideWins
<1>4. AgentFilesInv => FilesKeepWhatWasSet
  BY <1>1, <1>2, <1>3 DEF AgentFilesInv, FilesKeepWhatWasSet
<1> QED BY <1>4, AgentFilesInvariant, PTL

(* What is known is not undone by a later step: an executable is probed once   *)
(* in a run and not placed again after a regression while its table has room,  *)
(* a known kind is not lost, a removal takes out the rule that was clicked.    *)
THEOREM KnowledgeIsKept == Spec => KnownStaysKnown
PROOF
<1>1. AgentFilesInv /\ [Next]_vars =>
        /\ [\A e \in Exe : probed[e] = 1 /\ probed'[e] = 2 => Len(learned) = MaxEntries]_(Memory!vars)
        /\ [\A p \in Pid : p \in row' \ row /\ proc[p] \in hurt => Len(bad) = MaxBad]_(Memory!vars)
  BY EachPartSteps, MemoryStepsHeed DEF AgentFilesInv, MemoryHeeds
<1>2. AgentFilesInv /\ [Next]_vars =>
        [\A i \in DOMAIN cache :
           cache[i].kind \notin {"Unknown", "System"} /\ cache' # <<>> =>
             cache'[i].kind # "Unknown"]_(Kinds!vars)
  BY EachPartSteps, KindsStepsHeed DEF AgentFilesInv, KindsHeed
<1>3. AgentFilesInv /\ [Next]_vars =>
        [\A i \in DOMAIN mem.rules :
           Policy!RemoveProcessRule /\ slot.at = i /\ slot.life = life =>
             mem.rules[i].name = slot.meant]_(Policy!vars)
  BY PolicyStepsHeed DEF AgentFilesInv
<1>4. Spec => Memory!ProbedOncePerRun
  BY <1>1, AgentFilesInvariant, PTL DEF Spec, Memory!ProbedOncePerRun
<1>5. Spec => Memory!RegressedStaysOff
  BY <1>1, AgentFilesInvariant, PTL DEF Spec, Memory!RegressedStaysOff
<1>6. Spec => Kinds!KnownStaysKnown
  BY <1>2, AgentFilesInvariant, PTL DEF Spec, Kinds!KnownStaysKnown
<1>7. Spec => Policy!RemovesWhatWasMeant
  BY <1>3, AgentFilesInvariant, PTL DEF Spec, Policy!RemovesWhatWasMeant
<1> QED BY <1>4, <1>6, <1>7, <1>5 DEF KnownStaysKnown
=============================================================================
