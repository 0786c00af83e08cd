--------------------------- MODULE AgentLifeProofs ---------------------------
(***************************************************************************)
(* Theorems of the agent as the rest of the machine meets it.  Supervision, *)
(* for every threshold, poll and set of tick intervals: the loop is told to *)
(* stop.  AgentChannel, for any number of clients, capacities and bounds,    *)
(* and kills and restarts of the agent at any step: its types, the          *)
(* snapshots under the seqlock, the two logs, and the acks of a client that *)
(* is alone.  At the end, both sides together.                              *)
(***************************************************************************)
EXTENDS MCAgentLife, FiniteSetTheorems, TLAPS

-----------------------------------------------------------------------------
(* The loop.                                                                *)

(* From the moment the flag is set, a loop that is past its head finds the  *)
(* event when it waits: only a wait takes the event away, and after it the  *)
(* head looks at the flag.                                                  *)
EventKept == (mpc \in {"work", "wait"} /\ stop /\ ~Signaling) => event

(* Every variable keeps its type: no wait is longer than a tick interval,   *)
(* and no age is counted past the bound.                                    *)
THEOREM LoopTypeCorrect == LoopSpec => []LoopTypeOK
<1>0. PollSeconds \in 0..(PollSeconds + Slack) /\ Slack \in 0..(PollSeconds + Slack) /\ 0 \in 0..Oldest
  BY SupervisionAssumption DEF SupervisionAssumption
<1>1. LoopInit => LoopTypeOK
  <2>1. LoopInit => wdue \in 0..(PollSeconds + Slack) /\ worked \in 0..MaxWork
    BY <1>0, SupervisionAssumption DEF SupervisionAssumption, LoopInit
  <2>2. LoopInit => beat \in 0..Oldest /\ quiet \in 0..Oldest /\ wnow \in 0..Oldest
    BY <1>0 DEF LoopInit
  <2>3. QED
    BY <2>1, <2>2 DEF LoopInit, LoopTypeOK
<1>2. LoopTypeOK /\ [LoopNext]_loopVars => LoopTypeOK'
  <2> SUFFICES ASSUME LoopTypeOK, [LoopNext]_loopVars PROVE LoopTypeOK'
    OBVIOUS
  <2> USE SupervisionAssumption DEF SupervisionAssumption, LoopTypeOK, watchVars, mainVars
  <2>1. CASE LoopHead
    BY <2>1 DEF LoopHead
  <2>2. CASE \E w \in Interval : Wait(w)
    BY <2>2 DEF Wait
  <2>3. CASE Wake
    BY <2>3 DEF Wake
  <2>4. CASE Close \/ Join
    BY <2>4 DEF Close, Join
  <2>5. CASE StopFlag \/ StopSignal
    BY <2>5 DEF StopFlag, StopSignal
  <2>6. CASE WatchExit \/ WatchNow
    BY <2>6 DEF WatchExit, WatchNow
  <2>7. CASE WatchLoad
    BY <2>7 DEF WatchLoad
  <2>8. CASE WatchFlag \/ WatchSignal
    BY <2>8 DEF WatchFlag, WatchSignal
  <2>9. CASE WatchReset
    BY <2>9, <1>0 DEF WatchReset
  <2>10. CASE Pass
    <3>1. \A age \in 0..Oldest : Older(age) \in 0..Oldest
      BY DEF Older
    <3>2. beat' \in 0..Oldest /\ wnow' \in 0..Oldest /\ quiet' \in 0..Oldest
      BY <2>10, <3>1 DEF Pass
    <3>3. worked' \in 0..MaxWork /\ wdue' \in 0..(PollSeconds + Slack)
      BY <2>10 DEF Pass
    <3>4. due' = 0 \/ \E w \in Interval : due' \in 0..w
      BY <2>10 DEF Pass
    <3>5. QED
      BY <2>10, <3>2, <3>3, <3>4 DEF Pass
  <2>11. CASE UNCHANGED loopVars
    BY <2>11 DEF loopVars
  <2>12. QED
    BY <2>1, <2>2, <2>3, <2>4, <2>5, <2>6, <2>7, <2>8, <2>9, <2>10, <2>11
    DEF LoopNext, Main, Watch
<1>3. QED
  BY <1>1, <1>2, PTL DEF LoopSpec

(* The loop never sleeps through a request to stop, whoever makes it and    *)
(* wherever the loop is: stop() and the watchdog set the flag before they   *)
(* signal, and the event is reset by the wait that it ends.                 *)
THEOREM NoWakeupIsLost == LoopSpec => []NoLostWakeup
<1>1. LoopInit => EventKept
  BY DEF LoopInit, EventKept
<1>2. LoopTypeOK /\ EventKept /\ [LoopNext]_loopVars => EventKept'
  <2> SUFFICES ASSUME LoopTypeOK, EventKept, [LoopNext]_loopVars PROVE EventKept'
    OBVIOUS
  <2> USE DEF LoopTypeOK, EventKept, Signaling, watchVars, mainVars
  <2>1. CASE Main
    BY <2>1 DEF Main, LoopHead, Wait, Wake, Close, Join
  <2>2. CASE StopFlag \/ StopSignal
    BY <2>2 DEF StopFlag, StopSignal
  <2>3. CASE Watch
    BY <2>3 DEF Watch, WatchExit, WatchNow, WatchLoad, WatchFlag, WatchSignal, WatchReset
  <2>4. CASE Pass
    BY <2>4 DEF Pass
  <2>5. CASE UNCHANGED loopVars
    BY <2>5 DEF loopVars
  <2>6. QED
    BY <2>1, <2>2, <2>3, <2>4, <2>5 DEF LoopNext
<1>3. EventKept => NoLostWakeup
  BY DEF EventKept, NoLostWakeup
<1>4. QED
  BY <1>1, <1>2, <1>3, LoopTypeCorrect, PTL DEF LoopSpec

(* What the watchdog can have missed while nobody asked for a stop: it has  *)
(* not set its timer again, so the two ages agree, and each of its phases   *)
(* adds its own length to the age that the last look let pass.              *)
Noticing ==
  /\ wstop \/ mpc \in {"close", "join", "done"} \/ wpc \in {"signal", "reset", "exited"} => stop
  /\ wpc = "sleep" => wdue <= PollSeconds
  /\ wpc = "load"  => wdue <= Slack /\ wnow = Slack - wdue
  /\ wpc = "flag"  => wdue <= Slack
  /\ ~stop => /\ beat = quiet
              /\ wpc = "sleep" => quiet <= Threshold + Slack + (PollSeconds - wdue)
              /\ wpc = "load"  => quiet <= Threshold + PollSeconds + Slack + (Slack - wdue)
              /\ wpc = "flag"  => quiet <= Threshold + PollSeconds + 2 * Slack + (Slack - wdue)

(* An age that the comparison lets pass is not above the threshold by more  *)
(* than the value of "now" is old.                                          *)
LEMMA LetPass ==
  ASSUME LoopTypeOK, Elapsed <= Threshold
  PROVE  beat <= Threshold + wnow
<1>1. CASE beat < wnow
  BY <1>1, SupervisionAssumption DEF LoopTypeOK, SupervisionAssumption
<1>2. CASE beat >= wnow
  <2>1. beat - wnow \in 0..(Wrap - 1) /\ Wrap \in Nat \ {0}
    BY <1>2, SupervisionAssumption DEF LoopTypeOK, SupervisionAssumption
  <2>2. \A a \in Int, w \in Nat \ {0} : a \in 0..(w - 1) => a % w = a
    OBVIOUS
  <2>3. Elapsed = beat - wnow
    BY <2>1, <2>2 DEF Elapsed
  <2>4. QED
    BY <2>3, SupervisionAssumption DEF LoopTypeOK, SupervisionAssumption
<1>3. QED
  BY <1>1, <1>2 DEF LoopTypeOK

(* A loop that is stuck is asked to stop within the threshold, a poll and   *)
(* the delays of the watchdog, for every length of these.                   *)
THEOREM StallsAreNoticed == LoopSpec => []StallNoticed
<1>1. LoopInit => Noticing
  BY SupervisionAssumption DEF LoopInit, Noticing, SupervisionAssumption
<1>2. LoopTypeOK /\ Noticing /\ [LoopNext]_loopVars => Noticing'
  <2> SUFFICES ASSUME LoopTypeOK, Noticing, [LoopNext]_loopVars PROVE Noticing'
    OBVIOUS
  <2> USE SupervisionAssumption DEF SupervisionAssumption, LoopTypeOK, Noticing, watchVars, mainVars
  <2>1. CASE Main
    <3>1. CASE LoopHead
      BY <3>1 DEF LoopHead
    <3>2. CASE (\E w \in Interval : Wait(w)) \/ Wake \/ Close \/ Join
      BY <3>2 DEF Wait, Wake, Close, Join
    <3>3. QED
      BY <2>1, <3>1, <3>2 DEF Main
  <2>2. CASE StopFlag \/ StopSignal
    BY <2>2 DEF StopFlag, StopSignal
  <2>3. CASE WatchExit \/ WatchNow \/ WatchFlag \/ WatchSignal \/ WatchReset
    BY <2>3 DEF WatchExit, WatchNow, WatchFlag, WatchSignal, WatchReset
  <2>4. CASE WatchLoad
    <3>1. CASE Elapsed > Threshold
      BY <2>4, <3>1 DEF WatchLoad
    <3>2. CASE ~(Elapsed > Threshold)
      <4>1. Elapsed \in Int
        BY DEF Elapsed
      <4>2. beat <= Threshold + wnow
        BY <3>2, <4>1, LetPass
      <4>3. QED
        BY <2>4, <3>2, <4>2 DEF WatchLoad
    <3>3. QED
      BY <3>1, <3>2
  <2>5. CASE Pass
    <3>1. wpc = "load" => wnow' = wnow + 1
      BY <2>5 DEF Pass, Older
    <3>2. ~stop => beat' = beat + 1 /\ quiet' = quiet + 1
      BY <2>5 DEF Pass, Older
    <3>3. /\ wpc # "exited" => wdue > 0 /\ wdue' = wdue - 1
          /\ UNCHANGED <<mpc, stop, event, caller, wpc, wstop>>
      BY <2>5 DEF Pass
    <3>4. QED
      BY <3>1, <3>2, <3>3
  <2>6. CASE UNCHANGED loopVars
    BY <2>6 DEF loopVars
  <2>7. QED
    BY <2>1, <2>2, <2>3, <2>4, <2>5, <2>6 DEF LoopNext, Watch
<1>3. LoopTypeOK /\ Noticing => StallNoticed
  BY SupervisionAssumption DEF SupervisionAssumption, LoopTypeOK, Noticing, StallNoticed
<1>4. QED
  BY <1>1, <1>2, <1>3, LoopTypeCorrect, PTL DEF LoopSpec

-----------------------------------------------------------------------------
(* The channel: types.                                                      *)

(* What a reader of the executor's ring finds there.                        *)
LEMMA UnreadType ==
  ASSUME ChannelAssumption, agent \in Nat, NEW from \in Nat, NEW head \in Nat, from <= head
  PROVE  \E first \in Nat :
           /\ from <= first /\ first <= head /\ (first = from \/ first = head - Cap)
           /\ head - first <= Cap
           /\ Unread(from, head) \in Seq(Nat \X Nat)
           /\ Len(Unread(from, head)) = head - first
           /\ \A i \in 1 .. head - first : Unread(from, head)[i] = <<agent, first + i - 1>>
<1> DEFINE first == IF head - from > Cap THEN head - Cap ELSE from
           u == [i \in 1 .. head - first |-> <<agent, first + i - 1>>]
<1>1. first \in Nat /\ from <= first /\ first <= head /\ head - first <= Cap
      /\ (first = from \/ first = head - Cap) /\ head - first \in Nat
  BY DEF ChannelAssumption
<1>2. Unread(from, head) = u
  BY DEF Unread
<1> HIDE DEF first
<1>3. \A i \in 1 .. head - first : u[i] = <<agent, first + i - 1>> /\ u[i] \in Nat \X Nat
  BY <1>1
<1>4. u \in Seq(Nat \X Nat) /\ Len(u) = head - first
  BY <1>1, <1>3
<1> HIDE DEF u
<1> QED
  BY <1>1, <1>2, <1>3, <1>4

(* The agent: it publishes only while it has publications left.             *)
AgentInv == AgentTyped /\ (apc = "publish" => version < MaxPublish)

LEMMA AgentStep ==
  ASSUME ChannelAssumption, AgentInv, SlotTyped, [Next]_vars PROVE AgentInv'
<1> DEFINE Cmds == [seq : 0..MaxCmd, kind : Field, arg : Field]
<1>1. /\ agent \in 0..MaxAgent /\ version \in 0..MaxPublish /\ last \in 0..MaxCmd
      /\ cur \in Cmds /\ cur.seq \in 0..MaxCmd
      /\ MaxAgent \in Nat /\ MaxPublish \in Nat /\ MaxCmd \in Nat
  BY DEF AgentInv, AgentTyped, ChannelAssumption
<1>2. slot.seq \in 0..MaxCmd /\ slot.kind \in Field /\ slot.arg \in Field /\ "none" \in Field
  BY DEF SlotTyped, Field
<1>3. NoCmd \in Cmds /\ [NoCmd EXCEPT !.seq = slot.seq] \in Cmds
      /\ [cur EXCEPT !.kind = slot.kind] \in Cmds /\ [cur EXCEPT !.arg = slot.arg] \in Cmds
  BY <1>1, <1>2 DEF NoCmd
<1> DEFINE Places == {"down", "poll", "kind", "arg", "ack", "work", "publish", "table",
                      "state", "end", "revert"}
<1>4. CASE Poll \/ ReadKind \/ Execute \/ Ack
  <2>1. UNCHANGED <<agent, version>> /\ apc' \in {"kind", "work", "arg", "ack"}
    BY <1>4 DEF Poll, ReadKind, Execute, Ack, shmVars
  <2>2. last' \in 0..MaxCmd
    BY <1>1, <1>4 DEF Poll, ReadKind, Execute, Ack
  <2>3. cur' \in Cmds
    BY <1>1, <1>3, <1>4 DEF Poll, ReadKind, Execute, Ack
  <2> QED
    BY <1>1, <2>1, <2>2, <2>3 DEF AgentInv, AgentTyped
<1>5. CASE \/ \E n \in 0..Burst : Work(n) \/ RevertAll(n)
           \/ WriteTable \/ WriteState \/ WriteEnd \/ Kill \/ Stop
  <2>1. UNCHANGED <<agent, version, last, cur>>
    BY <1>5 DEF Work, RevertAll, WriteTable, WriteState, WriteEnd, Kill, Stop, shmVars
  <2>2. apc' \in Places /\ (apc' = "publish" => version # MaxPublish)
    BY <1>5 DEF Work, RevertAll, WriteTable, WriteState, WriteEnd, Kill, Stop
  <2>3. version # MaxPublish => version < MaxPublish
    BY <1>1
  <2> QED
    BY <1>1, <2>1, <2>2, <2>3 DEF AgentInv, AgentTyped
<1>6. CASE Publish
  <2>1. UNCHANGED <<agent, last, cur>> /\ apc' = "table" /\ version' = version + 1
        /\ version < MaxPublish
    BY <1>6 DEF Publish, AgentInv
  <2>2. version' \in 0..MaxPublish
    BY <1>1, <2>1
  <2> QED
    BY <1>1, <2>1, <2>2 DEF AgentInv, AgentTyped
<1>7. CASE Open
  <2>1. agent' = agent + 1 /\ agent < MaxAgent /\ apc' = "poll" /\ last' = 0 /\ version' = 0
        /\ cur' = NoCmd
    BY <1>7 DEF Open
  <2>2. agent' \in 0..MaxAgent /\ last' \in 0..MaxCmd /\ version' \in 0..MaxPublish
    BY <1>1, <2>1
  <2> QED
    BY <1>3, <2>1, <2>2 DEF AgentInv, AgentTyped
<1>8. CASE (\E c \in Client : ClientStep(c)) \/ UNCHANGED vars
  <2>1. UNCHANGED <<agent, apc, last, cur, version>>
    BY <1>8 DEF ClientStep, Connect, Disconnect, SendKind, SendArg, Bump,
                ReadBegin, ReadState, ReadTable, ReadCheck, shmVars, vars, agentVars
  <2> QED
    BY <2>1 DEF AgentInv, AgentTyped
<1> QED
  BY <1>4, <1>5, <1>6, <1>7, <1>8 DEF Next, Tick, Lifecycle

(* The logs: a cursor is never ahead of what was logged.                    *)
LogsKept == LogsTyped /\ shipped <= logged /\ audited <= logged

LEMMA LogsStep ==
  ASSUME ChannelAssumption, AgentTyped, LogsKept, [Next]_vars PROVE LogsKept'
<1> DEFINE Log == Seq(Nat \X Nat)
<1>1. agent \in Nat /\ Cap \in Nat /\ 0 <= Cap
  BY DEF AgentTyped, ChannelAssumption
<1>2. << >> \in Log /\ Len(<< >>) = 0
  OBVIOUS
<1>3. /\ logged \in Nat /\ shipped \in Nat /\ audited \in Nat /\ audit \in Log /\ ring \in Log
      /\ Len(ring) <= Cap /\ shipped <= logged /\ audited <= logged
  BY DEF LogsKept, LogsTyped
<1> DEFINE RingKept == ring' \in Log /\ Len(ring') <= Cap
<1>4. (UNCHANGED ring \/ ring' = << >>) => RingKept
  BY <1>1, <1>2, <1>3
<1>5. RingKept /\ audit' \in Log /\ UNCHANGED <<logged, shipped, audited>> => LogsKept'
  BY <1>3 DEF LogsKept, LogsTyped
<1>6. ASSUME NEW n \in 0..Burst, Work(n) \/ RevertAll(n) PROVE LogsKept'
  <2>1. /\ logged' = logged + n /\ audited' = logged' /\ UNCHANGED <<shipped, ring>>
        /\ audit' = audit \o Unread(audited, logged')
    BY <1>6 DEF Work, RevertAll, shmVars
  <2>2. n \in Nat
    BY DEF ChannelAssumption
  <2>3. logged' \in Nat /\ logged <= logged' /\ audited <= logged' /\ shipped <= logged'
    BY <1>3, <2>1, <2>2
  <2>4. Unread(audited, logged') \in Log
    BY <1>1, <1>3, <2>3, UnreadType
  <2>5. audit' \in Log
    BY <1>3, <2>1, <2>4
  <2>6. RingKept
    BY <1>4, <2>1
  <2> QED
    BY <1>3, <2>1, <2>3, <2>5, <2>6 DEF LogsKept, LogsTyped
<1>7. CASE Publish
  <2> DEFINE all == ring \o Unread(shipped, logged)
             n == IF Len(all) > Cap THEN Cap ELSE Len(all)
  <2>1. Unread(shipped, logged) \in Log
    BY <1>1, <1>3, UnreadType
  <2>2. all \in Log /\ Len(all) \in Nat
    BY <1>3, <2>1
  <2>3. n \in Nat /\ n <= Len(all) /\ n <= Cap
    BY <1>1, <2>2
  <2>4. ring' = SubSeq(all, 1, n)
    BY <1>7 DEF Publish
  <2>5. shipped' = logged /\ UNCHANGED <<logged, audited, audit>>
    BY <1>7 DEF Publish
  <2> HIDE DEF all, n
  <2>6. ring' \in Log /\ Len(ring') <= Cap
    BY <2>2, <2>3, <2>4
  <2> QED
    BY <1>3, <2>5, <2>6 DEF LogsKept, LogsTyped
<1>8. CASE Kill
  <2> DEFINE flushed == {i \in DOMAIN audit : audit[i][1] < agent}
  <2>1. DOMAIN audit = 1 .. Len(audit) /\ Len(audit) \in Nat
    BY <1>3
  <2>2. IsFiniteSet(1 .. Len(audit))
    BY <2>1, FS_Interval
  <2>3. flushed \subseteq 1 .. Len(audit)
    BY <2>1
  <2> HIDE DEF flushed
  <2>4. Cardinality(flushed) \in Nat
    BY <2>2, <2>3, FS_Subset, FS_CardinalityType
  <2>5. PICK n \in Cardinality(flushed) .. Len(audit) : audit' = SubSeq(audit, 1, n)
    BY <1>8 DEF Kill, flushed
  <2>6. n \in Nat /\ n <= Len(audit)
    BY <2>1, <2>4
  <2>7. audit' \in Log
    BY <1>3, <2>5, <2>6
  <2>8. UNCHANGED <<logged, shipped, audited>> /\ (UNCHANGED ring \/ ring' = << >>)
    BY <1>8 DEF Kill, Released
  <2> QED
    BY <1>4, <1>5, <2>7, <2>8
<1>9. CASE Open
  <2>1. logged' = 0 /\ shipped' = 0 /\ audited' = 0 /\ UNCHANGED <<audit, ring>>
    BY <1>9 DEF Open
  <2> QED
    BY <1>3, <2>1 DEF LogsKept, LogsTyped
<1>10. ASSUME UNCHANGED logVars, UNCHANGED ring \/ ring' = << >> PROVE LogsKept'
  BY <1>3, <1>4, <1>5, <1>10 DEF logVars
<1>11. CASE Stop \/ \E c \in Client : ClientStep(c)
  <2>1. UNCHANGED logVars /\ (UNCHANGED ring \/ ring' = << >>)
    BY <1>11 DEF ClientStep, Connect, Disconnect, SendKind, SendArg, Bump, Stop,
                ReadBegin, ReadState, ReadTable, ReadCheck, shmVars, Released
  <2> QED
    BY <1>10, <2>1
<1>12. CASE UNCHANGED vars \/ Poll \/ ReadKind \/ Execute \/ Ack \/ WriteTable \/ WriteState
           \/ WriteEnd
  <2>1. UNCHANGED logVars /\ UNCHANGED ring
    BY <1>12 DEF vars, Poll, ReadKind, Execute, Ack, WriteTable, WriteState, WriteEnd, shmVars,
                logVars
  <2> QED
    BY <1>10, <2>1
<1> QED
  BY <1>6, <1>7, <1>8, <1>9, <1>11, <1>12 DEF Next, Tick, Lifecycle

(* The command slot: a client begins to send only while its number will fit, *)
(* with those of the clients that are sending.                              *)
Sending == {d \in Client : cpc[d] # "idle"}

SlotKept == SlotTyped /\ slot.seq + Cardinality(Sending) <= MaxCmd

LEMMA SendingType ==
  ASSUME ChannelAssumption
  PROVE  IsFiniteSet(Sending) /\ Cardinality(Sending) \in Nat
BY FS_Subset, FS_CardinalityType DEF ChannelAssumption, Sending

(* With the mapping its slot and its history go, or nothing of them.        *)
LEMMA SlotReleased ==
  ASSUME ChannelAssumption, SlotKept, UNCHANGED cpc,
         sent' \in [Client -> [seq : 0..MaxCmd, kind : Field, arg : Field]],
         UNCHANGED <<slot, done>> \/ (slot' = ZeroSlot /\ done' = {})
  PROVE  SlotKept'
<1>1. Cardinality(Sending) \in Nat /\ Sending' = Sending
  BY SendingType DEF Sending
<1>2. ZeroSlot \in [seq : 0..MaxCmd, ack : 0..MaxCmd, kind : Field, arg : Field]
  BY DEF ZeroSlot, Field, ChannelAssumption
<1>3. CASE UNCHANGED <<slot, done>>
  BY <1>1, <1>3 DEF SlotKept, SlotTyped
<1>4. CASE slot' = ZeroSlot /\ done' = {}
  <2>1. slot.seq \in Nat /\ MaxCmd \in Nat /\ slot'.seq = 0
    BY <1>4 DEF SlotKept, SlotTyped, ZeroSlot, ChannelAssumption
  <2>2. slot'.seq + Cardinality(Sending') <= MaxCmd
    BY <1>1, <2>1 DEF SlotKept
  <2> QED
    BY <1>2, <1>4, <2>2 DEF SlotKept, SlotTyped
<1> QED
  BY <1>3, <1>4

LEMMA SlotStep ==
  ASSUME ChannelAssumption, AgentTyped, SlotKept, [Next]_vars PROVE SlotKept'
<1>1. ASSUME NEW c \in Client, NEW k \in Cmd, SendKind(c, k) PROVE SlotKept'
  <2>1. Sending' = Sending \cup {c} /\ c \notin Sending
    BY <1>1 DEF SendKind, Sending, SlotKept, SlotTyped
  <2>2. Cardinality(Sending') = Cardinality(Sending) + 1 /\ Cardinality(Sending) \in Nat
    BY <2>1, SendingType, FS_AddElement
  <2>3. slot.seq + Cardinality(Sending) < MaxCmd
    BY <1>1 DEF SendKind, Sending
  <2>4. slot'.seq = slot.seq /\ slot.seq \in Nat /\ MaxCmd \in Nat
    BY <1>1 DEF SendKind, SlotKept, SlotTyped, ChannelAssumption
  <2>5. slot'.seq + Cardinality(Sending') <= MaxCmd
    BY <2>2, <2>3, <2>4
  <2>6. SlotTyped'
    BY <1>1 DEF SendKind, SlotKept, SlotTyped, Field, ChannelAssumption
  <2> QED
    BY <2>5, <2>6 DEF SlotKept
<1>2. ASSUME NEW c \in Client, SendArg(c) PROVE SlotKept'
  <2>1. Sending' = Sending /\ slot'.seq = slot.seq
    BY <1>2 DEF SendArg, Sending, SlotKept, SlotTyped
  <2>2. SlotTyped'
    BY <1>2 DEF SendArg, SlotKept, SlotTyped
  <2> QED
    BY <2>1, <2>2 DEF SlotKept
<1>3. ASSUME NEW c \in Client, Bump(c) PROVE SlotKept'
  <2>1. Sending' = Sending \ {c} /\ c \in Sending
    BY <1>3 DEF Bump, Sending, SlotKept, SlotTyped
  <2>2. /\ IsFiniteSet(Sending') /\ Cardinality(Sending') = Cardinality(Sending) - 1
        /\ Cardinality(Sending) \in Nat
    BY <2>1, SendingType, FS_RemoveElement
  <2>3. Cardinality(Sending') \in Nat
    BY <2>2, FS_CardinalityType
  <2>4. slot'.seq = slot.seq + 1 /\ slot.seq \in Nat /\ MaxCmd \in Nat
    BY <1>3 DEF Bump, SlotKept, SlotTyped, ChannelAssumption
  <2>5. slot'.seq + Cardinality(Sending') <= MaxCmd
    BY <2>2, <2>3, <2>4 DEF SlotKept
  <2>6. slot.seq + 1 \in 0..MaxCmd
    BY <2>3, <2>4, <2>5
  <2>7. SlotTyped'
    BY <1>3, <2>6 DEF Bump, SlotKept, SlotTyped
  <2> QED
    BY <2>5, <2>7 DEF SlotKept
<1>4. CASE Execute
  <2>1. cur' \in [seq : 0..MaxCmd, kind : Field, arg : Field]
    BY <1>4 DEF Execute, AgentTyped, SlotKept, SlotTyped
  <2>2. UNCHANGED <<slot, sent, cpc>> /\ done' = done \cup {cur'}
    BY <1>4 DEF Execute, shmVars, clientVars
  <2> QED
    BY <2>1, <2>2 DEF SlotKept, SlotTyped, Sending
<1>5. CASE Ack
  <2>1. cur.seq \in 0..MaxCmd /\ slot' = [slot EXCEPT !.ack = cur.seq] /\ UNCHANGED <<sent, cpc, done>>
    BY <1>5 DEF Ack, AgentTyped, clientVars
  <2> QED
    BY <2>1 DEF SlotKept, SlotTyped, Sending
<1>6. CASE Kill \/ Stop
  <2>1. UNCHANGED <<cpc, sent>> /\ (UNCHANGED <<slot, done>> \/ (slot' = ZeroSlot /\ done' = {}))
    BY <1>6 DEF Kill, Stop, Released, clientVars
  <2> QED
    BY <2>1, SlotReleased DEF SlotKept, SlotTyped
<1>7. ASSUME NEW c \in Client, Disconnect(c) PROVE SlotKept'
  <2>1. UNCHANGED cpc /\ (UNCHANGED <<slot, done>> \/ (slot' = ZeroSlot /\ done' = {}))
    BY <1>7 DEF Disconnect, Released
  <2>2. sent' \in [Client -> [seq : 0..MaxCmd, kind : Field, arg : Field]]
    BY <1>7 DEF Disconnect, NoCmd, Field, SlotKept, SlotTyped, ChannelAssumption
  <2> QED
    BY <2>1, <2>2, SlotReleased
<1>8. CASE \/ Poll \/ ReadKind \/ Publish \/ WriteTable \/ WriteState \/ WriteEnd \/ Open
           \/ \E n \in 0..Burst : Work(n) \/ RevertAll(n)
           \/ UNCHANGED vars
           \/ \E c \in Client : Connect(c) \/ ReadBegin(c) \/ ReadState(c) \/ ReadTable(c)
                                \/ ReadCheck(c)
  <2>1. UNCHANGED <<slot, sent, cpc, done>>
    BY <1>8 DEF Poll, ReadKind, Publish, WriteTable, WriteState, WriteEnd, Open, Work, RevertAll,
                vars, Connect, ReadBegin, ReadState, ReadTable, ReadCheck, shmVars, clientVars
  <2> QED
    BY <2>1 DEF SlotKept, SlotTyped, Sending
<1> QED
  BY <1>1, <1>2, <1>3, <1>4, <1>5, <1>6, <1>7, <1>8 DEF Next, Tick, Lifecycle, ClientStep

(* The snapshot and its readers.                                            *)
LEMMA SnapshotStep ==
  ASSUME ChannelAssumption, AgentTyped, SnapshotTyped, [Next]_vars PROVE SnapshotTyped'
<1> USE DEF SnapshotTyped
<1>1. agent \in Nat /\ version \in Nat /\ Zero \in Nat \X Nat /\ NoRead.pc = "idle"
      /\ NoRead \in [pc : {"idle", "begun", "half", "full", "clean"}, s0 : Nat,
                     of : Nat, to : Nat, state : Nat \X Nat, table : Nat \X Nat]
  BY DEF AgentTyped, ChannelAssumption, Zero, NoRead
<1>2. CASE Publish \/ WriteTable \/ WriteState \/ WriteEnd \/ Open \/ Kill \/ Stop
  <2>1. mapped' = mapped /\ read' = read
    BY <1>2 DEF Publish, WriteTable, WriteState, WriteEnd, Open, Kill, Stop, clientVars
  <2>2. open' \in BOOLEAN /\ seq' \in {seq, seq + 1, seq + 2, 0}
        /\ table' \in {table, Zero, <<agent, version>>}
        /\ state' \in {state, Zero, <<agent, version>>}
    BY <1>2 DEF Publish, WriteTable, WriteState, WriteEnd, Open, Kill, Stop, Released
  <2> QED
    BY <1>1, <2>1, <2>2
<1>3. CASE Poll \/ ReadKind \/ Execute \/ Ack \/ \E n \in 0..Burst : Work(n) \/ RevertAll(n)
  BY <1>3 DEF Poll, ReadKind, Execute, Ack, Work, RevertAll, shmVars, clientVars
<1>4. ASSUME NEW c \in Client, Connect(c) \/ Disconnect(c) PROVE SnapshotTyped'
  <2>1. mapped' \subseteq Client /\ (read' = read \/ read' = [read EXCEPT ![c] = NoRead])
    BY <1>4 DEF Connect, Disconnect
  <2>2. open' \in BOOLEAN /\ seq' \in {seq, 0} /\ table' \in {table, Zero}
        /\ state' \in {state, Zero}
    BY <1>4 DEF Connect, Disconnect, Released, shmVars
  <2> QED
    BY <1>1, <2>1, <2>2
<1>5. ASSUME NEW c \in Client, ReadBegin(c) \/ ReadState(c) \/ ReadTable(c) \/ ReadCheck(c)
      PROVE  SnapshotTyped'
  <2>1. UNCHANGED <<open, mapped, seq, table, state>>
    BY <1>5 DEF ReadBegin, ReadState, ReadTable, ReadCheck, shmVars
  <2>2. \E r \in [pc : {"idle", "begun", "half", "full", "clean"}, s0 : Nat,
                  of : Nat, to : Nat, state : Nat \X Nat, table : Nat \X Nat] :
          read' = [read EXCEPT ![c] = r]
    <3>1. CASE ReadBegin(c)
      <4> DEFINE r == [NoRead EXCEPT !.pc = "begun", !.s0 = seq, !.of = agent]
      <4>1. r \in [pc : {"idle", "begun", "half", "full", "clean"}, s0 : Nat,
                  of : Nat, to : Nat, state : Nat \X Nat, table : Nat \X Nat]
        BY <1>1
      <4> QED
        BY <3>1, <4>1 DEF ReadBegin
    <3>2. CASE ReadState(c)
      <4> DEFINE r == [read[c] EXCEPT !.pc = "half", !.state = state]
      <4>1. r \in [pc : {"idle", "begun", "half", "full", "clean"}, s0 : Nat,
                  of : Nat, to : Nat, state : Nat \X Nat, table : Nat \X Nat]
        BY <1>1
      <4>2. read' = [read EXCEPT ![c] = r]
        BY <3>2 DEF ReadState
      <4> QED
        BY <4>1, <4>2
    <3>3. CASE ReadTable(c)
      <4> DEFINE r == [read[c] EXCEPT !.pc = "full", !.table = table]
      <4>1. r \in [pc : {"idle", "begun", "half", "full", "clean"}, s0 : Nat,
                  of : Nat, to : Nat, state : Nat \X Nat, table : Nat \X Nat]
        BY <1>1
      <4>2. read' = [read EXCEPT ![c] = r]
        BY <3>3 DEF ReadTable
      <4> QED
        BY <4>1, <4>2
    <3>4. CASE ReadCheck(c)
      <4> DEFINE r == IF seq = read[c].s0 THEN [read[c] EXCEPT !.pc = "clean", !.to = agent]
                      ELSE NoRead
      <4>1. r \in [pc : {"idle", "begun", "half", "full", "clean"}, s0 : Nat,
                  of : Nat, to : Nat, state : Nat \X Nat, table : Nat \X Nat]
        BY <1>1
      <4>2. read' = [read EXCEPT ![c] = r]
        BY <3>4 DEF ReadCheck
      <4> QED
        BY <4>1, <4>2
    <3> QED
      BY <1>5, <3>1, <3>2, <3>3, <3>4
  <2> QED
    BY <2>1, <2>2
<1>6. ASSUME NEW c \in Client, (\E k \in Cmd : SendKind(c, k)) \/ SendArg(c) \/ Bump(c)
      PROVE  SnapshotTyped'
  BY <1>6 DEF SendKind, SendArg, Bump
<1>7. CASE UNCHANGED vars
  BY <1>7 DEF vars, shmVars, clientVars
<1> QED
  BY <1>2, <1>3, <1>4, <1>5, <1>6, <1>7 DEF Next, Tick, Lifecycle, ClientStep

(* The four parts together.                                                 *)
TypeInv == AgentInv /\ LogsKept /\ SlotKept /\ SnapshotTyped

LEMMA TypeInvariant ==
  ASSUME ChannelAssumption PROVE Spec => []TypeInv
<1>1. Init => TypeInv
  <2> SUFFICES ASSUME Init PROVE TypeInv
    OBVIOUS
  <2>1. << >> \in Seq(Nat \X Nat) /\ Len(<< >>) = 0
    OBVIOUS
  <2>2. Sending = {} /\ Cardinality({}) = 0
    BY FS_EmptySet DEF Init, Sending
  <2>3. AgentInv
    BY DEF Init, AgentInv, AgentTyped, ChannelAssumption, NoCmd, Field
  <2>4. LogsKept
    BY <2>1 DEF Init, LogsKept, LogsTyped, ChannelAssumption
  <2>5. SlotKept
    BY <2>2 DEF Init, SlotKept, SlotTyped, ChannelAssumption, NoCmd, ZeroSlot, Field
  <2>6. SnapshotTyped
    BY DEF Init, SnapshotTyped, NoRead, Zero
  <2> QED
    BY <2>3, <2>4, <2>5, <2>6 DEF TypeInv
<1>2. TypeInv /\ [Next]_vars => TypeInv'
  BY AgentStep, LogsStep, SlotStep, SnapshotStep DEF TypeInv, AgentInv, SlotKept
<1> QED
  BY <1>1, <1>2, PTL DEF Spec

(* Every variable of the channel keeps its type: the ring of actions never   *)
(* has more than its capacity, whoever reads it, and the numbers of the slot *)
(* stay within the commands sent.                                           *)
THEOREM TypeCorrect ==
  ASSUME ChannelAssumption PROVE Spec => []TypeOK
<1>1. TypeInv => TypeOK
  BY DEF TypeInv, TypeOK, AgentInv, LogsKept, SlotKept
<1> QED
  BY <1>1, TypeInvariant, PTL

-----------------------------------------------------------------------------
(* The seqlock.                                                             *)

Reading(c) == read[c].pc \in {"begun", "half", "full"}

(* The number is odd from publish() to the end of the write, also when the   *)
(* write was never ended, and while it is even the rows are those of the     *)
(* state.                                                                    *)
WriterInv ==
  /\ apc \in {"table", "state", "end"} => seq % 2 = 1
  /\ apc \in {"poll", "kind", "arg", "ack", "work", "publish", "revert"} => seq % 2 = 0
  /\ apc = "state" => table = <<agent, version>>
  /\ apc = "end" => state = table
  /\ seq % 2 = 0 => state \in {Zero, table}

(* A reader whose number is still there has seen no write; with another      *)
(* agent the number begins anew, which is what of and to tell.               *)
ReaderInv(c) ==
  /\ read[c].of <= agent
  /\ Reading(c) => c \in mapped
  /\ Reading(c) /\ read[c].of = agent =>
       /\ read[c].s0 % 2 = 0 /\ read[c].s0 <= seq
       /\ read[c].s0 = seq =>
            /\ read[c].pc \in {"half", "full"} => read[c].state = state
            /\ read[c].pc = "full" => read[c].table = table
  /\ read[c].pc = "clean" /\ read[c].of = read[c].to => read[c].state \in {Zero, read[c].table}

SeqlockInv == WriterInv /\ \A c \in Client : ReaderInv(c)

LEMMA Parity ==
  ASSUME NEW n \in Nat
  PROVE  /\ n % 2 = 0 => (n + 1) % 2 = 1 /\ (n + 2) % 2 = 0
         /\ n % 2 = 1 => (n + 1) % 2 = 0
         /\ 0 % 2 = 0
OBVIOUS

LEMMA WriterStep ==
  ASSUME TypeInv, WriterInv, [Next]_vars PROVE WriterInv'
<1>1. seq \in Nat
  BY DEF TypeInv, SnapshotTyped
<1>2. ASSUME UNCHANGED <<seq, state, table>>, apc' = apc \/ apc' = "down"
             \/ {apc, apc'} \subseteq {"poll", "kind", "arg", "ack", "work", "publish", "revert"},
             UNCHANGED <<agent, version>>
      PROVE  WriterInv'
  BY <1>2 DEF WriterInv
<1>3. ASSUME seq' = 0, state' = Zero,
             apc' \in {"down", "poll", "kind", "arg", "ack", "work", "publish", "revert"}
      PROVE  WriterInv'
  BY <1>3, Parity DEF WriterInv
<1>4. CASE Publish
  <2>1. apc = "publish" /\ apc' = "table" /\ seq' = seq + 1
    BY <1>4 DEF Publish
  <2>2. seq' % 2 = 1
    BY <1>1, <2>1, Parity DEF WriterInv
  <2> QED
    BY <2>1, <2>2 DEF WriterInv
<1>5. CASE WriteTable
  BY <1>5 DEF WriteTable, WriterInv
<1>6. CASE WriteState
  BY <1>6 DEF WriteState, WriterInv
<1>7. CASE WriteEnd
  <2>1. apc = "end" /\ apc' = "poll" /\ seq' = seq + 1 /\ UNCHANGED <<state, table>>
    BY <1>7 DEF WriteEnd
  <2>2. seq' % 2 = 0
    BY <1>1, <2>1, Parity DEF WriterInv
  <2> QED
    BY <2>1, <2>2 DEF WriterInv
<1>8. CASE Stop
  <2>1. CASE mapped = {}
    BY <1>3, <1>8, <2>1 DEF Stop, Released
  <2>2. CASE mapped # {}
    <3>1. apc = "poll" /\ apc' = "revert" /\ seq' = seq + 2 /\ UNCHANGED <<state, table>>
      BY <1>8, <2>2 DEF Stop
    <3>2. seq' % 2 = 0
      BY <1>1, <3>1, Parity DEF WriterInv
    <3> QED
      BY <3>1, <3>2 DEF WriterInv
  <2> QED
    BY <2>1, <2>2
<1>9. CASE Open
  BY <1>3, <1>9 DEF Open
<1>10. CASE Kill
  <2>1. UNCHANGED <<agent, version>> /\ apc' = "down"
        /\ (UNCHANGED <<seq, state, table>> \/ (seq' = 0 /\ state' = Zero))
    BY <1>10 DEF Kill, Released
  <2> QED
    BY <1>2, <1>3, <2>1
<1>11. ASSUME NEW c \in Client, Disconnect(c) PROVE WriterInv'
  <2>1. UNCHANGED <<agent, apc, version>>
        /\ (UNCHANGED <<seq, state, table>>
            \/ (seq' = 0 /\ state' = Zero /\ apc \in {"down", "revert"}))
    BY <1>11 DEF Disconnect, Released, agentVars
  <2> QED
    BY <1>2, <1>3, <2>1
<1>12. CASE \/ UNCHANGED vars \/ Poll \/ ReadKind \/ Execute \/ Ack
            \/ \E n \in 0..Burst : Work(n) \/ RevertAll(n)
  <2>1. UNCHANGED <<seq, state, table, agent, version>>
    BY <1>12 DEF vars, agentVars, shmVars, Poll, ReadKind, Execute, Ack, Work, RevertAll
  <2>2. apc' = apc \/ apc' = "down"
        \/ {apc, apc'} \subseteq {"poll", "kind", "arg", "ack", "work", "publish", "revert"}
    BY <1>12 DEF vars, agentVars, Poll, ReadKind, Execute, Ack, Work, RevertAll
  <2> QED
    BY <1>2, <2>1, <2>2
<1>13. ASSUME NEW c \in Client,
              \/ Connect(c) \/ (\E k \in Cmd : SendKind(c, k)) \/ SendArg(c) \/ Bump(c)
              \/ ReadBegin(c) \/ ReadState(c) \/ ReadTable(c) \/ ReadCheck(c)
       PROVE  WriterInv'
  <2>1. UNCHANGED <<seq, state, table, agent, version, apc>>
    BY <1>13 DEF Connect, SendKind, SendArg, Bump, ReadBegin, ReadState, ReadTable, ReadCheck,
                 agentVars, shmVars
  <2> QED
    BY <1>2, <2>1
<1> QED
  BY <1>4, <1>5, <1>6, <1>7, <1>8, <1>9, <1>10, <1>11, <1>12, <1>13
  DEF Next, Tick, Lifecycle, ClientStep

(* A copy begun while the agent lives is spoilt only by a step that moves    *)
(* the number on, or that is taken while the number is odd.                  *)
LEMMA CopyKept ==
  ASSUME TypeInv, NEW c \in Client, ReaderInv(c),
         read'[c] = read[c], agent' = agent, c \in mapped => c \in mapped',
         seq' \in Nat,
         UNCHANGED <<seq, state, table>> \/ seq' > seq \/ (seq' = seq /\ seq % 2 = 1)
  PROVE  ReaderInv(c)'
<1>1. seq \in Nat /\ read[c].s0 \in Nat
  BY DEF TypeInv, SnapshotTyped
<1>2. CASE UNCHANGED <<seq, state, table>>
  BY <1>2 DEF ReaderInv, Reading
<1>3. CASE seq' > seq
  <2>1. read[c].s0 <= seq => read[c].s0 <= seq' /\ read[c].s0 # seq'
    BY <1>1, <1>3
  <2> QED
    BY <2>1 DEF ReaderInv, Reading
<1>4. CASE seq' = seq /\ seq % 2 = 1
  <2>1. read[c].s0 % 2 = 0 => read[c].s0 # seq
    BY <1>4
  <2> QED
    BY <1>4, <2>1 DEF ReaderInv, Reading
<1> QED
  BY <1>2, <1>3, <1>4

(* A copy that nobody is making is not spoilt by the end of an agent.        *)
LEMMA CopyLeft ==
  ASSUME NEW c \in Client, ReaderInv(c), ~ Reading(c), read'[c] = read[c], agent' = agent
  PROVE  ReaderInv(c)'
BY DEF ReaderInv, Reading

LEMMA ReaderStep ==
  ASSUME ChannelAssumption, TypeInv, TypeInv', SeqlockInv, [Next]_vars, NEW c \in Client
  PROVE  ReaderInv(c)'
<1>1. seq \in Nat /\ seq' \in Nat /\ agent \in Nat /\ ReaderInv(c) /\ WriterInv
  BY DEF TypeInv, SnapshotTyped, AgentInv, AgentTyped, ChannelAssumption, SeqlockInv
<1>2. /\ read \in [Client -> [pc : {"idle", "begun", "half", "full", "clean"}, s0 : Nat, of : Nat,
                               to : Nat, state : Nat \X Nat, table : Nat \X Nat]]
      /\ NoRead.pc = "idle" /\ NoRead.of = 0
  BY DEF TypeInv, SnapshotTyped, NoRead
<1>3. CASE Publish \/ WriteTable \/ WriteState \/ WriteEnd
  <2>1. UNCHANGED <<read, agent, mapped>>
    BY <1>3 DEF Publish, WriteTable, WriteState, WriteEnd, clientVars
  <2>2. seq' = seq + 1 \/ (seq' = seq /\ seq % 2 = 1)
    BY <1>1, <1>3 DEF Publish, WriteTable, WriteState, WriteEnd, WriterInv
  <2>3. seq' > seq \/ (seq' = seq /\ seq % 2 = 1)
    BY <1>1, <2>2
  <2> QED
    BY <1>1, <2>1, <2>3, CopyKept
<1>4. CASE Stop \/ Kill
  <2>1. UNCHANGED <<read, agent, mapped>>
    BY <1>4 DEF Stop, Kill, clientVars
  <2>2. CASE mapped = {}
    BY <1>1, <2>1, <2>2, CopyLeft DEF ReaderInv
  <2>3. CASE mapped # {}
    <3>1. UNCHANGED <<seq, state, table>> \/ seq' = seq + 2
      BY <1>4, <2>3 DEF Stop, Kill, Released
    <3>2. UNCHANGED <<seq, state, table>> \/ seq' > seq
      BY <1>1, <3>1
    <3> QED
      BY <1>1, <2>1, <3>2, CopyKept
  <2> QED
    BY <2>2, <2>3
<1>5. CASE Open
  <2>1. agent' = agent + 1 /\ UNCHANGED <<read, mapped>>
    BY <1>5 DEF Open, clientVars
  <2>2. read[c].of \in Nat /\ (read[c].of <= agent => read[c].of <= agent' /\ read[c].of # agent')
    BY <1>1, <1>2, <2>1
  <2> QED
    BY <1>1, <2>1, <2>2 DEF ReaderInv, Reading
<1>6. ASSUME NEW d \in Client, Disconnect(d) PROVE ReaderInv(c)'
  <2>1. /\ mapped' = mapped \ {d} /\ read' = [read EXCEPT ![d] = NoRead] /\ UNCHANGED agent
        /\ UNCHANGED <<seq, state, table>> \/ mapped' = {}
    BY <1>6 DEF Disconnect, Released, agentVars
  <2>2. CASE c = d
    <3>1. read'[c] = NoRead
      BY <1>2, <2>1, <2>2
    <3> QED
      BY <1>1, <1>2, <2>1, <3>1 DEF ReaderInv, Reading
  <2>3. CASE c # d
    <3>1. read'[c] = read[c] /\ (c \in mapped => c \in mapped')
      BY <1>2, <2>1, <2>3
    <3> QED
      BY <1>1, <2>1, <3>1, CopyKept, CopyLeft DEF ReaderInv
  <2> QED
    BY <2>2, <2>3
<1>7. ASSUME NEW d \in Client, ReadBegin(d) \/ ReadState(d) \/ ReadTable(d) \/ ReadCheck(d)
      PROVE  ReaderInv(c)'
  <2>1. UNCHANGED <<seq, state, table, agent, mapped>>
    BY <1>7 DEF ReadBegin, ReadState, ReadTable, ReadCheck, agentVars, shmVars
  <2>2. CASE c # d
    <3>1. read'[c] = read[c]
      BY <1>2, <1>7, <2>2 DEF ReadBegin, ReadState, ReadTable, ReadCheck
    <3> QED
      BY <1>1, <2>1, <3>1, CopyKept
  <2>3. CASE c = d /\ ReadBegin(c)
    <3>1. c \in mapped /\ seq % 2 = 0
          /\ read'[c] = [NoRead EXCEPT !.pc = "begun", !.s0 = seq, !.of = agent]
      BY <1>2, <2>3 DEF ReadBegin
    <3>2. read'[c].pc = "begun" /\ read'[c].s0 = seq /\ read'[c].of = agent
      BY <3>1 DEF NoRead
    <3> QED
      BY <1>1, <2>1, <3>1, <3>2 DEF ReaderInv, Reading
  <2>4. CASE c = d /\ ReadState(c)
    <3>1. read[c].pc = "begun" /\ read'[c] = [read[c] EXCEPT !.pc = "half", !.state = state]
      BY <1>2, <2>4 DEF ReadState
    <3>2. read'[c].pc = "half" /\ read'[c].state = state /\ read'[c].s0 = read[c].s0
          /\ read'[c].of = read[c].of
      BY <1>2, <3>1
    <3> QED
      BY <1>1, <2>1, <3>1, <3>2 DEF ReaderInv, Reading
  <2>5. CASE c = d /\ ReadTable(c)
    <3>1. read[c].pc = "half" /\ read'[c] = [read[c] EXCEPT !.pc = "full", !.table = table]
      BY <1>2, <2>5 DEF ReadTable
    <3>2. read'[c].pc = "full" /\ read'[c].state = read[c].state /\ read'[c].table = table
          /\ read'[c].s0 = read[c].s0 /\ read'[c].of = read[c].of
      BY <1>2, <3>1
    <3> QED
      BY <1>1, <2>1, <3>1, <3>2 DEF ReaderInv, Reading
  <2>6. CASE c = d /\ ReadCheck(c)
    <3>1. read[c].pc = "full"
      BY <2>6 DEF ReadCheck
    <3>2. CASE seq = read[c].s0
      <4>1. read'[c] = [read[c] EXCEPT !.pc = "clean", !.to = agent]
        BY <1>2, <2>6, <3>2 DEF ReadCheck
      <4>2. read'[c].pc = "clean" /\ read'[c].to = agent /\ read'[c].of = read[c].of
            /\ read'[c].state = read[c].state /\ read'[c].table = read[c].table
        BY <1>2, <4>1
      <4>3. read[c].of = agent => read[c].state \in {Zero, read[c].table}
        BY <1>1, <3>1, <3>2 DEF ReaderInv, Reading, WriterInv
      <4> QED
        BY <1>1, <2>1, <4>2, <4>3 DEF ReaderInv, Reading
    <3>3. CASE seq # read[c].s0
      <4>1. read'[c] = NoRead
        BY <1>2, <2>6, <3>3 DEF ReadCheck
      <4> QED
        BY <1>1, <1>2, <2>1, <4>1 DEF ReaderInv, Reading
    <3> QED
      BY <3>2, <3>3
  <2> QED
    BY <1>7, <2>2, <2>3, <2>4, <2>5, <2>6
<1>8. ASSUME NEW d \in Client, Connect(d) PROVE ReaderInv(c)'
  <2>1. mapped' = mapped \cup {d} /\ UNCHANGED <<read, agent, seq, state, table>>
    BY <1>8 DEF Connect, agentVars, shmVars
  <2> QED
    BY <1>1, <2>1, CopyKept
<1>9. CASE \/ UNCHANGED vars \/ Poll \/ ReadKind \/ Execute \/ Ack
           \/ \E n \in 0..Burst : Work(n) \/ RevertAll(n)
           \/ \E d \in Client : (\E k \in Cmd : SendKind(d, k)) \/ SendArg(d) \/ Bump(d)
  <2>1. UNCHANGED <<read, agent, mapped, seq, state, table>>
    BY <1>9 DEF vars, agentVars, shmVars, clientVars, Poll, ReadKind, Execute, Ack, Work,
                RevertAll, SendKind, SendArg, Bump
  <2> QED
    BY <1>1, <2>1, CopyKept
<1> QED
  BY <1>3, <1>4, <1>5, <1>6, <1>7, <1>8, <1>9 DEF Next, Tick, Lifecycle, ClientStep

(* A clean copy is of one publication, wherever the agent was in its write,  *)
(* and whether it was killed there or not.                                  *)
THEOREM CleanCopies ==
  ASSUME ChannelAssumption PROVE Spec => []CleanIsOnePublication
<1>1. Init => SeqlockInv
  BY DEF Init, SeqlockInv, WriterInv, ReaderInv, Reading, NoRead
<1>2. TypeInv /\ TypeInv' /\ SeqlockInv /\ [Next]_vars => SeqlockInv'
  BY WriterStep, ReaderStep DEF SeqlockInv
<1>3. SeqlockInv => CleanIsOnePublication
  BY DEF SeqlockInv, ReaderInv, CleanIsOnePublication
<1> QED
  BY <1>1, <1>2, <1>3, TypeInvariant, PTL DEF Spec

-----------------------------------------------------------------------------
(* The logs.                                                                *)

Ordered(log) == \A i, j \in DOMAIN log : i < j => Before(log[i], log[j])

(* What is logged is of agent a and before its cursor, or of an earlier one; *)
(* a restart begins to count anew, with a number of its own.                *)
Below(log, a, cursor) ==
  \A i \in DOMAIN log : log[i][1] < a \/ (log[i][1] = a /\ log[i][2] < cursor)

(* The last Cap actions before the cursor are there.                        *)
HasLatest(log, a, cursor) ==
  \A i \in 0 .. cursor - 1 :
    i >= cursor - Cap => \E k \in DOMAIN log : log[k] = <<a, i>>

LogInv ==
  /\ Ordered(ring) /\ Below(ring, agent, shipped)
  /\ Ordered(audit) /\ Below(audit, agent, audited)
  /\ apc # "down" => HasLatest(audit, agent, audited)

LEMMA Appended ==
  ASSUME ChannelAssumption, agent \in Nat, NEW log \in Seq(Nat \X Nat),
         NEW from \in Nat, NEW head \in Nat, from <= head,
         Ordered(log), Below(log, agent, from)
  PROVE  /\ Ordered(log \o Unread(from, head))
         /\ Below(log \o Unread(from, head), agent, head)
         /\ HasLatest(log, agent, from) => HasLatest(log \o Unread(from, head), agent, head)
<1>1. PICK first \in Nat :
        /\ from <= first /\ first <= head /\ (first = from \/ first = head - Cap)
        /\ Unread(from, head) \in Seq(Nat \X Nat)
        /\ Len(Unread(from, head)) = head - first
        /\ \A i \in 1 .. head - first : Unread(from, head)[i] = <<agent, first + i - 1>>
  BY UnreadType
<1> DEFINE u == Unread(from, head)
           new == log \o u
<1> HIDE DEF u
<1>2. u \in Seq(Nat \X Nat) /\ Len(u) = head - first /\ head - first \in Nat
      /\ \A i \in 1 .. head - first : u[i] = <<agent, first + i - 1>>
  <2>1. head - first \in Nat
    BY <1>1
  <2> QED
    BY <1>1, <2>1, Zenon DEF u
<1>3. /\ Len(log) \in Nat /\ DOMAIN log = 1 .. Len(log)
      /\ DOMAIN new = 1 .. Len(log) + (head - first)
      /\ \A i \in DOMAIN log : new[i] = log[i] /\ log[i][1] \in Nat /\ log[i][2] \in Nat
  <2>1. Len(log) \in Nat /\ DOMAIN log = 1 .. Len(log) /\ DOMAIN u = 1 .. head - first
    BY <1>2
  <2> DEFINE Entry == Nat \X Nat
  <2> HIDE DEF Entry
  <2>2. log \in Seq(Entry) /\ u \in Seq(Entry)
    BY <1>2 DEF Entry
  <2>3. log \o u \in Seq(Entry) /\ Len(log \o u) = Len(log) + Len(u)
    BY <2>2
  <2>4. new \in Seq(Entry) /\ Len(new) = Len(log) + (head - first)
    BY <1>2, <2>3
  <2>5. DOMAIN new = 1 .. Len(log) + (head - first)
    BY <2>4
  <2>6. \A i \in DOMAIN log : log[i] \in Nat \X Nat
    OBVIOUS
  <2>7. \A i \in DOMAIN log : new[i] = log[i]
    BY <1>2, <2>1
  <2> QED
    BY <2>1, <2>5, <2>6, <2>7
<1>8. DOMAIN log \subseteq DOMAIN new
  <2>1. 1 .. Len(log) \subseteq 1 .. Len(log) + (head - first)
    BY <1>2, <1>3
  <2> QED
    BY <1>3, <2>1
<1>4. \A i \in DOMAIN new :
        i \notin DOMAIN log => /\ i > Len(log) /\ i - Len(log) \in 1 .. head - first
                              /\ new[i] = <<agent, first + (i - Len(log)) - 1>>
  <2> SUFFICES ASSUME NEW i \in DOMAIN new, i \notin DOMAIN log
               PROVE  /\ i > Len(log) /\ i - Len(log) \in 1 .. head - first
                      /\ new[i] = <<agent, first + (i - Len(log)) - 1>>
    OBVIOUS
  <2> HIDE DEF new
  <2>1. /\ i \in 1 .. Len(log) + (head - first) /\ i \notin 1 .. Len(log)
        /\ Len(log) \in Nat /\ head - first \in Nat
    BY <1>2, <1>3
  <2>2. i \in Int /\ i > Len(log) /\ i - Len(log) \in 1 .. head - first
    BY <2>1
  <2>3. new[i] = u[i - Len(log)]
    BY <1>2, <1>3, <2>2 DEF new
  <2> QED
    BY <1>2, <2>2, <2>3
<1> HIDE DEF new
<1>5. Ordered(new)
  <2> SUFFICES ASSUME NEW i \in DOMAIN new, NEW j \in DOMAIN new, i < j
               PROVE  Before(new[i], new[j])
    BY DEF Ordered
  <2>1. CASE j \in DOMAIN log
    <3>1. i \in DOMAIN log
      BY <1>3, <2>1
    <3> QED
      BY <1>3, <2>1, <3>1 DEF Ordered
  <2>2. CASE i \in DOMAIN log /\ j \notin DOMAIN log
    <3>1. new[j] = <<agent, first + (j - Len(log)) - 1>> /\ j \in Int /\ j > Len(log)
      BY <1>4, <2>2, <1>3
    <3>2. first + (j - Len(log)) - 1 >= from /\ first + (j - Len(log)) - 1 \in Int
      <4>1. Len(log) \in Nat /\ first \in Nat /\ from <= first
        BY <1>1, <1>3
      <4> QED
        BY <3>1, <4>1
    <3>3. new[i][1] < agent \/ (new[i][1] = agent /\ new[i][2] < from)
      BY <1>3, <2>2 DEF Below
    <3>4. new[i][2] \in Nat
      BY <1>3, <2>2
    <3> QED
      BY <3>1, <3>2, <3>3, <3>4 DEF Before
  <2>3. CASE i \notin DOMAIN log
    <3>1. j \notin DOMAIN log
      BY <1>3, <1>4, <2>3
    <3>2. new[i] = <<agent, first + (i - Len(log)) - 1>> /\ new[j] = <<agent, first + (j - Len(log)) - 1>>
      BY <1>4, <2>3, <3>1
    <3>3. first + (i - Len(log)) - 1 < first + (j - Len(log)) - 1
      BY <1>3
    <3> QED
      BY <3>2, <3>3 DEF Before
  <2> QED
    BY <2>1, <2>2, <2>3
<1>6. Below(new, agent, head)
  <2> SUFFICES ASSUME NEW i \in DOMAIN new
               PROVE  new[i][1] < agent \/ (new[i][1] = agent /\ new[i][2] < head)
    BY DEF Below
  <2>1. CASE i \in DOMAIN log
    <3>1. new[i] = log[i] /\ log[i][2] \in Nat
      BY <1>3, <2>1
    <3>2. log[i][1] < agent \/ (log[i][1] = agent /\ log[i][2] < from)
      BY <2>1 DEF Below
    <3> QED
      BY <3>1, <3>2
  <2>2. CASE i \notin DOMAIN log
    <3>1. new[i] = <<agent, first + (i - Len(log)) - 1>> /\ i - Len(log) \in 1 .. head - first
      BY <1>3, <1>4, <2>2
    <3>2. first + (i - Len(log)) - 1 < head
      BY <1>1, <3>1
    <3> QED
      BY <3>1, <3>2
  <2> QED
    BY <2>1, <2>2
<1>7. ASSUME HasLatest(log, agent, from) PROVE HasLatest(new, agent, head)
  <2> SUFFICES ASSUME NEW i \in 0 .. head - 1, i >= head - Cap
               PROVE  \E k \in DOMAIN new : new[k] = <<agent, i>>
    BY DEF HasLatest
  <2>1. CASE i >= first
    <3> DEFINE k == Len(log) + (i - first) + 1
    <3>1. k \in DOMAIN new /\ k \notin DOMAIN log /\ first + (k - Len(log)) - 1 = i
      BY <1>1, <1>3, <2>1
    <3> QED
      BY <1>4, <3>1
  <2>2. CASE i < first
    <3>1. i \in 0 .. from - 1 /\ i >= from - Cap
      BY <1>1, <2>2 DEF ChannelAssumption
    <3>2. PICK k \in DOMAIN log : log[k] = <<agent, i>>
      BY <1>7, <3>1 DEF HasLatest
    <3>3. k \in DOMAIN new /\ new[k] = log[k]
      BY <1>3, <1>8
    <3> QED
      BY <3>2, <3>3
  <2> QED
    BY <1>1, <2>1, <2>2
<1> QED
  BY <1>5, <1>6, <1>7 DEF new, u

LEMMA Prefix ==
  ASSUME NEW log \in Seq(Nat \X Nat), NEW n \in 0 .. Len(log), NEW a \in Nat, NEW cursor \in Nat,
         Ordered(log), Below(log, a, cursor)
  PROVE  Ordered(SubSeq(log, 1, n)) /\ Below(SubSeq(log, 1, n), a, cursor)
<1> DEFINE new == SubSeq(log, 1, n)
<1>1. DOMAIN new = 1 .. n /\ DOMAIN log = 1 .. Len(log) /\ \A i \in 1 .. n : new[i] = log[i]
  OBVIOUS
<1> HIDE DEF new
<1>2. \A i \in DOMAIN new : i \in DOMAIN log /\ new[i] = log[i]
  BY <1>1
<1>3. Ordered(new) /\ Below(new, a, cursor)
  BY <1>2 DEF Ordered, Below
<1> QED
  BY <1>3 DEF new

LEMMA LogsEmpty ==
  ASSUME NEW a, NEW cursor PROVE Ordered(<< >>) /\ Below(<< >>, a, cursor)
BY DEF Ordered, Below

LEMMA LogStep ==
  ASSUME ChannelAssumption, TypeInv, LogInv, [Next]_vars
  PROVE  /\ LogInv'
         /\ \A n \in 0..Burst : RevertAll(n) => HasLatest(audit', agent, logged')
<1>1. /\ agent \in Nat /\ Cap \in Nat /\ logged \in Nat /\ shipped \in Nat /\ audited \in Nat
      /\ audit \in Seq(Nat \X Nat) /\ ring \in Seq(Nat \X Nat)
      /\ shipped <= logged /\ audited <= logged
  BY DEF TypeInv, AgentInv, AgentTyped, LogsKept, LogsTyped, ChannelAssumption
<1>2. /\ Ordered(ring) /\ Below(ring, agent, shipped)
      /\ Ordered(audit) /\ Below(audit, agent, audited)
      /\ apc # "down" => HasLatest(audit, agent, audited)
  BY DEF LogInv
<1>3. ASSUME NEW n \in 0..Burst, Work(n) \/ RevertAll(n)
      PROVE  LogInv' /\ HasLatest(audit', agent, logged')
  <2>1. /\ logged' = logged + n /\ audited' = logged' /\ UNCHANGED <<agent, shipped, ring>>
        /\ audit' = audit \o Unread(audited, logged') /\ apc # "down"
    BY <1>3 DEF Work, RevertAll, shmVars
  <2>2. logged' \in Nat /\ audited <= logged'
    BY <1>1, <2>1 DEF ChannelAssumption
  <2>3. Ordered(audit') /\ Below(audit', agent, logged') /\ HasLatest(audit', agent, logged')
    BY <1>1, <1>2, <2>1, <2>2, Appended
  <2> QED
    BY <1>2, <2>1, <2>3 DEF LogInv
<1>4. ASSUME Publish PROVE LogInv'
  <2> DEFINE all == ring \o Unread(shipped, logged)
             n == IF Len(all) > Cap THEN Cap ELSE Len(all)
  <2>1. Unread(shipped, logged) \in Seq(Nat \X Nat)
    BY <1>1, UnreadType
  <2>2. all \in Seq(Nat \X Nat) /\ Ordered(all) /\ Below(all, agent, logged)
    BY <1>1, <1>2, <2>1, Appended
  <2>3. ring' = SubSeq(all, 1, n) /\ shipped' = logged /\ UNCHANGED <<agent, audited, audit>>
        /\ apc # "down"
    BY <1>4 DEF Publish
  <2> HIDE DEF all
  <2>4. n \in 0 .. Len(all)
    BY <1>1, <2>2
  <2>5. Ordered(ring') /\ Below(ring', agent, logged)
    BY <1>1, <2>2, <2>3, <2>4, Prefix
  <2> QED
    BY <1>2, <2>3, <2>5 DEF LogInv
<1>5. ASSUME Kill PROVE LogInv'
  <2> DEFINE flushed == {i \in DOMAIN audit : audit[i][1] < agent}
  <2>1. DOMAIN audit = 1 .. Len(audit) /\ Len(audit) \in Nat
    BY <1>1
  <2>2. IsFiniteSet(1 .. Len(audit)) /\ flushed \subseteq 1 .. Len(audit)
    BY <2>1, FS_Interval
  <2> HIDE DEF flushed
  <2>3. Cardinality(flushed) \in Nat
    BY <2>2, FS_Subset, FS_CardinalityType
  <2>4. PICK n \in Cardinality(flushed) .. Len(audit) : audit' = SubSeq(audit, 1, n)
    BY <1>5 DEF Kill, flushed
  <2>5. n \in 0 .. Len(audit)
    BY <2>1, <2>3
  <2>6. Ordered(audit') /\ Below(audit', agent, audited)
    BY <1>1, <1>2, <2>4, <2>5, Prefix
  <2>7. apc' = "down" /\ UNCHANGED <<agent, shipped, audited>> /\ (UNCHANGED ring \/ ring' = << >>)
    BY <1>5 DEF Kill, Released
  <2> QED
    BY <1>2, <2>6, <2>7, LogsEmpty DEF LogInv
<1>6. ASSUME Open PROVE LogInv'
  <2>1. agent' = agent + 1 /\ shipped' = 0 /\ audited' = 0 /\ UNCHANGED <<audit, ring>>
    BY <1>6 DEF Open
  <2>2. HasLatest(audit', agent', audited')
    BY <1>1, <2>1 DEF HasLatest
  <2>3. ASSUME NEW log \in Seq(Nat \X Nat), NEW cursor \in Nat, Below(log, agent, cursor)
        PROVE  Below(log, agent', 0)
    <3> SUFFICES ASSUME NEW i \in DOMAIN log PROVE log[i][1] < agent'
      BY DEF Below
    <3>1. log[i][1] \in Nat
      OBVIOUS
    <3>2. log[i][1] < agent \/ log[i][1] = agent
      BY <2>3 DEF Below
    <3> QED
      BY <1>1, <2>1, <3>1, <3>2
  <2>4. Below(audit', agent', audited') /\ Below(ring', agent', shipped')
    BY <1>1, <1>2, <2>1, <2>3
  <2> QED
    BY <1>2, <2>1, <2>2, <2>4 DEF LogInv
<1>7. ASSUME \/ Stop \/ \E c \in Client : ClientStep(c)
             \/ UNCHANGED vars \/ Poll \/ ReadKind \/ Execute \/ Ack
             \/ WriteTable \/ WriteState \/ WriteEnd
      PROVE  LogInv'
  <2>1. UNCHANGED <<agent, shipped, audited, audit>> /\ (UNCHANGED ring \/ ring' = << >>)
        /\ (apc' # "down" => apc # "down")
    BY <1>7 DEF ClientStep, Connect, Disconnect, SendKind, SendArg, Bump, Stop, agentVars,
                ReadBegin, ReadState, ReadTable, ReadCheck, shmVars, Released, logVars, vars,
                Poll, ReadKind, Execute, Ack, WriteTable, WriteState, WriteEnd
  <2> QED
    BY <1>2, <2>1, LogsEmpty DEF LogInv
<1>8. (\E n \in 0..Burst : RevertAll(n)) \/ LogInv'
  BY <1>3, <1>4, <1>5, <1>6, <1>7 DEF Next, Tick, Lifecycle
<1> QED
  BY <1>3, <1>8

(* Both logs have every action they got in the order of the agent, once,     *)
(* over overruns, full rings, kills and restarts; and the audit file ends    *)
(* with the last actions of an agent that was shut down.                     *)
THEOREM LogsTellEverything ==
  ASSUME ChannelAssumption PROVE Spec => LogsAreComplete
<1>1. Init => LogInv
  BY LogsEmpty DEF Init, LogInv
<1>2. TypeInv /\ LogInv /\ [Next]_vars => LogInv'
  BY LogStep
<1>3. LogInv => LogInOrder
  BY DEF LogInv, LogInOrder, Ordered
<1> DEFINE Latest == \A n \in 0..Burst : RevertAll(n) =>
                       \A i \in 0..(logged' - 1) :
                         i >= logged' - Cap => \E k \in DOMAIN audit' : audit'[k] = <<agent, i>>
<1>4. TypeInv /\ LogInv /\ [Next]_vars => [Latest]_vars
  BY LogStep DEF HasLatest
<1>5. Spec => [][Latest]_vars
  BY <1>1, <1>2, <1>4, TypeInvariant, PTL DEF Spec
<1>6. Spec => []LogInOrder
  BY <1>1, <1>2, <1>3, TypeInvariant, PTL DEF Spec
<1> QED
  BY <1>5, <1>6 DEF LogsAreComplete, AuditHasTheLatest

-----------------------------------------------------------------------------
(* The acks.                                                                *)

Waits(c) == c \in mapped /\ cpc[c] = "idle" /\ sent[c].seq > 0

NumbersInv ==
  /\ slot.ack <= slot.seq
  /\ apc \in {"kind", "arg", "ack"} => cur.seq <= slot.seq

(* The only client finds its own command in the slot until it is acked: what *)
(* the agent has read of it so far is of that command, or of a number before.*)
UnansweredInv(c) ==
  /\ slot.ack < slot.seq
  /\ slot.kind = sent[c].kind /\ slot.arg = sent[c].arg
  /\ apc = "arg" /\ cur.seq = slot.seq => cur.kind = slot.kind
  /\ apc = "ack" => cur.seq # slot.seq

SenderInv(c) ==
  /\ c \notin mapped => cpc[c] = "idle" /\ sent[c].seq = 0
  /\ cpc[c] \in {"arg", "bump"} => slot.kind = sent[c].kind
  /\ cpc[c] = "bump" => slot.arg = sent[c].arg
  /\ Waits(c) => sent[c].seq = slot.seq /\ (sent[c] \notin done => UnansweredInv(c))

AckInv == NumbersInv /\ \A c \in Client : SenderInv(c)

LEMMA AckStep ==
  ASSUME ChannelAssumption, NEW u, Client = {u}, TypeInv, AckInv, [Next]_vars
  PROVE  AckInv'
<1>1. /\ slot.seq \in Nat /\ slot.ack \in Nat /\ cur.seq \in Nat /\ last \in Nat
      /\ slot \in [seq : 0..MaxCmd, ack : 0..MaxCmd, kind : Field, arg : Field]
      /\ cur \in [seq : 0..MaxCmd, kind : Field, arg : Field]
      /\ sent \in [Client -> [seq : 0..MaxCmd, kind : Field, arg : Field]]
      /\ cpc \in [Client -> {"idle", "arg", "bump"}]
  BY DEF TypeInv, SlotKept, SlotTyped, AgentInv, AgentTyped, ChannelAssumption
<1>2. NumbersInv /\ SenderInv(u) /\ u \in Client
  BY DEF AckInv
<1>3. SUFFICES NumbersInv' /\ SenderInv(u)'
  BY DEF AckInv
<1>4. ASSUME UNCHANGED <<mapped, cpc, sent, slot, done>>,
             \/ UNCHANGED <<apc, cur>>
             \/ apc' \notin {"kind", "arg", "ack"}
      PROVE  NumbersInv' /\ SenderInv(u)'
  BY <1>2, <1>4 DEF NumbersInv, SenderInv, UnansweredInv, Waits
<1>5. CASE Poll
  <2>1. UNCHANGED <<mapped, cpc, sent, slot, done>> /\ cur'.seq = slot.seq /\ apc' \in {"kind", "work"}
    BY <1>5 DEF Poll, shmVars, clientVars, NoCmd
  <2> QED
    BY <1>1, <1>2, <2>1 DEF NumbersInv, SenderInv, UnansweredInv, Waits
<1>6. CASE ReadKind
  <2>1. UNCHANGED <<mapped, cpc, sent, slot, done>> /\ apc = "kind" /\ apc' = "arg"
        /\ cur' = [cur EXCEPT !.kind = slot.kind]
    BY <1>6 DEF ReadKind, shmVars, clientVars
  <2>2. cur'.seq = cur.seq /\ cur'.kind = slot.kind
    BY <1>1, <2>1
  <2> QED
    BY <1>2, <2>1, <2>2 DEF NumbersInv, SenderInv, UnansweredInv, Waits
<1>7. CASE Execute
  <2>1. UNCHANGED <<mapped, cpc, sent, slot>> /\ apc = "arg" /\ apc' = "ack"
        /\ cur' = [cur EXCEPT !.arg = slot.arg] /\ done' = done \cup {cur'}
    BY <1>7 DEF Execute, shmVars, clientVars
  <2>2. cur' = [seq |-> cur.seq, kind |-> cur.kind, arg |-> slot.arg] /\ cur'.seq = cur.seq
    BY <1>1, <2>1
  <2>3. NumbersInv'
    BY <1>2, <2>1, <2>2 DEF NumbersInv
  <2>4. ASSUME Waits(u), sent[u] \notin done' PROVE cur.seq # slot.seq
    <3>1. SUFFICES ASSUME cur.seq = slot.seq PROVE sent[u] = cur'
      BY <2>1, <2>4
    <3>2. sent[u].seq = slot.seq /\ slot.kind = sent[u].kind /\ slot.arg = sent[u].arg
          /\ cur.kind = slot.kind
      BY <1>2, <2>1, <2>4, <3>1 DEF SenderInv, UnansweredInv
    <3>3. sent[u] = [seq |-> sent[u].seq, kind |-> sent[u].kind, arg |-> sent[u].arg]
      BY <1>1, <1>2
    <3> QED
      BY <2>2, <3>1, <3>2, <3>3
  <2> QED
    BY <1>2, <2>1, <2>2, <2>3, <2>4 DEF SenderInv, UnansweredInv, Waits
<1>8. CASE Ack
  <2>1. UNCHANGED <<mapped, cpc, sent, done>> /\ apc = "ack" /\ apc' = "work"
        /\ slot' = [slot EXCEPT !.ack = cur.seq]
    BY <1>8 DEF Ack, clientVars
  <2>2. slot'.seq = slot.seq /\ slot'.ack = cur.seq /\ slot'.kind = slot.kind /\ slot'.arg = slot.arg
    BY <1>1, <2>1
  <2>3. cur.seq <= slot.seq /\ (cur.seq # slot.seq => cur.seq < slot.seq)
    BY <1>1, <1>2, <2>1 DEF NumbersInv
  <2> QED
    BY <1>2, <2>1, <2>2, <2>3 DEF NumbersInv, SenderInv, UnansweredInv, Waits
<1>9. ASSUME NEW k \in Cmd, SendKind(u, k) PROVE NumbersInv' /\ SenderInv(u)'
  <2>1. /\ u \in mapped /\ UNCHANGED <<apc, cur, mapped, done>>
        /\ slot' = [slot EXCEPT !.kind = k]
        /\ sent'[u] = [seq |-> 0, kind |-> k, arg |-> k] /\ cpc'[u] = "arg"
    BY <1>1, <1>2, <1>9 DEF SendKind, agentVars
  <2>2. slot'.seq = slot.seq /\ slot'.ack = slot.ack /\ slot'.kind = k
    BY <1>1, <2>1
  <2> QED
    BY <1>2, <2>1, <2>2 DEF NumbersInv, SenderInv, UnansweredInv, Waits
<1>10. CASE SendArg(u)
  <2>1. /\ cpc[u] = "arg" /\ UNCHANGED <<apc, cur, mapped, done, sent>>
        /\ slot' = [slot EXCEPT !.arg = sent[u].arg] /\ cpc'[u] = "bump"
    BY <1>1, <1>2, <1>10 DEF SendArg, agentVars
  <2>2. /\ slot'.seq = slot.seq /\ slot'.ack = slot.ack /\ slot'.kind = slot.kind
        /\ slot'.arg = sent[u].arg
    BY <1>1, <2>1
  <2> QED
    BY <1>2, <2>1, <2>2 DEF NumbersInv, SenderInv, UnansweredInv, Waits
<1>11. CASE Bump(u)
  <2>1. /\ cpc[u] = "bump" /\ UNCHANGED <<apc, cur, mapped, done>>
        /\ slot' = [slot EXCEPT !.seq = slot.seq + 1]
        /\ sent'[u] = [sent[u] EXCEPT !.seq = slot.seq + 1] /\ cpc'[u] = "idle"
    BY <1>1, <1>2, <1>11 DEF Bump, agentVars
  <2>2. /\ slot'.seq = slot.seq + 1 /\ slot'.ack = slot.ack /\ slot'.kind = slot.kind
        /\ slot'.arg = slot.arg
        /\ sent'[u].seq = slot.seq + 1 /\ sent'[u].kind = sent[u].kind
        /\ sent'[u].arg = sent[u].arg
    BY <1>1, <1>2, <2>1
  <2>3. u \in mapped /\ slot.kind = sent[u].kind /\ slot.arg = sent[u].arg
    BY <1>2, <2>1 DEF SenderInv
  <2>4. /\ slot'.ack <= slot'.seq /\ slot'.ack < slot'.seq
        /\ cur.seq <= slot.seq => cur.seq <= slot'.seq /\ cur.seq # slot'.seq
    BY <1>1, <1>2, <2>2 DEF NumbersInv
  <2> QED
    BY <1>2, <2>1, <2>2, <2>3, <2>4 DEF NumbersInv, SenderInv, UnansweredInv, Waits
<1>12. CASE Kill \/ Stop
  <2>1. /\ UNCHANGED <<mapped, cpc, sent, cur>> /\ apc' \notin {"kind", "arg", "ack"}
        /\ UNCHANGED <<slot, done>> \/ (slot' = ZeroSlot /\ mapped = {})
    BY <1>12 DEF Kill, Stop, Released, clientVars
  <2>2. CASE UNCHANGED <<slot, done>>
    BY <1>4, <2>1, <2>2
  <2>3. CASE slot' = ZeroSlot /\ mapped = {}
    BY <1>2, <2>1, <2>3 DEF NumbersInv, SenderInv, Waits, ZeroSlot
  <2> QED
    BY <2>1, <2>2, <2>3
<1>13. CASE Disconnect(u)
  <2>1. /\ UNCHANGED <<apc, cur, cpc>> /\ cpc[u] = "idle" /\ mapped' = mapped \ {u}
        /\ sent'[u] = NoCmd
        /\ UNCHANGED slot \/ (slot' = ZeroSlot /\ apc \in {"down", "revert"})
    BY <1>1, <1>2, <1>13 DEF Disconnect, Released, agentVars
  <2> QED
    BY <1>2, <2>1 DEF NumbersInv, SenderInv, Waits, ZeroSlot, NoCmd
<1>14. CASE Connect(u)
  <2>1. UNCHANGED <<apc, cur, cpc, sent, slot, done>> /\ u \notin mapped
    BY <1>14 DEF Connect, agentVars, shmVars
  <2> QED
    BY <1>2, <2>1 DEF NumbersInv, SenderInv, Waits
<1>15. CASE \/ ReadBegin(u) \/ ReadState(u) \/ ReadTable(u) \/ ReadCheck(u) \/ UNCHANGED vars
            \/ Publish \/ WriteTable \/ WriteState \/ WriteEnd \/ Open
            \/ \E n \in 0..Burst : Work(n) \/ RevertAll(n)
  <2>1. UNCHANGED <<mapped, cpc, sent, slot, done>>
    BY <1>15 DEF ReadBegin, ReadState, ReadTable, ReadCheck, vars, agentVars, shmVars, clientVars,
                 Publish, WriteTable, WriteState, WriteEnd, Open, Work, RevertAll
  <2>2. UNCHANGED <<apc, cur>> \/ apc' \notin {"kind", "arg", "ack"}
    BY <1>15 DEF ReadBegin, ReadState, ReadTable, ReadCheck, vars, agentVars,
                 Publish, WriteTable, WriteState, WriteEnd, Open, Work, RevertAll
  <2> QED
    BY <1>4, <2>1, <2>2
<1> QED
  BY <1>5, <1>6, <1>7, <1>8, <1>9, <1>10, <1>11, <1>12, <1>13, <1>14, <1>15
  DEF Next, Tick, Lifecycle, ClientStep

(* When one client sends, an ack means that the command it sent last was     *)
(* carried out, with the kind and the argument it was sent with, over kills  *)
(* and restarts of the agent.  Two clients write the same slot, and mix the  *)
(* fields of their commands.                                                *)
THEOREM AckMeansDone ==
  ASSUME ChannelAssumption, NEW u, Client = {u} PROVE Spec => []AckedWasExecuted
<1>1. Init => AckInv
  BY DEF Init, AckInv, NumbersInv, SenderInv, Waits, ZeroSlot, NoCmd
<1>2. TypeInv /\ AckInv /\ [Next]_vars => AckInv'
  BY AckStep
<1>3. TypeInv /\ AckInv => AckedWasExecuted
  <2> SUFFICES ASSUME TypeInv, AckInv, NEW c \in mapped, cpc[c] = "idle", sent[c].seq > 0,
                      slot.ack >= sent[c].seq, sent[c] \notin done
               PROVE  FALSE
    BY DEF AckedWasExecuted
  <2>1. c \in Client /\ slot.seq \in Nat /\ slot.ack \in Nat
    BY DEF TypeInv, SnapshotTyped, SlotKept, SlotTyped, ChannelAssumption
  <2>2. sent[c].seq = slot.seq /\ slot.ack < slot.seq
    BY <2>1 DEF AckInv, SenderInv, Waits, UnansweredInv
  <2> QED
    BY <2>1, <2>2
<1> QED
  BY <1>1, <1>2, <1>3, TypeInvariant, PTL DEF Spec

-----------------------------------------------------------------------------
(* Both sides together.                                                     *)

(* What the two sides do as parts of the agent is what each does alone.      *)
LEMMA SidesAlone == LifeSpec => LoopSpec /\ Spec
<1>1. LifeInit => LoopInit /\ Init
  BY DEF LifeInit
<1>2. [LifeNext]_lifeVars => [LoopNext]_loopVars
  BY DEF LifeNext, lifeVars, OfLoop, OfCommands, OfSnapshots
<1>3. [LifeNext]_lifeVars => [Next]_vars
  BY DEF LifeNext, lifeVars, OfLoop, OfCommands, OfSnapshots
<1> QED
  BY <1>1, <1>2, <1>3, PTL DEF LifeSpec, LoopSpec, Spec

(* The loop and the channel keep their types, whichever of them moves.       *)
THEOREM SidesKeepTypes == LifeSpec => []SidesKeepTheirTypes
<1>1. LoopTypeOK /\ TypeOK => SidesKeepTheirTypes
  BY DEF SidesKeepTheirTypes
<1>2. ChannelAssumption
  BY AgentLifeAssumption DEF AgentLifeAssumption
<1>3. Spec => []TypeOK
  BY <1>2, TypeCorrect
<1> QED
  BY <1>1, <1>3, SidesAlone, LoopTypeCorrect, PTL

(* The agent is told to stop and never sleeps through it, a copy the seqlock *)
(* calls clean is of one publication, and the logs are complete.            *)
THEOREM LifeIsSafe ==
  LifeSpec => []NoLostWakeup /\ []StallNoticed /\ []CleanIsOnePublication /\ LogsAreComplete
<1>1. ChannelAssumption
  BY AgentLifeAssumption DEF AgentLifeAssumption
<1>2. Spec => []CleanIsOnePublication
  BY <1>1, CleanCopies
<1>3. Spec => LogsAreComplete
  BY <1>1, LogsTellEverything
<1> QED
  BY <1>2, <1>3, SidesAlone, NoWakeupIsLost, StallsAreNoticed, PTL
=============================================================================
