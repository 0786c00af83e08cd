---------------------------- MODULE AgentChannel ----------------------------
(***************************************************************************)
(* The shared memory between the agent and its clients (src/ipc): the       *)
(* command slot, the snapshot under the seqlock, and the ring of actions,   *)
(* with the executor's own ring and the audit file that are filled beside.  *)
(*                                                                          *)
(* The agent and each client are processes of their own: every load and     *)
(* store whose order matters is a step.  The agent can be killed between    *)
(* any two and started again; the mapping (Windows) outlives it as long as  *)
(* a client has it open, and is zero when it is created anew.               *)
(*                                                                          *)
(* A command stands for a kind and its arguments, a snapshot for the number *)
(* of its publication, an action for its agent and its number there.  The   *)
(* 32-bit seqlock and the 64-bit numbers do not wrap within the bounds.     *)
(***************************************************************************)
EXTENDS Integers, Sequences, FiniteSets

CONSTANTS
  Client,      \* the UI and the CLI
  Patient,     \* those that wait for the ack before they send again
  Cmd,         \* the commands
  Cap,         \* kActionLogCap
  Burst,       \* actions a tick may log, at most
  MaxAgent,    \* bound: starts of the agent
  MaxCmd,      \* bound: commands sent over one mapping
  MaxPublish   \* bound: publications of one agent

ChannelAssumption ==
  /\ IsFiniteSet(Client) /\ Patient \subseteq Client
  /\ "none" \notin Cmd
  /\ Cap \in Nat \ {0} /\ Burst \in Nat
  /\ MaxAgent \in Nat /\ MaxCmd \in Nat /\ MaxPublish \in Nat

VARIABLES
  agent,     \* number of the current agent, or of the last
  apc,       \* where it is
  last,      \* last_cmd_seq_processed
  cur,       \* what it has read of the slot
  logged,    \* actions pushed to the executor's ring
  shipped,   \* action_read_cursor_ of the publisher
  audited,   \* audit_cursor
  audit,     \* the audit file
  version,   \* publications begun by this agent
  open,      \* the mapping exists
  slot,      \* the command slot
  seq,       \* the number of the seqlock
  table,     \* publication the targets and metrics are of
  state,     \* publication the state header is of
  ring,      \* the ring of actions in the mapping
  mapped,    \* clients that have the mapping open
  cpc,       \* where each client is in send_command
  sent,      \* the command it sent last, or is sending
  read,      \* its snapshot
  done       \* history: the commands executed, with their numbers

agentVars  == <<agent, apc, last, cur>>
logVars    == <<logged, shipped, audited, audit>>
shmVars    == <<open, slot, seq, table, state, ring, version>>
clientVars == <<mapped, cpc, sent, read>>
vars       == <<agentVars, logVars, shmVars, clientVars, done>>

Field    == Cmd \cup {"none"}
Zero     == <<0, 0>>                       \* no publication
ZeroSlot == [seq |-> 0, ack |-> 0, kind |-> "none", arg |-> "none"]
NoCmd    == [seq |-> 0, kind |-> "none", arg |-> "none"]
NoRead   == [pc |-> "idle", s0 |-> 0, of |-> 0, to |-> 0, state |-> Zero, table |-> Zero]

AgentTyped ==
  /\ agent \in 0..MaxAgent /\ version \in 0..MaxPublish
  /\ apc \in {"down", "poll", "kind", "arg", "ack", "work", "publish", "table",
              "state", "end", "revert"}
  /\ last \in 0..MaxCmd
  /\ cur \in [seq : 0..MaxCmd, kind : Field, arg : Field]

LogsTyped ==
  /\ logged \in Nat /\ shipped \in Nat /\ audited \in Nat
  /\ audit \in Seq(Nat \X Nat)
  /\ ring \in Seq(Nat \X Nat) /\ Len(ring) <= Cap

SlotTyped ==
  /\ slot \in [seq : 0..MaxCmd, ack : 0..MaxCmd, kind : Field, arg : Field]
  /\ sent \in [Client -> [seq : 0..MaxCmd, kind : Field, arg : Field]]
  /\ cpc \in [Client -> {"idle", "arg", "bump"}]
  /\ done \subseteq [seq : 0..MaxCmd, kind : Field, arg : Field]

SnapshotTyped ==
  /\ open \in BOOLEAN /\ mapped \subseteq Client
  /\ seq \in Nat /\ table \in Nat \X Nat /\ state \in Nat \X Nat
  /\ read \in [Client -> [pc : {"idle", "begun", "half", "full", "clean"}, s0 : Nat,
                          of : Nat, to : Nat, state : Nat \X Nat, table : Nat \X Nat]]

TypeOK == AgentTyped /\ LogsTyped /\ SlotTyped /\ SnapshotTyped

Init ==
  /\ agent = 0 /\ apc = "down" /\ last = 0 /\ cur = NoCmd
  /\ logged = 0 /\ shipped = 0 /\ audited = 0 /\ audit = <<>>
  /\ version = 0
  /\ open = FALSE /\ slot = ZeroSlot /\ seq = 0
  /\ table = Zero /\ state = Zero /\ ring = <<>>
  /\ mapped = {}
  /\ cpc = [c \in Client |-> "idle"]
  /\ sent = [c \in Client |-> NoCmd]
  /\ read = [c \in Client |-> NoRead]
  /\ done = {}

-----------------------------------------------------------------------------
(* The mapping.                                                             *)

(* The handle of the agent goes; with the last handle the mapping does.     *)
Released(others) ==
  IF others = {}
  THEN /\ open' = FALSE /\ slot' = ZeroSlot /\ seq' = 0
       /\ table' = Zero /\ state' = Zero /\ ring' = <<>> /\ done' = {}
  ELSE UNCHANGED <<open, slot, seq, table, state, ring, done>>

(* start() and open(): the mapping is found or created, and its header and  *)
(* state are zeroed, its slot and its ring are not; the memory of the agent *)
(* is new.                                                                  *)
Open ==
  /\ apc = "down"
  /\ agent < MaxAgent
  /\ agent' = agent + 1
  /\ apc' = "poll"
  /\ open' = TRUE
  /\ seq' = 0 /\ state' = Zero
  /\ last' = 0 /\ cur' = NoCmd /\ version' = 0
  /\ logged' = 0 /\ shipped' = 0 /\ audited' = 0
  /\ UNCHANGED <<audit, slot, table, ring, clientVars, done>>

(* taskkill /f or a crash.  What the agent wrote to the audit file since it   *)
(* opened it may still be in its buffer.                                     *)
Kill ==
  /\ apc # "down"
  /\ apc' = "down"
  /\ IF apc = "revert" THEN UNCHANGED <<open, slot, seq, table, state, ring, done>>
     ELSE Released(mapped)
  /\ LET flushed == {i \in DOMAIN audit : audit[i][1] < agent}
     IN  \E n \in Cardinality(flushed)..Len(audit) : audit' = SubSeq(audit, 1, n)
  /\ UNCHANGED <<agent, last, cur, logged, shipped, audited, version, clientVars>>

Connect(c) ==
  /\ open
  /\ c \notin mapped
  /\ mapped' = mapped \cup {c}
  /\ UNCHANGED <<agentVars, logVars, shmVars, cpc, sent, read, done>>

Disconnect(c) ==
  /\ c \in mapped
  /\ cpc[c] = "idle" /\ read[c].pc \in {"idle", "clean"}
  /\ mapped' = mapped \ {c}
  /\ sent' = [sent EXCEPT ![c] = NoCmd]
  /\ read' = [read EXCEPT ![c] = NoRead]
  /\ IF apc \in {"down", "revert"} THEN Released(mapped')
     ELSE UNCHANGED <<open, slot, seq, table, state, ring, done>>
  /\ UNCHANGED <<agentVars, logVars, version, cpc>>

-----------------------------------------------------------------------------
(* send_command: the fields one after the other, then the number.           *)

SendKind(c, k) ==
  /\ c \in mapped
  /\ cpc[c] = "idle"
  /\ c \in Patient => slot.ack >= sent[c].seq
  /\ slot.seq + Cardinality({d \in Client : cpc[d] # "idle"}) < MaxCmd
  /\ slot' = [slot EXCEPT !.kind = k]
  /\ sent' = [sent EXCEPT ![c] = [seq |-> 0, kind |-> k, arg |-> k]]
  /\ cpc' = [cpc EXCEPT ![c] = "arg"]
  /\ UNCHANGED <<agentVars, logVars, open, seq, table, state, ring, version, mapped,
                 read, done>>

SendArg(c) ==
  /\ cpc[c] = "arg"
  /\ slot' = [slot EXCEPT !.arg = sent[c].arg]
  /\ cpc' = [cpc EXCEPT ![c] = "bump"]
  /\ UNCHANGED <<agentVars, logVars, open, seq, table, state, ring, version, mapped,
                 sent, read, done>>

Bump(c) ==
  /\ cpc[c] = "bump"
  /\ slot' = [slot EXCEPT !.seq = @ + 1]
  /\ sent' = [sent EXCEPT ![c].seq = slot.seq + 1]
  /\ cpc' = [cpc EXCEPT ![c] = "idle"]
  /\ UNCHANGED <<agentVars, logVars, open, seq, table, state, ring, version, mapped,
                 read, done>>

-----------------------------------------------------------------------------
(* read_snapshot: the number, the state, the rows, the number again.  An    *)
(* attempt that fails is begun again, up to four times; what is returned    *)
(* after the fourth is not called clean, and not modelled.                  *)

ReadBegin(c) ==
  /\ c \in mapped
  /\ read[c].pc \in {"idle", "clean"}
  /\ seq % 2 = 0
  /\ read' = [read EXCEPT ![c] = [NoRead EXCEPT !.pc = "begun", !.s0 = seq, !.of = agent]]
  /\ UNCHANGED <<agentVars, logVars, shmVars, mapped, cpc, sent, done>>

ReadState(c) ==
  /\ read[c].pc = "begun"
  /\ read' = [read EXCEPT ![c].pc = "half", ![c].state = state]
  /\ UNCHANGED <<agentVars, logVars, shmVars, mapped, cpc, sent, done>>

ReadTable(c) ==
  /\ read[c].pc = "half"
  /\ read' = [read EXCEPT ![c].pc = "full", ![c].table = table]
  /\ UNCHANGED <<agentVars, logVars, shmVars, mapped, cpc, sent, done>>

(* Mutant: the number is not read again. *)
ReadCheckAnyway(c) ==
  /\ read[c].pc = "full"
  /\ read' = [read EXCEPT ![c].pc = "clean", ![c].to = agent]
  /\ UNCHANGED <<agentVars, logVars, shmVars, mapped, cpc, sent, done>>

ReadCheck(c) ==
  /\ read[c].pc = "full"
  /\ read' = [read EXCEPT ![c] = IF seq = @.s0 THEN [@ EXCEPT !.pc = "clean", !.to = agent]
                                 ELSE NoRead]
  /\ UNCHANGED <<agentVars, logVars, shmVars, mapped, cpc, sent, done>>

-----------------------------------------------------------------------------
(* The tick of the agent: the slot.                                         *)

(* Mutant: the ack is given when the command is found. *)
PollAcks ==
  /\ apc = "poll"
  /\ cur' = [NoCmd EXCEPT !.seq = slot.seq]
  /\ apc' = IF slot.seq # last THEN "kind" ELSE "work"
  /\ slot' = [slot EXCEPT !.ack = slot.seq]
  /\ UNCHANGED <<agent, last, logVars, open, seq, table, state, ring, version,
                 clientVars, done>>

Poll ==
  /\ apc = "poll"
  /\ cur' = [NoCmd EXCEPT !.seq = slot.seq]
  /\ apc' = IF slot.seq # last THEN "kind" ELSE "work"
  /\ UNCHANGED <<agent, last, logVars, shmVars, clientVars, done>>

ReadKind ==
  /\ apc = "kind"
  /\ cur' = [cur EXCEPT !.kind = slot.kind]
  /\ apc' = "arg"
  /\ UNCHANGED <<agent, last, logVars, shmVars, clientVars, done>>

(* The handler reads the arguments and does what the command says. *)
Execute ==
  /\ apc = "arg"
  /\ cur' = [cur EXCEPT !.arg = slot.arg]
  /\ done' = done \cup {cur'}
  /\ apc' = "ack"
  /\ UNCHANGED <<agent, last, logVars, shmVars, clientVars>>

(* Mutant: the agent remembers the number and does not store the ack. *)
AckSilent ==
  /\ apc = "ack"
  /\ last' = cur.seq
  /\ apc' = "work"
  /\ UNCHANGED <<agent, cur, logVars, shmVars, clientVars, done>>

Ack ==
  /\ apc = "ack"
  /\ last' = cur.seq
  /\ slot' = [slot EXCEPT !.ack = cur.seq]
  /\ apc' = "work"
  /\ UNCHANGED <<agent, cur, logVars, open, seq, table, state, ring, version,
                 clientVars, done>>

-----------------------------------------------------------------------------
(* The rest of the tick: actions are logged and drained, a snapshot is      *)
(* published.                                                               *)

(* Mutant: a reader that was lapped reads on where it was, that is, what    *)
(* the producer has put there since.                                        *)
UnreadUnguarded(from, head) ==
  [i \in 1..(head - from) |->
     <<agent, (from + i - 1) + Cap * ((head - from - i) \div Cap)>>]

(* The actions a reader at cursor "from" still finds in the executor's      *)
(* ring, which overwrites: the last Cap of them.                            *)
Unread(from, head) ==
  LET first == IF head - from > Cap THEN head - Cap ELSE from
  IN  [i \in 1..(head - first) |-> <<agent, first + i - 1>>]

(* The passes of the tick log n actions; those go to the audit file.  The   *)
(* agent of the model stops publishing after MaxPublish.                    *)
Work(n) ==
  /\ apc = "work"
  /\ version = MaxPublish => n = 0
  /\ logged' = logged + n
  /\ audit' = audit \o Unread(audited, logged')
  /\ audited' = logged'
  /\ apc' = IF version = MaxPublish THEN "poll" ELSE "publish"
  /\ UNCHANGED <<agent, last, cur, shipped, shmVars, clientVars, done>>

(* Mutant: push without a look at the reader's end. *)
PublishUnchecked ==
  /\ apc = "publish"
  /\ ring' = ring \o Unread(shipped, logged)
  /\ shipped' = logged
  /\ version' = version + 1
  /\ seq' = seq + 1
  /\ apc' = "table"
  /\ UNCHANGED <<agent, last, cur, logged, audited, audit, open, slot, table, state,
                 clientVars, done>>

(* publish(): the new actions are pushed to the ring of the mapping while   *)
(* it has room (nobody ever pops from it), then the write begins.           *)
Publish ==
  /\ apc = "publish"
  /\ LET all == ring \o Unread(shipped, logged)
     IN  ring' = SubSeq(all, 1, IF Len(all) > Cap THEN Cap ELSE Len(all))
  /\ shipped' = logged
  /\ version' = version + 1
  /\ seq' = seq + 1
  /\ apc' = "table"
  /\ UNCHANGED <<agent, last, cur, logged, audited, audit, open, slot, table, state,
                 clientVars, done>>

WriteTable ==
  /\ apc = "table"
  /\ table' = <<agent, version>>
  /\ apc' = "state"
  /\ UNCHANGED <<agent, last, cur, logVars, open, slot, seq, state, ring, version,
                 clientVars, done>>

WriteState ==
  /\ apc = "state"
  /\ state' = <<agent, version>>
  /\ apc' = "end"
  /\ UNCHANGED <<agent, last, cur, logVars, open, slot, seq, table, ring, version,
                 clientVars, done>>

WriteEnd ==
  /\ apc = "end"
  /\ seq' = seq + 1
  /\ apc' = "poll"
  /\ UNCHANGED <<agent, last, cur, logVars, open, slot, table, state, ring, version,
                 clientVars, done>>

-----------------------------------------------------------------------------
(* The shutdown: the channel is closed first, then everything is reverted.  *)

Stop ==
  /\ apc = "poll"
  /\ apc' = "revert"
  /\ IF mapped = {} THEN Released({})
     ELSE seq' = seq + 2 /\ UNCHANGED <<open, slot, table, state, ring, done>>
  /\ UNCHANGED <<agent, last, cur, logVars, version, clientVars>>

(* Mutant: the audit file is closed before the reverts. *)
RevertAllLast(n) ==
  /\ apc = "revert"
  /\ logged' = logged + n
  /\ audit' = audit \o Unread(audited, logged)
  /\ audited' = logged
  /\ apc' = "down"
  /\ UNCHANGED <<agent, last, cur, shipped, shmVars, clientVars, done>>

(* revert_all logs n actions; the audit file gets them and is closed. *)
RevertAll(n) ==
  /\ apc = "revert"
  /\ logged' = logged + n
  /\ audit' = audit \o Unread(audited, logged')
  /\ audited' = logged'
  /\ apc' = "down"
  /\ UNCHANGED <<agent, last, cur, shipped, shmVars, clientVars, done>>

-----------------------------------------------------------------------------
Tick ==
  \/ Poll \/ ReadKind \/ Execute \/ Ack
  \/ \E n \in 0..Burst : Work(n)
  \/ Publish \/ WriteTable \/ WriteState \/ WriteEnd

Lifecycle ==
  \/ Open \/ Kill \/ Stop
  \/ \E n \in 0..Burst : RevertAll(n)

ClientStep(c) ==
  \/ Connect(c) \/ Disconnect(c)
  \/ \E k \in Cmd : SendKind(c, k)
  \/ SendArg(c) \/ Bump(c)
  \/ ReadBegin(c) \/ ReadState(c) \/ ReadTable(c) \/ ReadCheck(c)

Next == Tick \/ Lifecycle \/ \E c \in Client : ClientStep(c)

Spec == Init /\ [][Next]_vars

(* The thread of the agent keeps running. *)
FairSpec == Spec /\ WF_vars(Tick)

-----------------------------------------------------------------------------
(* A clean copy is of one publication, whatever the agent does meanwhile    *)
(* but restart: a header whose count is zero goes with any rows.            *)
CleanIsOnePublication ==
  \A c \in Client :
    (read[c].pc = "clean" /\ read[c].of = read[c].to)
      => read[c].state \in {Zero, read[c].table}

(* With one client, when the command it sent last is acked it has been       *)
(* carried out, with its own kind and arguments, by this agent or by one    *)
(* that was killed.                                                         *)
AckedWasExecuted ==
  \A c \in mapped :
    (cpc[c] = "idle" /\ sent[c].seq > 0 /\ slot.ack >= sent[c].seq) => sent[c] \in done

(* Actions reach the mapping and the audit file in the order they were      *)
(* logged in, once each, also when a tick logs more than the ring holds.    *)
Before(a, b) == a[1] < b[1] \/ (a[1] = b[1] /\ a[2] < b[2])

LogInOrder ==
  \A log \in {ring, audit} : \A i, j \in DOMAIN log : i < j => Before(log[i], log[j])

(* After a shutdown the audit file has the last actions of the agent, those *)
(* of its final reverts included.                                           *)
AuditHasTheLatest ==
  [][\A n \in 0..Burst : RevertAll(n) =>
       \A i \in 0..(logged' - 1) :
         i >= logged' - Cap => \E k \in DOMAIN audit' : audit'[k] = <<agent, i>>]_vars

LogsAreComplete == []LogInOrder /\ AuditHasTheLatest

(* A command gets its ack while the agent runs. *)
CommandAnswered ==
  \A c \in Client :
    (sent[c].seq > slot.ack /\ apc # "down") ~> (sent[c].seq <= slot.ack \/ apc \in {"revert", "down"})

-----------------------------------------------------------------------------
(* What the repository says of the program and the code does not do.        *)

(* The agent only acts on a number it has not seen: a command that has got  *)
(* its ack is not carried out again.                                        *)
ExecutedOnce == [][(apc = "arg" /\ slot.ack >= cur.seq) => cur' \notin done]_vars

=============================================================================
