---------------------------- MODULE DesktopProofs ----------------------------
(***************************************************************************)
(* Theorems of MCDesktop, for any agents, windows, clients, lengths of a    *)
(* session, timeouts and inputs: what the user is told and what is changed  *)
(* back.  Each part has an inductive invariant of its own; they are put      *)
(* together at the end.                                                     *)
(***************************************************************************)
EXTENDS MCDesktop, FiniteSetTheorems, SequenceTheorems, TLAPS

-----------------------------------------------------------------------------
(* Windows and agents.                                                      *)

AgentPcs == {"none", "gone", "suspended", "acquire"} \cup Launch!Inside
UiPcs    == {"off", "found", "unfound", "spawn", "assign", "resume", "up", "closed", "vanished"}

LaunchTypes ==
  /\ os \in {"windows", "posix"}
  /\ launched \in [Agents -> [pc: AgentPcs, stop: BOOLEAN, job: Uis \cup {None}]]
  /\ ui \in [Uis -> [pc: UiPcs, child: Agents \cup {None}]]
  /\ lock \subseteq Agents \cup Uis /\ pins \subseteq Agents

(* An agent past acquire() has the lock, and has it alone.                  *)
LockInv ==
  /\ \A a \in Agents : launched[a].pc \in Launch!Inside <=> a \in lock
  /\ \A a, b \in Agents : a \in lock /\ b \in lock => a = b

(* Placements are those of agents that have come to run.                    *)
PinsInv == \A a \in pins : launched[a].pc \in {"run", "down", "dtor", "gone"}

(* A window's child was made by that window alone; on Windows it is in the   *)
(* window's job before it may run.                                          *)
ChildInv ==
  /\ \A u \in Uis :
       /\ ui[u].pc \in {"off", "found", "unfound", "spawn"} => ui[u].child = None
       /\ ui[u].pc \in {"assign", "resume"} => os = "windows" /\ ui[u].child # None
       /\ ui[u].child # None => launched[ui[u].child].pc # "none"
  /\ \A u, v \in Uis : ui[u].child = ui[v].child /\ ui[u].child # None => u = v

JobInv ==
  os = "windows" => \A u \in Uis : ui[u].child # None =>
    /\ ui[u].pc = "assign" => launched[ui[u].child].pc \in {"suspended", "gone"}
    /\ ui[u].pc = "resume" =>
         /\ launched[ui[u].child].pc \in {"suspended", "gone"}
         /\ launched[ui[u].child].job = u
    /\ ui[u].pc = "up" => launched[ui[u].child].job = u
    /\ ui[u].pc \in {"closed", "vanished"} => launched[ui[u].child].pc \in {"suspended", "gone"}

LaunchInv == LaunchTypes /\ LockInv /\ PinsInv /\ ChildInv /\ JobInv

LEMMA LaunchStarts == Launch!Init => LaunchInv
PROOF BY DesktopAssumption DEF Launch!LaunchAssumption, Launch!Init, LaunchInv, LaunchTypes, LockInv, PinsInv, ChildInv, JobInv,
     AgentPcs, UiPcs, Launch!Inside

(* Agents that end where they are: the lock goes with the one that had it,  *)
(* placements stay.                                                         *)
LEMMA EndKeeps ==
  ASSUME LaunchInv, NEW S \in SUBSET Agents, launched' = Launch!Ended(S),
         lock' \subseteq lock, \A a \in Agents : a \in lock' <=> a \in lock /\ a \notin S,
         UNCHANGED pins
  PROVE  /\ launched' \in [Agents -> [pc: AgentPcs, stop: BOOLEAN, job: Uis \cup {None}]]
         /\ lock' \subseteq Agents \cup Uis /\ pins' \subseteq Agents
         /\ LockInv' /\ PinsInv'
         /\ \A a \in Agents : /\ a \in S => launched'[a] = [launched[a] EXCEPT !.pc = "gone"]
                              /\ a \notin S => launched'[a] = launched[a]
PROOF
<1>1. \A a \in Agents : /\ a \in S => launched'[a] = [launched[a] EXCEPT !.pc = "gone"]
                        /\ a \notin S => launched'[a] = launched[a]
  BY DEF Launch!Ended
<1>2. \A a \in Agents : launched[a] \in [pc: AgentPcs, stop: BOOLEAN, job: Uis \cup {None}]
  BY DEF LaunchInv, LaunchTypes
<1>3. \A a \in Agents : /\ launched'[a].pc = IF a \in S THEN "gone" ELSE launched[a].pc
                        /\ launched'[a] \in [pc: AgentPcs, stop: BOOLEAN, job: Uis \cup {None}]
  BY <1>1, <1>2 DEF AgentPcs
<1>4. launched' \in [Agents -> [pc: AgentPcs, stop: BOOLEAN, job: Uis \cup {None}]]
  BY <1>3 DEF Launch!Ended
<1>5. LockInv' /\ PinsInv'
  BY <1>3 DEF LaunchInv, LaunchTypes, LockInv, PinsInv, Launch!Inside
<1> QED BY <1>1, <1>4, <1>5 DEF LaunchInv, LaunchTypes

(* What is left of the lock: only agents past acquire() have it.            *)
LEMMA LeftIs ==
  ASSUME LaunchInv, NEW S \in SUBSET Agents
  PROVE  /\ Launch!LeftAfter(Launch!Ended(S)) \subseteq lock
         /\ \A a \in Agents : a \in Launch!LeftAfter(Launch!Ended(S)) <=> a \in lock /\ a \notin S
PROOF
<1>1. \A a \in Agents : launched[a] \in [pc: AgentPcs, stop: BOOLEAN, job: Uis \cup {None}]
  BY DEF LaunchInv, LaunchTypes
<1>2. \A a \in Agents : Launch!Ended(S)[a].pc = IF a \in S THEN "gone" ELSE launched[a].pc
  BY <1>1 DEF Launch!Ended
<1>3. \A a \in Agents : a \in lock => launched[a].pc # "gone"
  BY DEF LaunchInv, LockInv, Launch!Inside
<1> QED BY <1>2, <1>3 DEF Launch!LeftAfter

(* A window whose pc alone changes, while agents end or stay, keeps its      *)
(* child; where the agents of S that end include the child of a window that   *)
(* has it in its job, that window may go.                                   *)
LEMMA ChildrenKeep ==
  ASSUME LaunchInv, NEW S \in SUBSET Agents, UNCHANGED os,
         \A a \in Agents : /\ a \in S => launched'[a] = [launched[a] EXCEPT !.pc = "gone"]
                           /\ a \notin S => launched'[a] = launched[a],
         NEW u \in Uis, NEW pc \in {"up", "closed", "vanished"},
         ui' = [ui EXCEPT ![u].pc = pc] \/ ui' = ui,
         ui' # ui => /\ ui[u].pc \in {"off", "closed", "vanished"} => FALSE
                     /\ pc = "up" => ui[u].pc = "spawn"
                     /\ pc # "up" /\ os = "windows" => S = Launch!InJob(u)
  PROVE  ui' \in [Uis -> [pc: UiPcs, child: Agents \cup {None}]] /\ ChildInv' /\ JobInv'
PROOF
<1>1. \A a \in Agents : launched[a] \in [pc: AgentPcs, stop: BOOLEAN, job: Uis \cup {None}]
  BY DEF LaunchInv, LaunchTypes
<1>2. \A v \in Uis : ui[v] \in [pc: UiPcs, child: Agents \cup {None}]
  BY DEF LaunchInv, LaunchTypes
<1>3. ui' \in [Uis -> [pc: UiPcs, child: Agents \cup {None}]]
  <2>1. ui \in [Uis -> [pc: UiPcs, child: Agents \cup {None}]]
    BY DEF LaunchInv, LaunchTypes
  <2>2. ui[u] \in [pc: UiPcs, child: Agents \cup {None}] /\ pc \in UiPcs
    BY <1>2 DEF UiPcs
  <2>3. [ui[u] EXCEPT !.pc = pc] \in [pc: UiPcs, child: Agents \cup {None}]
    BY <2>2
  <2>4. CASE ui' = [ui EXCEPT ![u].pc = pc]
    BY <2>1, <2>3, <2>4
  <2> QED BY <2>1, <2>4
<1>4. \A a \in Agents : /\ launched'[a].pc = IF a \in S THEN "gone" ELSE launched[a].pc
                        /\ launched'[a].job = launched[a].job
  BY <1>1
<1>5. \A v \in Uis : /\ ui'[v].child = ui[v].child
                     /\ v # u => ui'[v].pc = ui[v].pc
  BY <1>2 DEF LaunchInv, LaunchTypes
<1>6. ui'[u].pc = ui[u].pc \/ (ui'[u].pc = pc /\ ui' # ui)
  <2>1. CASE ui' = ui
    BY <2>1
  <2>2. CASE ui' # ui
    BY <1>2, <2>2 DEF LaunchInv, LaunchTypes
  <2> QED BY <2>1, <2>2
<1>7. ChildInv'
  BY <1>2, <1>4, <1>5, <1>6 DEF LaunchInv, ChildInv
<1>8. ASSUME os = "windows", NEW v \in Uis, ui[v].child # None
      PROVE  /\ ui'[v].pc = "assign" => launched'[ui[v].child].pc \in {"suspended", "gone"}
             /\ ui'[v].pc = "resume" => /\ launched'[ui[v].child].pc \in {"suspended", "gone"}
                                        /\ launched'[ui[v].child].job = v
             /\ ui'[v].pc = "up" => launched'[ui[v].child].job = v
             /\ ui'[v].pc \in {"closed", "vanished"} => launched'[ui[v].child].pc \in {"suspended", "gone"}
  <2>1. ui[v].child \in Agents
    BY <1>2, <1>8
  <2>2. CASE ui'[v].pc = ui[v].pc
    BY <1>4, <1>8, <2>1, <2>2 DEF LaunchInv, JobInv
  <2>3. CASE v = u /\ ui'[u].pc = pc /\ ui' # ui
    <3>1. pc # "up"
      BY <1>8, <2>3 DEF LaunchInv, ChildInv
    <3>2. launched[ui[v].child].pc \in AgentPcs \ {"none"}
      BY <1>1, <1>8, <2>1 DEF LaunchInv, ChildInv
    <3>3. launched[ui[v].child].pc = "suspended" \/ launched[ui[v].child].pc = "gone"
          \/ launched[ui[v].child].job = v
      BY <1>2, <1>8, <2>3 DEF LaunchInv, JobInv, ChildInv, UiPcs
    <3>4. launched[ui[v].child].job = v => launched[ui[v].child].pc = "gone" \/ ui[v].child \in S
      BY <1>8, <2>1, <2>3, <3>1, <3>2 DEF Launch!InJob, Launch!Alive, Launch!Absent
    <3> QED BY <1>4, <2>1, <2>3, <3>1, <3>3, <3>4
  <2> QED BY <1>5, <1>6, <2>2, <2>3
<1>9. JobInv'
  BY <1>5, <1>8 DEF JobInv
<1> QED BY <1>3, <1>7, <1>9

(* A call of stop() moves nobody.                                           *)
LEMMA StopMovesNobody ==
  ASSUME LaunchInv, NEW a \in Agents,
         launched' = launched \/ launched' = [launched EXCEPT ![a].stop = TRUE],
         UNCHANGED pins
  PROVE  /\ launched' \in [Agents -> [pc: AgentPcs, stop: BOOLEAN, job: Uis \cup {None}]]
         /\ Launch!LeftAfter(launched') = lock
         /\ PinsInv' /\ (lock' = lock => LockInv')
         /\ \A b \in Agents : launched'[b].pc = launched[b].pc /\ launched'[b].job = launched[b].job
PROOF
<1>1. \A b \in Agents : launched[b] \in [pc: AgentPcs, stop: BOOLEAN, job: Uis \cup {None}]
  BY DEF LaunchInv, LaunchTypes
<1>8. launched \in [Agents -> [pc: AgentPcs, stop: BOOLEAN, job: Uis \cup {None}]]
  BY DEF LaunchInv, LaunchTypes
<1>9. [launched[a] EXCEPT !.stop = TRUE] \in [pc: AgentPcs, stop: BOOLEAN, job: Uis \cup {None}]
  BY <1>1
<1>2. launched' \in [Agents -> [pc: AgentPcs, stop: BOOLEAN, job: Uis \cup {None}]]
  <2>1. CASE launched' = launched
    BY <1>8, <2>1
  <2>2. CASE launched' = [launched EXCEPT ![a].stop = TRUE]
    BY <1>8, <1>9, <2>2
  <2> QED BY <2>1, <2>2
<1>3. \A b \in Agents : launched'[b].pc = launched[b].pc /\ launched'[b].job = launched[b].job
  BY <1>1, <1>8
<1>4. \A b \in Agents : b \in lock => launched'[b].pc # "gone"
  BY <1>3 DEF LaunchInv, LockInv, Launch!Inside
<1>5. Launch!LeftAfter(launched') = lock
  BY <1>4 DEF Launch!LeftAfter
<1>6. PinsInv'
  BY <1>3 DEF LaunchInv, LaunchTypes, PinsInv
<1>7. ASSUME lock' = lock PROVE LockInv'
  BY <1>3, <1>7 DEF LaunchInv, LockInv
<1> QED BY <1>2, <1>3, <1>5, <1>6, <1>7

(* An agent that runs and goes on to its next place is no concern of the     *)
(* windows: what they hold to says nothing of agents that run.              *)
LEMMA AgentMoves ==
  ASSUME LaunchInv, NEW a \in Agents, NEW pc \in AgentPcs \ {"none"},
         launched[a].pc \notin {"none", "suspended", "gone"},
         launched' = [launched EXCEPT ![a].pc = pc], UNCHANGED <<os, ui>>
  PROVE  /\ launched' \in [Agents -> [pc: AgentPcs, stop: BOOLEAN, job: Uis \cup {None}]]
         /\ \A b \in Agents : launched'[b].pc = IF b = a THEN pc ELSE launched[b].pc
         /\ ChildInv' /\ JobInv'
PROOF
<1>1. \A b \in Agents : launched[b] \in [pc: AgentPcs, stop: BOOLEAN, job: Uis \cup {None}]
  BY DEF LaunchInv, LaunchTypes
<1>2. launched \in [Agents -> [pc: AgentPcs, stop: BOOLEAN, job: Uis \cup {None}]]
  BY DEF LaunchInv, LaunchTypes
<1>3. \A b \in Agents : launched'[b] = IF b = a THEN [launched[a] EXCEPT !.pc = pc] ELSE launched[b]
  BY <1>2
<1>4. [launched[a] EXCEPT !.pc = pc] \in [pc: AgentPcs, stop: BOOLEAN, job: Uis \cup {None}]
  BY <1>1
<1>5. launched' \in [Agents -> [pc: AgentPcs, stop: BOOLEAN, job: Uis \cup {None}]]
  BY <1>2, <1>4
<1>6. \A b \in Agents : /\ launched'[b].pc = IF b = a THEN pc ELSE launched[b].pc
                        /\ launched'[b].job = launched[b].job
  BY <1>1, <1>3
<1>7. \A u \in Uis : ui[u].child \in Agents \cup {None}
  BY DEF LaunchInv, LaunchTypes
<1>8. ChildInv'
  BY <1>6, <1>7 DEF LaunchInv, ChildInv
<1>9. JobInv'
  BY <1>6, <1>7 DEF LaunchInv, JobInv, ChildInv
<1> QED BY <1>5, <1>6, <1>8, <1>9

LEMMA LaunchStep ==
  ASSUME LaunchInv, Launch!Next
  PROVE  LaunchInv'
PROOF
<1> USE DesktopAssumption DEF Launch!LaunchAssumption, LaunchInv, LaunchTypes, LockInv, PinsInv, ChildInv, JobInv,
        AgentPcs, UiPcs, Launch!Inside, Launch!Alive, Launch!Absent
<1>1. ASSUME NEW a \in Agents, Launch!Acquire(a) PROVE LaunchInv'
  <2>1. /\ launched[a].pc = "acquire" /\ UNCHANGED <<os, ui, pins>>
        /\ \/ lock = {} /\ launched' = [launched EXCEPT ![a].pc = "handlers"] /\ lock' = {a}
           \/ lock # {} /\ launched' = [launched EXCEPT ![a].pc = "gone"] /\ lock' = lock
    BY <1>1 DEF Launch!Acquire, Launch!Become
  <2>2. ASSUME NEW pc \in {"handlers", "gone"}, launched' = [launched EXCEPT ![a].pc = pc]
        PROVE  /\ launched' \in [Agents -> [pc: AgentPcs, stop: BOOLEAN, job: Uis \cup {None}]]
               /\ \A b \in Agents : launched'[b].pc = IF b = a THEN pc ELSE launched[b].pc
               /\ ChildInv' /\ JobInv'
    BY <2>1, <2>2, AgentMoves
  <2> HIDE DEF LaunchTypes, LockInv, PinsInv, ChildInv, JobInv, LaunchInv
  <2>3. CASE lock = {} /\ launched' = [launched EXCEPT ![a].pc = "handlers"] /\ lock' = {a}
    <3>1. LockInv' /\ PinsInv'
      BY <2>1, <2>2, <2>3 DEF LaunchInv, LaunchTypes, LockInv, PinsInv
    <3> QED BY <2>1, <2>2, <2>3, <3>1 DEF LaunchInv, LaunchTypes
  <2>4. CASE lock # {} /\ launched' = [launched EXCEPT ![a].pc = "gone"] /\ lock' = lock
    <3>1. LockInv' /\ PinsInv'
      BY <2>1, <2>2, <2>4 DEF LaunchInv, LaunchTypes, LockInv, PinsInv
    <3> QED BY <2>1, <2>2, <2>4, <3>1 DEF LaunchInv, LaunchTypes
  <2> QED BY <2>1, <2>3, <2>4
<1>2. ASSUME NEW a \in Agents, Launch!Handlers(a) PROVE LaunchInv'
  BY <1>2 DEF Launch!Handlers, Launch!Become
<1>3. ASSUME NEW a \in Agents, Launch!Construct(a) PROVE LaunchInv'
  BY <1>3 DEF Launch!Construct, Launch!Become
<1>4. ASSUME NEW a \in Agents, Launch!Start(a) PROVE LaunchInv'
  BY <1>4 DEF Launch!Start, Launch!Become
<1>5. ASSUME NEW a \in Agents, Launch!LeaveLoop(a) PROVE LaunchInv'
  BY <1>5 DEF Launch!LeaveLoop, Launch!Become
<1>6. ASSUME NEW a \in Agents, Launch!Shutdown(a) PROVE LaunchInv'
  BY <1>6 DEF Launch!Shutdown, Launch!Become
<1>7. ASSUME NEW a \in Agents, Launch!Leave(a) PROVE LaunchInv'
  BY <1>7 DEF Launch!Leave, Launch!Become
<1>8. ASSUME NEW a \in Agents, Launch!ByHand(a) PROVE LaunchInv'
  BY <1>8 DEF Launch!ByHand, Launch!Become
<1>9. ASSUME NEW a \in Agents, Launch!Place(a) PROVE LaunchInv'
  BY <1>9 DEF Launch!Place, Launch!Become
<1>10. ASSUME NEW a \in Agents, Launch!Kill(a) PROVE LaunchInv'
  BY <1>10 DEF Launch!Kill, Launch!Ended
<1>11. ASSUME NEW a \in Agents, Launch!Signal(a) PROVE LaunchInv'
  <2>1. launched' = Launch!Signalled(a) /\ lock' = Launch!LeftAfter(launched') /\ UNCHANGED <<os, ui, pins>>
    BY <1>11 DEF Launch!Signal
  <2> HIDE DEF LaunchTypes, LockInv, PinsInv, ChildInv, JobInv, LaunchInv
  <2>2. CASE launched[a].pc \in {"acquire", "handlers"}
    <3>1. launched' = Launch!Ended({a}) /\ {a} \in SUBSET Agents
      BY <2>1, <2>2 DEF Launch!Signalled
    <3>2. /\ lock' \subseteq lock /\ \A b \in Agents : b \in lock' <=> b \in lock /\ b \notin {a}
      BY <2>1, <3>1, LeftIs
    <3>3. /\ launched' \in [Agents -> [pc: AgentPcs, stop: BOOLEAN, job: Uis \cup {None}]]
          /\ lock' \subseteq Agents \cup Uis /\ pins' \subseteq Agents
          /\ LockInv' /\ PinsInv'
          /\ \A b \in Agents : /\ b \in {a} => launched'[b] = [launched[b] EXCEPT !.pc = "gone"]
                               /\ b \notin {a} => launched'[b] = launched[b]
      BY <2>1, <3>1, <3>2, EndKeeps
    <3>4. launched[a] \in [pc: AgentPcs, stop: BOOLEAN, job: Uis \cup {None}]
      BY DEF LaunchInv, LaunchTypes
    <3>5. \A b \in Agents : /\ launched'[b].pc = IF b = a THEN "gone" ELSE launched[b].pc
                            /\ launched'[b].job = launched[b].job
      BY <3>3, <3>4
    <3>6. ChildInv' /\ JobInv'
      BY <2>1, <3>5 DEF LaunchInv, LaunchTypes, ChildInv, JobInv
    <3> QED BY <2>1, <3>3, <3>6 DEF LaunchInv, LaunchTypes
  <2>3. CASE launched[a].pc \notin {"acquire", "handlers"}
    <3>1. launched' = launched \/ launched' = [launched EXCEPT ![a].stop = TRUE]
      BY <2>1, <2>3 DEF Launch!Signalled
    <3>2. /\ launched' \in [Agents -> [pc: AgentPcs, stop: BOOLEAN, job: Uis \cup {None}]]
          /\ lock' = lock /\ LockInv' /\ PinsInv'
          /\ \A b \in Agents : launched'[b].pc = launched[b].pc /\ launched'[b].job = launched[b].job
      BY <2>1, <3>1, StopMovesNobody
    <3>3. ChildInv' /\ JobInv'
      BY <2>1, <3>2 DEF LaunchInv, LaunchTypes, ChildInv, JobInv
    <3> QED BY <2>1, <3>2, <3>3 DEF LaunchInv, LaunchTypes
  <2> QED BY <2>2, <2>3
<1>12. ASSUME NEW u \in Uis, Launch!Probe(u) PROVE LaunchInv'
  BY <1>12 DEF Launch!Probe
<1>13. ASSUME NEW u \in Uis, Launch!Probed(u) PROVE LaunchInv'
  BY <1>13 DEF Launch!Probed
<1>14. ASSUME NEW u \in Uis, NEW a \in Agents, Launch!Create(u, a) PROVE LaunchInv'
  BY <1>14 DEF Launch!Create, Launch!Become
<1>15. ASSUME NEW u \in Uis, Launch!CreateFails(u) PROVE LaunchInv'
  BY <1>15 DEF Launch!CreateFails
<1>16. ASSUME NEW u \in Uis, Launch!Assign(u) PROVE LaunchInv'
  <2> DEFINE a == ui[u].child
  <2>1. a \in Agents /\ ui[u].pc = "assign" /\ os = "windows" /\ launched[a].pc \in {"suspended", "gone"}
    BY <1>16 DEF Launch!Assign
  <2>2. CASE /\ ui' = [ui EXCEPT ![u].pc = "resume"]
             /\ launched' = [launched EXCEPT ![a].job = u]
             /\ UNCHANGED <<os, lock, pins>>
    BY <2>1, <2>2
  <2>3. CASE /\ ui' = [ui EXCEPT ![u] = [pc |-> "up", child |-> None]]
             /\ launched' = Launch!Ended({a}) /\ lock' = lock \ {a}
             /\ UNCHANGED <<os, pins>>
    <3> HIDE DEF a
    <3> HIDE DEF LaunchTypes, LockInv, PinsInv, ChildInv, JobInv, LaunchInv
    <3>1. {a} \in SUBSET Agents /\ lock' \subseteq lock
          /\ \A b \in Agents : b \in lock' <=> b \in lock /\ b \notin {a}
      BY <2>1, <2>3
    <3>2. /\ launched' \in [Agents -> [pc: AgentPcs, stop: BOOLEAN, job: Uis \cup {None}]]
          /\ lock' \subseteq Agents \cup Uis /\ pins' \subseteq Agents
          /\ LockInv' /\ PinsInv'
          /\ \A b \in Agents : /\ b \in {a} => launched'[b] = [launched[b] EXCEPT !.pc = "gone"]
                               /\ b \notin {a} => launched'[b] = launched[b]
      BY <2>3, <3>1, EndKeeps
    <3>3. launched[a] \in [pc: AgentPcs, stop: BOOLEAN, job: Uis \cup {None}]
      BY <2>1 DEF LaunchInv, LaunchTypes
    <3>4. \A b \in Agents : /\ launched'[b].pc = IF b = a THEN "gone" ELSE launched[b].pc
                            /\ launched'[b].job = launched[b].job
      BY <3>2, <3>3
    <3>5. ui' \in [Uis -> [pc: UiPcs, child: Agents \cup {None}]]
      BY <2>1, <2>3 DEF LaunchInv, LaunchTypes
    <3>6. \A v \in Uis : ui'[v] = IF v = u THEN [pc |-> "up", child |-> None] ELSE ui[v]
      BY <2>3 DEF LaunchInv, LaunchTypes
    <3>7. \A v \in Uis : v # u /\ ui[v].child # None => ui[v].child \in Agents \ {a}
      BY <2>1 DEF LaunchInv, LaunchTypes, ChildInv, a
    <3>8. ChildInv'
      <4>1. \A v \in Uis : ui'[v].child # None =>
              /\ v # u /\ ui'[v] = ui[v] /\ ui[v].child \in Agents \ {a}
              /\ launched'[ui'[v].child].pc = launched[ui[v].child].pc
        BY <3>4, <3>6, <3>7
      <4>2. \A v \in Uis :
              /\ ui'[v].pc \in {"off", "found", "unfound", "spawn"} => ui'[v].child = None
              /\ ui'[v].pc \in {"assign", "resume"} => os' = "windows" /\ ui'[v].child # None
        BY <2>3, <3>6 DEF LaunchInv, ChildInv
      <4>3. \A v \in Uis : ui'[v].child # None => launched'[ui'[v].child].pc # "none"
        BY <4>1 DEF LaunchInv, ChildInv
      <4>4. \A v, w \in Uis : ui'[v].child = ui'[w].child /\ ui'[v].child # None => v = w
        BY <4>1 DEF LaunchInv, ChildInv
      <4> QED BY <4>2, <4>3, <4>4 DEF ChildInv
    <3>9. JobInv'
      <4>1. \A v \in Uis : ui'[v].child # None => v # u /\ ui'[v] = ui[v]
        BY <3>6
      <4>2. \A v \in Uis : v # u /\ ui[v].child # None =>
              /\ launched'[ui[v].child].pc = launched[ui[v].child].pc
              /\ launched'[ui[v].child].job = launched[ui[v].child].job
        BY <3>4, <3>7
      <4>3. \A v \in Uis : ui'[v].child # None =>
              /\ ui'[v] = ui[v] /\ ui[v].child # None
              /\ launched'[ui'[v].child].pc = launched[ui[v].child].pc
              /\ launched'[ui'[v].child].job = launched[ui[v].child].job
        BY <4>1, <4>2
      <4>4. os' = os
        BY <2>3
      <4>5. \A v \in Uis : ui[v].child # None /\ os = "windows" =>
              /\ ui[v].pc = "assign" => launched[ui[v].child].pc \in {"suspended", "gone"}
              /\ ui[v].pc = "resume" => /\ launched[ui[v].child].pc \in {"suspended", "gone"}
                                        /\ launched[ui[v].child].job = v
              /\ ui[v].pc = "up" => launched[ui[v].child].job = v
              /\ ui[v].pc \in {"closed", "vanished"} => launched[ui[v].child].pc \in {"suspended", "gone"}
        BY DEF LaunchInv, JobInv
      <4> SUFFICES ASSUME os = "windows", NEW v \in Uis, ui'[v].child # None
                   PROVE  /\ ui'[v].pc = "assign" => launched'[ui'[v].child].pc \in {"suspended", "gone"}
                          /\ ui'[v].pc = "resume" => /\ launched'[ui'[v].child].pc \in {"suspended", "gone"}
                                                     /\ launched'[ui'[v].child].job = v
                          /\ ui'[v].pc = "up" => launched'[ui'[v].child].job = v
                          /\ ui'[v].pc \in {"closed", "vanished"} => launched'[ui'[v].child].pc \in {"suspended", "gone"}
        BY <4>4 DEF JobInv
      <4> QED BY <4>3, <4>5
    <3> QED BY <2>3, <3>2, <3>5, <3>8, <3>9 DEF LaunchInv, LaunchTypes
  <2>4. \/ /\ ui' = [ui EXCEPT ![u].pc = "resume"]
           /\ launched' = [launched EXCEPT ![a].job = u]
           /\ UNCHANGED <<os, lock, pins>>
        \/ /\ ui' = [ui EXCEPT ![u] = [pc |-> "up", child |-> None]]
           /\ launched' = Launch!Ended({a}) /\ lock' = lock \ {a}
           /\ UNCHANGED <<os, pins>>
    BY <1>16, Zenon DEF Launch!Assign
  <2> HIDE DEF LaunchTypes, LockInv, PinsInv, ChildInv, JobInv, LaunchInv
  <2> QED BY <2>2, <2>3, <2>4
<1>17. ASSUME NEW u \in Uis, Launch!Resume(u) PROVE LaunchInv'
  <2> DEFINE a  == ui[u].child
             pc == IF launched[a].pc = "suspended" THEN "acquire" ELSE launched[a].pc
  <2>1. /\ ui[u].pc = "resume" /\ ui' = [ui EXCEPT ![u].pc = "up"]
        /\ launched' = [launched EXCEPT ![a].pc = pc] /\ UNCHANGED <<os, lock, pins>>
    BY <1>17 DEF Launch!Resume
  <2>2. os = "windows" /\ a \in Agents /\ launched[a].pc \in {"suspended", "gone"} /\ launched[a].job = u
    BY <2>1
  <2> HIDE DEF LaunchTypes, LockInv, PinsInv, ChildInv, JobInv, LaunchInv, a
  <2>3. /\ launched \in [Agents -> [pc: AgentPcs, stop: BOOLEAN, job: Uis \cup {None}]]
        /\ \A v \in Uis : ui[v] \in [pc: UiPcs, child: Agents \cup {None}]
        /\ ui \in [Uis -> [pc: UiPcs, child: Agents \cup {None}]]
    BY DEF LaunchInv, LaunchTypes
  <2>4. \A b \in Agents : /\ launched'[b].pc = IF b = a THEN pc ELSE launched[b].pc
                          /\ launched'[b].job = launched[b].job
    BY <2>1, <2>2, <2>3
  <2>5. launched' \in [Agents -> [pc: AgentPcs, stop: BOOLEAN, job: Uis \cup {None}]]
    <3>1. pc \in AgentPcs
      BY <2>2, <2>3
    <3>2. [launched[a] EXCEPT !.pc = pc] \in [pc: AgentPcs, stop: BOOLEAN, job: Uis \cup {None}]
      BY <2>2, <2>3, <3>1
    <3> QED BY <2>1, <2>2, <2>3, <3>2
  <2>6. \A v \in Uis : ui'[v].pc = (IF v = u THEN "up" ELSE ui[v].pc) /\ ui'[v].child = ui[v].child
    BY <2>1, <2>3
  <2>7. ui' \in [Uis -> [pc: UiPcs, child: Agents \cup {None}]]
    BY <2>1, <2>3
  <2>8. LockInv' /\ PinsInv'
    BY <2>1, <2>2, <2>4 DEF LaunchInv, LaunchTypes, LockInv, PinsInv
  <2>9. \A v \in Uis : v # u /\ ui[v].child # None => ui[v].child \in Agents \ {a}
    BY <2>1, <2>2, <2>3 DEF LaunchInv, ChildInv, a
  <2>10. ChildInv'
    <3>1. \A v \in Uis : ui'[v].child # None => launched'[ui'[v].child].pc # "none"
      BY <2>2, <2>3, <2>4, <2>6 DEF LaunchInv, ChildInv
    <3>2. \A v, w \in Uis : ui'[v].child = ui'[w].child /\ ui'[v].child # None => v = w
      BY <2>6 DEF LaunchInv, ChildInv
    <3>3. \A v \in Uis :
            /\ ui'[v].pc \in {"off", "found", "unfound", "spawn"} => ui'[v].child = None
            /\ ui'[v].pc \in {"assign", "resume"} => os' = "windows" /\ ui'[v].child # None
      BY <2>1, <2>6 DEF LaunchInv, ChildInv
    <3> QED BY <3>1, <3>2, <3>3 DEF ChildInv
  <2>11. JobInv'
    <3> SUFFICES ASSUME NEW v \in Uis, ui'[v].child # None
                 PROVE  /\ ui'[v].pc = "assign" => launched'[ui'[v].child].pc \in {"suspended", "gone"}
                        /\ ui'[v].pc = "resume" => /\ launched'[ui'[v].child].pc \in {"suspended", "gone"}
                                                   /\ launched'[ui'[v].child].job = v
                        /\ ui'[v].pc = "up" => launched'[ui'[v].child].job = v
                        /\ ui'[v].pc \in {"closed", "vanished"} => launched'[ui'[v].child].pc \in {"suspended", "gone"}
      BY DEF JobInv
    <3>1. CASE v = u
      BY <2>2, <2>4, <2>6, <3>1 DEF a
    <3>2. CASE v # u
      BY <2>2, <2>4, <2>6, <2>9, <3>2 DEF LaunchInv, JobInv
    <3> QED BY <3>1, <3>2
  <2> QED BY <2>1, <2>5, <2>7, <2>8, <2>10, <2>11 DEF LaunchInv, LaunchTypes
<1>18. ASSUME NEW u \in Uis, Launch!Close(u) PROVE LaunchInv'
  <2>1. /\ ui[u].pc = "up" /\ ui' = [ui EXCEPT ![u].pc = "closed"]
        /\ lock' = Launch!LeftAfter(launched') /\ UNCHANGED <<os, pins>>
    BY <1>18 DEF Launch!Close
  <2>2. ASSUME NEW S \in SUBSET Agents, launched' = Launch!Ended(S), os = "windows" => S = Launch!InJob(u)
        PROVE  LaunchInv'
    <3>1. /\ lock' \subseteq lock /\ \A b \in Agents : b \in lock' <=> b \in lock /\ b \notin S
      BY <2>1, <2>2, LeftIs
    <3> HIDE DEF LaunchTypes, LockInv, PinsInv, ChildInv, JobInv, LaunchInv
    <3>2. /\ launched' \in [Agents -> [pc: AgentPcs, stop: BOOLEAN, job: Uis \cup {None}]]
          /\ lock' \subseteq Agents \cup Uis /\ pins' \subseteq Agents
          /\ LockInv' /\ PinsInv'
          /\ \A a \in Agents : /\ a \in S => launched'[a] = [launched[a] EXCEPT !.pc = "gone"]
                               /\ a \notin S => launched'[a] = launched[a]
      BY <2>1, <2>2, <3>1, EndKeeps
    <3>3. ui' \in [Uis -> [pc: UiPcs, child: Agents \cup {None}]] /\ ChildInv' /\ JobInv'
      BY <2>1, <2>2, <3>2, ChildrenKeep
    <3> QED BY <2>1, <3>2, <3>3 DEF LaunchInv, LaunchTypes
  <2>3. CASE os = "windows"
    <3>1. launched' = Launch!Ended(Launch!InJob(u)) /\ Launch!InJob(u) \in SUBSET Agents
      BY <1>18, <2>3 DEF Launch!Close, Launch!InJob
    <3> QED BY <2>2, <3>1
  <2>4. CASE os # "windows"
    <3>1. \/ launched' = launched
          \/ \E a \in Agents : launched' = Launch!Ended({a})
          \/ \E a \in Agents : launched' = [launched EXCEPT ![a].stop = TRUE]
      BY <1>18, <2>4 DEF Launch!Close, Launch!Signalled
    <3> HIDE DEF LaunchTypes, LockInv, PinsInv, ChildInv, JobInv, LaunchInv
    <3>2. ASSUME NEW a \in Agents, launched' = Launch!Ended({a})
          PROVE  LaunchInv'
      <4>1. {a} \in SUBSET Agents
        OBVIOUS
      <4> QED BY <2>2, <2>4, <3>2, <4>1
    <3>3. ASSUME NEW a \in Agents,
                 launched' = launched \/ launched' = [launched EXCEPT ![a].stop = TRUE]
          PROVE  LaunchInv'
      <4>1. /\ launched' \in [Agents -> [pc: AgentPcs, stop: BOOLEAN, job: Uis \cup {None}]]
            /\ lock' = lock /\ LockInv' /\ PinsInv'
            /\ \A b \in Agents : launched'[b].pc = launched[b].pc /\ launched'[b].job = launched[b].job
        BY <2>1, <3>3, StopMovesNobody
      <4>2. ui' \in [Uis -> [pc: UiPcs, child: Agents \cup {None}]]
        BY <2>1 DEF LaunchInv, LaunchTypes, UiPcs
      <4>3. \A v \in Uis : ui'[v].child = ui[v].child /\ ui'[v].pc = IF v = u THEN "closed" ELSE ui[v].pc
        BY <2>1 DEF LaunchInv, LaunchTypes
      <4>4. ChildInv' /\ JobInv'
        BY <2>1, <2>4, <4>1, <4>3 DEF LaunchInv, LaunchTypes, ChildInv, JobInv
      <4> QED BY <2>1, <4>1, <4>2, <4>4 DEF LaunchInv, LaunchTypes
    <3>4. CASE launched' = launched /\ Agents = {}
      <4>1. lock' = lock
        BY <2>1, <3>4 DEF Launch!LeftAfter
      <4> QED BY <2>1, <2>4, <3>4, <4>1 DEF LaunchInv, LaunchTypes, LockInv, PinsInv, ChildInv, JobInv, UiPcs
    <3> QED BY <3>1, <3>2, <3>3, <3>4
  <2> QED BY <2>3, <2>4
<1>19. ASSUME NEW u \in Uis, Launch!Vanish(u) PROVE LaunchInv'
  <2> DEFINE S == Launch!InJob(u)
  <2>1. /\ ui[u].pc \notin {"off", "closed", "vanished"} /\ ui' = [ui EXCEPT ![u].pc = "vanished"]
        /\ launched' = Launch!Ended(S) /\ lock' = Launch!LeftAfter(Launch!Ended(S)) \ {u}
        /\ UNCHANGED <<os, pins>> /\ S \in SUBSET Agents
    BY <1>19 DEF Launch!Vanish, Launch!InJob
  <2> HIDE DEF S
  <2>2. /\ lock' \subseteq lock /\ \A b \in Agents : b \in lock' <=> b \in lock /\ b \notin S
    BY <2>1, LeftIs
  <2> HIDE DEF LaunchTypes, LockInv, PinsInv, ChildInv, JobInv, LaunchInv
  <2>3. /\ launched' \in [Agents -> [pc: AgentPcs, stop: BOOLEAN, job: Uis \cup {None}]]
        /\ lock' \subseteq Agents \cup Uis /\ pins' \subseteq Agents
        /\ LockInv' /\ PinsInv'
        /\ \A a \in Agents : /\ a \in S => launched'[a] = [launched[a] EXCEPT !.pc = "gone"]
                             /\ a \notin S => launched'[a] = launched[a]
    BY <2>1, <2>2, EndKeeps
  <2>4. ui' \in [Uis -> [pc: UiPcs, child: Agents \cup {None}]] /\ ChildInv' /\ JobInv'
    BY <2>1, <2>3, ChildrenKeep DEF S
  <2> QED BY <2>1, <2>3, <2>4 DEF LaunchInv, LaunchTypes
<1> QED
  BY <1>1, <1>2, <1>3, <1>4, <1>5, <1>6, <1>7, <1>8, <1>9, <1>10, <1>11, <1>12, <1>13, <1>14,
     <1>15, <1>16, <1>17, <1>18, <1>19
  DEF Launch!Next, Launch!AgentStep, Launch!UiStep

LEMMA LaunchStays ==
  ASSUME LaunchInv, [Launch!Next]_launchVars
  PROVE  LaunchInv'
PROOF
<1>1. CASE Launch!Next
  BY <1>1, LaunchStep
<1>2. CASE UNCHANGED launchVars
  BY <1>2 DEF launchVars, LaunchInv, LaunchTypes, LockInv, PinsInv, ChildInv, JobInv
<1> QED BY <1>1, <1>2

(* A replay, which comes before the agent runs, finds only placements of     *)
(* agents that are gone: whoever lives and has some has the lock.           *)
LEMMA LaunchStepsSpare ==
  ASSUME LaunchInv, [Launch!Next]_launchVars
  PROVE  Launch!ReplayedAreGone
PROOF
<1> USE DEF Launch!ReplayedAreGone, Launch!Absent
<1>1. CASE UNCHANGED pins
  BY <1>1
<1>2. ASSUME NEW a \in Agents, Launch!Construct(a)
      PROVE  Launch!ReplayedAreGone
  BY <1>2 DEF Launch!Construct, LaunchInv, LaunchTypes, LockInv, PinsInv, Launch!Inside
<1>3. ASSUME NEW a \in Agents, Launch!Shutdown(a) \/ Launch!Leave(a)
      PROVE  Launch!ReplayedAreGone
  BY <1>3 DEF Launch!Shutdown, Launch!Leave
<1>4. ASSUME NEW a \in Agents, Launch!Place(a)
      PROVE  Launch!ReplayedAreGone
  BY <1>4 DEF Launch!Place
<1>5. ASSUME NEW a \in Agents,
             \/ Launch!Acquire(a) \/ Launch!Handlers(a) \/ Launch!Start(a) \/ Launch!LeaveLoop(a)
             \/ Launch!ByHand(a) \/ Launch!Kill(a) \/ Launch!Signal(a)
      PROVE  UNCHANGED pins
  BY <1>5 DEF Launch!Acquire, Launch!Handlers, Launch!Start, Launch!LeaveLoop, Launch!ByHand,
              Launch!Kill, Launch!Signal
<1>6. ASSUME NEW u \in Uis, Launch!UiStep(u) \/ Launch!Close(u) \/ Launch!Vanish(u)
      PROVE  UNCHANGED pins
  BY <1>6 DEF Launch!UiStep, Launch!Probe, Launch!Probed, Launch!Create, Launch!CreateFails,
              Launch!Assign, Launch!Resume, Launch!Close, Launch!Vanish
<1> QED BY <1>1, <1>2, <1>3, <1>4, <1>5, <1>6 DEF Launch!Next, Launch!AgentStep, launchVars

-----------------------------------------------------------------------------
(* The window and the agent it shows.                                       *)

LinkTypes ==
  /\ publisher \in [up: BOOLEAN, hung: BOOLEAN, lives: Nat, admin: BOOLEAN, gap: Nat, quiet: Nat]
  /\ segment \in [named: BOOLEAN, pub: {"zero", "new", "seen"}]
  /\ node \in [mapped: BOOLEAN, wait: Nat, last: {"zero", "value"}, stalled: Nat, shown: BOOLEAN]
  /\ silent \in Nat

(* Without an agent the mapping is there for the window's sake alone.        *)
NameInv == ~publisher.up => segment.named = node.mapped

(* What is shown has moved within the limit.                                *)
ShownInv == node.shown => node.mapped /\ node.stalled <= Stall

(* From the second frame on that the window has the mapping of an agent that  *)
(* is gone or hangs nothing moves, and the frames are counted.              *)
SilentInv ==
  /\ silent <= Stall + 2
  /\ Link!Loops(publisher) => silent = 0
  /\ silent > 0 => node.mapped /\ ~Link!Moved(node) /\ node.stalled + 1 >= silent

LinkInv == LinkTypes /\ NameInv /\ ShownInv /\ SilentInv

LEMMA LinkStarts == Link!Init => LinkInv
PROOF
<1> SUFFICES ASSUME Link!Init PROVE LinkInv
  OBVIOUS
<1> USE DEF LinkInv, LinkTypes, NameInv, ShownInv, SilentInv
<1>1. Stall \in Nat
  BY DesktopAssumption DEF Link!LinkAssumption
<1>2. PICK up \in BOOLEAN, admin \in BOOLEAN, pub \in {"zero", "new"} :
         /\ publisher = [up |-> up, hung |-> FALSE, lives |-> IF up THEN 1 ELSE 0,
                         admin |-> admin, gap |-> 1, quiet |-> 0]
         /\ segment = [named |-> up, pub |-> pub]
         /\ node = [mapped |-> up, wait |-> 0, last |-> "zero", stalled |-> 0,
                    shown |-> FALSE]
  BY DEF Link!Init
<1>3. silent = 0
  BY DEF Link!Init
<1> QED BY <1>1, <1>2, <1>3

LEMMA LinkStays ==
  ASSUME LinkInv, [Link!Next]_linkVars
  PROVE  LinkInv'
PROOF
<1> USE DEF LinkInv, LinkTypes, NameInv, ShownInv, SilentInv, Link!Moved
<1>1. /\ Stall \in Nat /\ Interval \in Nat /\ \A g \in Gaps : g \in Nat
  BY DesktopAssumption DEF Link!LinkAssumption
<1>2. ASSUME NEW admin \in BOOLEAN, Link!StartAgent(admin) PROVE LinkInv'
  <2>1. LinkTypes' /\ node' = node
    <3>1. /\ publisher' = [publisher EXCEPT !.up = TRUE, !.lives = @ + 1, !.admin = admin]
          /\ segment' = [named |-> TRUE, pub |-> "zero"] /\ silent' = 0 /\ node' = node
      BY <1>2 DEF Link!StartAgent
    <3>2. publisher' \in [up: BOOLEAN, hung: BOOLEAN, lives: Nat, admin: BOOLEAN, gap: Nat, quiet: Nat]
      <4> DEFINE n == publisher.lives + 1
      <4>1. n \in Nat
        OBVIOUS
      <4>2. publisher' = [publisher EXCEPT !.up = TRUE, !.lives = n, !.admin = admin]
        BY <3>1
      <4> HIDE DEF n
      <4>3. admin \in BOOLEAN
        BY <1>2
      <4> QED BY <4>1, <4>2, <4>3
    <3> QED BY <3>1, <3>2
  <2>2. publisher'.up /\ silent' = 0
    BY <1>2 DEF Link!StartAgent
  <2> QED BY <1>1, <2>1, <2>2
<1>3. ASSUME NEW g \in Gaps, Link!Workload(g) PROVE LinkInv'
  BY <1>1, <1>3 DEF Link!Workload
<1>4. CASE Link!Publish
  BY <1>1, <1>4 DEF Link!Publish, Link!Loops
<1>5. CASE Link!EndAgent
  BY <1>1, <1>5 DEF Link!EndAgent, Link!Loops
<1>8. CASE Link!Hang
  BY <1>1, <1>8 DEF Link!Hang, Link!Loops
<1>9. CASE Link!Unhang
  <2>1. /\ publisher' = [publisher EXCEPT !.hung = FALSE] /\ silent' = 0
        /\ segment' = segment /\ node' = node
    BY <1>9 DEF Link!Unhang
  <2>2. /\ publisher' \in [up: BOOLEAN, hung: BOOLEAN, lives: Nat, admin: BOOLEAN, gap: Nat, quiet: Nat]
        /\ publisher'.up = publisher.up
    BY <2>1
  <2> QED BY <1>1, <2>1, <2>2
<1>6. CASE Link!Frame
  <2>1. /\ publisher' = [publisher EXCEPT !.quiet = IF Link!Loops(publisher) THEN @ + 1 ELSE 0]
        /\ segment' = [segment EXCEPT !.pub = IF node.mapped /\ @ = "new" THEN "seen" ELSE @]
        /\ silent' = IF Link!Loops(publisher) THEN 0
                     ELSE IF node.mapped /\ silent <= Stall + 1 THEN silent + 1 ELSE silent
    BY <1>6 DEF Link!Frame
  <2>2. /\ publisher' \in [up: BOOLEAN, hung: BOOLEAN, lives: Nat, admin: BOOLEAN, gap: Nat, quiet: Nat]
        /\ segment' \in [named: BOOLEAN, pub: {"zero", "new", "seen"}]
        /\ silent' \in Nat
    BY <1>1, <2>1
  <2>3. /\ publisher'.up = publisher.up /\ publisher'.hung = publisher.hung
        /\ segment'.named = segment.named
        /\ segment'.pub = IF node.mapped /\ segment.pub = "new" THEN "seen" ELSE segment.pub
    BY <2>1
  <2>4. CASE node.mapped
    <3>1. node' = Link!Synced(node)
      BY <1>6, <2>4 DEF Link!Frame
    <3>2. Link!Counted(node) \in Nat
      BY <1>1 DEF Link!Counted
    <3>3. /\ node' \in [mapped: BOOLEAN, wait: Nat, last: {"zero", "value"}, stalled: Nat, shown: BOOLEAN]
          /\ node'.mapped /\ node'.stalled = Link!Counted(node)
          /\ node'.shown = (Link!Counted(node) <= Stall)
          /\ node'.last = IF segment.pub = "zero" THEN "zero" ELSE "value"
      <4> DEFINE c == Link!Counted(node)
                 b == Link!Counted(node) <= Stall
                 l == IF segment.pub = "zero" THEN "zero" ELSE "value"
      <4>1. node' = [node EXCEPT !.stalled = c, !.shown = b, !.last = l]
        BY <3>1 DEF Link!Synced
      <4>2. c \in Nat /\ b \in BOOLEAN /\ l \in {"zero", "value"}
        BY <3>2
      <4> HIDE DEF c, b, l
      <4>3. /\ node' \in [mapped: BOOLEAN, wait: Nat, last: {"zero", "value"}, stalled: Nat, shown: BOOLEAN]
            /\ node'.mapped = node.mapped /\ node'.stalled = c /\ node'.shown = b /\ node'.last = l
        BY <4>1, <4>2
      <4> QED BY <2>4, <4>3 DEF c, b, l
    <3>4. ~Link!Moved(node)'
      BY <2>3, <2>4, <3>3
    <3>5. silent' > 0 => node'.stalled + 1 >= silent'
      BY <1>1, <2>1, <2>4, <3>3 DEF Link!Counted
    <3>6. NameInv'
      BY <2>3, <2>4, <3>3
    <3>7. ShownInv'
      BY <3>3
    <3>8. silent' <= Stall + 2 /\ (Link!Loops(publisher') => silent' = 0)
      BY <1>1, <2>1, <2>3 DEF Link!Loops
    <3> QED BY <2>2, <3>3, <3>4, <3>5, <3>6, <3>7, <3>8
  <2>5. CASE ~node.mapped
    <3>1. node' = Link!Reconnect(node)
      BY <1>6, <2>5 DEF Link!Frame
    <3>2. /\ node' \in [mapped: BOOLEAN, wait: Nat, last: {"zero", "value"}, stalled: Nat, shown: BOOLEAN]
          /\ ~node'.shown /\ (node'.mapped => segment.named)
      <4>1. CASE node.wait > 0
        <5>1. node' = [node EXCEPT !.wait = node.wait - 1, !.shown = FALSE] /\ node.wait - 1 \in Nat
          BY <3>1, <4>1 DEF Link!Reconnect
        <5> QED BY <2>5, <5>1
      <4>2. CASE ~(node.wait > 0)
        <5>1. node' = [node EXCEPT !.wait = Interval, !.mapped = segment.named, !.shown = FALSE]
          BY <3>1, <4>2 DEF Link!Reconnect
        <5>2. segment.named \in BOOLEAN
          OBVIOUS
        <5>3. node' \in [mapped: BOOLEAN, wait: Nat, last: {"zero", "value"}, stalled: Nat, shown: BOOLEAN]
          BY <1>1, <5>1, <5>2
        <5>4. node'.shown = FALSE /\ node'.mapped = segment.named
          BY <5>1
        <5> QED BY <5>3, <5>4
      <4> QED BY <4>1, <4>2
    <3>3. ~publisher.up => ~node'.mapped /\ ~segment.named
      BY <2>5, <3>2
    <3>4. NameInv'
      <4>1. segment'.named \in BOOLEAN /\ node'.mapped \in BOOLEAN
        BY <2>2, <3>2
      <4> QED BY <2>3, <3>3, <4>1
    <3>5. silent' = 0
      BY <2>1, <2>5
    <3>6. ShownInv' /\ SilentInv'
      BY <1>1, <3>2, <3>5
    <3> QED BY <2>2, <3>2, <3>4, <3>6
  <2> QED BY <2>4, <2>5
<1>7. CASE UNCHANGED linkVars
  BY <1>7 DEF linkVars
<1> QED BY <1>2, <1>3, <1>4, <1>5, <1>6, <1>7, <1>8, <1>9 DEF Link!Next

-----------------------------------------------------------------------------
(* The measurement.                                                         *)

(* The command slot: what is acked has been sent.                           *)
BoxType ==
  box \in [kind: {"pause", "resume", "other"}, seq: Nat, ack: Nat] /\ box.ack <= box.seq

BenchTypes ==
  /\ BoxType
  /\ run_index \in Nat /\ protocol \in {"Single", "ABABA"}
  /\ processed \in Nat /\ processed <= box.seq

(* What an agent that has executed a command makes of it.                     *)
FollowsInv ==
  Bench!UpToDate /\ box.seq > 0 =>
    /\ box.kind = "resume" => agent = "live"
    /\ box.kind = "pause" => agent = "paused"

(* The window of an A/B session has the section, so that no command is lost    *)
(* from it.  While nobody else sends and a run waits or is captured, the last *)
(* command is that run's; an agent that is still the one it was sent to has   *)
(* acked no less than it has executed.                                       *)
SessionInv ==
  /\ protocol = "ABABA" => mapped
  /\ protocol = "ABABA" /\ ~meddled /\ state \in {"BetweenRuns", "CapturingRun"} =>
       /\ box.seq > 0 /\ box.kind = Bench!CommandFor(run_index)
       /\ waiting_for_ack => expected = box.seq
       /\ acked => box.seq = box.ack
       /\ ~lost => agent # "down" /\ (box.seq = box.ack => processed = box.seq)

BenchInv == BenchTypes /\ FollowsInv /\ SessionInv /\ Bench!PoliciesComeBack

LEMMA BenchStarts == Bench!Init => BenchInv
PROOF BY DEF Bench!Init, BenchInv, BenchTypes, BoxType, FollowsInv, SessionInv,
             Bench!PoliciesComeBack, Bench!UpToDate

(* n commands, the last of them of this kind: nobody has acked it yet.       *)
LEMMA Sent ==
  ASSUME BoxType, NEW k \in {"pause", "resume", "other"}, NEW n \in Nat \ {0},
         box' = [box EXCEPT !.kind = k, !.seq = @ + n]
  PROVE  BoxType' /\ box'.kind = k /\ box'.seq = box.seq + n /\ box'.seq > box'.ack
PROOF
<1> DEFINE m == box.seq + n
<1>1. m \in Nat /\ m > box.ack /\ box' = [box EXCEPT !.kind = k, !.seq = m]
  BY DEF BoxType
<1> HIDE DEF m
<1>2. box' \in [kind: {"pause", "resume", "other"}, seq: Nat, ack: Nat]
  BY <1>1 DEF BoxType
<1>3. box'.kind = k /\ box'.seq = m /\ box'.ack = box.ack
  BY <1>1 DEF BoxType
<1>4. box.ack \in Nat
  BY DEF BoxType
<1> QED BY <1>1, <1>2, <1>3, <1>4 DEF BoxType, m

(* What ends an A/B session sends a resume, which no agent has come to yet.    *)
LEMMA ResumeSent ==
  ASSUME BoxType, processed \in Nat, processed <= box.seq, FollowsInv, Bench!LeaveResumed,
         protocol = "ABABA" => mapped, UNCHANGED <<processed, agent>>
  PROVE  /\ BoxType' /\ processed <= box'.seq /\ FollowsInv'
         /\ protocol = "ABABA" => box'.kind = "resume" /\ box'.seq > processed
PROOF
<1>1. CASE protocol = "ABABA"
  <2>1. box' = [box EXCEPT !.kind = "resume", !.seq = @ + 1]
    BY <1>1 DEF Bench!LeaveResumed, Bench!can_send, Bench!send_command
  <2>2. 1 \in Nat \ {0} /\ "resume" \in {"pause", "resume", "other"}
    OBVIOUS
  <2>3. BoxType' /\ box'.kind = "resume" /\ box'.seq = box.seq + 1
    BY <2>1, <2>2, Sent
  <2>4. box.seq \in Nat
    BY DEF BoxType
  <2> QED BY <2>3, <2>4 DEF FollowsInv, Bench!UpToDate
<1>2. CASE protocol # "ABABA"
  <2>1. box' = box
    BY <1>2 DEF Bench!LeaveResumed
  <2> QED BY <1>2, <2>1 DEF BoxType, FollowsInv, Bench!UpToDate
<1> QED BY <1>1, <1>2

(* A step that leaves the mailbox and the agent keeps what they make of it.     *)
LEMMA MailboxStands ==
  ASSUME BenchTypes, FollowsInv, UNCHANGED <<box, agent, processed>>
  PROVE  BoxType' /\ processed' \in Nat /\ processed' <= box'.seq /\ FollowsInv'
PROOF BY DEF BenchTypes, BoxType, FollowsInv, Bench!UpToDate

(* The agent and the client move: the session's own variables stay.           *)
LEMMA OthersKeepTheSession ==
  ASSUME BenchInv, Bench!WindowConnects \/ Bench!AgentTick \/ Bench!AgentStops
                   \/ Bench!AgentStarts \/ (\E kind \in Bench!Kinds : Bench!CliSends(kind))
  PROVE  BenchInv'
PROOF
<1> USE DEF BenchTypes, SessionInv, Bench!PoliciesComeBack
<1> USE DEF Bench!session, Bench!children, Bench!bounds, Bench!ghosts
<1>0. BoxType /\ box.seq \in Nat /\ box.ack \in Nat
  BY DEF BenchInv, BoxType
<1>1. CASE Bench!WindowConnects
  <2>1. UNCHANGED <<box, agent, processed>> /\ mapped' = TRUE
    BY <1>1 DEF Bench!WindowConnects
  <2> QED BY <1>1, <2>1, MailboxStands DEF BenchInv, Bench!WindowConnects, Bench!UpToDate
<1>2. CASE Bench!AgentTick
  <2>1. /\ agent # "down" /\ processed' = box.seq /\ agent' = Bench!Executes(box.kind, agent)
        /\ box'.kind = box.kind /\ box'.seq = box.seq /\ box'.ack = box.seq /\ BoxType'
        /\ UNCHANGED <<state, protocol, run_index, waiting_for_ack, expected, acked, mapped,
                       lost, meddled>>
    BY <1>0, <1>2 DEF Bench!AgentTick, BoxType
  <2>2. /\ box.kind = "resume" => agent' = "live"
        /\ box.kind = "pause" => agent' = "paused"
        /\ agent' # "down"
    BY <2>1 DEF Bench!Executes
  <2>3. FollowsInv'
    BY <2>1, <2>2 DEF FollowsInv
  <2> QED BY <1>0, <2>1, <2>2, <2>3 DEF BenchInv
<1>3. CASE Bench!AgentStops
  <2>1. agent' = "down" /\ lost' = TRUE /\ UNCHANGED <<box, processed>>
    BY <1>3 DEF Bench!AgentStops
  <2>2. FollowsInv'
    BY <2>1 DEF FollowsInv, Bench!UpToDate
  <2> QED BY <1>3, <2>1, <2>2 DEF BenchInv, BoxType, Bench!AgentStops, Bench!UpToDate
<1>4. CASE Bench!AgentStarts
  <2>1. /\ agent = "down" /\ processed' = 0 /\ box' = Bench!Found
        /\ UNCHANGED <<state, protocol, run_index, waiting_for_ack, expected, acked, mapped,
                       lost, meddled>>
    BY <1>4 DEF Bench!AgentStarts
  <2>2. mapped => box' = box
    BY <2>1 DEF Bench!Found
  <2>3. BoxType'
    BY <1>0, <2>1 DEF Bench!Found, BoxType
  <2>4. FollowsInv' /\ box'.seq \in Nat
    BY <2>1, <2>3 DEF FollowsInv, Bench!UpToDate, BoxType
  <2> QED BY <1>0, <2>1, <2>2, <2>3, <2>4 DEF BenchInv, Bench!UpToDate
<1>5. ASSUME NEW kind \in Bench!Kinds, Bench!CliSends(kind) PROVE BenchInv'
  <2>1. /\ box' = [box EXCEPT !.kind = kind, !.seq = @ + 1] /\ meddled' = TRUE
        /\ UNCHANGED <<protocol, run_index, mapped, processed>>
    BY <1>5 DEF Bench!CliSends, Bench!send_command
  <2>2. kind \in {"pause", "resume", "other"} /\ 1 \in Nat \ {0}
    BY <1>5 DEF Bench!Kinds
  <2>3. BoxType' /\ box'.seq = box.seq + 1
    BY <1>0, <2>1, <2>2, Sent
  <2>4. FollowsInv'
    BY <1>0, <2>1, <2>3 DEF BenchInv, FollowsInv, Bench!UpToDate
  <2> QED BY <1>0, <2>1, <2>3, <2>4 DEF BenchInv
<1> QED BY <1>1, <1>2, <1>3, <1>4, <1>5

LEMMA BenchStays ==
  ASSUME BenchInv, [Bench!Next]_benchVars
  PROVE  BenchInv'
PROOF
<1> USE DEF Bench!session, Bench!children, Bench!bounds, Bench!outside, Bench!ghosts
<1>0. /\ BoxType /\ box.seq \in Nat /\ processed \in Nat /\ processed <= box.seq
      /\ run_index \in Nat /\ FollowsInv /\ SessionInv
  BY DEF BenchInv, BenchTypes, BoxType
<1>1. ASSUME Bench!Cancel \/ Bench!Finish PROVE BenchInv'
  <2>1. /\ Bench!LeaveResumed /\ state' \in {"Idle", "Done", "AggregatingStats", "Failed"}
        /\ UNCHANGED <<protocol, run_index, mapped, agent, processed, lost, meddled>>
    BY <1>1 DEF Bench!Cancel, Bench!Finish
  <2>2. /\ BoxType' /\ processed <= box'.seq /\ FollowsInv'
        /\ protocol = "ABABA" => box'.kind = "resume" /\ box'.seq > processed
    BY <1>0, <2>1, ResumeSent DEF SessionInv
  <2>3. box'.seq \in Nat
    BY <2>2 DEF BoxType
  <2> QED
    BY <1>0, <2>1, <2>2, <2>3
    DEF BenchInv, BenchTypes, SessionInv, Bench!PoliciesComeBack, Bench!UpToDate
<1>2. CASE Bench!start_single
  <2>1. /\ protocol' = "Single" /\ run_index' = 0 /\ UNCHANGED <<agent, processed>>
        /\ box' = box \/ Bench!LeaveResumed
    BY <1>2 DEF Bench!start_single
  <2>2. BoxType' /\ processed <= box'.seq /\ FollowsInv'
    <3>1. CASE box' = box
      BY <1>0, <2>1, <3>1 DEF BoxType, FollowsInv, Bench!UpToDate
    <3>2. CASE Bench!LeaveResumed
      BY <1>0, <2>1, <3>2, ResumeSent DEF SessionInv
    <3> QED BY <2>1, <3>1, <3>2
  <2> QED BY <1>0, <2>1, <2>2 DEF BenchInv, BenchTypes, SessionInv, Bench!PoliciesComeBack
<1>3. CASE Bench!start_ababa
  <2>1. PICK n \in {1, 2} :
          /\ box' = [box EXCEPT !.kind = Bench!CommandFor(0), !.seq = @ + n]
          /\ expected' = box.seq + n
    <3>1. \/ box' = [box EXCEPT !.kind = Bench!CommandFor(0), !.seq = @ + 1 + 1] /\ expected' = box.seq + 1 + 1
          \/ box' = [box EXCEPT !.kind = Bench!CommandFor(0), !.seq = @ + 0 + 1] /\ expected' = box.seq + 0 + 1
      BY <1>3 DEF Bench!start_ababa
    <3>2. box.seq + 1 + 1 = box.seq + 2 /\ box.seq + 0 + 1 = box.seq + 1
      BY <1>0
    <3> QED BY <3>1, <3>2
  <2>2. Bench!CommandFor(0) \in {"pause", "resume", "other"} /\ n \in Nat \ {0}
    BY DEF Bench!CommandFor
  <2>3. /\ BoxType' /\ box'.kind = Bench!CommandFor(0) /\ box'.seq = expected'
        /\ box'.seq > box'.ack /\ box'.seq = box.seq + n
    BY <1>0, <2>1, <2>2, Sent
  <2>4. /\ state' = "BetweenRuns" /\ run_index' = 0 /\ protocol' = "ABABA" /\ mapped
        /\ acked' = FALSE /\ lost' = (agent = "down") /\ UNCHANGED <<agent, processed, mapped>>
    BY <1>3 DEF Bench!start_ababa, Bench!can_send
  <2>5. box'.seq \in Nat /\ box'.seq > processed /\ box'.ack \in Nat
    BY <1>0, <2>2, <2>3 DEF BoxType
  <2>6. FollowsInv'
    BY <1>0, <2>4, <2>5 DEF FollowsInv, Bench!UpToDate
  <2>7. Bench!CommandFor(run_index)' = Bench!CommandFor(0)
    BY <2>4 DEF Bench!CommandFor, Bench!is_baseline
  <2>8. box'.seq > 0 /\ box'.seq # box'.ack
    BY <1>0, <2>3, <2>5
  <2>9. SessionInv'
    BY <2>3, <2>4, <2>7, <2>8 DEF SessionInv
  <2>10. Bench!PoliciesComeBack'
    BY <2>4 DEF Bench!PoliciesComeBack
  <2> QED BY <1>0, <2>3, <2>4, <2>5, <2>6, <2>9, <2>10 DEF BenchInv, BenchTypes
<1>4. CASE Bench!NextRun
  <2>1. /\ run_index' = run_index + 1 /\ acked' = FALSE
        /\ UNCHANGED <<protocol, meddled, agent, processed, mapped>>
    BY <1>4 DEF Bench!NextRun
  <2>2. CASE mapped
    <3>1. /\ box' = [box EXCEPT !.kind = Bench!CommandFor(run_index + 1), !.seq = @ + 1]
          /\ expected' = box.seq + 1 /\ state' = "BetweenRuns" /\ lost' = (agent = "down")
      BY <1>4, <2>2
      DEF Bench!NextRun, Bench!can_send, Bench!send_command, Bench!send_policy_command_for_next_run
    <3>2. Bench!CommandFor(run_index + 1) \in {"pause", "resume", "other"} /\ 1 \in Nat \ {0}
      BY DEF Bench!CommandFor
    <3>3. BoxType' /\ box'.kind = Bench!CommandFor(run_index + 1) /\ box'.seq = box.seq + 1
          /\ box'.seq > box'.ack
      BY <1>0, <3>1, <3>2, Sent
    <3>4. Bench!CommandFor(run_index)' = Bench!CommandFor(run_index + 1)
      BY <2>1 DEF Bench!CommandFor, Bench!is_baseline
    <3>5. box'.seq \in Nat /\ box'.seq > processed /\ box'.ack \in Nat
      BY <1>0, <3>3 DEF BoxType
    <3>6. FollowsInv'
      BY <1>0, <2>1, <3>5 DEF FollowsInv, Bench!UpToDate
    <3>7. box'.seq > 0 /\ box'.seq # box'.ack /\ expected' = box'.seq
      BY <1>0, <3>1, <3>3, <3>5
    <3>8. SessionInv'
      BY <2>1, <2>2, <3>1, <3>3, <3>4, <3>7 DEF SessionInv
    <3>9. Bench!PoliciesComeBack'
      BY <3>1 DEF Bench!PoliciesComeBack
    <3> QED BY <1>0, <2>1, <3>3, <3>5, <3>6, <3>8, <3>9 DEF BenchInv, BenchTypes
  <2>3. CASE ~mapped
    <3>1. state' = "Failed" /\ box' = box
      BY <1>4, <2>3 DEF Bench!NextRun, Bench!can_send
    <3> QED
      BY <1>0, <2>1, <2>3, <3>1
      DEF BenchInv, BenchTypes, BoxType, FollowsInv, SessionInv, Bench!PoliciesComeBack,
          Bench!UpToDate
  <2> QED BY <2>2, <2>3
<1>5. CASE \/ Bench!Captured \/ Bench!ImportFailed \/ Bench!AckLate \/ Bench!begin_run
           \/ Bench!Aggregated \/ Bench!ChildEnds \/ Bench!Clock \/ Bench!CliEnds
  <2>1. /\ UNCHANGED <<protocol, run_index, expected, acked, box, mapped, agent, processed, lost,
                       meddled>>
        /\ waiting_for_ack' => waiting_for_ack
        /\ \/ state' \in {"ImportingRun", "Failed"} \/ state' = state
           \/ state = "BetweenRuns" /\ state' = "CapturingRun"
           \/ state = "AggregatingStats" /\ state' = "Done"
    BY <1>5
    DEF Bench!Captured, Bench!ImportFailed, Bench!AckLate, Bench!begin_run, Bench!SpawnCapture,
        Bench!Aggregated, Bench!ChildEnds, Bench!Clock, Bench!CliEnds
  <2>2. BoxType' /\ processed' \in Nat /\ processed' <= box'.seq /\ FollowsInv'
    BY <2>1, MailboxStands DEF BenchInv
  <2>3. Bench!CommandFor(run_index)' = Bench!CommandFor(run_index) /\ Bench!UpToDate' = Bench!UpToDate
    BY <2>1 DEF Bench!CommandFor, Bench!is_baseline, Bench!UpToDate
  <2>4. SessionInv'
    BY <1>0, <2>1, <2>3 DEF SessionInv
  <2>5. Bench!PoliciesComeBack'
    BY <2>1, <2>3 DEF BenchInv, Bench!PoliciesComeBack
  <2> QED BY <1>0, <2>1, <2>2, <2>4, <2>5 DEF BenchInv, BenchTypes
<1>6. CASE Bench!AckSeen
  <2>1. /\ UNCHANGED <<protocol, run_index, expected, box, mapped, agent, processed, lost, meddled>>
        /\ state = "BetweenRuns" /\ waiting_for_ack /\ box.ack >= expected
        /\ waiting_for_ack' = FALSE /\ acked' = TRUE
        /\ state' \in {"BetweenRuns", "CapturingRun", "Failed"}
    BY <1>6 DEF Bench!AckSeen, Bench!Acknowledged, Bench!SpawnCapture
  <2>2. BoxType' /\ processed' \in Nat /\ processed' <= box'.seq /\ FollowsInv'
    BY <2>1, MailboxStands DEF BenchInv
  <2>3. Bench!CommandFor(run_index)' = Bench!CommandFor(run_index)
    BY <2>1 DEF Bench!CommandFor, Bench!is_baseline
  <2>4. SessionInv'
    BY <1>0, <2>1, <2>3 DEF SessionInv, BoxType
  <2>5. Bench!PoliciesComeBack'
    BY <2>1 DEF Bench!PoliciesComeBack
  <2> QED BY <1>0, <2>1, <2>2, <2>4, <2>5 DEF BenchInv, BenchTypes
<1>7. CASE UNCHANGED benchVars
  <2>1. UNCHANGED <<state, protocol, run_index, waiting_for_ack, expected, acked, box, mapped,
                    agent, processed, lost, meddled>>
    BY <1>7 DEF benchVars
  <2>2. BoxType' /\ processed' \in Nat /\ processed' <= box'.seq /\ FollowsInv'
    BY <2>1, MailboxStands DEF BenchInv
  <2>3. Bench!CommandFor(run_index)' = Bench!CommandFor(run_index) /\ Bench!UpToDate' = Bench!UpToDate
    BY <2>1 DEF Bench!CommandFor, Bench!is_baseline, Bench!UpToDate
  <2> QED
    BY <1>0, <2>1, <2>2, <2>3 DEF BenchInv, BenchTypes, SessionInv, Bench!PoliciesComeBack
<1> QED
  BY <1>1, <1>2, <1>3, <1>4, <1>5, <1>6, <1>7, OthersKeepTheSession
  DEF Bench!Next, Bench!Frame

-----------------------------------------------------------------------------
(* The comparison of runs.                                                  *)

(* The inputs are never written; what is printed is the answer to them, of two *)
(* comparisons that to the inputs and to the inputs reversed.                 *)
StatsInv ==
  \/ \E n \in Nat : \E rows \in [1 .. n -> Stats!Row] :
       /\ asked = <<"import", rows>>
       /\ said = <<>> \/ said = <<Stats!cmd_presentmon_import(rows)>>
  \/ /\ asked[1] = "diff" /\ asked[2] \in Stats!Run /\ asked[3] \in Stats!Run
     /\ said = <<>> \/ said = <<Stats!cmd_bench_diff(asked[2], asked[3]),
                                Stats!cmd_bench_diff(asked[3], asked[2])>>
  \/ /\ asked[1] = "multi"
     /\ said = <<>> \/ \E b, t : said = <<Stats!cmd_bench_multi(b, t), Stats!cmd_bench_multi(t, b)>>

LEMMA StatsStarts ==
  ASSUME Init PROVE StatsInv
PROOF
<1>1. CASE focus = "stats"
  <2>1. Stats!Init
    BY <1>1 DEF Init
  <2>2. CASE \E rows \in UNION {[1..n -> Stats!Row] : n \in 1..MaxRows} : asked = <<"import", rows>>
    <3>1. PICK n \in 1 .. MaxRows : \E rows \in [1 .. n -> Stats!Row] : asked = <<"import", rows>>
      BY <2>2
    <3>2. n \in Nat
      BY DesktopAssumption DEF DesktopAssumption, Stats!StatsAssumption
    <3> QED BY <2>1, <3>1, <3>2 DEF Stats!Init, StatsInv
  <2>3. CASE ~\E rows \in UNION {[1..n -> Stats!Row] : n \in 1..MaxRows} : asked = <<"import", rows>>
    BY <2>1, <2>3 DEF Stats!Init, StatsInv
  <2> QED BY <2>2, <2>3
<1>2. CASE focus # "stats"
  <2>1. asked = <<"import", <<>>>> /\ said = <<>>
    BY <1>2 DEF Init
  <2>2. <<>> \in [1 .. 0 -> Stats!Row] /\ 0 \in Nat
    OBVIOUS
  <2> QED BY <2>1, <2>2 DEF StatsInv
<1> QED BY <1>1, <1>2

LEMMA StatsStays ==
  ASSUME StatsInv, [Stats!Next]_statsVars
  PROVE  StatsInv'
PROOF
<1>1. CASE Stats!Next /\ Stats!Import
  <2>1. /\ asked[1] = "import" /\ asked' = asked
        /\ said' = <<Stats!cmd_presentmon_import(asked[2])>>
    BY <1>1 DEF Stats!Next, Stats!Import
  <2>2. PICK n \in Nat : \E rows \in [1 .. n -> Stats!Row] : asked = <<"import", rows>>
    BY <2>1 DEF StatsInv
  <2>3. PICK rows \in [1 .. n -> Stats!Row] : asked = <<"import", rows>>
    BY <2>2
  <2>4. asked' = <<"import", rows>> /\ said' = <<Stats!cmd_presentmon_import(rows)>>
    BY <2>1, <2>3
  <2> QED BY <2>4 DEF StatsInv
<1>2. CASE Stats!Next /\ Stats!Diff
  BY <1>2 DEF Stats!Next, Stats!Diff, StatsInv
<1>3. CASE Stats!Next /\ Stats!Multi
  <2>1. \E b, t : said' = <<Stats!cmd_bench_multi(b, t), Stats!cmd_bench_multi(t, b)>>
    BY <1>3 DEF Stats!Multi
  <2> QED BY <1>3, <2>1 DEF Stats!Next, Stats!Multi, StatsInv
<1>4. CASE UNCHANGED statsVars
  BY <1>4 DEF statsVars, StatsInv
<1> QED BY <1>1, <1>2, <1>3, <1>4 DEF Stats!Next

(* The elements of a finite set of numbers have an order by any measure of     *)
(* them: an element's place is the number of those before it, and a map of a   *)
(* finite set into as many places that is injective fills them.              *)
LEMMA Order ==
  ASSUME NEW K \in SUBSET Int, IsFiniteSet(K), NEW s \in [K -> Int]
  PROVE  \E p \in [1 .. Cardinality(K) -> K] :
           /\ \A i \in K : \E k \in 1 .. Cardinality(K) : p[k] = i
           /\ \A k, m \in 1 .. Cardinality(K) :
                k < m => s[p[k]] < s[p[m]] \/ (s[p[k]] = s[p[m]] /\ p[k] < p[m])
<1> DEFINE n == Cardinality(K)
           first(j, i) == s[j] < s[i] \/ (s[j] = s[i] /\ j < i)
           below(i) == {j \in K : first(j, i)}
           rank == [i \in K |-> Cardinality(below(i)) + 1]
<1>1. n \in Nat
  BY FS_CardinalityType
<1>2. \A i, j \in K : s[i] \in Int /\ s[j] \in Int /\ i \in Int /\ j \in Int
  OBVIOUS
<1>3. \A i, j \in K : i # j => first(i, j) \/ first(j, i)
  BY <1>2
<1>4. ASSUME NEW i \in K PROVE IsFiniteSet(below(i)) /\ Cardinality(below(i)) \in 0 .. n - 1
  <2>1. IsFiniteSet(K \ {i}) /\ Cardinality(K \ {i}) = n - 1
    BY FS_RemoveElement, <1>4
  <2>2. below(i) \in SUBSET (K \ {i})
    BY <1>2, <1>4
  <2> HIDE DEF below, n
  <2>3. IsFiniteSet(below(i)) /\ Cardinality(below(i)) <= n - 1
    BY <2>1, <2>2, FS_Subset
  <2>4. Cardinality(below(i)) \in Nat
    BY <2>3, FS_CardinalityType
  <2> QED BY <1>1, <2>3, <2>4
<1>5. rank \in [K -> 1 .. n]
  <2> HIDE DEF below, n
  <2> QED BY <1>1, <1>4
<1>6. ASSUME NEW i \in K, NEW j \in K, first(i, j) PROVE rank[i] < rank[j]
  <2>1. IsFiniteSet(below(i)) /\ IsFiniteSet(below(j))
    BY <1>4
  <2>2. below(i) \cup {i} \in SUBSET below(j) /\ i \notin below(i)
    <3>1. ASSUME NEW h \in K, first(h, i) PROVE first(h, j)
      <4>1. s[h] \in Int /\ s[i] \in Int /\ s[j] \in Int /\ h \in Int /\ i \in Int /\ j \in Int
        BY <1>2
      <4> QED BY <4>1, <3>1, <1>6
    <3>2. ~first(i, i)
      BY <1>2
    <3> HIDE DEF first
    <3> QED BY <3>1, <3>2, <1>6
  <2>3. rank[i] = Cardinality(below(i)) + 1 /\ rank[j] = Cardinality(below(j)) + 1
    OBVIOUS
  <2>4. Cardinality(below(i)) \in Nat /\ Cardinality(below(j)) \in Nat
    BY <2>1, FS_CardinalityType
  <2> HIDE DEF below, rank
  <2>5. IsFiniteSet(below(i) \cup {i}) /\ Cardinality(below(i) \cup {i}) = Cardinality(below(i)) + 1
    BY <2>1, <2>2, FS_AddElement
  <2>6. Cardinality(below(i) \cup {i}) <= Cardinality(below(j))
    BY <2>1, <2>2, FS_Subset
  <2> QED BY <2>3, <2>4, <2>5, <2>6
<1>7. \A i, j \in K : rank[i] = rank[j] => i = j
  <2> SUFFICES ASSUME NEW i \in K, NEW j \in K, rank[i] = rank[j], i # j PROVE FALSE
    OBVIOUS
  <2>1. rank[i] \in Int /\ rank[j] \in Int
    <3> HIDE DEF rank, n
    <3> QED BY <1>1, <1>5
  <2>2. rank[i] < rank[j] \/ rank[j] < rank[i]
    <3> HIDE DEF rank
    <3> QED BY <1>3, <1>6
  <2> HIDE DEF rank
  <2> QED BY <2>1, <2>2
<1>8. \A k \in 1 .. n : \E i \in K : rank[i] = k
  <2> HIDE DEF rank, n
  <2>1. rank \in Injection(K, 1 .. n)
    BY <1>5, <1>7 DEF Injection, IsInjective
  <2>2. IsFiniteSet(1 .. n) /\ Cardinality(1 .. n) = n
    BY <1>1, FS_Interval
  <2>3. Cardinality(K) = Cardinality(1 .. n)
    BY <2>2 DEF n
  <2>4. rank \in Surjection(K, 1 .. n)
    BY <2>1, <2>2, <2>3, FS_Injection
  <2> QED BY <2>4 DEF Surjection
<1> DEFINE p == [k \in 1 .. n |-> CHOOSE i \in K : rank[i] = k]
<1>9. p \in [1 .. n -> K] /\ \A k \in 1 .. n : rank[p[k]] = k
  <2> HIDE DEF rank, n
  <2> QED BY <1>8
<1>10. \A i \in K : \E k \in 1 .. n : p[k] = i
  <2> SUFFICES ASSUME NEW i \in K PROVE p[rank[i]] = i /\ rank[i] \in 1 .. n
    OBVIOUS
  <2> HIDE DEF rank, n, p
  <2>1. rank[i] \in 1 .. n
    BY <1>5
  <2> QED BY <2>1, <1>7, <1>9
<1>11. ASSUME NEW k \in 1 .. n, NEW m \in 1 .. n, k < m PROVE first(p[k], p[m])
  <2> HIDE DEF rank, p
  <2>1. p[k] \in K /\ p[m] \in K /\ rank[p[k]] = k /\ rank[p[m]] = m
    BY <1>9
  <2>2. k \in Int /\ m \in Int
    BY <1>1
  <2>3. ~first(p[m], p[k])
    <3> SUFFICES ASSUME first(p[m], p[k]) PROVE FALSE
      OBVIOUS
    <3> HIDE DEF first
    <3>1. rank[p[m]] < rank[p[k]]
      BY <1>6, <2>1
    <3> QED BY <3>1, <1>11, <2>1, <2>2
  <2>4. p[k] # p[m]
    BY <2>1, <2>2, <1>11
  <2> HIDE DEF first
  <2> QED BY <1>3, <2>1, <2>3, <2>4
<1> QED
  <2> HIDE DEF p, rank, below
  <2> QED BY <1>9, <1>10, <1>11

(* The count that the model takes from its library is the cardinality.        *)
LEMMA StatsCount == ASSUME NEW S PROVE Stats!Cardinality(S) = Cardinality(S)
  BY DEF Stats!Cardinality, Cardinality

(* The frames that count are some frames, and their times are numbers.        *)
LEMMA KeptIs ==
  ASSUME NEW n \in Nat, NEW rows \in [1 .. n -> Stats!Row]
  PROVE  \E m \in Nat : Stats!Kept(rows) \in [1 .. m -> Nat]
<1> DEFINE kept == {i \in DOMAIN rows : Stats!Counts(rows[i])}
           count == Stats!Cardinality(kept)
           nth == CHOOSE p \in [1 .. count -> kept] :
                    \A k, m \in DOMAIN p : k < m => p[k] < p[m]
<1>1. kept \in SUBSET (1 .. n) /\ kept \in SUBSET Int
  OBVIOUS
<1>2. IsFiniteSet(kept) /\ count = Cardinality(kept) /\ count \in Nat
  <2>1. 1 \in Int /\ n \in Int
    OBVIOUS
  <2>2. IsFiniteSet(1 .. n)
    BY <2>1, FS_Interval
  <2> HIDE DEF kept
  <2>3. IsFiniteSet(kept)
    BY <1>1, <2>2, FS_Subset
  <2> QED BY <2>3, FS_CardinalityType, StatsCount
<1>3. Stats!Kept(rows) = [k \in 1 .. count |-> rows[nth[k]].ft]
  BY DEF Stats!Kept
<1>4. \A i \in kept : rows[i].ft \in Nat
  BY DesktopAssumption DEF DesktopAssumption, Stats!StatsAssumption, Stats!Row
<1> HIDE DEF kept, count
<1>5. nth \in [1 .. count -> kept]
  <2> DEFINE none == [i \in kept |-> 0]
  <2>1. none \in [kept -> Int] /\ \A i \in kept : none[i] = 0
    OBVIOUS
  <2> HIDE DEF none
  <2>2. \E p \in [1 .. Cardinality(kept) -> kept] :
          /\ \A i \in kept : \E k \in 1 .. Cardinality(kept) : p[k] = i
          /\ \A k, m \in 1 .. Cardinality(kept) :
               k < m => none[p[k]] < none[p[m]] \/ (none[p[k]] = none[p[m]] /\ p[k] < p[m])
    <3> HIDE DEF nth
    <3> QED BY <1>1, <1>2, <2>1, Order, Zenon
  <2>3. PICK p \in [1 .. count -> kept] :
          \A k, m \in 1 .. count :
            k < m => none[p[k]] < none[p[m]] \/ (none[p[k]] = none[p[m]] /\ p[k] < p[m])
    <3> HIDE DEF nth
    <3> QED BY <1>2, <2>2, Zenon
  <2>4. \A k, m \in DOMAIN p : k < m => p[k] < p[m]
    BY <2>1, <2>3
  <2> QED BY <2>4
<1> HIDE DEF nth
<1>6. \A k \in 1 .. count : rows[nth[k]].ft \in Nat
  BY <1>4, <1>5
<1> QED BY <1>2, <1>3, <1>6

(* std::sort gives the frames in an order of their length.                   *)
LEMMA RankedIs ==
  ASSUME NEW n \in Nat, NEW s \in [1 .. n -> Nat]
  PROVE  \E p \in [1 .. n -> 1 .. n] :
           /\ \A i \in 1 .. n : \E k \in 1 .. n : p[k] = i
           /\ \A k, m \in 1 .. n : k < m => s[p[k]] <= s[p[m]]
           /\ Stats!Ranked(s) = [k \in 1 .. n |-> s[p[k]]]
<1> DEFINE Sorts(p) == /\ \A i \in 1 .. n : \E k \in 1 .. n : p[k] = i
                       /\ \A k, m \in 1 .. n : k < m => s[p[k]] <= s[p[m]]
           order == CHOOSE p \in [1 .. n -> 1 .. n] : Sorts(p)
<1>1. IsFiniteSet(1 .. n) /\ Cardinality(1 .. n) = n
  BY FS_Interval
<1>2. 1 .. n \in SUBSET Int /\ s \in [1 .. n -> Int]
  OBVIOUS
<1>3. \E p \in [1 .. n -> 1 .. n] : Sorts(p)
  <2>1. \E p \in [1 .. Cardinality(1 .. n) -> 1 .. n] :
           /\ \A i \in 1 .. n : \E k \in 1 .. Cardinality(1 .. n) : p[k] = i
           /\ \A k, m \in 1 .. Cardinality(1 .. n) :
                k < m => s[p[k]] < s[p[m]] \/ (s[p[k]] = s[p[m]] /\ p[k] < p[m])
    <3> HIDE DEF order, Sorts
    <3> QED BY <1>1, <1>2, Order, Zenon
  <2>2. PICK p \in [1 .. n -> 1 .. n] :
           /\ \A i \in 1 .. n : \E k \in 1 .. n : p[k] = i
           /\ \A k, m \in 1 .. n :
                k < m => s[p[k]] < s[p[m]] \/ (s[p[k]] = s[p[m]] /\ p[k] < p[m])
    BY <1>1, <2>1, Zenon
  <2>3. \A k \in 1 .. n : s[p[k]] \in Int
    OBVIOUS
  <2>4. ASSUME NEW k \in 1 .. n, NEW m \in 1 .. n, k < m PROVE s[p[k]] <= s[p[m]]
    <3>1. s[p[k]] < s[p[m]] \/ s[p[k]] = s[p[m]]
      BY <2>2, <2>4
    <3>2. s[p[k]] \in Int /\ s[p[m]] \in Int
      BY <2>3
    <3> DEFINE a == s[p[k]]
               b == s[p[m]]
    <3>3. a \in Int /\ b \in Int /\ (a < b \/ a = b)
      BY <3>1, <3>2
    <3>4. a <= b
      <4> HIDE DEF a, b
      <4> QED BY <3>3
    <3> QED BY <3>4
  <2>5. Sorts(p)
    BY <2>2, <2>4
  <2> HIDE DEF Sorts
  <2> QED BY <2>5
<1>4. order \in [1 .. n -> 1 .. n] /\ Sorts(order)
  <2> HIDE DEF Sorts
  <2> QED BY <1>3
<1>5. Stats!Ranked(s) = [k \in 1 .. n |-> s[order[k]]]
  BY DEF Stats!Ranked
<1> HIDE DEF order
<1> QED BY <1>4, <1>5

(* The frame at place k + 1 of them has rank k.                              *)
LEMMA SortedHasRank ==
  ASSUME NEW n \in Nat, NEW s \in [1 .. n -> Nat], NEW k \in 0 .. n - 1
  PROVE  Stats!HasRank(s, Stats!Ranked(s)[k + 1], k)
<1>1. PICK p \in [1 .. n -> 1 .. n] :
        /\ \A i \in 1 .. n : \E j \in 1 .. n : p[j] = i
        /\ \A j, m \in 1 .. n : j < m => s[p[j]] <= s[p[m]]
        /\ Stats!Ranked(s) = [j \in 1 .. n |-> s[p[j]]]
  BY RankedIs
<1> DEFINE v == Stats!Ranked(s)[k + 1]
           shorter == {i \in 1 .. n : s[i] < v}
           upto == {i \in 1 .. n : s[i] <= v}
<1>2. k + 1 \in 1 .. n /\ k \in Nat /\ v = s[p[k + 1]]
  BY <1>1
<1>3. IsFiniteSet(1 .. n) /\ Cardinality(1 .. n) = n
  BY FS_Interval
<1>4. IsFiniteSet(shorter) /\ IsFiniteSet(upto) /\ Cardinality(shorter) \in Nat /\ Cardinality(upto) \in Nat
  <2>1. shorter \in SUBSET (1 .. n) /\ upto \in SUBSET (1 .. n)
    OBVIOUS
  <2> HIDE DEF shorter, upto
  <2> QED BY <2>1, <1>3, FS_Subset, FS_CardinalityType
<1>5. Cardinality(shorter) <= k
  <2> DEFINE lower == {p[j] : j \in 1 .. k}
             f == [j \in 1 .. k |-> p[j]]
  <2>1. shorter \in SUBSET lower
    <3> SUFFICES ASSUME NEW i \in 1 .. n, s[i] < v PROVE i \in lower
      OBVIOUS
    <3>1. PICK j \in 1 .. n : p[j] = i
      BY <1>1
    <3>2. ~(k + 1 < j) /\ j # k + 1
      <4> HIDE DEF f, lower, shorter, upto
      <4>1. s[p[j]] \in Nat /\ s[p[k + 1]] \in Nat
        BY <1>2
      <4>2. s[p[j]] < s[p[k + 1]]
        BY <1>2, <3>1
      <4>3. k + 1 < j => s[p[k + 1]] <= s[p[j]]
        BY <1>1, <1>2
      <4>4. j = k + 1 => s[p[j]] = s[p[k + 1]]
        OBVIOUS
      <4> QED
        <5> DEFINE a == s[p[j]]
                   b == s[p[k + 1]]
        <5>1. a \in Nat /\ b \in Nat /\ a < b /\ (k + 1 < j => b <= a) /\ (j = k + 1 => a = b)
          BY <4>1, <4>2, <4>3, <4>4
        <5> HIDE DEF a, b
        <5> QED BY <5>1
    <3>3. j \in 1 .. k
      BY <1>2, <3>2
    <3> QED BY <3>1, <3>3
  <2>2. f \in Surjection(1 .. k, lower)
    BY DEF Surjection
  <2>3. IsFiniteSet(1 .. k) /\ Cardinality(1 .. k) = k
    <3>1. 1 \in Int /\ k \in Int /\ k >= 0
      BY <1>2
    <3>2. IsFiniteSet(1 .. k) /\ Cardinality(1 .. k) = IF 1 > k THEN 0 ELSE k - 1 + 1
      BY <3>1, FS_Interval
    <3> QED BY <3>1, <3>2
  <2> HIDE DEF f, lower, shorter
  <2>4. IsFiniteSet(lower) /\ Cardinality(lower) <= k
    BY <2>2, <2>3, FS_Surjection
  <2>5. Cardinality(shorter) <= Cardinality(lower) /\ Cardinality(lower) \in Nat
    BY <2>1, <2>4, FS_Subset, FS_CardinalityType
  <2> QED BY <1>2, <1>4, <2>4, <2>5
<1>6. Cardinality(upto) > k
  <2> DEFINE f == [j \in 1 .. k + 1 |-> p[j]]
  <2>1. p \in Surjection(1 .. n, 1 .. n)
    BY <1>1 DEF Surjection
  <2>2. p \in Injection(1 .. n, 1 .. n)
    BY <2>1, <1>3, FS_SurjSameCardinalityImpliesInj
  <2>3. \A j \in 1 .. k + 1 : j \in 1 .. n /\ p[j] \in upto
    <3> SUFFICES ASSUME NEW j \in 1 .. k + 1 PROVE j \in 1 .. n /\ s[p[j]] <= v
      OBVIOUS
    <3>1. j \in 1 .. n
      BY <1>2
    <3>2. j = k + 1 \/ j < k + 1
      BY <1>2
    <3>3. s[p[k + 1]] <= s[p[k + 1]]
      BY <1>2
    <3> QED BY <1>1, <1>2, <3>1, <3>2, <3>3
  <2>4. f \in Injection(1 .. k + 1, upto)
    <3> HIDE DEF upto
    <3> QED BY <2>2, <2>3 DEF Injection, IsInjective
  <2>5. IsFiniteSet(1 .. k + 1) /\ Cardinality(1 .. k + 1) = k + 1
    BY <1>2, FS_Interval
  <2> HIDE DEF f, upto
  <2>6. Cardinality(1 .. k + 1) <= Cardinality(upto)
    BY <2>4, <1>4, FS_Injection
  <2> QED BY <1>2, <1>4, <2>5, <2>6
<1>7. DOMAIN s = 1 .. n
  OBVIOUS
<1>8. Stats!HasRank(s, v, k) <=> /\ Stats!Cardinality({i \in DOMAIN s : s[i] < v}) <= k
                                 /\ Stats!Cardinality({i \in DOMAIN s : s[i] <= v}) > k
  <2> HIDE DEF v
  <2> QED BY DEF Stats!HasRank
<1>9. {i \in DOMAIN s : s[i] < v} = shorter /\ {i \in DOMAIN s : s[i] <= v} = upto
  BY <1>7
<1> HIDE DEF shorter, upto
<1> QED BY <1>5, <1>6, <1>8, <1>9, StatsCount

(* What an import answers has its rank among the frames that count.          *)
LEMMA ImportIsRanked ==
  ASSUME NEW n \in Nat, NEW rows \in [1 .. n -> Stats!Row],
         Stats!cmd_presentmon_import(rows).exit = 0
  PROVE  LET s == Stats!Kept(rows)
             got == Stats!cmd_presentmon_import(rows)
             k(p) == (p * (Len(s) - 1)) \div 1000
         IN  /\ Stats!HasRank(s, got.p50, k(500)) /\ Stats!HasRank(s, got.p99, k(990))
             /\ Stats!HasRank(s, got.p999, k(999)) /\ Stats!HasRank(s, got.max, Len(s) - 1)
<1> DEFINE s == Stats!Kept(rows)
           r == Stats!Ranked(s)
           got == Stats!cmd_presentmon_import(rows)
<1>1. PICK m \in Nat : s \in [1 .. m -> Nat]
  BY KeptIs
<1>2. r \in [1 .. m -> Nat]
  <2> HIDE DEF s
  <2>1. PICK p \in [1 .. m -> 1 .. m] :
          /\ \A i \in 1 .. m : \E k \in 1 .. m : p[k] = i
          /\ \A k, j \in 1 .. m : k < j => s[p[k]] <= s[p[j]]
          /\ Stats!Ranked(s) = [k \in 1 .. m |-> s[p[k]]]
    BY <1>1, RankedIs
  <2>2. [k \in 1 .. m |-> s[p[k]]] \in [1 .. m -> Nat]
    BY <1>1
  <2> QED BY <2>1, <2>2
<1>3. Len(s) = m /\ Len(r) = m
  <2> HIDE DEF s, r
  <2> QED BY <1>1, <1>2
<1>4. got = IF Len(r) = 0 THEN [exit |-> 1]
            ELSE [exit |-> 0, n |-> Len(r), sum |-> Stats!Total(r),
                  p50 |-> Stats!pct_at(r, 500), p99 |-> Stats!pct_at(r, 990),
                  p999 |-> Stats!pct_at(r, 999), max |-> r[Len(r)], hitches |-> Stats!Above(r, 16),
                  stutters |-> Stats!Cardinality({i \in 1 .. Len(r) : Len(r) * r[i] > 2 * Stats!Total(r)})]
  BY DEF Stats!cmd_presentmon_import
<1>5. m > 0
  <2> HIDE DEF s, r
  <2>1. Len(r) = 0 => got.exit = 1
    <3> HIDE DEF got
    <3> QED BY <1>4
  <2>2. got.exit = 0
    OBVIOUS
  <2> HIDE DEF got
  <2> QED BY <1>1, <1>3, <2>1, <2>2
<1>6. /\ got.p50 = Stats!pct_at(r, 500) /\ got.p99 = Stats!pct_at(r, 990)
      /\ got.p999 = Stats!pct_at(r, 999) /\ got.max = r[m]
  <2> HIDE DEF s, r, got
  <2> QED BY <1>3, <1>4, <1>5
<1>7. ASSUME NEW p \in {500, 990, 999}
      PROVE  Stats!HasRank(s, Stats!pct_at(r, p), (p * (Len(s) - 1)) \div 1000)
  <2> DEFINE k == (p * (m - 1)) \div 1000
  <2>1. k \in 0 .. m - 1
    BY <1>1, <1>5
  <2>2. Stats!pct_at(r, p) = r[k + 1]
    <3> HIDE DEF s, r
    <3> QED BY <1>3 DEF Stats!pct_at
  <2> HIDE DEF s, k
  <2>3. Stats!HasRank(s, r[k + 1], k)
    BY <1>1, <2>1, SortedHasRank
  <2> QED BY <1>3, <2>2, <2>3 DEF k
<1>8. Stats!HasRank(s, r[m], m - 1)
  <2>1. m - 1 \in 0 .. m - 1 /\ m - 1 + 1 = m
    BY <1>1, <1>5
  <2> HIDE DEF s
  <2>2. Stats!HasRank(s, r[m - 1 + 1], m - 1)
    BY <1>1, <2>1, SortedHasRank
  <2> QED BY <2>1, <2>2
<1> HIDE DEF s, r, got
<1>9. /\ Stats!HasRank(s, got.p50, (500 * (Len(s) - 1)) \div 1000)
      /\ Stats!HasRank(s, got.p99, (990 * (Len(s) - 1)) \div 1000)
      /\ Stats!HasRank(s, got.p999, (999 * (Len(s) - 1)) \div 1000)
      /\ Stats!HasRank(s, got.max, Len(s) - 1)
  BY <1>3, <1>6, <1>7, <1>8
<1> QED BY <1>9 DEF s, got

(* A run that gained on another lost to it by at least as much of its own.   *)
LEMMA GainIsALoss ==
  ASSUME NEW a \in Nat \ {0}, NEW b \in Nat \ {0}, Stats!Gains(a, b, 3)
  PROVE  ~Stats!Gains(b, a, 3) /\ Stats!Drops(b, a, 3)
PROOF BY DEF Stats!Gains, Stats!Drops

LEMMA DiffReversed ==
  ASSUME NEW a \in Stats!Run, NEW b \in Stats!Run,
         Stats!cmd_bench_diff(a, b) \in {"SIGNIFICANT", "MARGINAL"}
  PROVE  Stats!cmd_bench_diff(b, a) = "REGRESSION"
PROOF
<1>1. a.p999 \in Nat \ {0} /\ b.p999 \in Nat \ {0}
  BY DesktopAssumption DEF Stats!StatsAssumption, Stats!Run
<1>2. Stats!Gains(a.p999, b.p999, 3)
  <2>1. Stats!Gains(a.p999, b.p999, 10) => Stats!Gains(a.p999, b.p999, 3)
    BY <1>1 DEF Stats!Gains
  <2> QED BY <2>1 DEF Stats!cmd_bench_diff
<1>3. ~Stats!Gains(b.p999, a.p999, 3) /\ Stats!Drops(b.p999, a.p999, 3)
  BY <1>1, <1>2, GainIsALoss
<1>4. ~Stats!Gains(b.p999, a.p999, 10)
  BY <1>1, <1>3 DEF Stats!Gains
<1> QED BY <1>3, <1>4 DEF Stats!cmd_bench_diff

LEMMA MultiReversed ==
  ASSUME NEW b, NEW t, Stats!cmd_bench_multi(b, t) = "SIGNIFICANT"
  PROVE  Stats!cmd_bench_multi(t, b) = "REGRESSION"
PROOF BY DEF Stats!cmd_bench_multi, Stats!Regressed

-----------------------------------------------------------------------------
(* The parts together: a step moves one of them, the others stay.           *)

DesktopInv == LaunchInv /\ LinkInv /\ BenchInv /\ StatsInv

(* A step of the whole is a step of one part, or of none.                   *)
LEMMA EachPartSteps ==
  ASSUME [Next]_vars
  PROVE  /\ [Launch!Next]_launchVars /\ [Link!Next]_linkVars
         /\ [Bench!Next]_benchVars /\ [Stats!Next]_statsVars
PROOF BY DEF Next, vars, OfLaunch, OfLink, OfBench, OfStats

(* The inductive invariant of the desktop holds always.                     *)
THEOREM DesktopInvariant == Spec => []DesktopInv
PROOF
<1>1. Init => DesktopInv
  BY LaunchStarts, LinkStarts, BenchStarts, StatsStarts DEF Init, DesktopInv
<1>2. DesktopInv /\ [Next]_vars => DesktopInv'
  BY EachPartSteps, LaunchStays, LinkStays, BenchStays, StatsStays DEF DesktopInv
<1> QED BY <1>1, <1>2, PTL DEF Spec

(* What a window or a measurement changed is changed back, and nothing else:  *)
(* an A/B session that ends leaves a running agent, or a resume for the agent *)
(* there is or the one that comes in its place; a window that goes on Windows *)
(* leaves no running agent behind, wherever between CreateProcess and        *)
(* ResumeThread it went; and the replay of the journal spares every placement *)
(* of a living agent, for any number of windows, agents and clients.          *)
THEOREM ChangesAreUndone == Spec => OwnChangesAreUndone
PROOF
<1>1. LaunchInv => Launch!NoneOutlivesItsWindow
  <2>1. LaunchInv => \A u \in Uis : ui[u].child # None => ui[u].child \in Agents
    BY DEF LaunchInv, LaunchTypes
  <2> QED BY <2>1 DEF LaunchInv, JobInv, Launch!NoneOutlivesItsWindow, Launch!Absent
<1>2. DesktopInv => Bench!PoliciesComeBack /\ Launch!NoneOutlivesItsWindow
  BY <1>1 DEF DesktopInv, BenchInv
<1>3. DesktopInv /\ [Next]_vars => [Launch!ReplayedAreGone]_(Launch!vars)
  BY EachPartSteps, LaunchStepsSpare DEF DesktopInv
<1>4. Spec => Launch!ReplaySparesTheLiving
  BY <1>3, DesktopInvariant, PTL DEF Spec, Launch!ReplaySparesTheLiving
<1>5. Spec => [](Bench!PoliciesComeBack /\ Launch!NoneOutlivesItsWindow)
  BY <1>2, DesktopInvariant, PTL
<1> QED BY <1>4, <1>5 DEF OwnChangesAreUndone

(* What the user is told is so: while a run is captured, an agent that has     *)
(* executed the session's command follows the policy of its label, whatever   *)
(* agents went and came, and the one that acknowledged it has; an agent that  *)
(* went is shown gone within the limit of kPublishStallFrames, an imported    *)
(* percentile has its rank among the frames, and an improvement read backwards *)
(* is a regression, whatever the limit, the gaps between publications, the    *)
(* capture and the samples.                                                  *)
THEOREM UserIsNotMisled == Spec => []UserIsToldTheTruth
PROOF
<1>1. BenchInv => Bench!LabelsAreTrue
  BY DEF BenchInv, BenchTypes, FollowsInv, SessionInv, Bench!LabelsAreTrue, Bench!UpToDate,
         Bench!Policy, Bench!CommandFor
<1>2. LinkInv => Link!DeadIsShown
  BY DesktopAssumption
  DEF LinkInv, LinkTypes, ShownInv, SilentInv, Link!DeadIsShown, Link!LinkAssumption
<1>3. StatsInv => Stats!ReversedIsRegression
  <2>1. ASSUME StatsInv, said # <<>>, asked[1] = "diff", said[1] \in {"SIGNIFICANT", "MARGINAL"}
        PROVE  said[2] = "REGRESSION"
    BY <2>1, DiffReversed DEF StatsInv
  <2>2. ASSUME StatsInv, said # <<>>, asked[1] = "multi", said[1] = "SIGNIFICANT"
        PROVE  said[2] = "REGRESSION"
    BY <2>2, MultiReversed DEF StatsInv
  <2> QED BY <2>1, <2>2 DEF Stats!ReversedIsRegression
<1>4. StatsInv => Stats!PercentilesHaveTheirRank
  <2> SUFFICES ASSUME StatsInv, said # <<>>, asked[1] = "import", said[1].exit = 0
               PROVE  Stats!PercentilesHaveTheirRank
    BY DEF Stats!PercentilesHaveTheirRank
  <2>1. PICK n \in Nat : \E rows \in [1 .. n -> Stats!Row] :
          asked = <<"import", rows>> /\ said = <<Stats!cmd_presentmon_import(rows)>>
    BY DEF StatsInv
  <2>2. PICK rows \in [1 .. n -> Stats!Row] :
          asked = <<"import", rows>> /\ said = <<Stats!cmd_presentmon_import(rows)>>
    BY <2>1
  <2>3. asked[2] = rows /\ said[1] = Stats!cmd_presentmon_import(rows)
    BY <2>2
  <2>4. Stats!cmd_presentmon_import(rows).exit = 0
    BY <2>3
  <2> QED BY <2>3, <2>4, ImportIsRanked DEF Stats!PercentilesHaveTheirRank
<1>5. DesktopInv => UserIsToldTheTruth
  BY <1>1, <1>2, <1>3, <1>4 DEF DesktopInv, UserIsToldTheTruth
<1> QED BY <1>5, DesktopInvariant, PTL
=============================================================================
