-------------------------- MODULE AgentPartsProofs --------------------------
(***************************************************************************)
(* Theorems of MCAgentParts, for any values of its constants: a change of   *)
(* somebody else's process, thread or setting can be undone.                *)
(***************************************************************************)
EXTENDS MCAgentParts, FiniteSetTheorems, TLAPS

(* Every set of naturals that is not empty has a least element: the sets     *)
(* 0 .. n are finite, and strict inclusion of finite sets is well-founded.   *)
LEMMA Least ==
  ASSUME NEW Numbers \in SUBSET Nat, Numbers # {}
  PROVE  \E m \in Numbers : \A k \in Numbers : m <= k
<1> DEFINE F == {0 .. m : m \in Numbers}
<1>1. F \subseteq FiniteSubsetsOf(Nat)
  <2> SUFFICES ASSUME NEW m \in Numbers PROVE 0 .. m \in FiniteSubsetsOf(Nat)
    OBVIOUS
  <2>1. m \in Int /\ 0 \in Int
    OBVIOUS
  <2>2. IsFiniteSet(0 .. m)
    BY <2>1, FS_Interval
  <2>3. 0 .. m \in SUBSET Nat
    OBVIOUS
  <2> QED BY <2>2, <2>3, Zenon DEF FiniteSubsetsOf
<1>2. F # {}
  OBVIOUS
<1>3. IsWellFoundedOn(StrictSubsetOrdering(Nat), FiniteSubsetsOf(Nat))
  BY FS_StrictSubsetOrderingWellFounded
<1>4. PICK x \in F : \A y \in F : ~(<<y, x>> \in StrictSubsetOrdering(Nat))
  <2> HIDE DEF F
  <2> QED BY <1>1, <1>2, <1>3, WFMin
<1>5. PICK m \in Numbers : x = 0 .. m
  OBVIOUS
<1>6. ASSUME NEW k \in Numbers, k < m PROVE FALSE
  <2>1. 0 .. k \in SUBSET Nat /\ 0 .. m \in SUBSET Nat /\ 0 .. k \subseteq 0 .. m
    BY <1>6
  <2>2. m \in 0 .. m /\ m \notin 0 .. k
    BY <1>6
  <2>3. <<0 .. k, 0 .. m>> \in StrictSubsetOrdering(Nat)
    BY <2>1, <2>2 DEF StrictSubsetOrdering
  <2> QED BY <1>4, <1>5, <2>3
<1> QED BY <1>6

-----------------------------------------------------------------------------
(* A call of the system and its undo: AffinityCalls.                        *)

WorldTypes ==
  /\ api \in {"handle", "swap", "id"}
  /\ next \in Affinity!Objects /\ names \in {0, next}
  /\ setting \in [Affinity!Objects -> Values]

Calls == [at: {"idle", "open", "read", "write", "swap", "back"}, op: {"get", "set"},
          arg: Values \cup {Affinity!NoValue}, target: 0 .. MaxObjects,
          prev: Values \cup {Affinity!NoValue}]

Returned == [op: {"get", "set"}, code: {"none", "ok", "InvalidArgument", "PermissionDenied", "IoError"},
             prev: Values \cup {Affinity!NoValue}]

Begun == [object: 0 .. MaxObjects, value: Values \cup {Affinity!NoValue}, undo: BOOLEAN, left: BOOLEAN]

CallTypes ==
  /\ WorldTypes /\ call \in Calls /\ outcome \in Returned /\ before \in Begun
  /\ call.target <= next /\ before.object <= next
  /\ disturbed \in BOOLEAN

(* Where a call gets to: only a set writes, only a get sets back, and what   *)
(* either of them writes is a value.                                        *)
CallPlaces ==
  /\ call.at = "idle" => call.target = 0
  /\ call.at = "write" => call.op = "set" /\ call.arg \in Values
  /\ call.at = "swap" => api = "swap" /\ (call.op = "set" => call.arg \in Values)
  /\ call.at = "back" => api = "swap" /\ call.op = "get" /\ call.prev \in Values
  /\ call.at \in {"read", "write", "swap", "back"} => api = "id" \/ call.target # 0

(* A handle keeps the id from being given to another object.                *)
HandleHolds == api # "id" /\ call.target # 0 => names \in {0, call.target}

(* The object the call began with is still there, and nobody else wrote.    *)
Standing == before.object = names /\ names # 0 /\ ~disturbed

(* What a call has changed of it so far, and what it knows to undo that.    *)
Undoing ==
  Standing =>
    /\ before.undo /\ call.at # "idle" => call.op = "set" /\ call.arg = before.value
    /\ ~before.undo /\ call.at \notin {"idle", "back"} => setting[names] = before.value
    /\ call.at = "back" => ~before.undo /\ setting[names] = Wide
    /\ ~before.undo /\ call.at = "write" => call.prev = before.value
    /\ call.at = "back" => call.prev = before.value
    /\ call.at = "idle" /\ outcome.code = "ok" =>
         /\ before.undo => setting[names] = before.value
         /\ ~before.undo => outcome.prev = before.value
         /\ outcome.op = "get" =>
              /\ ~before.undo
              /\ setting[names] = before.value \/ (before.left /\ setting[names] = Wide)

CallInv == CallTypes /\ CallPlaces /\ HandleHolds /\ Undoing

LEMMA ObjectsAre == /\ MaxObjects \in Nat \ {0} /\ Wide \in Values
                    /\ Affinity!Objects = 1 .. MaxObjects /\ 1 \in Affinity!Objects
  BY AgentPartsAssumption DEF AgentPartsAssumption, Affinity!CallsAssumption, Affinity!Objects

LEMMA CallsBegin == Affinity!Init => CallInv
<1> SUFFICES ASSUME Affinity!Init PROVE CallInv
  OBVIOUS
<1>1. WorldTypes
  BY ObjectsAre DEF Affinity!Init, WorldTypes
<1>2. call \in Calls
  BY ObjectsAre DEF Affinity!Init, Affinity!Idle, Calls
<1>3. outcome \in Returned
  BY DEF Affinity!Init, Affinity!NoResult, Returned
<1>4. before \in Begun
  BY ObjectsAre DEF Affinity!Init, Begun
<1>5. call.target = 0 /\ before.object = 0 /\ next = 1 /\ disturbed = FALSE
  BY DEF Affinity!Init, Affinity!Idle
<1>6. CallPlaces /\ HandleHolds /\ Undoing
  BY DEF Affinity!Init, CallPlaces, HandleHolds, Undoing, Standing, Affinity!Idle, Affinity!NoResult
<1>7. call.target <= next /\ before.object <= next
  BY <1>5
<1>8. disturbed \in BOOLEAN
  BY <1>5
<1> QED BY <1>1, <1>2, <1>3, <1>4, <1>6, <1>7, <1>8 DEF CallInv, CallTypes

(* A call that returns leaves its types in order.                           *)
LEMMA Back ==
  ASSUME call' = Affinity!Idle, NEW op \in {"get", "set"},
         NEW code \in {"ok", "InvalidArgument", "PermissionDenied", "IoError"},
         NEW prev \in Values \cup {Affinity!NoValue},
         outcome' = [op |-> op, code |-> code, prev |-> prev]
  PROVE  /\ call' \in Calls /\ outcome' \in Returned
         /\ call'.at = "idle" /\ call'.target = 0
         /\ outcome'.op = op /\ outcome'.code = code /\ outcome'.prev = prev
<1>1. call' \in Calls
  BY ObjectsAre DEF Affinity!Idle, Calls
<1>2. outcome' \in Returned
  BY DEF Returned
<1>3. call'.at = "idle" /\ call'.target = 0
  BY DEF Affinity!Idle
<1> QED BY <1>1, <1>2, <1>3

LEMMA CallStep == ASSUME CallInv, Affinity!Next PROVE CallInv'
<1>1. /\ next \in Affinity!Objects /\ next \in 1 .. MaxObjects /\ names \in {0, next} /\ names \in 0 .. MaxObjects /\ MaxObjects \in Nat
      /\ names # 0 => names \in Affinity!Objects /\ setting[names] \in Values
      /\ setting \in [Affinity!Objects -> Values] /\ api \in {"handle", "swap", "id"}
  BY ObjectsAre DEF CallInv, CallTypes, WorldTypes
<1>2. call \in Calls /\ outcome \in Returned /\ before \in Begun /\ disturbed \in BOOLEAN
      /\ call.target <= next /\ before.object <= next
  BY DEF CallInv, CallTypes
<1>3. call.at \in {"idle", "open", "read", "write", "swap", "back"} /\ call.op \in {"get", "set"}
      /\ call.arg \in Values \cup {Affinity!NoValue} /\ call.target \in 0 .. MaxObjects
      /\ call.prev \in Values \cup {Affinity!NoValue}
  BY <1>2 DEF Calls
<1>4. outcome.prev \in Values \cup {Affinity!NoValue} /\ outcome.op \in {"get", "set"}
      /\ before.undo \in BOOLEAN /\ before.value \in Values \cup {Affinity!NoValue}
      /\ before.object \in 0 .. MaxObjects
  BY <1>2 DEF Returned, Begun
<1>5. CallPlaces /\ HandleHolds /\ Undoing
  BY DEF CallInv
<1> DEFINE Goal == /\ WorldTypes' /\ call' \in Calls /\ outcome' \in Returned /\ before' \in Begun
             /\ disturbed' \in BOOLEAN /\ call'.target <= next' /\ before'.object <= next'
             /\ CallPlaces' /\ HandleHolds' /\ Undoing'
<1> SUFFICES Goal
  BY DEF CallInv, CallTypes
<1>6. ASSUME NEW op \in {"get", "set"}, NEW arg \in Values \cup {Affinity!NoValue}, NEW undo \in BOOLEAN,
             Affinity!Begin(op, arg, undo)
      PROVE  Goal
  <2> DEFINE place == IF api = "id" THEN "read" ELSE "open"
             value == IF names = 0 THEN Affinity!NoValue ELSE setting[names]
  <2>1. /\ call.at = "idle"
        /\ call' = [at |-> place, op |-> op, arg |-> arg, target |-> 0, prev |-> Affinity!NoValue]
        /\ before' = IF undo THEN [before EXCEPT !.undo = TRUE]
                     ELSE [object |-> names, value |-> value, undo |-> FALSE, left |-> FALSE]
        /\ disturbed' = (undo /\ disturbed)
        /\ UNCHANGED <<api, names, next, setting, confined, outcome>>
    BY <1>6 DEF Affinity!Begin, Affinity!Idle, Affinity!World
  <2>2. undo => op = "set" /\ ~before.undo /\ outcome.op = "set" /\ outcome.code = "ok" /\ arg = outcome.prev
    BY <1>6 DEF Affinity!Begin
  <2>3. value \in Values \cup {Affinity!NoValue} /\ place \in {"read", "open"}
    BY <1>1
  <2>4. WorldTypes' /\ outcome' \in Returned
    BY <1>1, <1>2, <2>1 DEF WorldTypes
  <2>5. /\ call'.at = place /\ call'.op = op /\ call'.arg = arg /\ call'.target = 0
        /\ place # "idle" /\ place # "write" /\ place # "swap" /\ place # "back"
    BY <2>1
  <2> HIDE DEF place, value
  <2>9. call' \in Calls
    BY <1>1, <2>1, <2>3 DEF Calls
  <2>6. CallPlaces' /\ HandleHolds'
    BY <1>1, <2>1, <2>5 DEF CallPlaces, HandleHolds, place
  <2>7. CASE undo
    <3>1. before' \in Begun /\ before'.undo /\ before'.object = before.object /\ before'.value = before.value
      BY <1>2, <1>4, <2>1, <2>7 DEF Begun
    <3>2. Undoing'
      BY <1>5, <2>1, <2>2, <2>5, <2>7, <3>1 DEF Undoing, Standing
    <3> QED BY <1>1, <1>2, <2>1, <2>4, <2>5, <2>6, <2>9, <3>1, <3>2
  <2>8. CASE ~undo
    <3>1. before' \in Begun /\ ~before'.undo /\ before'.object = names /\ before'.value = value
      BY <1>1, <2>1, <2>3, <2>8 DEF Begun
    <3>2. Undoing'
      BY <2>1, <2>5, <2>8, <3>1 DEF Undoing, Standing, value
    <3> QED BY <1>1, <2>1, <2>4, <2>5, <2>6, <2>8, <2>9, <3>1, <3>2
  <2> QED BY <2>7, <2>8
<1>7. CASE Affinity!Rejected
  <2>1. /\ call' = Affinity!Idle
        /\ outcome' = [op |-> call.op, code |-> "InvalidArgument", prev |-> Affinity!NoValue]
        /\ UNCHANGED <<api, names, next, setting, before, disturbed>>
    BY <1>7 DEF Affinity!Rejected, Affinity!World, Affinity!Returns
  <2>2. /\ call' \in Calls /\ outcome' \in Returned
        /\ call'.at = "idle" /\ call'.target = 0 /\ outcome'.code = "InvalidArgument"
    BY <1>3, <2>1, Back
  <2> QED BY <1>1, <1>2, <2>1, <2>2 DEF WorldTypes, CallPlaces, HandleHolds, Undoing, Standing
<1>8. ASSUME NEW granted \in BOOLEAN, Affinity!Open(granted) PROVE Goal
  <2>1. call.at = "open" /\ (call.op = "set" => call.arg # Affinity!NoValue)
        /\ UNCHANGED <<api, names, next, setting, before, disturbed>>
    BY <1>8 DEF Affinity!Open, Affinity!World
  <2>2. CASE names # 0 /\ granted
    <3> DEFINE place == IF api = "swap" THEN "swap" ELSE "read"
    <3>1. call' = [call EXCEPT !.at = place, !.target = names] /\ outcome' = outcome
      BY <1>8, <2>2 DEF Affinity!Open
    <3>2. place \in {"swap", "read"} /\ (place = "swap" <=> api = "swap")
      OBVIOUS
    <3> HIDE DEF place
    <3>3. /\ call' \in Calls /\ call'.at = place /\ call'.target = names /\ call'.op = call.op
          /\ call'.arg = call.arg /\ call'.prev = call.prev
      BY <1>1, <1>2, <3>1, <3>2 DEF Calls
    <3>4. CallPlaces' /\ HandleHolds'
      BY <1>1, <1>3, <2>1, <2>2, <3>2, <3>3 DEF CallPlaces, HandleHolds
    <3>5. Undoing'
      BY <1>5, <2>1, <3>2, <3>3 DEF Undoing, Standing
    <3> QED BY <1>1, <1>2, <2>1, <3>1, <3>3, <3>4, <3>5 DEF WorldTypes
  <2>3. CASE ~(names # 0 /\ granted)
    <3> DEFINE code == IF names = 0 THEN "InvalidArgument" ELSE "PermissionDenied"
    <3>1. call' = Affinity!Idle /\ outcome' = [op |-> call.op, code |-> code, prev |-> Affinity!NoValue]
      BY <1>8, <2>3 DEF Affinity!Open, Affinity!Returns
    <3>2. code \in {"InvalidArgument", "PermissionDenied"}
      OBVIOUS
    <3> HIDE DEF code
    <3>3. /\ call' \in Calls /\ outcome' \in Returned
          /\ call'.at = "idle" /\ call'.target = 0 /\ outcome'.code = code
      BY <1>3, <3>1, <3>2, Back
    <3> QED BY <1>1, <1>2, <2>1, <3>2, <3>3 DEF WorldTypes, CallPlaces, HandleHolds, Undoing, Standing
  <2> QED BY <2>2, <2>3
<1>9. CASE Affinity!Read
  <2>1. call.at = "read" /\ (call.op = "set" => call.arg # Affinity!NoValue)
        /\ UNCHANGED <<api, names, next, setting, before, disturbed>>
    BY <1>9 DEF Affinity!Read, Affinity!World
  <2>2. CASE Affinity!Acted = 0 \/ Affinity!Acted # names
    <3>1. call' = Affinity!Idle /\ outcome' = [op |-> call.op, code |-> Affinity!Lost, prev |-> Affinity!NoValue]
      BY <1>9, <2>2 DEF Affinity!Read, Affinity!Returns
    <3>2. Affinity!Lost \in {"InvalidArgument", "IoError"}
      BY DEF Affinity!Lost
    <3>3. /\ call' \in Calls /\ outcome' \in Returned
          /\ call'.at = "idle" /\ call'.target = 0 /\ outcome'.code = Affinity!Lost
      BY <1>3, <3>1, <3>2, Back
    <3> QED BY <1>1, <1>2, <2>1, <3>2, <3>3 DEF WorldTypes, CallPlaces, HandleHolds, Undoing, Standing
  <2>3. CASE names # 0 /\ Affinity!Acted = names /\ call.op = "get"
    <3>1. call' = Affinity!Idle /\ outcome' = [op |-> "get", code |-> "ok", prev |-> setting[names]]
      BY <1>9, <2>3 DEF Affinity!Read, Affinity!Returns
    <3>2. /\ call' \in Calls /\ outcome' \in Returned /\ call'.at = "idle" /\ call'.target = 0
          /\ outcome'.op = "get" /\ outcome'.code = "ok" /\ outcome'.prev = setting[names]
      BY <1>1, <2>3, <3>1, Back
    <3>3. Undoing'
      BY <1>5, <2>1, <2>3, <3>2 DEF Undoing, Standing
    <3> QED BY <1>1, <1>2, <2>1, <3>2, <3>3 DEF WorldTypes, CallPlaces, HandleHolds
  <2>4. CASE names # 0 /\ Affinity!Acted = names /\ call.op = "set"
    <3>1. call' = [call EXCEPT !.at = "write", !.target = names, !.prev = setting[names]] /\ outcome' = outcome
      BY <1>9, <2>4 DEF Affinity!Read
    <3>2. /\ call' \in Calls /\ call'.at = "write" /\ call'.target = names /\ call'.op = call.op
          /\ call'.arg = call.arg /\ call'.prev = setting[names]
      BY <1>1, <1>2, <2>4, <3>1 DEF Calls
    <3>3. CallPlaces' /\ HandleHolds'
      BY <1>1, <1>3, <2>1, <2>4, <3>2 DEF CallPlaces, HandleHolds
    <3>4. Undoing'
      BY <1>5, <2>1, <3>2 DEF Undoing, Standing
    <3> QED BY <1>1, <1>2, <2>1, <3>1, <3>2, <3>3, <3>4 DEF WorldTypes
  <2> QED BY <1>3, <2>2, <2>3, <2>4
<1>10. ASSUME NEW granted \in BOOLEAN, Affinity!Write(granted) PROVE Goal
  <2>1. call.at = "write" /\ call.op = "set" /\ call.arg \in Values
        /\ UNCHANGED <<api, names, next, before, disturbed>>
    BY <1>5, <1>10 DEF Affinity!Write, CallPlaces
  <2>2. CASE granted /\ Affinity!Acted # 0 /\ Affinity!Acted = names
    <3>1. /\ call' = Affinity!Idle /\ outcome' = [op |-> "set", code |-> "ok", prev |-> call.prev]
          /\ setting' = [setting EXCEPT ![names] = call.arg]
      BY <1>10, <2>1, <2>2 DEF Affinity!Write, Affinity!Changes, Affinity!Returns
    <3>2. setting' \in [Affinity!Objects -> Values] /\ setting'[names] = call.arg
      BY <1>1, <2>1, <2>2, <3>1
    <3>3. /\ call' \in Calls /\ outcome' \in Returned /\ call'.at = "idle" /\ call'.target = 0
          /\ outcome'.op = "set" /\ outcome'.code = "ok" /\ outcome'.prev = call.prev
      BY <1>3, <3>1, Back
    <3>4. Undoing'
      BY <1>4, <1>5, <2>1, <3>2, <3>3 DEF Undoing, Standing
    <3> QED BY <1>1, <1>2, <2>1, <3>2, <3>3, <3>4 DEF WorldTypes, CallPlaces, HandleHolds
  <2>3. CASE ~(granted /\ Affinity!Acted # 0 /\ Affinity!Acted = names)
    <3>1. /\ call' = Affinity!Idle /\ outcome' = [op |-> "set", code |-> "IoError", prev |-> Affinity!NoValue]
          /\ setting' = setting
      BY <1>10, <2>1, <2>3 DEF Affinity!Write, Affinity!Returns
    <3>2. /\ call' \in Calls /\ outcome' \in Returned /\ call'.at = "idle" /\ call'.target = 0
          /\ outcome'.code = "IoError"
      BY <3>1, Back
    <3> QED BY <1>1, <1>2, <2>1, <3>1, <3>2 DEF WorldTypes, CallPlaces, HandleHolds, Undoing, Standing
  <2> QED BY <2>2, <2>3
<1>11. ASSUME NEW granted \in BOOLEAN, Affinity!Swap(granted) PROVE Goal
  <2> DEFINE arg == IF call.op = "get" THEN Wide ELSE call.arg
             done == granted /\ call.target = names /\ (arg = Wide => ~confined)
  <2>1. call.at = "swap" /\ call.target # 0 /\ api = "swap" /\ arg \in Values
        /\ UNCHANGED <<api, names, next, before, disturbed>>
    BY <1>3, <1>5, <1>11, ObjectsAre DEF Affinity!Swap, CallPlaces
  <2>2. CASE done
    <3>1. call.target = names /\ names # 0 /\ setting' = [setting EXCEPT ![names] = arg]
      BY <1>11, <2>1, <2>2 DEF Affinity!Swap, Affinity!Changes
    <3>2. setting' \in [Affinity!Objects -> Values] /\ setting[names] \in Values /\ setting'[names] = arg
      BY <1>1, <2>1, <3>1
    <3>3. CASE call.op = "set"
      <4>1. call' = Affinity!Idle /\ outcome' = [op |-> "set", code |-> "ok", prev |-> setting[names]]
        BY <1>11, <2>2, <3>1, <3>3 DEF Affinity!Swap, Affinity!Returns
      <4>2. /\ call' \in Calls /\ outcome' \in Returned /\ call'.at = "idle" /\ call'.target = 0
            /\ outcome'.op = "set" /\ outcome'.code = "ok" /\ outcome'.prev = setting[names]
        BY <3>2, <4>1, Back
      <4>3. Undoing'
        BY <1>4, <1>5, <2>1, <3>2, <3>3, <4>2 DEF Undoing, Standing
      <4> QED BY <1>1, <1>2, <2>1, <3>2, <4>2, <4>3 DEF WorldTypes, CallPlaces, HandleHolds
    <3>4. CASE call.op = "get"
      <4>1. call' = [call EXCEPT !.at = "back", !.prev = setting[names]] /\ outcome' = outcome
        BY <1>11, <2>2, <3>1, <3>4 DEF Affinity!Swap
      <4>2. /\ call' \in Calls /\ call'.at = "back" /\ call'.target = names /\ call'.op = "get"
            /\ call'.prev = setting[names]
        BY <1>2, <3>1, <3>2, <3>4, <4>1 DEF Calls
      <4>3. CallPlaces' /\ HandleHolds'
        BY <2>1, <3>1, <3>2, <4>2 DEF CallPlaces, HandleHolds
      <4>4. Undoing'
        BY <1>4, <1>5, <2>1, <3>2, <3>4, <4>2 DEF Undoing, Standing
      <4> QED BY <1>1, <1>2, <2>1, <3>1, <3>2, <4>1, <4>2, <4>3, <4>4 DEF WorldTypes
    <3> QED BY <1>3, <3>3, <3>4
  <2>3. CASE ~done
    <3>1. call' = Affinity!Idle /\ outcome' = [op |-> call.op, code |-> "IoError", prev |-> Affinity!NoValue]
          /\ setting' = setting
      BY <1>11, <2>3 DEF Affinity!Swap, Affinity!Returns
    <3>2. /\ call' \in Calls /\ outcome' \in Returned /\ call'.at = "idle" /\ call'.target = 0
          /\ outcome'.code = "IoError"
      BY <1>3, <3>1, Back
    <3> QED BY <1>1, <1>2, <2>1, <3>1, <3>2 DEF WorldTypes, CallPlaces, HandleHolds, Undoing, Standing
  <2> QED BY <2>2, <2>3
<1>12. ASSUME NEW granted \in BOOLEAN, Affinity!SwapBack(granted) PROVE Goal
  <2>1. /\ call.at = "back" /\ call.op = "get" /\ call' = Affinity!Idle
        /\ outcome' = [op |-> "get", code |-> "ok", prev |-> call.prev]
        /\ UNCHANGED <<api, names, next, disturbed>>
    BY <1>5, <1>12 DEF Affinity!SwapBack, Affinity!Returns, CallPlaces
  <2>2. call.target \in Affinity!Objects /\ call.prev \in Values /\ api = "swap" /\ call.target # 0
    BY <1>3, <1>5, <2>1, ObjectsAre DEF CallPlaces
  <2>3. /\ call' \in Calls /\ outcome' \in Returned /\ call'.at = "idle" /\ call'.target = 0
        /\ outcome'.op = "get" /\ outcome'.code = "ok" /\ outcome'.prev = call.prev
    BY <1>3, <2>1, <2>2, Back
  <2>4. CASE granted /\ call.target = names
    <3>1. setting' = [setting EXCEPT ![call.target] = call.prev] /\ before' = before
      BY <1>12, <2>4 DEF Affinity!SwapBack, Affinity!Changes, Affinity!Restored
    <3>2. setting' \in [Affinity!Objects -> Values] /\ setting'[call.target] = call.prev
      BY <1>1, <2>2, <3>1
    <3>3. Undoing'
      BY <1>5, <2>1, <2>3, <2>4, <3>1, <3>2 DEF Undoing, Standing
    <3> QED BY <1>1, <1>2, <2>1, <2>3, <3>1, <3>2, <3>3 DEF WorldTypes, CallPlaces, HandleHolds
  <2>5. CASE ~(granted /\ call.target = names)
    <3>1. before' = [before EXCEPT !.left = TRUE] /\ setting' = setting
      BY <1>12, <2>5 DEF Affinity!SwapBack
    <3>2. /\ before' \in Begun /\ before'.left /\ before'.object = before.object
          /\ before'.value = before.value /\ before'.undo = before.undo
      BY <1>2, <3>1 DEF Begun
    <3>3. Undoing'
      BY <1>5, <2>1, <2>3, <3>1, <3>2 DEF Undoing, Standing
    <3> QED BY <1>1, <1>2, <2>1, <2>3, <3>1, <3>2, <3>3 DEF WorldTypes, CallPlaces, HandleHolds
  <2> QED BY <2>4, <2>5
<1>13. CASE Affinity!Exits
  <2>1. names' = 0 /\ UNCHANGED <<api, next, setting, call, outcome, before, disturbed>>
    BY <1>13 DEF Affinity!Exits
  <2> QED BY <1>1, <1>2, <1>5, <2>1 DEF WorldTypes, CallPlaces, HandleHolds, Undoing, Standing
<1>14. CASE Affinity!Reused
  <2>1. /\ names' = next + 1 /\ next' = next + 1 /\ next < MaxObjects
        /\ (api # "id" => call.target = 0)
        /\ UNCHANGED <<api, setting, call, outcome, before, disturbed>>
    BY <1>14 DEF Affinity!Reused
  <2>2. next' \in Affinity!Objects /\ names' = next' /\ names' > next
    BY <1>1, <2>1, ObjectsAre
  <2>3. call'.target <= next' /\ before'.object <= next' /\ before'.object # names'
    BY <1>1, <1>2, <1>3, <1>4, <2>1
  <2> QED BY <1>1, <1>2, <1>5, <2>1, <2>2, <2>3 DEF WorldTypes, CallPlaces, HandleHolds, Undoing, Standing
<1>15. ASSUME NEW v \in Values, Affinity!OtherWrites(v) PROVE Goal
  <2>1. /\ names # 0 /\ setting' = [setting EXCEPT ![names] = v] /\ disturbed' = TRUE
        /\ UNCHANGED <<api, names, next, call, outcome, before>>
    BY <1>15 DEF Affinity!OtherWrites, Affinity!Changes
  <2>2. setting' \in [Affinity!Objects -> Values]
    BY <1>1, <2>1
  <2> QED BY <1>1, <1>2, <1>5, <2>1, <2>2 DEF WorldTypes, CallPlaces, HandleHolds, Undoing, Standing
<1> HIDE DEF Goal
<1> QED BY <1>6, <1>7, <1>8, <1>9, <1>10, <1>11, <1>12, <1>13, <1>14, <1>15 DEF Affinity!Next

(* Of a call, what it says of its undo is what the run asks.                *)
LEMMA CallsAreUndone == CallInv => Affinity!CallsCanBeUndone
<1> SUFFICES ASSUME CallInv, call.at = "idle", outcome.code = "ok", ~disturbed,
                    before.object = names, names # 0
             PROVE  /\ before.undo => setting[names] = before.value
                    /\ outcome.op = "get" =>
                         /\ outcome.prev = before.value
                         /\ setting[names] = before.value \/ (before.left /\ setting[names] = Wide)
  BY DEF Affinity!CallsCanBeUndone
<1>1. /\ before.undo => setting[names] = before.value
      /\ ~before.undo => outcome.prev = before.value
      /\ outcome.op = "get" =>
           /\ ~before.undo
           /\ setting[names] = before.value \/ (before.left /\ setting[names] = Wide)
  BY DEF CallInv, Undoing, Standing
<1>2. outcome.op = "get" =>
        /\ outcome.prev = before.value
        /\ setting[names] = before.value \/ (before.left /\ setting[names] = Wide)
  BY <1>1, Zenon
<1> QED BY <1>1, <1>2, Zenon

-----------------------------------------------------------------------------
(* What was tuned can be given back: TuningDaemon.                           *)

OfWindows == {"power", "timer", "workset", "boost"}
OfLinux == {"thp", "governor", "cstate", "irq"}
Readings == {"owner", "tuned", "other"}

(* A record holds what the owner or somebody else had, never what the tuner   *)
(* wrote; what is read of somebody else means that a setting was changed.     *)
Records == [op : OfWindows \cup OfLinux, old : {"owner", "other"}, new : {"tuned"}]
Kept(rs) ==
  /\ rs \in Seq(Records)
  /\ \A i \in DOMAIN rs : rs[i].old = "other" => changes > 0

SettingTypes ==
  /\ os \in [OfWindows -> Readings] \/ os \in [OfLinux -> Readings]
  /\ changes \in Nat
  /\ \A s \in DOMAIN os : os[s] = "other" => changes > 0
  /\ powercfg \subseteq {"owner", "other"} /\ ("other" \in powercfg => changes > 0)
  /\ Kept(records)
  /\ file = Tuning!NoFile \/ Kept(file)

(* Where the session is tells which of the two snapshots there is, and after   *)
(* the rollback of an orphan only a powercfg process is still owed.           *)
Sessions ==
  /\ step \in {"off", "recover", "remove", "apply", "run", "failed"}
  /\ step \in {"off", "recover", "remove", "failed"} => records = <<>>
  /\ step \in {"apply", "failed"} => file = Tuning!NoFile
  /\ step \in {"recover", "remove"} => file # Tuning!NoFile
  /\ step = "run" /\ ~exposed => file = records
  /\ step = "remove" /\ ~exposed =>
       \A s \in DOMAIN os \ {"timer", "thp"} : os[s] = "tuned" => s = "power" /\ powercfg # {}

TuningInv == SettingTypes /\ Sessions /\ Tuning!EverythingCanBeGivenBack

LEMMA Rolled ==
  ASSUME NEW rs, Kept(rs), NEW s, s \notin {"power", "thp", "timer"},
         NEW i \in DOMAIN rs, rs[i].op = s
  PROVE  \E j \in DOMAIN rs : rs[j].op = s /\ Tuning!RolledBack(rs, s) = rs[j].old
<1> DEFINE mine == {j \in DOMAIN rs : rs[j].op = s}
<1>1. DOMAIN rs \in SUBSET Nat
  BY DEF Kept
<1>2. mine \in SUBSET Nat /\ mine # {}
  BY <1>1
<1>3. \E m \in mine : \A k \in mine : m <= k
  <2> HIDE DEF mine
  <2> QED BY <1>2, Least
<1> DEFINE first == CHOOSE j \in mine : \A k \in mine : j <= k
<1>4. first \in mine
  <2> HIDE DEF mine
  <2> QED BY <1>3
<1>5. Tuning!RolledBack(rs, s) = rs[first].old
  BY <1>2 DEF Tuning!RolledBack
<1> HIDE DEF first
<1> QED BY <1>4, <1>5

LEMMA KeptAre ==
  ASSUME NEW rs, Kept(rs), NEW i \in DOMAIN rs
  PROVE  /\ rs[i] \in Records /\ rs[i].op \in OfWindows \cup OfLinux
         /\ rs[i].old \in {"owner", "other"} /\ (rs[i].old = "other" => changes > 0)
<1>1. rs \in Seq(Records)
  BY DEF Kept
<1>2. rs[i] \in Records
  <2> HIDE DEF Records
  <2> QED BY <1>1
<1>3. rs[i].op \in OfWindows \cup OfLinux /\ rs[i].old \in {"owner", "other"}
  BY <1>2 DEF Records
<1> QED BY <1>2, <1>3 DEF Kept

(* What a rollback leaves: the settings read what they may, those it restores  *)
(* are no longer tuned, and a record of the power scheme starts powercfg.      *)
LEMMA RolledAll ==
  ASSUME NEW rs, Kept(rs), SettingTypes, Tuning!RollbackAll(rs)
  PROVE  /\ os' \in [OfWindows -> Readings] \/ os' \in [OfLinux -> Readings]
         /\ DOMAIN os' = DOMAIN os
         /\ \A s \in DOMAIN os : os'[s] = "other" => changes > 0
         /\ powercfg' \subseteq {"owner", "other"} /\ ("other" \in powercfg' => changes > 0)
         /\ powercfg \subseteq powercfg'
         /\ \A s \in DOMAIN os \ {"timer", "thp"} :
              os'[s] = "tuned" => /\ os[s] = "tuned"
                                  /\ \A i \in DOMAIN rs : rs[i].op = s => s = "power" /\ powercfg' # {}
<1>1. os' = [s \in DOMAIN os |-> Tuning!RolledBack(rs, s)]
  BY DEF Tuning!RollbackAll
<1>2. powercfg' = powercfg \cup {rs[i].old : i \in {j \in DOMAIN rs : rs[j].op = "power"}}
  BY DEF Tuning!RollbackAll
<1>3. \A i \in DOMAIN rs : rs[i].old \in {"owner", "other"} /\ (rs[i].old = "other" => changes > 0)
  BY KeptAre
<1>4. ASSUME NEW s \in DOMAIN os
      PROVE  \/ Tuning!RolledBack(rs, s) = os[s]
             \/ \E j \in DOMAIN rs : Tuning!RolledBack(rs, s) = rs[j].old
  <2>1. CASE s \in {"power", "thp", "timer"} \/ {j \in DOMAIN rs : rs[j].op = s} = {}
    BY <2>1 DEF Tuning!RolledBack
  <2>2. CASE s \notin {"power", "thp", "timer"} /\ {j \in DOMAIN rs : rs[j].op = s} # {}
    <3>1. PICK i \in DOMAIN rs : rs[i].op = s
      BY <2>2
    <3> QED BY <2>2, <3>1, Rolled
  <2> QED BY <2>1, <2>2
<1>5. \A s \in DOMAIN os : os[s] \in Readings /\ (os[s] = "other" => changes > 0)
  BY DEF SettingTypes
<1>6. \A s \in DOMAIN os : os'[s] \in Readings /\ (os'[s] = "other" => changes > 0)
  <2> SUFFICES ASSUME NEW s \in DOMAIN os
               PROVE  os'[s] \in Readings /\ (os'[s] = "other" => changes > 0)
    OBVIOUS
  <2>1. os'[s] = Tuning!RolledBack(rs, s)
    BY <1>1
  <2>2. CASE Tuning!RolledBack(rs, s) = os[s]
    BY <2>1, <2>2, <1>5
  <2>3. CASE \E j \in DOMAIN rs : Tuning!RolledBack(rs, s) = rs[j].old
    BY <2>1, <2>3, <1>3 DEF Readings
  <2> QED BY <2>2, <2>3, <1>4
<1>7. DOMAIN os' = DOMAIN os
  BY <1>1
<1>8. os' \in [OfWindows -> Readings] \/ os' \in [OfLinux -> Readings]
  <2>1. os' = [s \in DOMAIN os |-> os'[s]]
    BY <1>1
  <2>2. DOMAIN os = OfWindows \/ DOMAIN os = OfLinux
    BY DEF SettingTypes
  <2> QED BY <2>1, <2>2, <1>6
<1>9. powercfg' \subseteq {"owner", "other"} /\ ("other" \in powercfg' => changes > 0)
  BY <1>2, <1>3 DEF SettingTypes
<1>10. ASSUME NEW s \in DOMAIN os \ {"timer", "thp"}, os'[s] = "tuned"
       PROVE  os[s] = "tuned" /\ \A i \in DOMAIN rs : rs[i].op = s => s = "power" /\ powercfg' # {}
  <2>1. Tuning!RolledBack(rs, s) = "tuned"
    BY <1>1, <1>10
  <2>2. os[s] = "tuned"
    BY <2>1, <1>4, <1>3
  <2>3. ASSUME NEW i \in DOMAIN rs, rs[i].op = s PROVE s = "power" /\ powercfg' # {}
    <3>1. s = "power"
      <4> SUFFICES ASSUME s # "power" PROVE FALSE
        OBVIOUS
      <4>1. \E j \in DOMAIN rs : rs[j].op = s /\ Tuning!RolledBack(rs, s) = rs[j].old
        BY <2>3, <1>10, Rolled
      <4> QED BY <4>1, <2>1, <1>3
    <3>2. rs[i].old \in powercfg'
      BY <3>1, <2>3, <1>2
    <3> QED BY <3>1, <3>2
  <2> QED BY <2>2, <2>3
<1> QED BY <1>2, <1>6, <1>7, <1>8, <1>9, <1>10

-----------------------------------------------------------------------------
LEMMA TuningBegins == ASSUME Tuning!Init PROVE TuningInv
<1>1. PICK p \in {Tuning!Windows, Tuning!Linux}, t \in {"owner", "tuned"} :
        os = [s \in {p[i] : i \in 1..4} |-> IF s = "timer" THEN t ELSE "owner"]
  BY DEF Tuning!Init
<1>2. {Tuning!Windows[i] : i \in 1..4} = OfWindows
  BY DEF Tuning!Windows, OfWindows
<1>3. {Tuning!Linux[i] : i \in 1..4} = OfLinux
  BY DEF Tuning!Linux, OfLinux
<1>4. {p[i] : i \in 1..4} \in {OfWindows, OfLinux}
  BY <1>2, <1>3
<1>5. /\ os \in [OfWindows -> Readings] \/ os \in [OfLinux -> Readings]
      /\ \A s \in DOMAIN os \ {"timer"} : os[s] = "owner"
      /\ \A s \in DOMAIN os : os[s] # "other"
  BY <1>1, <1>4 DEF Readings
<1>6. Kept(<<>>)
  BY DEF Kept
<1>7. SettingTypes
  BY <1>5, <1>6 DEF SettingTypes, Tuning!Init
<1>8. Sessions
  BY DEF Sessions, Tuning!Init
<1>9. Tuning!EverythingCanBeGivenBack
  BY <1>5 DEF Tuning!EverythingCanBeGivenBack
<1> QED BY <1>7, <1>8, <1>9 DEF TuningInv

(* A file that is there holds records as the session in memory does.           *)
LEMMA NoneOnNoFile ==
  ASSUME NEW s, s \in OfWindows \cup OfLinux
  PROVE  ~Tuning!OnRecord(Tuning!NoFile, s)
BY DEF Tuning!OnRecord, Tuning!NoFile, OfWindows, OfLinux

(* A record gives its setting back, for nothing but the owner's value or one   *)
(* that somebody else set.                                                    *)
LEMMA OnRecordIs ==
  ASSUME NEW rs, Kept(rs), NEW s
  PROVE  Tuning!OnRecord(rs, s) <=> \E i \in DOMAIN rs : rs[i].op = s
<1>1. ASSUME NEW i \in DOMAIN rs PROVE rs[i].old = "owner" \/ changes > 0
  BY KeptAre
<1> QED BY <1>1 DEF Tuning!OnRecord

LEMMA SettingNames ==
  ASSUME SettingTypes
  PROVE  \A s \in DOMAIN os : s \in OfWindows \cup OfLinux /\ os[s] \in Readings
BY DEF SettingTypes

LEMMA StartStep ==
  ASSUME TuningInv, Tuning!Start PROVE TuningInv'
<1>1. /\ step \in {"off", "failed"} /\ records' = <<>> /\ step' \in {"apply", "recover"}
      /\ step' = "apply" <=> file = Tuning!NoFile
      /\ UNCHANGED <<os, begun, powercfg, file, exposed, crashes, changes>>
  BY DEF Tuning!Start
<1>2. records = <<>>
  BY <1>1 DEF TuningInv, Sessions
<1>3. SettingTypes'
  BY <1>1, <1>2 DEF TuningInv, SettingTypes, Kept
<1>4. Sessions'
  BY <1>1 DEF TuningInv, Sessions, Tuning!NoFile
<1>5. Tuning!EverythingCanBeGivenBack'
  BY <1>1, <1>2 DEF TuningInv, Tuning!EverythingCanBeGivenBack, Tuning!OnRecord, Tuning!NoFile
<1> QED BY <1>3, <1>4, <1>5 DEF TuningInv

LEMMA RecoverStep ==
  ASSUME TuningInv, Tuning!Recover PROVE TuningInv'
<1>1. /\ step = "recover" /\ Tuning!RollbackAll(file) /\ step' = "remove"
      /\ UNCHANGED <<file, records, exposed, changes>>
  BY DEF Tuning!Recover
<1>2. Kept(file) /\ file # Tuning!NoFile /\ records = <<>>
  BY <1>1 DEF TuningInv, SettingTypes, Sessions
<1>3. SettingTypes
  BY DEF TuningInv
<1>4. /\ os' \in [OfWindows -> Readings] \/ os' \in [OfLinux -> Readings]
      /\ DOMAIN os' = DOMAIN os
      /\ \A s \in DOMAIN os : os'[s] = "other" => changes > 0
      /\ powercfg' \subseteq {"owner", "other"} /\ ("other" \in powercfg' => changes > 0)
      /\ powercfg \subseteq powercfg'
      /\ \A s \in DOMAIN os \ {"timer", "thp"} :
           os'[s] = "tuned" => /\ os[s] = "tuned"
                               /\ \A i \in DOMAIN file : file[i].op = s => s = "power" /\ powercfg' # {}
  BY <1>1, <1>2, <1>3, RolledAll
<1>5. SettingTypes'
  <2>1. Kept(records)' /\ Kept(file)' /\ changes' \in Nat
    BY <1>1, <1>2 DEF TuningInv, SettingTypes, Kept
  <2>2. \A s \in DOMAIN os' : os'[s] = "other" => changes' > 0
    BY <1>1, <1>4
  <2>3. powercfg' \subseteq {"owner", "other"} /\ ("other" \in powercfg' => changes' > 0)
    BY <1>1, <1>4
  <2> QED BY <2>1, <2>2, <2>3, <1>4 DEF SettingTypes
<1>6. ASSUME ~exposed, NEW s \in DOMAIN os \ {"timer", "thp"}, os'[s] = "tuned"
      PROVE  s = "power" /\ powercfg' # {}
  <2>1. os[s] = "tuned"
    BY <1>4, <1>6
  <2>2. Tuning!OnRecord(records, s) \/ Tuning!OnRecord(file, s) \/ (s = "power" /\ powercfg # {})
    BY <2>1, <1>6 DEF TuningInv, Tuning!EverythingCanBeGivenBack
  <2>3. ~Tuning!OnRecord(records, s)
    BY <1>2 DEF Tuning!OnRecord
  <2>4. CASE Tuning!OnRecord(file, s)
    <3>1. PICK i \in DOMAIN file : file[i].op = s
      BY <2>4 DEF Tuning!OnRecord
    <3> QED BY <3>1, <1>4, <1>6
  <2>5. CASE s = "power" /\ powercfg # {}
    BY <2>5, <1>4
  <2> QED BY <2>2, <2>3, <2>4, <2>5
<1>7. Sessions'
  <2>1. \A s \in DOMAIN os' \ {"timer", "thp"} :
          ~exposed /\ os'[s] = "tuned" => s = "power" /\ powercfg' # {}
    BY <1>4, <1>6
  <2> QED BY <2>1, <1>1, <1>2 DEF Sessions
<1>8. Tuning!EverythingCanBeGivenBack'
  <2>1. \A s \in DOMAIN os' \ {"timer", "thp"} :
          ~exposed /\ os'[s] = "tuned" => s = "power" /\ powercfg' # {}
    BY <1>4, <1>6
  <2> QED BY <2>1, <1>1 DEF Tuning!EverythingCanBeGivenBack
<1> QED BY <1>5, <1>7, <1>8 DEF TuningInv

LEMMA RemoveStep ==
  ASSUME TuningInv, Tuning!Remove PROVE TuningInv'
<1>1. /\ step = "remove" /\ file' = Tuning!NoFile /\ step' = "apply"
      /\ UNCHANGED <<os, powercfg, records, exposed, changes>>
  BY DEF Tuning!Remove
<1>2. SettingTypes'
  BY <1>1 DEF TuningInv, SettingTypes, Kept
<1>3. Sessions'
  BY <1>1 DEF Sessions
<1>4. Tuning!EverythingCanBeGivenBack'
  BY <1>1 DEF TuningInv, Sessions, Tuning!EverythingCanBeGivenBack
<1> QED BY <1>2, <1>3, <1>4 DEF TuningInv

LEMMA ApplyStep ==
  ASSUME TuningInv, NEW s \in DOMAIN os, Tuning!Apply(s) PROVE TuningInv'
<1>1. /\ step = "apply" /\ os[s] # "tuned" /\ records' = Append(records, Tuning!Record(s))
      /\ os' = IF s = "timer" THEN os ELSE [os EXCEPT ![s] = "tuned"]
      /\ UNCHANGED <<powercfg, file, step, exposed, changes>>
  BY DEF Tuning!Apply
<1>2. SettingTypes /\ s \in OfWindows \cup OfLinux /\ os[s] \in Readings
  BY SettingNames DEF TuningInv
<1>3. Tuning!Record(s) \in Records /\ Tuning!Record(s).op = s /\ Tuning!Record(s).old = os[s]
  BY <1>1, <1>2 DEF Tuning!Record, Records, Readings
<1>4. records \in Seq(Records)
  BY <1>2 DEF SettingTypes, Kept
<1>5. /\ records' \in Seq(Records)
      /\ DOMAIN records' = DOMAIN records \cup {Len(records) + 1}
      /\ \A i \in DOMAIN records : records'[i] = records[i]
      /\ records'[Len(records) + 1] = Tuning!Record(s)
  <2> HIDE DEF Records
  <2> QED BY <1>1, <1>3, <1>4
<1>6. Kept(records)'
  <2>1. \A i \in DOMAIN records' : records'[i].old = "other" => changes > 0
    <3>1. os[s] = "other" => changes > 0
      BY <1>2 DEF SettingTypes
    <3>2. \A i \in DOMAIN records : records[i].old = "other" => changes > 0
      BY <1>2 DEF SettingTypes, Kept
    <3> QED BY <3>1, <3>2, <1>3, <1>5
  <2> QED BY <2>1, <1>1, <1>5 DEF Kept
<1>7. /\ os' \in [OfWindows -> Readings] \/ os' \in [OfLinux -> Readings]
      /\ DOMAIN os' = DOMAIN os
      /\ \A r \in DOMAIN os : os'[r] = os[r] \/ (r = s /\ os'[r] = "tuned")
  BY <1>1, <1>2 DEF SettingTypes, Readings
<1>8. SettingTypes'
  <2>1. \A r \in DOMAIN os' : os'[r] = "other" => changes' > 0
    BY <1>1, <1>2, <1>7 DEF SettingTypes
  <2>2. file' = Tuning!NoFile \/ Kept(file)'
    BY <1>1, <1>2 DEF SettingTypes, Kept
  <2> QED BY <2>1, <2>2, <1>1, <1>2, <1>6, <1>7 DEF SettingTypes
<1>9. Sessions'
  BY <1>1 DEF TuningInv, Sessions
<1>10. Tuning!EverythingCanBeGivenBack'
  <2> SUFFICES ASSUME ~exposed, NEW r \in DOMAIN os \ {"timer", "thp"}, os'[r] = "tuned"
               PROVE  \/ Tuning!OnRecord(records, r)' \/ Tuning!OnRecord(file, r)
                      \/ r = "power" /\ powercfg # {}
    BY <1>1, <1>7 DEF Tuning!EverythingCanBeGivenBack, Tuning!OnRecord
  <2>1. CASE os[r] = "tuned"
    <3>1. \/ Tuning!OnRecord(records, r) \/ Tuning!OnRecord(file, r)
          \/ r = "power" /\ powercfg # {}
      BY <2>1 DEF TuningInv, Tuning!EverythingCanBeGivenBack
    <3>2. ASSUME Tuning!OnRecord(records, r) PROVE Tuning!OnRecord(records, r)'
      BY <3>2, <1>1, <1>5 DEF Tuning!OnRecord
    <3> QED BY <3>1, <3>2
  <2>2. CASE r = s
    <3>1. records'[Len(records) + 1].op = s
      BY <1>3, <1>5
    <3>2. os[s] = "owner" \/ changes > 0
      BY <1>1, <1>2 DEF SettingTypes, Readings
    <3> QED BY <3>1, <3>2, <2>2, <1>1, <1>3, <1>5 DEF Tuning!OnRecord
  <2> QED BY <2>1, <2>2, <1>7
<1> QED BY <1>8, <1>9, <1>10 DEF TuningInv

LEMMA FailStep ==
  ASSUME TuningInv, NEW s \in DOMAIN os, Tuning!ApplyFails(s) PROVE TuningInv'
<1>1. /\ step = "apply" /\ Tuning!RollbackAll(records) /\ records' = <<>> /\ step' = "failed"
      /\ UNCHANGED <<file, exposed, changes>>
  BY DEF Tuning!ApplyFails
<1>2. Kept(records) /\ file = Tuning!NoFile /\ SettingTypes
  BY <1>1 DEF TuningInv, SettingTypes, Sessions
<1>3. /\ os' \in [OfWindows -> Readings] \/ os' \in [OfLinux -> Readings]
      /\ DOMAIN os' = DOMAIN os
      /\ \A r \in DOMAIN os : os'[r] = "other" => changes > 0
      /\ powercfg' \subseteq {"owner", "other"} /\ ("other" \in powercfg' => changes > 0)
      /\ powercfg \subseteq powercfg'
      /\ \A r \in DOMAIN os \ {"timer", "thp"} :
           os'[r] = "tuned" => /\ os[r] = "tuned"
                               /\ \A i \in DOMAIN records :
                                    records[i].op = r => r = "power" /\ powercfg' # {}
  BY <1>1, <1>2, RolledAll
<1>4. SettingTypes'
  <2>1. Kept(records)'
    BY <1>1 DEF Kept
  <2>2. \A r \in DOMAIN os' : os'[r] = "other" => changes' > 0
    BY <1>1, <1>3
  <2>3. powercfg' \subseteq {"owner", "other"} /\ ("other" \in powercfg' => changes' > 0)
    BY <1>1, <1>3
  <2>4. changes' \in Nat /\ file' = Tuning!NoFile
    BY <1>1, <1>2 DEF SettingTypes
  <2> QED BY <2>1, <2>2, <2>3, <2>4, <1>3 DEF SettingTypes
<1>5. Sessions'
  BY <1>1, <1>2 DEF Sessions
<1>6. ASSUME ~exposed, NEW r \in DOMAIN os \ {"timer", "thp"}, os'[r] = "tuned"
      PROVE  r = "power" /\ powercfg' # {}
  <2>1. os[r] = "tuned" /\ r \in OfWindows \cup OfLinux
    BY <1>2, <1>3, <1>6, SettingNames
  <2>2. Tuning!OnRecord(records, r) \/ Tuning!OnRecord(file, r) \/ (r = "power" /\ powercfg # {})
    BY <2>1, <1>6 DEF TuningInv, Tuning!EverythingCanBeGivenBack
  <2>3. ~Tuning!OnRecord(file, r)
    BY <1>2, <2>1, NoneOnNoFile
  <2>4. CASE Tuning!OnRecord(records, r)
    <3>1. PICK i \in DOMAIN records : records[i].op = r
      BY <2>4 DEF Tuning!OnRecord
    <3> QED BY <3>1, <1>3, <1>6
  <2>5. CASE r = "power" /\ powercfg # {}
    BY <2>5, <1>3
  <2> QED BY <2>2, <2>3, <2>4, <2>5
<1>7. Tuning!EverythingCanBeGivenBack'
  <2>1. \A r \in DOMAIN os' \ {"timer", "thp"} :
          ~exposed /\ os'[r] = "tuned" => r = "power" /\ powercfg' # {}
    BY <1>3, <1>6
  <2> QED BY <2>1, <1>1 DEF Tuning!EverythingCanBeGivenBack
<1> QED BY <1>4, <1>5, <1>7 DEF TuningInv

LEMMA SkipStep ==
  ASSUME TuningInv, NEW s \in DOMAIN os, Tuning!Skip(s) PROVE TuningInv'
<1>1. UNCHANGED <<os, powercfg, file, records, step, exposed, changes>>
  BY DEF Tuning!Skip
<1>2. SettingTypes'
  BY <1>1 DEF TuningInv, SettingTypes, Kept
<1>3. Sessions'
  BY <1>1 DEF TuningInv, Sessions
<1>4. Tuning!EverythingCanBeGivenBack'
  BY <1>1 DEF TuningInv, Tuning!EverythingCanBeGivenBack, Tuning!OnRecord
<1> QED BY <1>2, <1>3, <1>4 DEF TuningInv

LEMMA SaveStep ==
  ASSUME TuningInv, Tuning!Save PROVE TuningInv'
<1>1. /\ step = "apply" /\ step' = "run"
      /\ (file' = records /\ exposed' = exposed) \/ (exposed' = TRUE /\ file' = file)
      /\ UNCHANGED <<os, powercfg, records, changes>>
  BY DEF Tuning!Save
<1>2. SettingTypes'
  BY <1>1 DEF TuningInv, SettingTypes, Kept
<1>3. Sessions'
  BY <1>1 DEF Sessions
<1>4. Tuning!EverythingCanBeGivenBack'
  <2>1. CASE exposed'
    BY <2>1 DEF Tuning!EverythingCanBeGivenBack
  <2>2. CASE ~exposed'
    <3>1. file = Tuning!NoFile /\ ~exposed
      BY <1>1, <2>2 DEF TuningInv, Sessions
    <3>2. ASSUME NEW s \in DOMAIN os \ {"timer", "thp"}, os[s] = "tuned"
          PROVE  Tuning!OnRecord(records, s) \/ (s = "power" /\ powercfg # {})
      <4>1. s \in OfWindows \cup OfLinux
        BY SettingNames DEF TuningInv
      <4> QED BY <4>1, <3>1, <3>2, NoneOnNoFile DEF TuningInv, Tuning!EverythingCanBeGivenBack
    <3> QED BY <3>2, <1>1 DEF Tuning!EverythingCanBeGivenBack, Tuning!OnRecord
  <2> QED BY <2>1, <2>2
<1> QED BY <1>2, <1>3, <1>4 DEF TuningInv

LEMMA ReapplyStep ==
  ASSUME TuningInv, Tuning!Reapply PROVE TuningInv'
<1>1. /\ step = "run"
      /\ os' = [s \in DOMAIN os |-> IF s \in Tuning!Done \ {"timer"} THEN Tuning!Reapplied(s) ELSE os[s]]
      /\ UNCHANGED <<powercfg, file, records, step, exposed, changes>>
  BY DEF Tuning!Reapply
<1>2. SettingTypes
  BY DEF TuningInv
<1>3. /\ DOMAIN os' = DOMAIN os
      /\ \A s \in DOMAIN os : \/ os'[s] = os[s]
                            \/ (os'[s] \in {"owner", "tuned"} /\ s \in Tuning!Done)
  <2>1. \A s : Tuning!Reapplied(s) \in {"owner", "tuned"}
    BY DEF Tuning!Reapplied
  <2> QED BY <1>1, <2>1
<1>4. os' \in [OfWindows -> Readings] \/ os' \in [OfLinux -> Readings]
  <2>1. os' = [s \in DOMAIN os |-> os'[s]]
    BY <1>1
  <2>2. DOMAIN os = OfWindows \/ DOMAIN os = OfLinux
    BY <1>2 DEF SettingTypes
  <2>3. \A s \in DOMAIN os : os'[s] \in Readings
    BY <1>2, <1>3, SettingNames DEF Readings
  <2> QED BY <2>1, <2>2, <2>3
<1>5. SettingTypes'
  <2>1. \A s \in DOMAIN os' : os'[s] = "other" => changes' > 0
    BY <1>1, <1>2, <1>3 DEF SettingTypes
  <2> QED BY <2>1, <1>1, <1>2, <1>4 DEF SettingTypes, Kept
<1>6. Sessions'
  BY <1>1 DEF TuningInv, Sessions
<1>7. Tuning!EverythingCanBeGivenBack'
  <2> SUFFICES ASSUME ~exposed, NEW s \in DOMAIN os \ {"timer", "thp"}, os'[s] = "tuned"
               PROVE  \/ Tuning!OnRecord(records, s) \/ Tuning!OnRecord(file, s)
                      \/ s = "power" /\ powercfg # {}
    BY <1>1, <1>3 DEF Tuning!EverythingCanBeGivenBack, Tuning!OnRecord
  <2>1. CASE s \in Tuning!Done
    <3>1. Kept(records)
      BY <1>2 DEF SettingTypes
    <3>2. \E i \in DOMAIN records : records[i].op = s
      BY <2>1 DEF Tuning!Done
    <3> QED BY <3>1, <3>2, OnRecordIs
  <2>2. CASE os'[s] = os[s]
    BY <2>2 DEF TuningInv, Tuning!EverythingCanBeGivenBack
  <2> QED BY <2>1, <2>2, <1>3
<1> QED BY <1>5, <1>6, <1>7 DEF TuningInv

LEMMA StopStep ==
  ASSUME TuningInv, Tuning!Stop PROVE TuningInv'
<1>1. /\ step' = "off" /\ records' = <<>> /\ file' = Tuning!NoFile /\ exposed' = TRUE
      /\ UNCHANGED <<os, powercfg, changes>>
  BY DEF Tuning!Stop
<1>2. SettingTypes'
  BY <1>1 DEF TuningInv, SettingTypes, Kept
<1>3. Sessions'
  BY <1>1 DEF Sessions
<1>4. Tuning!EverythingCanBeGivenBack'
  BY <1>1 DEF Tuning!EverythingCanBeGivenBack
<1> QED BY <1>2, <1>3, <1>4 DEF TuningInv

LEMMA PowercfgStep ==
  ASSUME TuningInv, NEW v \in powercfg, Tuning!Powercfg(v) PROVE TuningInv'
<1>1. /\ powercfg' = powercfg \ {v} /\ os' = [os EXCEPT !["power"] = v]
      /\ UNCHANGED <<file, records, step, exposed, changes>>
  BY DEF Tuning!Powercfg
<1>2. SettingTypes /\ v \in {"owner", "other"} /\ (v = "other" => changes > 0)
  BY DEF TuningInv, SettingTypes
<1>3. /\ os' \in [OfWindows -> Readings] \/ os' \in [OfLinux -> Readings]
      /\ DOMAIN os' = DOMAIN os
      /\ \A s \in DOMAIN os : IF s = "power" THEN os'[s] = v ELSE os'[s] = os[s]
  BY <1>1, <1>2 DEF SettingTypes, Readings
<1>4. SettingTypes'
  <2>1. \A s \in DOMAIN os' : os'[s] = "other" => changes' > 0
    BY <1>1, <1>2, <1>3 DEF SettingTypes
  <2> QED BY <2>1, <1>1, <1>2, <1>3 DEF SettingTypes, Kept
<1>5. \A s \in DOMAIN os' : os'[s] = "tuned" => s # "power" /\ os[s] = "tuned"
  BY <1>2, <1>3
<1>6. Sessions'
  BY <1>1, <1>3, <1>5 DEF TuningInv, Sessions
<1>7. Tuning!EverythingCanBeGivenBack'
  BY <1>1, <1>3, <1>5 DEF TuningInv, Tuning!EverythingCanBeGivenBack, Tuning!OnRecord
<1> QED BY <1>4, <1>6, <1>7 DEF TuningInv

LEMMA ChangedStep ==
  ASSUME TuningInv, NEW s \in DOMAIN os, Tuning!Changed(s) PROVE TuningInv'
<1>1. /\ changes' = changes + 1 /\ os' = [os EXCEPT ![s] = "other"]
      /\ UNCHANGED <<powercfg, file, records, step, exposed>>
  BY DEF Tuning!Changed
<1>2. SettingTypes /\ changes' \in Nat /\ changes' > 0
  BY <1>1 DEF TuningInv, SettingTypes
<1>3. /\ os' \in [OfWindows -> Readings] \/ os' \in [OfLinux -> Readings]
      /\ DOMAIN os' = DOMAIN os
      /\ \A r \in DOMAIN os : os'[r] = "tuned" => os[r] = "tuned"
  BY <1>1, <1>2 DEF SettingTypes, Readings
<1>4. SettingTypes'
  BY <1>1, <1>2, <1>3 DEF SettingTypes, Kept
<1>5. Sessions'
  BY <1>1, <1>3 DEF TuningInv, Sessions
<1>6. Tuning!EverythingCanBeGivenBack'
  BY <1>1, <1>2, <1>3 DEF TuningInv, Tuning!EverythingCanBeGivenBack, Tuning!OnRecord
<1> QED BY <1>4, <1>5, <1>6 DEF TuningInv

LEMMA CrashStep ==
  ASSUME TuningInv, Tuning!Crash PROVE TuningInv'
<1>1. /\ step # "off" /\ step' = "off" /\ records' = <<>>
      /\ os' = [s \in DOMAIN os |-> IF s \in Tuning!OwnProcess \ {"timer"} THEN "owner" ELSE os[s]]
      /\ exposed' = (exposed \/ (step = "apply" /\ records # <<>>))
      /\ UNCHANGED <<powercfg, file, changes>>
  BY DEF Tuning!Crash
<1>2. SettingTypes
  BY DEF TuningInv
<1>3. /\ DOMAIN os' = DOMAIN os
      /\ \A s \in DOMAIN os : os'[s] = os[s] \/ os'[s] = "owner"
  BY <1>1
<1>4. os' \in [OfWindows -> Readings] \/ os' \in [OfLinux -> Readings]
  <2>1. os' = [s \in DOMAIN os |-> os'[s]]
    BY <1>1
  <2>2. DOMAIN os = OfWindows \/ DOMAIN os = OfLinux
    BY <1>2 DEF SettingTypes
  <2>3. \A s \in DOMAIN os : os'[s] \in Readings
    BY <1>2, <1>3, SettingNames DEF Readings
  <2> QED BY <2>1, <2>2, <2>3
<1>5. SettingTypes'
  <2>1. \A s \in DOMAIN os' : os'[s] = "other" => changes' > 0
    BY <1>1, <1>2, <1>3 DEF SettingTypes
  <2> QED BY <2>1, <1>1, <1>2, <1>4 DEF SettingTypes, Kept
<1>6. Sessions'
  BY <1>1 DEF Sessions
<1>7. Tuning!EverythingCanBeGivenBack'
  <2> SUFFICES ASSUME ~exposed', NEW s \in DOMAIN os \ {"timer", "thp"}, os'[s] = "tuned"
               PROVE  Tuning!OnRecord(file, s) \/ (s = "power" /\ powercfg # {})
    BY <1>1, <1>3 DEF Tuning!EverythingCanBeGivenBack, Tuning!OnRecord
  <2>1. os[s] = "tuned" /\ ~exposed /\ (step = "apply" => records = <<>>)
    BY <1>1, <1>3
  <2>2. \/ Tuning!OnRecord(records, s) \/ Tuning!OnRecord(file, s)
        \/ s = "power" /\ powercfg # {}
    BY <2>1 DEF TuningInv, Tuning!EverythingCanBeGivenBack
  <2>3. records = <<>> => ~Tuning!OnRecord(records, s)
    BY DEF Tuning!OnRecord
  <2>4. records = <<>> \/ file = records
    BY <2>1 DEF TuningInv, Sessions
  <2> QED BY <2>2, <2>3, <2>4
<1> QED BY <1>5, <1>6, <1>7 DEF TuningInv

LEMMA TuningStep == ASSUME TuningInv, Tuning!Next PROVE TuningInv'
BY StartStep, RecoverStep, RemoveStep, SaveStep, ReapplyStep, StopStep, CrashStep, ApplyStep,
   SkipStep, FailStep, ChangedStep, PowercfgStep DEF Tuning!Next

-----------------------------------------------------------------------------
(* The event-trace session (EtwSession).                                    *)

EtwPlaces == {"off", "loop", "done", "starting", "consume", "joining", "closing"}

(* What each record holds: its fields, and nothing else.                    *)
EtwRecords ==
  /\ agent = [at |-> agent.at, admin |-> agent.admin, life |-> agent.life]
  /\ session = [handle |-> session.handle, opened |-> session.opened, thread |-> session.thread,
                cb |-> session.cb, snapshot |-> session.snapshot]
  /\ tier = [current |-> tier.current, desired |-> tier.desired, pending |-> tier.pending,
             count |-> tier.count]

(* Where the agent's thread is says which tier is committed.                 *)
TierInv ==
  /\ agent.at \in EtwPlaces /\ agent.admin \in BOOLEAN
  /\ tier.current \in Etw!Tiers /\ tier.count \in Nat
  /\ wish.tier \in Etw!Tiers /\ wish.ticks \in Nat
  /\ tier.desired = tier.current \/ (tier.desired = "off" /\ agent.at \in {"done", "joining", "closing"})
  /\ agent.at \in {"starting", "consume"} => tier.current # "none"
  /\ agent.at \in {"joining", "closing", "done"} => tier.current = "none"

(* A wish that is not the tier is being counted, from its first tick on.     *)
WishInv ==
  agent.admin /\ agent.at # "off" /\ tier.desired # "off" =>
    IF wish.tier = tier.desired THEN tier.count = 0
    ELSE tier.pending = wish.tier /\ tier.count = wish.ticks /\ wish.ticks < Settle

(* The session of that name is the agent's own, wherever it is between the   *)
(* start of one and the next, and where the tier is none there is none.      *)
SessionInv ==
  agent.admin =>
    /\ agent.at \in {"loop", "done", "consume", "joining", "closing"} /\ kernel # 0 =>
         session.handle = kernel
    /\ agent.at \in {"loop", "done"} /\ tier.current = "none" => kernel = 0

EtwInv == EtwRecords /\ TierInv /\ WishInv /\ SessionInv

LEMMA EtwBegins == Etw!Init => EtwInv
<1> SUFFICES ASSUME Etw!Init PROVE EtwInv
  OBVIOUS
<1>1. /\ agent = [at |-> "off", admin |-> FALSE, life |-> 0] /\ kernel = 0
      /\ wish = [tier |-> "none", ticks |-> 0]
      /\ session = [handle |-> 0, opened |-> 0, thread |-> 0, cb |-> FALSE, snapshot |-> FALSE]
      /\ tier = [current |-> "none", desired |-> "none", pending |-> "none", count |-> 0]
  BY DEF Etw!Init, Etw!NoTier, Etw!Closed
<1>2. EtwRecords
  BY <1>1 DEF EtwRecords
<1>3. TierInv
  BY <1>1 DEF TierInv, EtwPlaces, Etw!Tiers
<1>4. WishInv /\ SessionInv
  BY <1>1 DEF WishInv, SessionInv
<1> QED
  BY <1>2, <1>3, <1>4 DEF EtwInv

LEMMA SettleIs == Settle \in Nat \ {0}
BY AgentPartsAssumption DEF AgentPartsAssumption, Etw!EtwAssumption

LEMMA Moves ==
  ASSUME EtwRecords, NEW place, Etw!At(place)
  PROVE  /\ agent' = [at |-> place, admin |-> agent.admin, life |-> agent.life]
         /\ agent'.at = place /\ agent'.admin = agent.admin
<1>1. agent' = [at |-> place, admin |-> agent.admin, life |-> agent.life]
  BY DEF EtwRecords, Etw!At
<1> QED
  BY <1>1

(* A tick: the tier changes for what was wished for over Settle ticks.       *)
LEMMA TickIs ==
  ASSUME EtwInv, NEW targets \in BOOLEAN, NEW idle \in BOOLEAN, Etw!Tick(targets, idle)
  PROVE  EtwInv' /\ (tier'.current # tier.current => wish'.ticks >= Settle)
<1>1. PICK want \in Etw!Tiers :
        /\ agent.at = "loop" /\ UNCHANGED <<session, kernel>>
        /\ wish' = [tier |-> want, ticks |-> IF want # wish.tier THEN 1
                                            ELSE IF wish.ticks < Settle THEN wish.ticks + 1 ELSE wish.ticks]
        /\ IF agent.admin THEN Etw!OnWorkloadChanged(want) ELSE UNCHANGED <<tier, agent>>
  <2>1. \A state : Etw!ProviderSetFor(state) \in Etw!Tiers
    BY DEF Etw!ProviderSetFor, Etw!Tiers
  <2> QED BY <2>1 DEF Etw!Tick
<1>2. /\ wish'.tier = want /\ wish'.ticks \in Nat
      /\ wish'.ticks = IF want # wish.tier THEN 1
                       ELSE IF wish.ticks < Settle THEN wish.ticks + 1 ELSE wish.ticks
  BY <1>1 DEF EtwInv, TierInv
<1>3. tier.desired = tier.current /\ tier.current \in Etw!Tiers /\ tier.count \in Nat /\ tier.desired # "off"
  BY <1>1 DEF EtwInv, TierInv, Etw!Tiers
<1>r. session = session' /\ EtwRecords
  BY <1>1 DEF EtwInv
<1>4. CASE ~agent.admin
  <2>1. UNCHANGED <<tier, agent>>
    BY <1>1, <1>4
  <2> QED
    BY <1>1, <1>2, <1>4, <2>1 DEF EtwInv, EtwRecords, TierInv, WishInv, SessionInv
<1>5. CASE agent.admin /\ want = tier.desired
  <2>1. tier' = [tier EXCEPT !.count = 0] /\ Etw!At("loop")
    BY <1>1, <1>5 DEF Etw!OnWorkloadChanged
  <2>2. tier' = [current |-> tier.current, desired |-> tier.desired, pending |-> tier.pending, count |-> 0]
    BY <2>1 DEF EtwInv, EtwRecords
  <2>3. agent'.at = "loop" /\ agent'.admin = agent.admin
        /\ agent' = [at |-> "loop", admin |-> agent.admin, life |-> agent.life]
    BY <2>1, Moves DEF EtwInv
  <2>4. /\ tier'.current = tier.current /\ tier'.desired = tier.desired
        /\ tier'.pending = tier.pending /\ tier'.count = 0
    BY <2>2
  <2>5. EtwRecords'
    BY <2>2, <2>3, <1>r DEF EtwRecords
  <2>6. TierInv'
    BY <1>1, <1>2, <1>3, <1>5, <2>3, <2>4 DEF TierInv, EtwPlaces
  <2>7. WishInv'
    BY <1>2, <1>5, <2>4 DEF WishInv
  <2>8. SessionInv'
    BY <1>1, <2>3, <2>4 DEF EtwInv, SessionInv
  <2> QED BY <2>4, <2>5, <2>6, <2>7, <2>8 DEF EtwInv
<1>6. CASE agent.admin /\ want # tier.desired
  <2> DEFINE n == IF want = tier.pending THEN tier.count + 1 ELSE 1
  <2>1. Etw!Counted(want) = [current |-> tier.current, desired |-> tier.desired, pending |-> want, count |-> n]
    <3>1. Etw!Counted(want) = [tier EXCEPT !.pending = want, !.count = n]
      BY DEF Etw!Counted
    <3> HIDE DEF n
    <3>2. tier = [current |-> tier.current, desired |-> tier.desired, pending |-> tier.pending,
                  count |-> tier.count]
      BY DEF EtwInv, EtwRecords
    <3> QED BY <3>1, <3>2
  <2>2. n = wish'.ticks
    <3>1. CASE wish.tier = tier.desired
      BY <1>2, <1>3, <1>6, <1>1, <3>1 DEF EtwInv, WishInv
    <3>2. CASE wish.tier # tier.desired
      BY <1>2, <1>3, <1>6, <1>1, <3>2 DEF EtwInv, WishInv
    <3> QED BY <3>1, <3>2
  <2> HIDE DEF n
  <2>3. CASE n < Settle
    <3>1. tier' = Etw!Counted(want) /\ Etw!At("loop")
      BY <1>1, <1>6, <2>1, <2>3 DEF Etw!OnWorkloadChanged
    <3>2. tier' = [current |-> tier.current, desired |-> tier.desired, pending |-> want, count |-> n]
      BY <2>1, <3>1
    <3>3. agent'.at = "loop" /\ agent'.admin = agent.admin
          /\ agent' = [at |-> "loop", admin |-> agent.admin, life |-> agent.life]
      BY <3>1, Moves DEF EtwInv
    <3>4. /\ tier'.current = tier.current /\ tier'.desired = tier.desired
          /\ tier'.pending = want /\ tier'.count = n
      BY <3>2
    <3>5. EtwRecords'
      BY <3>2, <3>3, <1>r DEF EtwRecords
    <3>6. TierInv'
      BY <1>1, <1>2, <1>3, <1>6, <2>2, <3>3, <3>4 DEF TierInv, EtwPlaces
    <3>7. WishInv'
      BY <1>2, <1>6, <2>2, <2>3, <3>4 DEF WishInv
    <3>8. SessionInv'
      BY <1>1, <3>3, <3>4 DEF EtwInv, SessionInv
    <3> QED BY <3>4, <3>5, <3>6, <3>7, <3>8 DEF EtwInv
  <2>4. CASE ~(n < Settle)
    <3>1. tier' = Etw!Committed(want) /\ Etw!At(Etw!Begin(tier.current, want))
      BY <1>1, <1>6, <2>1, <2>4 DEF Etw!OnWorkloadChanged
    <3>2. wish'.ticks >= Settle
      BY <1>2, <2>2, <2>4, SettleIs
    <3>3. tier' = [current |-> want, desired |-> want, pending |-> want, count |-> 0]
      BY <3>1 DEF Etw!Committed
    <3>4. tier'.current = want /\ tier'.desired = want /\ tier'.count = 0
      BY <3>3
    <3>5. /\ agent'.admin = agent.admin /\ agent'.at = Etw!Begin(tier.current, want)
          /\ agent' = [at |-> Etw!Begin(tier.current, want), admin |-> agent.admin, life |-> agent.life]
      BY <3>1, Moves DEF EtwInv
    <3>6. EtwRecords'
      BY <3>3, <3>5, <1>r DEF EtwRecords
    <3>7. /\ Etw!Begin(tier.current, want) \in {"starting", "joining", "loop"}
          /\ Etw!Begin(tier.current, want) = "starting" => want # "none"
          /\ Etw!Begin(tier.current, want) = "joining" => want = "none"
          /\ Etw!Begin(tier.current, want) = "loop" => want # "none"
      BY <1>3, <1>6 DEF Etw!Begin
    <3>8. TierInv'
      BY <1>1, <1>2, <1>6, <3>4, <3>5, <3>7 DEF TierInv, EtwPlaces
    <3>9. WishInv'
      BY <1>2, <3>4 DEF WishInv
    <3>10. SessionInv'
      BY <1>1, <3>4, <3>5, <3>7 DEF EtwInv, SessionInv
    <3> QED BY <3>2, <3>6, <3>8, <3>9, <3>10 DEF EtwInv
  <2> QED BY <2>3, <2>4
<1> QED BY <1>4, <1>5, <1>6

(* The steps of the agent's thread that leave the tier and the wish alone:   *)
(* what they do to the session keeps it the agent's own.                    *)
LEMMA TierStands ==
  ASSUME NEW place, EtwInv, Etw!At(place), UNCHANGED <<tier, wish>>, EtwRecords',
         \/ agent.at = "consume" /\ place = "loop"
         \/ agent.at = "joining" /\ place = "closing"
         \/ agent.at = "closing" /\ place = "done"
         \/ agent.at = "closing" /\ place = "loop" /\ tier.desired # "off",
         agent.admin /\ kernel' # 0 => session'.handle = kernel',
         agent.admin /\ agent.at = "closing" => kernel' = 0
  PROVE  EtwInv' /\ Etw!Commits
<1>1. /\ agent'.at = place /\ agent'.admin = agent.admin
      /\ tier' = tier /\ wish' = wish
  BY Moves DEF EtwInv
<1>3. TierInv'
  BY <1>1 DEF EtwInv, TierInv, EtwPlaces
<1>4. WishInv'
  BY <1>1 DEF EtwInv, WishInv
<1>5. SessionInv'
  BY <1>1 DEF EtwInv, TierInv, SessionInv
<1> QED
  BY <1>1, <1>3, <1>4, <1>5 DEF EtwInv, Etw!Commits

LEMMA EtwStep ==
  ASSUME EtwInv, Etw!Next
  PROVE  EtwInv' /\ Etw!Commits
<1>a. EtwRecords
  BY DEF EtwInv
<1>1. ASSUME NEW admin \in BOOLEAN, Etw!Launch(admin) PROVE EtwInv' /\ Etw!Commits
  <2>1. /\ agent' = [at |-> IF admin THEN "starting" ELSE "loop", admin |-> admin, life |-> agent.life + 1]
        /\ session' = [handle |-> 0, opened |-> 0, thread |-> 0, cb |-> FALSE, snapshot |-> FALSE]
        /\ tier' = IF admin THEN Etw!Committed("full") ELSE Etw!NoTier
        /\ wish' = [tier |-> tier'.current, ticks |-> 0] /\ agent.at = "off"
    BY <1>1 DEF Etw!Launch, Etw!Closed
  <2> DEFINE first == IF admin THEN "full" ELSE "none"
  <2>2. tier' = [current |-> first, desired |-> first, pending |-> first, count |-> 0]
    BY <2>1 DEF Etw!Committed, Etw!NoTier
  <2>3. /\ tier'.current = first /\ tier'.desired = first /\ tier'.count = 0
        /\ agent'.at = (IF admin THEN "starting" ELSE "loop") /\ agent'.admin = admin
    BY <2>1, <2>2
  <2>4. wish'.tier = first /\ wish'.ticks = 0
    BY <2>1, <2>3
  <2>5. EtwRecords'
    BY <2>1, <2>2 DEF EtwRecords
  <2>6. TierInv'
    BY <2>3, <2>4 DEF TierInv, EtwPlaces, Etw!Tiers
  <2>7. WishInv' /\ SessionInv'
    <3>1. admin => agent'.at = "starting"
      BY <2>3
    <3> QED BY <2>3, <2>4, <3>1 DEF WishInv, SessionInv
  <2> QED BY <2>1, <2>5, <2>6, <2>7 DEF EtwInv, Etw!Commits
<1>2. ASSUME NEW targets \in BOOLEAN, NEW idle \in BOOLEAN, Etw!Tick(targets, idle)
      PROVE  EtwInv' /\ Etw!Commits
  BY <1>2, TickIs DEF Etw!Commits
<1>3. ASSUME NEW granted \in BOOLEAN, Etw!StartTrace(granted) PROVE EtwInv' /\ Etw!Commits
  <2> DEFINE given == granted /\ Etw!StopByName = 0 /\ started < MaxSessions
             h == IF given THEN started + 1 ELSE 0
             place == IF given THEN "consume" ELSE "loop"
  <2>1. /\ agent.at = "starting" /\ UNCHANGED <<tier, wish>> /\ kernel' = h
        /\ session' = [session EXCEPT !.snapshot = TRUE, !.handle = h] /\ Etw!At(place)
    BY <1>3 DEF Etw!StartTrace, Etw!StopByName
  <2> HIDE DEF given, h
  <2>2. session' = [handle |-> h, opened |-> session.opened, thread |-> session.thread,
                    cb |-> session.cb, snapshot |-> TRUE]
    BY <1>a, <2>1 DEF EtwRecords
  <2>3. /\ agent'.at = place /\ agent'.admin = agent.admin
        /\ agent' = [at |-> place, admin |-> agent.admin, life |-> agent.life]
    BY <1>a, <2>1, Moves
  <2>4. session'.handle = kernel' /\ place \in {"consume", "loop"}
    BY <2>1, <2>2
  <2>5. EtwRecords'
    BY <1>a, <2>1, <2>2, <2>3 DEF EtwRecords
  <2>6. tier.current # "none" /\ tier.desired = tier.current
    BY <2>1 DEF EtwInv, TierInv
  <2>7. TierInv'
    BY <2>1, <2>3, <2>4, <2>6 DEF EtwInv, TierInv, EtwPlaces
  <2>8. WishInv'
    BY <2>1, <2>3 DEF EtwInv, WishInv
  <2>9. SessionInv'
    BY <2>1, <2>4, <2>6 DEF SessionInv
  <2> QED BY <2>1, <2>5, <2>7, <2>8, <2>9 DEF EtwInv, Etw!Commits
<1>4. CASE Etw!StartConsumer
  <2>1. /\ agent.at = "consume" /\ Etw!At("loop") /\ UNCHANGED <<tier, wish, kernel>>
        /\ session' = [session EXCEPT !.thread = session.handle, !.cb = TRUE]
    BY <1>4 DEF Etw!StartConsumer
  <2>2. session' = [handle |-> session.handle, opened |-> session.opened, thread |-> session.handle,
                    cb |-> TRUE, snapshot |-> session.snapshot]
    BY <1>a, <2>1 DEF EtwRecords
  <2>3. EtwRecords' /\ session'.handle = session.handle
    <3>1. agent' = [at |-> agent'.at, admin |-> agent'.admin, life |-> agent'.life]
      BY <1>a, <2>1, Moves
    <3> QED BY <1>a, <2>1, <2>2, <3>1 DEF EtwRecords
  <2>4. agent.admin /\ kernel' # 0 => session'.handle = kernel'
    BY <2>1, <2>3 DEF EtwInv, SessionInv
  <2> QED BY <2>1, <2>3, <2>4, TierStands
<1>5. CASE Etw!NoConsumer
  <2>1. /\ agent.at = "consume" /\ Etw!At("loop") /\ UNCHANGED <<tier, wish>>
        /\ kernel' = IF kernel = session.handle THEN 0 ELSE kernel
        /\ session' = [session EXCEPT !.handle = 0]
    BY <1>5 DEF Etw!NoConsumer
  <2>2. session' = [handle |-> 0, opened |-> session.opened, thread |-> session.thread,
                    cb |-> session.cb, snapshot |-> session.snapshot]
    BY <1>a, <2>1 DEF EtwRecords
  <2>3. EtwRecords'
    <3>1. agent' = [at |-> agent'.at, admin |-> agent'.admin, life |-> agent'.life]
      BY <1>a, <2>1, Moves
    <3> QED BY <1>a, <2>1, <2>2, <3>1 DEF EtwRecords
  <2>4. agent.admin => kernel' = 0
    BY <2>1 DEF EtwInv, SessionInv
  <2> QED BY <2>1, <2>3, <2>4, TierStands
<1>6. CASE Etw!JoinConsumer
  <2> DEFINE told == IF session.thread = 0 THEN session.cb ELSE FALSE
  <2>1. /\ agent.at = "joining" /\ Etw!At("closing") /\ UNCHANGED <<tier, wish, kernel>>
        /\ session' = [session EXCEPT !.thread = 0, !.cb = told]
    BY <1>6 DEF Etw!JoinConsumer
  <2> HIDE DEF told
  <2>2. session' = [handle |-> session.handle, opened |-> session.opened, thread |-> 0,
                    cb |-> told, snapshot |-> session.snapshot]
    BY <1>a, <2>1 DEF EtwRecords
  <2>3. EtwRecords' /\ session'.handle = session.handle
    <3>1. agent' = [at |-> agent'.at, admin |-> agent'.admin, life |-> agent'.life]
      BY <1>a, <2>1, Moves
    <3> QED BY <1>a, <2>1, <2>2, <3>1 DEF EtwRecords
  <2>4. agent.admin /\ kernel' # 0 => session'.handle = kernel'
    BY <2>1, <2>3 DEF EtwInv, SessionInv
  <2> QED BY <2>1, <2>3, <2>4, TierStands
<1>7. CASE Etw!StopTrace
  <2> DEFINE place == IF tier.desired = "off" THEN "done" ELSE "loop"
  <2>1. /\ agent.at = "closing" /\ Etw!At(place) /\ UNCHANGED <<tier, wish>>
        /\ kernel' = IF session.handle = kernel THEN 0 ELSE kernel
        /\ session' = [session EXCEPT !.handle = 0, !.snapshot = FALSE]
    BY <1>7 DEF Etw!StopTrace, Etw!StopOwn
  <2>2. session' = [handle |-> 0, opened |-> session.opened, thread |-> session.thread,
                    cb |-> session.cb, snapshot |-> FALSE]
    BY <1>a, <2>1 DEF EtwRecords
  <2>3. EtwRecords'
    <3>1. agent' = [at |-> agent'.at, admin |-> agent'.admin, life |-> agent'.life]
      BY <1>a, <2>1, Moves
    <3> QED BY <1>a, <2>1, <2>2, <3>1 DEF EtwRecords
  <2>4. agent.admin => kernel' = 0
    BY <2>1 DEF EtwInv, SessionInv
  <2>5. place = "done" \/ (place = "loop" /\ tier.desired # "off")
    OBVIOUS
  <2> QED BY <2>1, <2>3, <2>4, <2>5, TierStands
<1>8. CASE Etw!Shutdown
  <2> DEFINE place == IF tier.current = "none" THEN "done" ELSE "joining"
  <2>1. /\ agent.at = "loop" /\ Etw!At(place) /\ UNCHANGED <<session, kernel, wish>>
        /\ tier' = [Etw!NoTier EXCEPT !.desired = "off"]
    BY <1>8 DEF Etw!Shutdown
  <2>2. tier' = [current |-> "none", desired |-> "off", pending |-> "none", count |-> 0]
    BY <2>1 DEF Etw!NoTier
  <2>3. /\ agent'.at = place /\ agent'.admin = agent.admin
        /\ agent' = [at |-> place, admin |-> agent.admin, life |-> agent.life]
    BY <1>a, <2>1, Moves
  <2>4. tier'.current = "none" /\ tier'.desired = "off" /\ tier'.count = 0
    BY <2>2
  <2>5. EtwRecords'
    BY <1>a, <2>1, <2>2, <2>3 DEF EtwRecords
  <2>6. TierInv'
    BY <2>1, <2>3, <2>4 DEF EtwInv, TierInv, EtwPlaces, Etw!Tiers
  <2>7. WishInv'
    BY <2>4 DEF WishInv
  <2>8. SessionInv'
    BY <2>1, <2>3, <2>4 DEF EtwInv, SessionInv
  <2> QED BY <2>4, <2>5, <2>6, <2>7, <2>8 DEF EtwInv, Etw!Commits
<1>9. CASE Etw!Exit \/ Etw!Crash
  <2>1. /\ Etw!At("off") /\ UNCHANGED <<kernel, wish>>
        /\ tier' = [current |-> "none", desired |-> "none", pending |-> "none", count |-> 0]
        /\ session' = [handle |-> 0, opened |-> 0, thread |-> 0, cb |-> FALSE, snapshot |-> FALSE]
    BY <1>9 DEF Etw!Exit, Etw!Crash, Etw!Gone, Etw!NoTier, Etw!Closed, Etw!At
  <2>2. /\ agent'.at = "off" /\ agent'.admin = agent.admin
        /\ agent' = [at |-> "off", admin |-> agent.admin, life |-> agent.life]
    BY <1>a, <2>1, Moves
  <2>3. tier'.current = "none" /\ tier'.desired = "none" /\ tier'.count = 0
    BY <2>1
  <2>4. EtwRecords'
    BY <1>a, <2>1, <2>2 DEF EtwRecords
  <2>5. TierInv'
    BY <2>1, <2>2, <2>3 DEF EtwInv, TierInv, EtwPlaces, Etw!Tiers
  <2>6. WishInv' /\ SessionInv'
    BY <2>2 DEF WishInv, SessionInv
  <2> QED BY <2>2, <2>4, <2>5, <2>6 DEF EtwInv, Etw!Commits
<1>10. ASSUME NEW s \in Etw!Sessions, Etw!Ends(s) \/ \E granted \in BOOLEAN : Etw!Open(s, granted)
       PROVE  EtwInv' /\ Etw!Commits
  <2>1. PICK trace : UNCHANGED <<agent, tier, kernel, wish>> /\ session' = [session EXCEPT !.opened = trace]
    BY <1>10 DEF Etw!Ends, Etw!Open
  <2>2. session' = [handle |-> session.handle, opened |-> trace, thread |-> session.thread,
                    cb |-> session.cb, snapshot |-> session.snapshot]
    BY <1>a, <2>1 DEF EtwRecords
  <2>3. EtwRecords' /\ session'.handle = session.handle
    BY <1>a, <2>1, <2>2 DEF EtwRecords
  <2> QED BY <2>1, <2>3 DEF EtwInv, TierInv, WishInv, SessionInv, Etw!Commits
<1>11. CASE Etw!StoppedByOther
  <2>1. kernel' = 0 /\ UNCHANGED <<agent, tier, session, wish>>
    BY <1>11 DEF Etw!StoppedByOther
  <2> QED BY <2>1 DEF EtwInv, EtwRecords, TierInv, WishInv, SessionInv, Etw!Commits
<1> QED
  BY <1>1, <1>2, <1>3, <1>4, <1>5, <1>6, <1>7, <1>8, <1>9, <1>10, <1>11 DEF Etw!Next

LEMMA EtwIsSound == EtwInv => Etw!NoStraySession /\ Etw!Settled
<1> SUFFICES ASSUME EtwInv PROVE Etw!NoStraySession /\ Etw!Settled
  OBVIOUS
<1>1. Etw!NoStraySession
  BY DEF EtwInv, SessionInv, Etw!NoStraySession, Etw!Quiet
<1>2. Etw!Settled
  BY SettleIs DEF EtwInv, TierInv, WishInv, Etw!Tiers, Etw!Settled
<1> QED
  BY <1>1, <1>2

-----------------------------------------------------------------------------
(* The anti-cheat oracle (AcOracle).                                        *)

ListIsRecord ==
  list = [step |-> list.step, at |-> list.at, room |-> list.room, got |-> list.got]

(* What the listing has got so far, between what ran throughout and what ran *)
(* at some time; and while nothing moves, the second call gets it all.       *)
ListInv ==
  /\ ListIsRecord /\ running \subseteq Oracle!Names
  /\ list.step \in {"off", "services", "done", "refused"}
  /\ list.step # "off" =>
       /\ list.got \subseteq ever /\ always \subseteq ever /\ always \cap Drivers \subseteq list.got
       /\ answer = Oracle!NoAnswer => running \subseteq ever
       /\ always = ever /\ list.step = "done" => always \subseteq list.got
       /\ always = ever /\ answer = Oracle!NoAnswer => running = always
       /\ always = ever /\ list.step = "services" =>
            list.at = 1 /\ (list.room = 0 \/ list.room = Cardinality(Oracle!From(1)))

AnswerInv == answer # Oracle!NoAnswer => list.step \in {"done", "refused"}

OracleInv == ListInv /\ AnswerInv /\ Oracle!GateIsRight

LEMMA ServicesAre ==
  ASSUME NEW S \in SUBSET DOMAIN Services
  PROVE  /\ Services \in Seq(Oracle!ToSet(Services))
         /\ Cardinality(S) \in Nat
         /\ \A i \in DOMAIN Services : i >= 1
         /\ \A n \in Oracle!ToSet(Services) : \E i \in DOMAIN Services : Services[i] = n
<1>1. Services \in Seq(Oracle!ToSet(Services))
  BY AgentPartsAssumption DEF AgentPartsAssumption, Oracle!OracleAssumption
<1>2. DOMAIN Services = 1 .. Len(Services) /\ Len(Services) \in Nat
  BY <1>1
<1>3. IsFiniteSet(DOMAIN Services)
  BY <1>2, FS_Interval
<1>4. Cardinality(S) \in Nat
  BY <1>3, FS_Subset, FS_CardinalityType
<1> QED
  BY <1>1, <1>2, <1>4 DEF Oracle!ToSet

LEMMA OracleBegins == Oracle!Init => OracleInv
BY DEF Oracle!Init, Oracle!Off, OracleInv, ListInv, ListIsRecord, AnswerInv, Oracle!GateIsRight

LEMMA OracleCount == ASSUME NEW S PROVE Oracle!Cardinality(S) = Cardinality(S)
  BY DEF Oracle!Cardinality, Cardinality

(* A call of the listing: while nothing moves it is the first and asks for    *)
(* room, or the second and gets everything.                                 *)
LEMMA ListingStep ==
  ASSUME OracleInv, Oracle!EnumerateServices
  PROVE  OracleInv'
<1> DEFINE todo == Oracle!From(list.at)
           first == Oracle!First(todo, list.room)
<1>1. list.step = "services" /\ UNCHANGED <<running, game, answer, always, ever>>
  BY DEF Oracle!EnumerateServices
<1>2. answer = Oracle!NoAnswer
  BY <1>1 DEF OracleInv, AnswerInv
<1>3. /\ todo \in SUBSET DOMAIN Services /\ \A i \in todo : Services[i] \in running
      /\ Oracle!Cardinality(todo) \in Nat
  <2>1. todo \in SUBSET DOMAIN Services /\ \A i \in todo : Services[i] \in running
    BY DEF Oracle!From
  <2>2. Cardinality(todo) \in Nat
    BY <2>1, ServicesAre
  <2> QED BY <2>1, <2>2, OracleCount
<1>4. /\ list.got \subseteq ever /\ always \subseteq ever /\ always \cap Drivers \subseteq list.got
      /\ running \subseteq ever /\ running \subseteq Oracle!Names
      /\ always = ever => running = always /\ list.at = 1
      /\ always = ever => list.room = 0 \/ list.room = Oracle!Cardinality(Oracle!From(1))
  BY <1>1, <1>2, OracleCount DEF OracleInv, ListInv
<1>5. list = [step |-> list.step, at |-> list.at, room |-> list.room, got |-> list.got]
  BY DEF OracleInv, ListInv, ListIsRecord
<1>6. AnswerInv' /\ Oracle!GateIsRight'
  BY <1>1, <1>2 DEF AnswerInv, Oracle!GateIsRight
<1>7. CASE Oracle!Cardinality(todo) > list.room
  <2> DEFINE room == list.room + Oracle!Cardinality(todo) - Oracle!Cardinality(first)
             place == IF list.room = 0 THEN list.at ELSE 1 + CHOOSE i \in first : \A j \in first : j <= i
  <2>1. list' = [list EXCEPT !.room = room, !.at = place]
    BY <1>7 DEF Oracle!EnumerateServices, Oracle!MoreData
  <2>2. always = ever => room = Oracle!Cardinality(todo) /\ place = 1 /\ list.at = 1
    <3> SUFFICES ASSUME always = ever PROVE room = Oracle!Cardinality(todo) /\ place = 1 /\ list.at = 1
      OBVIOUS
    <3>1. list.room = 0 /\ list.at = 1
      BY <1>3, <1>4, <1>7
    <3>2. \A i : Oracle!Cardinality({j \in todo : j < i}) \in Nat
      <4>1. \A i : {j \in todo : j < i} \in SUBSET DOMAIN Services
        BY <1>3
      <4> QED BY <4>1, ServicesAre, OracleCount
    <3>3. first = {}
      BY <3>1, <3>2 DEF Oracle!First
    <3>4. Oracle!Cardinality({}) = 0
      BY OracleCount, FS_EmptySet
    <3> QED BY <1>3, <3>1, <3>3, <3>4
  <2> HIDE DEF room, place
  <2>3. list' = [step |-> list.step, at |-> place, room |-> room, got |-> list.got]
    BY <1>5, <2>1
  <2>4. /\ list'.step = "services" /\ list'.at = place /\ list'.room = room /\ list'.got = list.got
        /\ ListIsRecord'
    BY <1>1, <2>3 DEF ListIsRecord
  <2>5. always = ever => list'.at = 1 /\ list'.room = Cardinality(Oracle!From(1)')
    BY <1>1, <2>2, <2>4, OracleCount DEF Oracle!From
  <2>6. ListInv'
    BY <1>1, <1>4, <2>4, <2>5 DEF ListInv
  <2> QED BY <1>6, <2>6 DEF OracleInv
<1>8. CASE ~(Oracle!Cardinality(todo) > list.room)
  <2> DEFINE got == list.got \cup {Services[i] : i \in todo}
  <2>1. list' = [list EXCEPT !.step = "done", !.got = got]
    BY <1>8 DEF Oracle!EnumerateServices, Oracle!Drained
  <2>2. got \subseteq ever /\ list.got \subseteq got
    BY <1>3, <1>4
  <2>3. always = ever => always \subseteq got
    <3> SUFFICES ASSUME always = ever, NEW n \in always PROVE n \in got
      OBVIOUS
    <3>1. n \in running /\ list.at = 1 /\ (n \in Drivers \/ n \in Oracle!ToSet(Services))
      BY <1>4 DEF Oracle!Names
    <3>2. CASE n \in Drivers
      BY <1>4, <2>2, <3>2
    <3>3. CASE n \in Oracle!ToSet(Services)
      <4>1. PICK i \in DOMAIN Services : Services[i] = n /\ i >= 1
        BY <3>3, ServicesAre
      <4>2. i \in todo
        BY <3>1, <4>1 DEF Oracle!From
      <4> QED BY <4>1, <4>2
    <3> QED BY <3>1, <3>2, <3>3
  <2> HIDE DEF got
  <2>4. list' = [step |-> "done", at |-> list.at, room |-> list.room, got |-> got]
    BY <1>5, <2>1
  <2>5. list'.step = "done" /\ list'.got = got /\ ListIsRecord'
    BY <2>4 DEF ListIsRecord
  <2>6. ListInv'
    BY <1>1, <1>4, <2>2, <2>3, <2>5 DEF ListInv
  <2> QED BY <1>6, <2>6 DEF OracleInv
<1> QED
  BY <1>7, <1>8

(* The answer: of the title, or of what the listing got.                     *)
LEMMA AnswerStep ==
  ASSUME OracleInv, Oracle!Answer
  PROVE  OracleInv'
<1>1. /\ list.step \in {"done", "refused"} /\ answer = Oracle!NoAnswer
      /\ answer' = Oracle!decide(game, list.got)
      /\ UNCHANGED <<running, list, game, always, ever>>
  BY DEF Oracle!Answer
<1>2. /\ list.got \subseteq ever /\ always \cap Drivers \subseteq list.got
      /\ always = ever /\ list.step = "done" => always \subseteq list.got
  BY <1>1 DEF OracleInv, ListInv
<1>3. \A g \in DOMAIN Titles : Titles[g] \notin {"None", "none yet"}
  BY AgentPartsAssumption DEF AgentPartsAssumption, Oracle!OracleAssumption
<1>4. ListInv' /\ AnswerInv'
  BY <1>1 DEF OracleInv, ListInv, ListIsRecord, AnswerInv, Oracle!From
<1>5. Oracle!GateIsRight'
  <2>1. CASE game \in DOMAIN Titles
    BY <1>1, <1>3, <2>1 DEF Oracle!decide, Oracle!classify_title, Oracle!GateIsRight
  <2>2. CASE game \notin DOMAIN Titles
    <3>1. answer' = IF Oracle!Active(list.got) THEN "UnknownAc" ELSE "None"
      BY <1>1, <2>2 DEF Oracle!decide, Oracle!classify_title, Oracle!Active
    <3>2. Oracle!probe_allowed(answer') <=> ~Oracle!Active(list.got)
      BY <3>1 DEF Oracle!probe_allowed
    <3>3. Oracle!Active(list.got) => \E n \in ever : (n \in Marked \/ n \in DOMAIN Known) /\ ~Oracle!Resident(n)
      BY <1>2 DEF Oracle!Active, Oracle!name_indicates_active_ac
    <3>4. \A some : some \subseteq list.got /\ Oracle!Active(some) => Oracle!Active(list.got)
      BY DEF Oracle!Active
    <3> QED BY <1>1, <1>2, <2>2, <3>2, <3>3, <3>4 DEF Oracle!GateIsRight
  <2> QED BY <2>1, <2>2
<1> QED
  BY <1>4, <1>5 DEF OracleInv

LEMMA OracleStep ==
  ASSUME OracleInv, Oracle!Next
  PROVE  OracleInv'
<1>1. CASE Oracle!EnumerateDrivers
  <2>1. /\ answer = Oracle!NoAnswer /\ always' = running /\ ever' = running
        /\ list' = [step |-> "services", at |-> 1, room |-> 0, got |-> running \cap Drivers]
        /\ UNCHANGED <<running, game, answer>>
    BY <1>1 DEF Oracle!EnumerateDrivers
  <2>2. /\ list'.step = "services" /\ list'.at = 1 /\ list'.room = 0 /\ list'.got = running \cap Drivers
        /\ ListIsRecord'
    BY <2>1 DEF ListIsRecord
  <2>3. ListInv'
    BY <2>1, <2>2 DEF OracleInv, ListInv
  <2> QED BY <2>1, <2>3 DEF OracleInv, AnswerInv, Oracle!GateIsRight
<1>2. CASE Oracle!NoManager
  <2>1. list.step = "services" /\ list' = [list EXCEPT !.step = "refused"]
        /\ UNCHANGED <<running, game, answer, always, ever>>
    BY <1>2 DEF Oracle!NoManager
  <2>2. list' = [step |-> "refused", at |-> list.at, room |-> list.room, got |-> list.got]
    BY <2>1 DEF OracleInv, ListInv, ListIsRecord
  <2>3. list'.step = "refused" /\ list'.got = list.got /\ ListIsRecord'
    BY <2>2 DEF ListIsRecord
  <2>4. ListInv'
    BY <2>1, <2>3 DEF OracleInv, ListInv
  <2> QED BY <2>1, <2>4 DEF OracleInv, AnswerInv, Oracle!GateIsRight
<1>3. ASSUME NEW n \in Oracle!Names, Oracle!Moves(n) PROVE OracleInv'
  <2>1. /\ answer = Oracle!NoAnswer /\ always' = always \ {n} /\ ever' = ever \cup {n}
        /\ running' \subseteq running \cup {n} /\ UNCHANGED <<list, game, answer>>
    BY <1>3 DEF Oracle!Moves
  <2>2. always' # ever'
    BY <2>1
  <2>3. ListInv'
    BY <1>3, <2>1, <2>2 DEF OracleInv, ListInv, ListIsRecord
  <2> QED BY <2>1, <2>3 DEF OracleInv, AnswerInv, Oracle!GateIsRight
<1> QED
  BY <1>1, <1>2, <1>3, ListingStep, AnswerStep DEF Oracle!Next

-----------------------------------------------------------------------------
(* The corral and another program that manages affinities (Corral).         *)

(* The scan that is remembered is as old as the counter says, the first is   *)
(* made before there is a quiet mode, and nobody is chosen when a scan that   *)
(* an optimizer has outlived would have found it.                            *)
ScanInv ==
  /\ counter \in 0 .. CoexistEvery - 1 /\ ran \in Nat
  /\ coexist \in BOOLEAN /\ optimizer \in BOOLEAN /\ quiet \in BOOLEAN /\ scanned \in BOOLEAN
  /\ ~scanned => counter = 0 /\ ~quiet
  /\ ran > 0 => optimizer
  /\ ran > 0 /\ ~coexist => IF counter = 0 THEN ran < CoexistEvery ELSE ran < counter
  /\ pending # {} => scanned /\ ran < CoexistEvery

LEMMA ScansApart == CoexistEvery \in Nat /\ CoexistEvery > 1
BY AgentPartsAssumption DEF AgentPartsAssumption, Outside!CorralAssumption

LEMMA ScanBegins == Outside!Init => ScanInv
<1> SUFFICES ASSUME Outside!Init PROVE ScanInv
  OBVIOUS
<1>1. /\ quiet = FALSE /\ optimizer \in BOOLEAN /\ counter = 0 /\ coexist = FALSE
      /\ ran = 0 /\ scanned = FALSE /\ pending = {}
  BY DEF Outside!Init
<1>2. counter \in 0 .. CoexistEvery - 1 /\ ran \in Nat /\ ~(ran > 0) /\ counter = 0
  BY <1>1, ScansApart
<1>3. coexist \in BOOLEAN /\ quiet \in BOOLEAN /\ scanned \in BOOLEAN /\ ~quiet
  BY <1>1
<1> QED
  BY <1>1, <1>2, <1>3 DEF ScanInv

LEMMA ScanStep ==
  ASSUME ScanInv, Outside!Next
  PROVE  /\ ScanInv'
         /\ \A p \in Background : p \in held' \ held => scanned /\ ran < CoexistEvery
<1>1. CASE Outside!Tick
  <2>1. /\ coexist' = Outside!FullScan /\ counter' = Outside!NextScan
        /\ UNCHANGED <<quiet, optimizer, held>>
        /\ ran' = IF quiet \/ ~optimizer THEN 0 ELSE IF ran < CoexistEvery THEN ran + 1 ELSE ran
        /\ scanned' = (scanned \/ (counter = 0 /\ ~quiet))
    BY <1>1 DEF Outside!Tick
  <2>2. pending' # {} => ~quiet /\ ~Outside!FullScan
    BY <1>1 DEF Outside!Tick, Outside!Chosen, Outside!coexist_optimizer_present
  <2>3. scanned'
    BY <2>1 DEF ScanInv
  <2>4. pending' # {} => ran' < CoexistEvery
    BY <2>1, <2>2, ScansApart DEF ScanInv, Outside!FullScan
  <2>5. ScanInv'
    BY <2>1, <2>3, <2>4, ScansApart DEF ScanInv, Outside!FullScan, Outside!NextScan
  <2> QED BY <2>1, <2>5
<1>2. ASSUME NEW on \in BOOLEAN, NEW keep \in BOOLEAN, Outside!SetCorralLive(on, keep)
      PROVE  ScanInv' /\ held' \subseteq held
  BY <1>2 DEF Outside!SetCorralLive, ScanInv
<1>3. ASSUME NEW on \in BOOLEAN, Outside!SetQuiet(on)
      PROVE  ScanInv' /\ held' \subseteq held
  BY <1>3 DEF Outside!SetQuiet, ScanInv
<1>4. ASSUME NEW on \in BOOLEAN, Outside!OptimizerRuns(on)
      PROVE  ScanInv' /\ held' \subseteq held
  BY <1>4, ScansApart DEF Outside!OptimizerRuns, ScanInv
<1>5. ASSUME NEW p \in Background, Outside!Recycled(p)
      PROVE  ScanInv' /\ held' \subseteq held
  BY <1>5 DEF Outside!Recycled, ScanInv
<1>6. ASSUME NEW p \in Background, Outside!Skip(p) \/ Outside!Refuse(p)
      PROVE  ScanInv' /\ held' \subseteq held
  BY <1>6 DEF Outside!Skip, Outside!Refuse, ScanInv
<1>7. ASSUME NEW p \in Background, Outside!Accept(p)
      PROVE  ScanInv' /\ scanned /\ ran < CoexistEvery
  BY <1>7 DEF Outside!Accept, ScanInv
<1> QED
  BY <1>1, <1>2, <1>3, <1>4, <1>5, <1>6, <1>7 DEF Outside!Next

(* What the table says of a process whose entry nobody took: it has counted   *)
(* all its refusals, and stands for the passes that are still to go.         *)
Entries == [0 .. AdviceLogSlots - 1 -> [pid: Nat, fails: Nat, left: Nat]]

Counted(p) ==
  LET e == fail[Outside!Slot(p)] IN
  p \notin evicted /\ refusals[p] > 0 =>
    /\ e.pid = p /\ e.fails >= refusals[p] /\ refusals[p] <= FailMax
    /\ e.fails >= FailMax => e.left = Outside!Never
    /\ e.left = Outside!Never \/ since[p] + e.left >= FailBackoff

TableInv ==
  /\ fail \in Entries
  /\ refusals \in [Background -> Nat] /\ since \in [Background -> Nat]
  /\ \A p \in Background : Counted(p)

LEMMA BackoffIs == /\ {AdviceLogSlots, FailMax, FailBackoff} \subseteq Nat \ {0}
                   /\ Background \subseteq Nat \ {0}
BY AgentPartsAssumption DEF AgentPartsAssumption, Outside!CorralAssumption

LEMMA SlotIs == ASSUME NEW p \in Background PROVE Outside!Slot(p) \in 0 .. AdviceLogSlots - 1
BY BackoffIs DEF Outside!Slot

LEMMA TableBegins == Outside!Init => TableInv
<1> SUFFICES ASSUME Outside!Init PROVE TableInv
  OBVIOUS
<1>1. /\ fail = [s \in 0 .. AdviceLogSlots - 1 |-> Outside!NoFail]
      /\ refusals = [p \in Background |-> 0] /\ since = [p \in Background |-> FailBackoff]
  BY DEF Outside!Init
<1>2. fail \in Entries
  BY <1>1 DEF Entries, Outside!NoFail
<1>3. \A p \in Background : Counted(p)
  BY <1>1 DEF Counted
<1> QED
  BY <1>1, <1>2, <1>3, BackoffIs DEF TableInv

(* A pass begins: each entry has one pass less to go.                         *)
LEMMA TableAges ==
  ASSUME TableInv, Outside!Tick
  PROVE  TableInv' /\ refusals' = refusals
<1>1. /\ fail' = Outside!Aged(fail) /\ refusals' = refusals /\ evicted' = evicted
      /\ since' = [p \in Background |-> IF since[p] < FailBackoff THEN since[p] + 1 ELSE since[p]]
  BY DEF Outside!Tick
<1>2. ASSUME NEW s \in 0 .. AdviceLogSlots - 1
      PROVE  /\ fail'[s] \in [pid: Nat, fails: Nat, left: Nat]
             /\ fail'[s].pid = fail[s].pid /\ fail'[s].fails = fail[s].fails
             /\ fail'[s].left = IF fail[s].left \in {0, Outside!Never} THEN fail[s].left
                                ELSE fail[s].left - 1
  <2> DEFINE l == IF fail[s].left \in {0, Outside!Never} THEN fail[s].left ELSE fail[s].left - 1
  <2>1. fail[s] \in [pid: Nat, fails: Nat, left: Nat] /\ DOMAIN fail = 0 .. AdviceLogSlots - 1
    BY DEF TableInv, Entries
  <2>2. fail'[s] = [fail[s] EXCEPT !.left = l]
    BY <1>1, <2>1 DEF Outside!Aged
  <2>3. l \in Nat
    BY <2>1
  <2> HIDE DEF l
  <2>4. /\ fail'[s] \in [pid: Nat, fails: Nat, left: Nat]
        /\ fail'[s].pid = fail[s].pid /\ fail'[s].fails = fail[s].fails /\ fail'[s].left = l
    BY <2>1, <2>2, <2>3
  <2> QED
    BY <2>4 DEF l
<1>3. fail' \in Entries
  <2>1. DOMAIN fail = 0 .. AdviceLogSlots - 1
    BY DEF TableInv, Entries
  <2>2. fail' = [s \in 0 .. AdviceLogSlots - 1 |-> fail'[s]]
    BY <1>1, <2>1 DEF Outside!Aged
  <2> QED
    BY <1>2, <2>2 DEF Entries
<1>4. since' \in [Background -> Nat]
  BY <1>1 DEF TableInv
<1>5. ASSUME NEW p \in Background PROVE Counted(p)'
  <2>1. Counted(p) /\ since[p] \in Nat /\ refusals[p] \in Nat
    BY DEF TableInv
  <2>2. fail[Outside!Slot(p)] \in [pid: Nat, fails: Nat, left: Nat]
    BY SlotIs DEF TableInv, Entries
  <2>3. since'[p] = IF since[p] < FailBackoff THEN since[p] + 1 ELSE since[p]
    BY <1>1
  <2> DEFINE s == Outside!Slot(p)
  <2>4. /\ fail'[s].pid = fail[s].pid /\ fail'[s].fails = fail[s].fails
        /\ fail'[s].left = IF fail[s].left \in {0, Outside!Never} THEN fail[s].left
                           ELSE fail[s].left - 1
    BY <1>2, SlotIs
  <2>5. Outside!Slot(p)' = s /\ Outside!Never = FailBackoff + 1
    BY DEF Outside!Slot, Outside!Never
  <2> HIDE DEF s
  <2> QED
    BY <1>1, <2>1, <2>2, <2>3, <2>4, <2>5, BackoffIs DEF Counted, s, Outside!Never
<1> QED
  BY <1>1, <1>3, <1>4, <1>5 DEF TableInv

(* A refusal is counted, in an entry of its own or one taken from another;    *)
(* one that follows another has kept its distance.                           *)
LEMMA TableCounts ==
  ASSUME TableInv, NEW p \in Background, Outside!Refuse(p)
  PROVE  TableInv' /\ (refusals[p] > 0 /\ p \notin evicted => since[p] >= FailBackoff)
<1> DEFINE s     == Outside!Slot(p)
           mine  == IF fail[s].pid = p THEN fail[s].fails ELSE 0
           left  == IF mine + 1 >= FailMax THEN Outside!Never ELSE FailBackoff
           more  == IF refusals[p] > FailMax THEN refusals[p] ELSE refusals[p] + 1
           entry == [pid |-> p, fails |-> mine + 1, left |-> left]
<1>1. /\ fail' = [fail EXCEPT ![s] = entry]
      /\ refusals' = [refusals EXCEPT ![p] = more]
      /\ since' = [since EXCEPT ![p] = 0]
      /\ evicted' = evicted \cup ({fail[s].pid} \ {0, p})
      /\ ~Outside!BackingOff(fail, p)
  BY DEF Outside!Refuse, Outside!Refused
<1>2. /\ s \in 0 .. AdviceLogSlots - 1 /\ fail[s] \in [pid: Nat, fails: Nat, left: Nat]
      /\ p \in Nat \ {0} /\ refusals[p] \in Nat /\ since[p] \in Nat /\ Counted(p)
  BY SlotIs, BackoffIs DEF TableInv, Entries
<1>3. mine \in Nat /\ left \in Nat /\ more \in Nat
  BY <1>2, BackoffIs DEF Outside!Never
<1>4. ~(fail[s].pid = p /\ fail[s].left > 0)
  BY <1>1 DEF Outside!BackingOff
<1>5. refusals[p] > 0 /\ p \notin evicted =>
        /\ since[p] >= FailBackoff /\ mine >= refusals[p] /\ refusals[p] < FailMax
  BY <1>2, <1>4, BackoffIs DEF Counted, Outside!Never
<1>6. entry \in [pid: Nat, fails: Nat, left: Nat]
  <2> HIDE DEF mine, left
  <2> QED
    BY <1>2, <1>3
<1>7. fail' \in Entries /\ refusals' \in [Background -> Nat] /\ since' \in [Background -> Nat]
  <2> HIDE DEF entry, more, s
  <2> QED
    BY <1>1, <1>2, <1>3, <1>6 DEF TableInv, Entries
<1>8. /\ fail'[s] = entry /\ refusals'[p] = more /\ since'[p] = 0
      /\ \A t \in 0 .. AdviceLogSlots - 1 : t # s => fail'[t] = fail[t]
      /\ \A q \in Background : q # p => refusals'[q] = refusals[q] /\ since'[q] = since[q]
  <2> HIDE DEF entry, more, s
  <2> QED
    BY <1>1, <1>2 DEF TableInv, Entries
<1>9. Counted(p)'
  <2>1. entry.pid = p /\ entry.fails = mine + 1 /\ entry.left = left
    OBVIOUS
  <2>2. p \notin evicted' => p \notin evicted
    BY <1>1
  <2>3. Outside!Slot(p)' = s /\ Outside!Never = FailBackoff + 1
    BY DEF Outside!Slot, Outside!Never
  <2>4. p \notin evicted => mine + 1 >= more /\ more <= FailMax
    BY <1>2, <1>3, <1>5, BackoffIs
  <2>5. /\ mine + 1 >= FailMax => left = Outside!Never
        /\ left = Outside!Never \/ left = FailBackoff
    OBVIOUS
  <2> HIDE DEF entry, mine, left, more, s
  <2> QED
    BY <1>3, <1>8, <2>1, <2>2, <2>3, <2>4, <2>5, BackoffIs DEF Counted, Outside!Never
<1>10. ASSUME NEW q \in Background, q # p PROVE Counted(q)'
  <2>1. Counted(q) /\ q \in Nat \ {0} /\ Outside!Slot(q) \in 0 .. AdviceLogSlots - 1
    BY SlotIs, BackoffIs DEF TableInv
  <2>2. CASE Outside!Slot(q) = s
    <3>1. q \notin evicted' /\ refusals[q] > 0 => FALSE
      BY <1>1, <1>10, <2>1, <2>2 DEF Counted
    <3> QED
      BY <1>8, <1>10, <3>1 DEF Counted
  <2>3. CASE Outside!Slot(q) # s
    <3>1. fail'[Outside!Slot(q)] = fail[Outside!Slot(q)]
      BY <1>8, <2>1, <2>3
    <3>2. /\ refusals'[q] = refusals[q] /\ since'[q] = since[q]
          /\ q \notin evicted' => q \notin evicted
      BY <1>1, <1>8, <1>10
    <3>3. Outside!Slot(q)' = Outside!Slot(q) /\ Outside!Never' = Outside!Never
      BY DEF Outside!Slot, Outside!Never
    <3> QED
      BY <2>1, <3>1, <3>2, <3>3 DEF Counted
  <2> QED
    BY <2>2, <2>3
<1> QED
  BY <1>5, <1>7, <1>9, <1>10 DEF TableInv

(* What is granted clears the process's own entry and no other.               *)
LEMMA TableClears ==
  ASSUME TableInv, NEW p \in Background, Outside!Accept(p)
  PROVE  TableInv' /\ \A q \in Background : ~(refusals'[q] > refusals[q])
<1> DEFINE s == Outside!Slot(p)
<1>1. /\ fail' = IF fail[s].pid = p THEN [fail EXCEPT ![s] = Outside!NoFail] ELSE fail
      /\ refusals' = [refusals EXCEPT ![p] = 0] /\ since' = since /\ evicted' = evicted
  BY DEF Outside!Accept, Outside!Granted
<1>2. s \in 0 .. AdviceLogSlots - 1 /\ Outside!NoFail \in [pid: Nat, fails: Nat, left: Nat]
  BY SlotIs DEF Outside!NoFail
<1> HIDE DEF s
<1>3. fail' \in Entries /\ refusals' \in [Background -> Nat]
  BY <1>1, <1>2 DEF TableInv, Entries
<1>4. ASSUME NEW q \in Background
      PROVE  /\ refusals'[q] = (IF q = p THEN 0 ELSE refusals[q]) /\ refusals[q] \in Nat
             /\ q # p => Outside!Slot(q) # s \/ fail[s].pid # q \/ fail' = fail
             /\ Outside!Slot(q) # s => fail'[Outside!Slot(q)] = fail[Outside!Slot(q)]
  BY <1>1, <1>2, SlotIs DEF TableInv, Entries
<1>5. ASSUME NEW q \in Background PROVE Counted(q)'
  <2>1. Counted(q) /\ Outside!Slot(q)' = Outside!Slot(q) /\ Outside!Never' = Outside!Never
    BY DEF TableInv, Outside!Slot, Outside!Never
  <2> QED
    BY <1>1, <1>4, <2>1 DEF Counted
<1> QED
  BY <1>1, <1>3, <1>4, <1>5 DEF TableInv

LEMMA TableStep ==
  ASSUME TableInv, Outside!Next
  PROVE  /\ TableInv'
         /\ \A p \in Background : refusals[p] > 0 /\ refusals'[p] > refusals[p] /\ p \notin evicted
                                    => since[p] >= FailBackoff
<1>1. CASE UNCHANGED <<fail, refusals, since, evicted>>
  <2>1. \A p \in Background : Counted(p)'
    BY <1>1 DEF TableInv, Counted, Outside!Slot, Outside!Never
  <2> QED
    BY <1>1, <2>1 DEF TableInv
<1>2. CASE Outside!Tick
  BY <1>2, TableAges DEF TableInv
<1>3. ASSUME NEW p \in Background, Outside!Refuse(p)
      PROVE  /\ TableInv' /\ (refusals[p] > 0 /\ p \notin evicted => since[p] >= FailBackoff)
             /\ \A q \in Background : q # p => refusals'[q] = refusals[q] /\ refusals[q] \in Nat
  BY <1>3, TableCounts DEF TableInv, Outside!Refuse
<1>4. ASSUME NEW p \in Background, Outside!Accept(p)
      PROVE  TableInv' /\ \A q \in Background : ~(refusals'[q] > refusals[q])
  BY <1>4, TableClears
<1>5. ASSUME NEW p \in Background, Outside!Recycled(p)
      PROVE  TableInv' /\ \A q \in Background : ~(refusals'[q] > refusals[q])
  <2>1. /\ refusals' = [refusals EXCEPT ![p] = 0] /\ since' = [since EXCEPT ![p] = FailBackoff]
        /\ UNCHANGED <<fail, evicted>>
    BY <1>5 DEF Outside!Recycled
  <2>2. refusals' \in [Background -> Nat] /\ since' \in [Background -> Nat]
    BY <2>1, BackoffIs DEF TableInv
  <2>3. ASSUME NEW q \in Background
        PROVE  /\ refusals'[q] = (IF q = p THEN 0 ELSE refusals[q]) /\ refusals[q] \in Nat
               /\ q # p => since'[q] = since[q]
    BY <2>1 DEF TableInv
  <2>4. \A q \in Background : Counted(q)'
    BY <2>1, <2>3 DEF TableInv, Counted, Outside!Slot, Outside!Never
  <2> QED
    BY <2>1, <2>2, <2>3, <2>4 DEF TableInv
<1>6. ASSUME NEW on \in BOOLEAN, NEW keep \in BOOLEAN, Outside!SetCorralLive(on, keep)
      PROVE  UNCHANGED <<fail, refusals, since, evicted>>
  BY <1>6 DEF Outside!SetCorralLive
<1>7. ASSUME NEW on \in BOOLEAN, Outside!SetQuiet(on) \/ Outside!OptimizerRuns(on)
      PROVE  UNCHANGED <<fail, refusals, since, evicted>>
  BY <1>7 DEF Outside!SetQuiet, Outside!OptimizerRuns
<1>8. ASSUME NEW p \in Background, Outside!Skip(p)
      PROVE  UNCHANGED <<fail, refusals, since, evicted>>
  BY <1>8 DEF Outside!Skip
<1>9. CASE \E p \in Background : Outside!Refuse(p)
  BY <1>3, <1>9
<1> QED
  BY <1>1, <1>2, <1>4, <1>5, <1>6, <1>7, <1>8, <1>9 DEF Outside!Next

LEMMA RefusedAreFew == TableInv => Outside!RefusedIsLeftAlone
BY BackoffIs DEF TableInv, Counted, Outside!RefusedIsLeftAlone

-----------------------------------------------------------------------------
(* Context switches (CtxSwitches).                                          *)

SwitchTypes ==
  /\ threads \in [Tid -> [pid: Owners \cup {0}, cpu: Cpu \cup {0}]]
  /\ tid_cache \in [0 .. CacheSize - 1 -> [tid: Nat, pid: Owners \cup {0}]]
  /\ event \in [pid: Owners \cup {0}, of: Owners \cup {0}, cpu: Cpu \cup {0}, half: BOOLEAN]
  /\ lost \in Nat /\ lost <= MaxLost

(* An entry of the cache has its thread's process, or no process, or is of a *)
(* thread whose end was lost.                                               *)
CacheInv ==
  \A t \in Tid : LET entry == tid_cache[Switches!Entry(t)] IN
    entry.tid = t => entry.pid \in {0, threads[t].pid} \/ (threads[t].pid = 0 /\ lost > 0)

SwitchInv == SwitchTypes /\ CacheInv /\ Switches!AttributionIsRight

LEMMA EntryIs ==
  ASSUME NEW t \in Tid
  PROVE  /\ Switches!Entry(t) \in 0 .. CacheSize - 1 /\ t \in Nat \ {0}
         /\ Owners \subseteq Nat \ {0} /\ CacheSize \in Nat \ {0}
<1>1. t \in Nat \ {0} /\ CacheSize \in Nat \ {0} /\ Owners \subseteq Nat \ {0}
  BY AgentPartsAssumption DEF AgentPartsAssumption, Switches!SwitchAssumption
<1>2. t % CacheSize \in 0 .. CacheSize - 1
  BY <1>1
<1> QED
  BY <1>1, <1>2 DEF Switches!Entry

LEMMA SwitchesBegin == MaxLost \in Nat /\ Switches!Init => SwitchInv
<1> SUFFICES ASSUME MaxLost \in Nat, Switches!Init PROVE SwitchInv
  OBVIOUS
<1>1. \A t \in Tid : tid_cache[Switches!Entry(t)].tid # t
  BY EntryIs DEF Switches!Init
<1>2. SwitchTypes
  BY DEF Switches!Init, SwitchTypes, Switches!NoEvent
<1> QED
  BY <1>1, <1>2 DEF SwitchInv, CacheInv, Switches!Init, Switches!NoEvent, Switches!AttributionIsRight

(* What a thread event does to the cache.                                   *)
LEMMA EntrySet ==
  ASSUME SwitchTypes, NEW t \in Tid, NEW new \in [tid: Nat, pid: Owners \cup {0}],
         tid_cache' = [tid_cache EXCEPT ![Switches!Entry(t)] = new]
  PROVE  /\ tid_cache' \in [0 .. CacheSize - 1 -> [tid: Nat, pid: Owners \cup {0}]]
         /\ tid_cache'[Switches!Entry(t)] = new
         /\ \A u \in Tid : Switches!Entry(u) # Switches!Entry(t) =>
              tid_cache'[Switches!Entry(u)] = tid_cache[Switches!Entry(u)]
<1> DEFINE e == Switches!Entry(t)
<1>1. e \in 0 .. CacheSize - 1 /\ \A u \in Tid : Switches!Entry(u) \in 0 .. CacheSize - 1
  BY EntryIs
<1>2. tid_cache' \in [0 .. CacheSize - 1 -> [tid: Nat, pid: Owners \cup {0}]] /\ tid_cache'[e] = new
  BY <1>1 DEF SwitchTypes
<1>3. \A u \in Tid : Switches!Entry(u) # e => tid_cache'[Switches!Entry(u)] = tid_cache[Switches!Entry(u)]
  BY <1>1 DEF SwitchTypes
<1> QED
  BY <1>2, <1>3

LEMMA ThreadSet ==
  ASSUME SwitchTypes, NEW t \in Tid, NEW p \in Owners \cup {0}, NEW c \in Cpu \cup {0},
         threads' = [threads EXCEPT ![t] = [pid |-> p, cpu |-> c]]
  PROVE  /\ threads' \in [Tid -> [pid: Owners \cup {0}, cpu: Cpu \cup {0}]]
         /\ threads'[t].pid = p
         /\ \A u \in Tid : u # t => threads'[u] = threads[u]
<1> DEFINE new == [pid |-> p, cpu |-> c]
<1>1. new \in [pid: Owners \cup {0}, cpu: Cpu \cup {0}] /\ new.pid = p
  OBVIOUS
<1> HIDE DEF new
<1>2. threads' = [threads EXCEPT ![t] = new]
  BY DEF new
<1> QED
  BY <1>1, <1>2 DEF SwitchTypes

(* An event of a thread that is delivered writes its entry, and one that is  *)
(* lost is the only one.                                                     *)
LEMMA ThreadEvent ==
  ASSUME SwitchInv, MaxLost \in {0, 1}, NEW t \in Tid, UNCHANGED event,
         NEW p \in Owners \cup {0}, NEW c \in Cpu \cup {0},
         \/ threads' = [threads EXCEPT ![t] = [pid |-> p, cpu |-> c]]
         \/ UNCHANGED threads /\ p = threads[t].pid,
         threads[t].pid = 0 \/ p = 0 \/ p = threads[t].pid,
         \/ /\ UNCHANGED lost
            /\ \/ tid_cache' = [tid_cache EXCEPT ![Switches!Entry(t)] = [tid |-> t, pid |-> p]]
               \/ tid_cache' = [tid_cache EXCEPT ![Switches!Entry(t)] = [tid |-> 0, pid |-> 0]]
               \/ tid_cache' = tid_cache /\ tid_cache[Switches!Entry(t)].tid # t
         \/ lost < MaxLost /\ lost' = lost + 1 /\ UNCHANGED tid_cache
  PROVE  SwitchInv'
<1>1. /\ threads' \in [Tid -> [pid: Owners \cup {0}, cpu: Cpu \cup {0}]] /\ threads'[t].pid = p
      /\ \A u \in Tid : u # t => threads'[u] = threads[u]
  BY ThreadSet DEF SwitchInv, SwitchTypes
<1>2. lost' \in Nat /\ lost' <= MaxLost /\ lost' >= lost
  BY DEF SwitchInv, SwitchTypes
<1>3. Switches!AttributionIsRight'
  BY DEF SwitchInv, Switches!AttributionIsRight
<1>4. t \in Nat /\ t # 0 /\ 0 \in Nat /\ 0 \in Owners \cup {0}
  BY EntryIs
<1>5. CASE tid_cache' = [tid_cache EXCEPT ![Switches!Entry(t)] = [tid |-> t, pid |-> p]]
  <2>1. /\ tid_cache' \in [0 .. CacheSize - 1 -> [tid: Nat, pid: Owners \cup {0}]]
        /\ tid_cache'[Switches!Entry(t)].tid = t /\ tid_cache'[Switches!Entry(t)].pid = p
        /\ \A u \in Tid : Switches!Entry(u) # Switches!Entry(t) =>
             tid_cache'[Switches!Entry(u)] = tid_cache[Switches!Entry(u)]
    <3> DEFINE new == [tid |-> t, pid |-> p]
    <3>1. new \in [tid: Nat, pid: Owners \cup {0}] /\ new.tid = t /\ new.pid = p
      BY <1>4
    <3>2. tid_cache' = [tid_cache EXCEPT ![Switches!Entry(t)] = new]
      BY <1>5
    <3> HIDE DEF new
    <3>3. /\ tid_cache' \in [0 .. CacheSize - 1 -> [tid: Nat, pid: Owners \cup {0}]]
          /\ tid_cache'[Switches!Entry(t)] = new
          /\ \A u \in Tid : Switches!Entry(u) # Switches!Entry(t) =>
               tid_cache'[Switches!Entry(u)] = tid_cache[Switches!Entry(u)]
      BY <3>1, <3>2, EntrySet DEF SwitchInv
    <3> QED BY <3>1, <3>3
  <2>2. CacheInv'
    <3> SUFFICES ASSUME NEW u \in Tid, tid_cache'[Switches!Entry(u)].tid = u
                 PROVE  \/ tid_cache'[Switches!Entry(u)].pid \in {0, threads'[u].pid}
                        \/ threads'[u].pid = 0 /\ lost' > 0
      BY DEF CacheInv
    <3>1. CASE u = t
      <4>1. tid_cache'[Switches!Entry(u)].pid = p /\ threads'[u].pid = p
        BY <1>1, <2>1, <3>1
      <4> QED BY <4>1
    <3>2. CASE u # t
      <4>1. Switches!Entry(u) # Switches!Entry(t)
        BY <2>1, <3>2
      <4>2. tid_cache'[Switches!Entry(u)] = tid_cache[Switches!Entry(u)] /\ threads'[u] = threads[u]
        BY <1>1, <2>1, <3>2, <4>1
      <4> QED BY <1>2, <4>2 DEF SwitchInv, CacheInv, SwitchTypes
    <3> QED BY <3>1, <3>2
  <2> QED BY <1>1, <1>2, <1>3, <2>1, <2>2 DEF SwitchInv, SwitchTypes
<1>6. CASE tid_cache' = [tid_cache EXCEPT ![Switches!Entry(t)] = [tid |-> 0, pid |-> 0]]
  <2>1. /\ tid_cache' \in [0 .. CacheSize - 1 -> [tid: Nat, pid: Owners \cup {0}]]
        /\ tid_cache'[Switches!Entry(t)].tid = 0
        /\ \A u \in Tid : Switches!Entry(u) # Switches!Entry(t) =>
             tid_cache'[Switches!Entry(u)] = tid_cache[Switches!Entry(u)]
    <3> DEFINE new == [tid |-> 0, pid |-> 0]
    <3>1. new \in [tid: Nat, pid: Owners \cup {0}] /\ new.tid = 0
      BY <1>4
    <3>2. tid_cache' = [tid_cache EXCEPT ![Switches!Entry(t)] = new]
      BY <1>6
    <3> HIDE DEF new
    <3>3. /\ tid_cache' \in [0 .. CacheSize - 1 -> [tid: Nat, pid: Owners \cup {0}]]
          /\ tid_cache'[Switches!Entry(t)] = new
          /\ \A u \in Tid : Switches!Entry(u) # Switches!Entry(t) =>
               tid_cache'[Switches!Entry(u)] = tid_cache[Switches!Entry(u)]
      BY <3>1, <3>2, EntrySet DEF SwitchInv
    <3> QED BY <3>1, <3>3
  <2>2. CacheInv'
    <3> SUFFICES ASSUME NEW u \in Tid, tid_cache'[Switches!Entry(u)].tid = u
                 PROVE  \/ tid_cache'[Switches!Entry(u)].pid \in {0, threads'[u].pid}
                        \/ threads'[u].pid = 0 /\ lost' > 0
      BY DEF CacheInv
    <3>1. u # 0
      BY EntryIs
    <3>2. Switches!Entry(u) # Switches!Entry(t) /\ u # t
      BY <2>1, <3>1
    <3>3. tid_cache'[Switches!Entry(u)] = tid_cache[Switches!Entry(u)] /\ threads'[u] = threads[u]
      BY <1>1, <2>1, <3>2
    <3> QED BY <1>2, <3>3 DEF SwitchInv, CacheInv, SwitchTypes
  <2> QED BY <1>1, <1>2, <1>3, <2>1, <2>2 DEF SwitchInv, SwitchTypes
<1>7. CASE tid_cache' = tid_cache
  <2>1. CacheInv'
    <3> SUFFICES ASSUME NEW u \in Tid, tid_cache[Switches!Entry(u)].tid = u
                 PROVE  \/ tid_cache[Switches!Entry(u)].pid \in {0, threads'[u].pid}
                        \/ threads'[u].pid = 0 /\ lost' > 0
      BY <1>7 DEF CacheInv
    <3>1. \/ tid_cache[Switches!Entry(u)].pid \in {0, threads[u].pid}
          \/ threads[u].pid = 0 /\ lost > 0
      BY DEF SwitchInv, CacheInv
    <3>2. CASE u # t
      BY <1>1, <1>2, <3>1, <3>2 DEF SwitchInv, SwitchTypes
    <3>3. CASE u = t /\ lost' = lost
      <4>1. tid_cache' = [tid_cache EXCEPT ![Switches!Entry(t)] = [tid |-> t, pid |-> p]] \/
            tid_cache' = [tid_cache EXCEPT ![Switches!Entry(t)] = [tid |-> 0, pid |-> 0]]
        BY <3>3, <1>2 DEF SwitchInv, SwitchTypes
      <4> QED BY <4>1, <1>5, <1>6, <1>7 DEF SwitchInv, CacheInv
    <3>4. CASE u = t /\ lost' # lost
      <4>1. lost = 0 /\ lost' = 1
        BY <3>4, <1>2 DEF SwitchInv, SwitchTypes
      <4>2. tid_cache[Switches!Entry(t)].pid \in {0, threads[t].pid}
        BY <3>1, <3>4, <4>1
      <4> QED BY <1>1, <3>4, <4>1, <4>2
    <3> QED BY <3>2, <3>3, <3>4
  <2> QED BY <1>1, <1>2, <1>3, <1>7, <2>1 DEF SwitchInv, SwitchTypes
<1> QED
  BY <1>5, <1>6, <1>7

LEMMA SwitchStep ==
  ASSUME MaxLost \in {0, 1}, SwitchInv, Switches!Next
  PROVE  SwitchInv'
<1>1. ASSUME NEW t \in Tid, Switches!Rundown(t) PROVE SwitchInv'
  <2>1. /\ UNCHANGED <<threads, event, lost>> /\ threads[t].pid \in Owners \cup {0}
        /\ tid_cache' = [tid_cache EXCEPT ![Switches!Entry(t)] = [tid |-> t, pid |-> threads[t].pid]]
    BY <1>1 DEF Switches!Rundown, Switches!StartSeen, SwitchInv, SwitchTypes
  <2> QED BY <2>1, ThreadEvent
<1>2. ASSUME NEW t \in Tid, Switches!ThreadEnd(t) PROVE SwitchInv'
  <2>1. /\ UNCHANGED event /\ threads' = [threads EXCEPT ![t] = [pid |-> 0, cpu |-> 0]]
        /\ Switches!Delivered(Switches!EndSeen(t))
    BY <1>2 DEF Switches!ThreadEnd
  <2>2. \/ /\ UNCHANGED lost
           /\ \/ tid_cache' = [tid_cache EXCEPT ![Switches!Entry(t)] = [tid |-> 0, pid |-> 0]]
              \/ tid_cache' = tid_cache /\ tid_cache[Switches!Entry(t)].tid # t
        \/ lost < MaxLost /\ lost' = lost + 1 /\ UNCHANGED tid_cache
    BY <2>1 DEF Switches!Delivered, Switches!EndSeen
  <2>3. 0 \in Owners \cup {0} /\ 0 \in Cpu \cup {0}
    OBVIOUS
  <2> QED BY <2>1, <2>2, <2>3, ThreadEvent
<1>3. ASSUME NEW t \in Tid, NEW p \in Owners, Switches!ThreadStart(t, p) PROVE SwitchInv'
  <2>1. /\ UNCHANGED event /\ threads' = [threads EXCEPT ![t] = [pid |-> p, cpu |-> 0]]
        /\ threads[t].pid = 0
        /\ Switches!Delivered(Switches!StartSeen(t, p))
    BY <1>3 DEF Switches!ThreadStart
  <2>2. \/ /\ UNCHANGED lost
           /\ tid_cache' = [tid_cache EXCEPT ![Switches!Entry(t)] = [tid |-> t, pid |-> p]]
        \/ lost < MaxLost /\ lost' = lost + 1 /\ UNCHANGED tid_cache
    BY <2>1 DEF Switches!Delivered, Switches!StartSeen
  <2>3. p \in Owners \cup {0} /\ 0 \in Cpu \cup {0}
    OBVIOUS
  <2> QED BY <2>1, <2>2, <2>3, ThreadEvent
<1>4. ASSUME NEW t \in Tid, NEW c \in Cpu, Switches!Switch(t, c) PROVE SwitchInv'
  <2>1. /\ threads[t].pid # 0 /\ UNCHANGED <<tid_cache, lost>>
        /\ threads' = [threads EXCEPT ![t].cpu = c]
        /\ \/ UNCHANGED event
           \/ event' = [pid |-> Switches!Lookup(t), of |-> threads[t].pid, cpu |-> c, half |-> FALSE]
    BY <1>4 DEF Switches!Switch
  <2>2. /\ threads' \in [Tid -> [pid: Owners \cup {0}, cpu: Cpu \cup {0}]]
        /\ \A u \in Tid : threads'[u].pid = threads[u].pid
    BY <2>1 DEF SwitchInv, SwitchTypes
  <2>3. Switches!Lookup(t) \in {0, threads[t].pid}
    BY <2>1 DEF Switches!Lookup, SwitchInv, CacheInv
  <2>4. Switches!AttributionIsRight'
    BY <2>1, <2>3 DEF SwitchInv, Switches!AttributionIsRight
  <2>5. event' \in [pid: Owners \cup {0}, of: Owners \cup {0}, cpu: Cpu \cup {0}, half: BOOLEAN]
    <3> DEFINE who == Switches!Lookup(t)
               of  == threads[t].pid
    <3>1. who \in Owners \cup {0} /\ of \in Owners \cup {0} /\ c \in Cpu \cup {0}
      BY <2>3 DEF SwitchInv, SwitchTypes
    <3>2. event' = event \/ event' = [pid |-> who, of |-> of, cpu |-> c, half |-> FALSE]
      BY <2>1
    <3> HIDE DEF who, of
    <3>3. [pid |-> who, of |-> of, cpu |-> c, half |-> FALSE]
            \in [pid: Owners \cup {0}, of: Owners \cup {0}, cpu: Cpu \cup {0}, half: BOOLEAN]
      BY <3>1
    <3> QED BY <3>2, <3>3 DEF SwitchInv, SwitchTypes
  <2>6. SwitchTypes'
    BY <2>1, <2>2, <2>5 DEF SwitchInv, SwitchTypes
  <2>7. CacheInv'
    BY <2>1, <2>2 DEF SwitchInv, CacheInv
  <2> QED BY <2>4, <2>6, <2>7 DEF SwitchInv
<1>5. CASE Switches!FillPid
  <2>1. UNCHANGED <<threads, tid_cache, lost>> /\ event' = [event EXCEPT !.half = TRUE]
    BY <1>5 DEF Switches!FillPid
  <2>2. /\ event'.pid = event.pid /\ event'.of = event.of
        /\ event' \in [pid: Owners \cup {0}, of: Owners \cup {0}, cpu: Cpu \cup {0}, half: BOOLEAN]
    BY <2>1 DEF SwitchInv, SwitchTypes
  <2> QED BY <2>1, <2>2 DEF SwitchInv, SwitchTypes, CacheInv, Switches!AttributionIsRight
<1>6. CASE Switches!FillCpu
  <2>1. UNCHANGED <<threads, tid_cache, lost>> /\ event' = Switches!NoEvent
    BY <1>6 DEF Switches!FillCpu
  <2> QED BY <2>1 DEF SwitchInv, SwitchTypes, CacheInv, Switches!AttributionIsRight, Switches!NoEvent
<1>7. CASE Switches!Drain \/ Switches!Charge
  <2>1. UNCHANGED <<threads, tid_cache, lost, event>>
    BY <1>7 DEF Switches!Drain, Switches!Charge
  <2> QED BY <2>1 DEF SwitchInv, SwitchTypes, CacheInv, Switches!AttributionIsRight
<1> QED
  BY <1>1, <1>2, <1>3, <1>4, <1>5, <1>6, <1>7 DEF Switches!Next

-----------------------------------------------------------------------------
(* The shared memory region (ShmRegion).                                    *)

Headers == [present: BOOLEAN, magic: BOOLEAN, version: Nat, pid: Producers \cup {0}, seq: Nat,
            words: [1 .. 2 -> Nat]]
Handles == {Region!Closed} \cup {[obj |-> o, owner |-> TRUE] : o \in Regions}
Making  == {"created", "sized", "cleared", "zeroed", "described", "ready"}
Writing == {"begun", "half", "whole"}
Copying == {"copy1", "copy2", "check"}
Views   == [step: {"closed", "mapped", "open", "load"} \cup Copying, obj: Regions \cup {0},
            s0: Nat, tries: Nat, got: [1 .. 2 -> Nat], quiet: BOOLEAN, ok: BOOLEAN]

RegionTypes ==
  /\ name \in Regions \cup {0} /\ obj \in [Regions -> Headers]
  /\ created \in [Producers -> Handles] /\ kept \in [Producers -> Handles]
  /\ pc \in [Producers -> {"idle", "moved"} \cup Making \cup Writing]
  /\ view \in [Consumers -> Views]
  /\ clashed \in BOOLEAN /\ writes \in Nat

(* Where a producer or a consumer is tells what it has mapped.               *)
Mapped ==
  /\ \A p \in Producers : /\ created[p] # Region!Closed <=> pc[p] \in Making
                          /\ pc[p] \in Writing => kept[p] # Region!Closed
  /\ \A c \in Consumers : view[c].obj = 0 <=> view[c].step = "closed"

(* One owner, and the name leads to its region.                              *)
Pair(p, q) ==
  /\ created[p] # Region!Closed /\ created[q] # Region!Closed => p = q
  /\ kept[p] # Region!Closed /\ kept[q] # Region!Closed => p = q
  /\ created[p] # Region!Closed => kept[q] = Region!Closed
OneOwner ==
  /\ \A p, q \in Producers : Pair(p, q)
  /\ \A p \in Producers : /\ created[p] # Region!Closed => name = created[p].obj
                          /\ kept[p] # Region!Closed => name = kept[p].obj

(* How far create() or a write has come with the object it works on.         *)
MadeTo(stage, h) ==
  /\ stage \in {"cleared", "zeroed", "described"} => ~h.magic
  /\ stage \in {"cleared", "zeroed", "described", "ready"} => h.seq = 0
  /\ stage \in {"zeroed", "described", "ready"} => h.words[1] = h.words[2]
WrittenTo(stage, h) ==
  /\ stage \in Writing <=> h.seq % 2 = 1
  /\ stage = "half" => h.words[1] = writes
  /\ stage = "whole" => h.words[1] = h.words[2]
Whole(h) == h.magic /\ h.seq % 2 = 0 => h.words[1] = h.words[2]

WrittenWhole ==
  /\ \A p \in Producers : /\ created[p] # Region!Closed => MadeTo(pc[p], obj[created[p].obj])
                          /\ kept[p] # Region!Closed => WrittenTo(pc[p], obj[kept[p].obj])
  /\ \A o \in Regions : Whole(obj[o])

(* What a reader has copied is there as long as its number is.               *)
Copied(v, h) ==
  /\ v.quiet /\ v.step \in Copying => h.magic /\ v.s0 % 2 = 0 /\ v.s0 <= h.seq
  /\ v.quiet /\ v.step \in {"copy2", "check"} /\ v.s0 = h.seq => v.got[1] = h.words[1]
  /\ v.quiet /\ v.step = "check" /\ v.s0 = h.seq => v.got[2] = h.words[2]
  /\ v.ok => v.step = "open" /\ (v.quiet => v.got[1] = v.got[2])
CopiesWhole == \A c \in Consumers : IF view[c].obj # 0 THEN Copied(view[c], obj[view[c].obj])
                                  ELSE ~view[c].ok

RegionInv ==
  /\ RegionTypes /\ Mapped
  /\ ~clashed => OneOwner /\ WrittenWhole /\ CopiesWhole

LEMMA RegionsAre == Regions \subseteq Nat \ {0} /\ Version \in [Producers -> Nat \ {0}]
BY AgentPartsAssumption DEF AgentPartsAssumption, Region!RegionAssumption

LEMMA HandleIs ==
  /\ Region!Closed \in Handles /\ Region!Closed.obj = 0 /\ ~Region!Closed.owner
  /\ \A h \in Handles : h # Region!Closed => h.obj \in Regions /\ h.owner /\ h.obj # 0
<1>1. Region!Closed.obj = 0 /\ ~Region!Closed.owner
  BY DEF Region!Closed
<1>2. \A o \in Regions : [obj |-> o, owner |-> TRUE].obj = o /\ [obj |-> o, owner |-> TRUE].owner
  OBVIOUS
<1>3. \A o \in Regions : o # 0
  BY RegionsAre
<1> HIDE DEF Region!Closed
<1> QED
  BY <1>1, <1>2, <1>3 DEF Handles

LEMMA RegionBegins == Region!Init => RegionInv
<1> SUFFICES ASSUME Region!Init PROVE RegionInv
  OBVIOUS
<1>1. /\ name = 0 /\ obj = [o \in Regions |-> Region!Blank]
      /\ created = [p \in Producers |-> Region!Closed] /\ kept = created
      /\ pc = [p \in Producers |-> "idle"] /\ view = [c \in Consumers |-> Region!NoView]
      /\ clashed = FALSE /\ writes = 0
  BY DEF Region!Init
<1>2. Region!Blank \in Headers /\ ~Region!Blank.magic
  BY DEF Region!Blank, Headers
<1>3. Region!NoView \in Views /\ Region!NoView.step = "closed" /\ Region!NoView.obj = 0 /\ ~Region!NoView.ok
  BY DEF Region!NoView, Views
<1>4. RegionTypes
  BY <1>1, <1>2, <1>3, HandleIs DEF RegionTypes
<1>5. Mapped
  BY <1>1, <1>3 DEF Mapped, Making, Writing
<1>6. OneOwner
  BY <1>1 DEF OneOwner, Pair
<1>7. WrittenWhole
  BY <1>1, <1>2 DEF WrittenWhole, Whole
<1>8. CopiesWhole
  BY <1>1, <1>3 DEF CopiesWhole
<1> QED
  BY <1>4, <1>5, <1>6, <1>7, <1>8 DEF RegionInv

-----------------------------------------------------------------------------
(* A step of a consumer.                                                    *)
LEMMA ConsumerStep ==
  ASSUME RegionInv, NEW c \in Consumers, NEW v \in Views, view' = [view EXCEPT ![c] = v],
         UNCHANGED <<obj, created, kept, pc, clashed, writes>>,
         v.obj = 0 <=> v.step = "closed",
         ~clashed => IF v.obj # 0 THEN Copied(v, obj[v.obj]) ELSE ~v.ok,
         UNCHANGED name \/ name' = Region!Left(name, Region!Held(created, kept, view'))
  PROVE  RegionInv'
<1>1. view' \in [Consumers -> Views] /\ view'[c] = v /\ \A d \in Consumers : d # c => view'[d] = view[d]
  BY DEF RegionInv, RegionTypes
<1>2. name' \in {name, 0} /\ (name' # name => name \notin Region!Held(created, kept, view'))
  BY DEF Region!Left
<1>3. \A p \in Producers : created[p].obj \in Region!Held(created, kept, view')
                           /\ kept[p].obj \in Region!Held(created, kept, view')
  BY DEF Region!Held
<1>4. RegionTypes'
  BY <1>1, <1>2 DEF RegionInv, RegionTypes
<1>5. Mapped'
  BY <1>1 DEF RegionInv, Mapped
<1>6. ASSUME ~clashed PROVE OneOwner'
  BY <1>2, <1>3, <1>6 DEF RegionInv, OneOwner, Pair
<1>7. ASSUME ~clashed PROVE WrittenWhole'
  BY <1>7 DEF RegionInv, WrittenWhole, MadeTo, WrittenTo, Whole
<1>8. ASSUME ~clashed PROVE CopiesWhole'
  BY <1>1, <1>8 DEF RegionInv, CopiesWhole
<1> QED
  BY <1>4, <1>5, <1>6, <1>7, <1>8 DEF RegionInv

LEMMA BlankIs ==
  /\ Region!Blank \in Headers /\ ~Region!Blank.magic /\ Region!Blank.seq = 0
  /\ Region!Blank.words[1] = 0 /\ Region!Blank.words[2] = 0 /\ Region!Blank.words \in [1 .. 2 -> Nat]
BY DEF Region!Blank, Headers

LEMMA NoViewIs ==
  /\ Region!NoView \in Views /\ Region!NoView.step = "closed" /\ Region!NoView.obj = 0
  /\ ~Region!NoView.ok /\ ~Region!NoView.quiet /\ Region!NoView.tries = 0
BY DEF Region!NoView, Views

LEMMA ViewIs ==
  ASSUME NEW v \in Views
  PROVE  /\ v.step \in {"closed", "mapped", "open", "load"} \cup Copying /\ v.obj \in Regions \cup {0}
         /\ v.s0 \in Nat /\ v.tries \in Nat /\ v.got \in [1 .. 2 -> Nat] /\ v.quiet \in BOOLEAN
         /\ v.ok \in BOOLEAN
BY DEF Views

LEMMA GotWord ==
  ASSUME NEW v \in Views, NEW s \in Copying, NEW n \in Nat, NEW i \in 1 .. 2
  PROVE  [v EXCEPT !.step = s, !.got[i] = n] \in Views
<1>1. [v.got EXCEPT ![i] = n] \in [1 .. 2 -> Nat]
  BY ViewIs
<1>2. [v EXCEPT !.step = s, !.got[i] = n] = [v EXCEPT !.step = s, !.got = [v.got EXCEPT ![i] = n]]
  BY DEF Views
<1>3. ASSUME NEW g \in [1 .. 2 -> Nat] PROVE [v EXCEPT !.step = s, !.got = g] \in Views
  BY <1>3 DEF Views
<1> QED BY <1>1, <1>2, <1>3

(* A copy goes on, or is thrown away.                                       *)
LEMMA FailedIsView ==
  ASSUME NEW v \in Views
  PROVE  /\ Region!Failed(v) \in Views /\ Region!Failed(v).obj = v.obj
         /\ Region!Failed(v).step \in {"open", "load"} /\ (Region!Failed(v).ok => v.ok)
<1>1. CASE v.tries + 1 = Region!Attempts
  <2> DEFINE w == [v EXCEPT !.step = "open", !.tries = 0, !.ok = FALSE]
  <2>1. Region!Failed(v) = w
    BY <1>1 DEF Region!Failed
  <2>2. w \in Views /\ w.obj = v.obj /\ w.step = "open" /\ ~w.ok
    BY DEF Views
  <2> HIDE DEF w
  <2> QED BY <2>1, <2>2
<1>2. CASE v.tries + 1 # Region!Attempts
  <2> DEFINE w == [v EXCEPT !.step = "load", !.tries = v.tries + 1]
  <2>1. Region!Failed(v) = w
    BY <1>2 DEF Region!Failed
  <2>2. v.tries + 1 \in Nat
    BY ViewIs
  <2>3. ASSUME NEW t \in Nat
        PROVE  LET x == [v EXCEPT !.step = "load", !.tries = t]
               IN  x \in Views /\ x.obj = v.obj /\ x.step = "load" /\ x.ok = v.ok
    BY <2>3 DEF Views
  <2>4. w \in Views /\ w.obj = v.obj /\ w.step = "load" /\ w.ok = v.ok
    BY <2>2, <2>3
  <2> HIDE DEF w
  <2> QED BY <2>1, <2>4
<1> QED BY <1>1, <1>2

LEMMA FailedIs ==
  ASSUME NEW v \in Views, NEW h, v.step \in {"load", "check"}, Copied(v, h)
  PROVE  Copied(Region!Failed(v), h)
<1>1. ~v.ok
  BY ViewIs DEF Copied
<1>2. PICK f \in Views : f = Region!Failed(v) /\ f.step \in {"open", "load"} /\ ~f.ok
  BY <1>1, FailedIsView
<1>3. Copied(f, h)
  BY <1>2 DEF Copied, Copying
<1> QED
  BY <1>2, <1>3

LEMMA ConsumerKeeps ==
  ASSUME RegionInv, NEW c \in Consumers, Region!Open(c) \/ Region!Validate(c) \/ Region!Leave(c)
  PROVE  RegionInv'
<1>1. view[c] \in Views /\ name \in Regions \cup {0} /\ obj \in [Regions -> Headers]
  BY DEF RegionInv, RegionTypes
<1>2. view[c].obj = 0 <=> view[c].step = "closed"
  BY DEF RegionInv, Mapped
<1>3. CASE Region!Open(c)
  <2> DEFINE v == [Region!NoView EXCEPT !.step = "mapped", !.obj = name]
  <2>1. v \in Views /\ v.obj = name /\ v.step = "mapped" /\ ~v.ok /\ ~v.quiet
    BY <1>1 DEF Region!NoView, Views
  <2>2. name # 0 /\ UNCHANGED name /\ Region!See(c, "closed", v)
    BY <1>3 DEF Region!Open
  <2>3. IF v.obj # 0 THEN Copied(v, obj[v.obj]) ELSE ~v.ok
    BY <2>1 DEF Copied
  <2> HIDE DEF v
  <2> QED
    BY <2>1, <2>2, <2>3, ConsumerStep DEF Region!See
<1>4. CASE Region!Validate(c)
  <2>1. CASE Region!See(c, "mapped", [view[c] EXCEPT !.step = "open"]) /\ UNCHANGED name
    <3> DEFINE v == [view[c] EXCEPT !.step = "open"]
    <3>1. v \in Views /\ v.obj = view[c].obj /\ v.step = "open" /\ view[c].step = "mapped"
          /\ v.ok = view[c].ok /\ v.quiet = view[c].quiet /\ v.got = view[c].got
      BY <1>1, <2>1 DEF Views, Region!See
    <3>2. ~clashed => IF v.obj # 0 THEN Copied(v, obj[v.obj]) ELSE ~v.ok
      BY <3>1 DEF RegionInv, CopiesWhole, Copied, Copying
    <3> HIDE DEF v
    <3> QED
      BY <1>2, <2>1, <3>1, <3>2, ConsumerStep DEF Region!See, v
  <2>2. CASE Region!See(c, "mapped", Region!NoView) /\ name' = Region!Left(name, Region!Held(created, kept, view'))
    BY <2>2, NoViewIs, ConsumerStep DEF Region!See
  <2> QED
    BY <1>4, <2>1, <2>2 DEF Region!Validate
<1>5. CASE Region!Leave(c)
  BY <1>5, NoViewIs, ConsumerStep DEF Region!Leave, Region!See
<1> QED
  BY <1>3, <1>4, <1>5

LEMMA ConsumerReads ==
  ASSUME RegionInv, NEW c \in Consumers,
         Region!Begin(c) \/ Region!Load(c) \/ Region!Copy1(c) \/ Region!Copy2(c) \/ Region!Check(c)
  PROVE  RegionInv'
<1> DEFINE u == view[c]
           h == obj[view[c].obj]
<1>1. u \in Views /\ u.obj # 0 /\ u.step \in {"open", "load", "copy1", "copy2", "check"}
  BY DEF RegionInv, RegionTypes, Mapped, Region!Begin, Region!Load, Region!Copy1, Region!Copy2,
         Region!Check, Region!See
<1>2. u.obj \in Regions /\ h \in Headers
  BY <1>1 DEF RegionInv, RegionTypes, Views
<1>3. ~clashed => Copied(u, h)
  BY <1>1 DEF RegionInv, CopiesWhole
<1>4. ASSUME NEW v \in Views, view' = [view EXCEPT ![c] = v],
             UNCHANGED <<obj, created, kept, pc, clashed, writes, name>>,
             v.obj = u.obj, v.step # "closed", ~clashed => Copied(v, h)
      PROVE  RegionInv'
  BY <1>1, <1>4, ConsumerStep
<1>5. h.seq \in Nat /\ h.words[1] \in Nat /\ h.words[2] \in Nat /\ h.magic \in BOOLEAN
  BY <1>2 DEF Headers
<1> HIDE DEF h, u
<1>6. CASE Region!Begin(c)
  <2> DEFINE v == [u EXCEPT !.step = "load", !.ok = FALSE]
  <2>1. v \in Views /\ v.obj = u.obj /\ v.step = "load" /\ ~v.ok
    BY <1>1 DEF Views
  <2>2. Copied(v, h)
    BY <2>1 DEF Copied, Copying
  <2>3. view' = [view EXCEPT ![c] = v] /\ UNCHANGED <<obj, created, kept, pc, clashed, writes, name>>
    BY <1>6 DEF Region!Begin, Region!See, u
  <2> HIDE DEF v
  <2> QED BY <1>4, <2>1, <2>2, <2>3
<1>7. CASE Region!Load(c)
  <2>1. u.step = "load" /\ UNCHANGED <<obj, created, kept, pc, clashed, writes, name>>
    BY <1>7 DEF Region!Load, Region!See, u
  <2>2. CASE h.seq % 2 = 1
    <3>1. view' = [view EXCEPT ![c] = Region!Failed(u)]
      BY <1>7, <2>2 DEF Region!Load, Region!See, Region!Seen, h, u
    <3>2. Region!Failed(u) \in Views /\ Region!Failed(u).obj = u.obj /\ Region!Failed(u).step # "closed"
      BY <1>1, <2>1, FailedIsView
    <3>3. ~clashed => Copied(Region!Failed(u), h)
      BY <1>1, <1>2, <1>3, <2>1, FailedIs
    <3> QED BY <1>4, <2>1, <3>1, <3>2, <3>3
  <2>3. CASE h.seq % 2 # 1
    <3> DEFINE v == [u EXCEPT !.step = "copy1", !.s0 = h.seq, !.quiet = h.magic]
    <3>1. view' = [view EXCEPT ![c] = v]
      BY <1>7, <2>3 DEF Region!Load, Region!See, Region!Seen, h, u
    <3>2. v \in Views /\ v.obj = u.obj /\ v.step = "copy1" /\ v.s0 = h.seq /\ v.quiet = h.magic /\ v.ok = u.ok
      BY <1>1, <1>5 DEF Views, Copying
    <3>3. ~clashed => ~u.ok
      BY <1>3, <2>1 DEF Copied
    <3>4. ~clashed => Copied(v, h)
      BY <1>5, <2>3, <3>2, <3>3 DEF Copied, Copying
    <3> HIDE DEF v
    <3> QED BY <1>4, <2>1, <3>1, <3>2, <3>4
  <2> QED BY <2>2, <2>3
<1>8. CASE Region!Copy1(c)
  <2> DEFINE v == [u EXCEPT !.step = "copy2", !.got[1] = h.words[1]]
  <2>1. u.step = "copy1" /\ view' = [view EXCEPT ![c] = v]
        /\ UNCHANGED <<obj, created, kept, pc, clashed, writes, name>>
    BY <1>8 DEF Region!Copy1, Region!See, Region!Seen, h, u
  <2>2. v \in Views /\ v.obj = u.obj /\ v.step = "copy2" /\ v.s0 = u.s0 /\ v.quiet = u.quiet /\ v.ok = u.ok
        /\ v.got[1] = h.words[1]
    <3>1. u \in Views /\ "copy2" \in Copying /\ h.words[1] \in Nat /\ 1 \in 1 .. 2
      BY <1>1, <1>5 DEF Copying
    <3>2. u.got \in [1 .. 2 -> Nat]
      BY <3>1, ViewIs
    <3>3. v \in Views
      BY <3>1, GotWord, Zenon
    <3>4. v.got = [u.got EXCEPT ![1] = h.words[1]] /\ v.obj = u.obj /\ v.step = "copy2" /\ v.s0 = u.s0
          /\ v.quiet = u.quiet /\ v.ok = u.ok
      BY <1>1 DEF Views
    <3> HIDE DEF v
    <3> QED BY <3>2, <3>3, <3>4
  <2> HIDE DEF v
  <2>3. ~clashed => Copied(v, h)
    BY <1>3, <2>1, <2>2 DEF Copied, Copying
  <2> QED BY <1>4, <2>1, <2>2, <2>3
<1>9. CASE Region!Copy2(c)
  <2> DEFINE v == [u EXCEPT !.step = "check", !.got[2] = h.words[2]]
  <2>1. u.step = "copy2" /\ view' = [view EXCEPT ![c] = v]
        /\ UNCHANGED <<obj, created, kept, pc, clashed, writes, name>>
    BY <1>9 DEF Region!Copy2, Region!See, Region!Seen, h, u
  <2>2. v \in Views /\ v.obj = u.obj /\ v.step = "check" /\ v.s0 = u.s0 /\ v.quiet = u.quiet /\ v.ok = u.ok
        /\ v.got[1] = u.got[1] /\ v.got[2] = h.words[2]
    <3>1. u \in Views /\ "check" \in Copying /\ h.words[2] \in Nat /\ 2 \in 1 .. 2
      BY <1>1, <1>5 DEF Copying
    <3>2. u.got \in [1 .. 2 -> Nat]
      BY <3>1, ViewIs
    <3>3. v \in Views
      BY <3>1, GotWord, Zenon
    <3>4. v.got = [u.got EXCEPT ![2] = h.words[2]] /\ v.obj = u.obj /\ v.step = "check" /\ v.s0 = u.s0
          /\ v.quiet = u.quiet /\ v.ok = u.ok
      BY <1>1 DEF Views
    <3> HIDE DEF v
    <3> QED BY <3>2, <3>3, <3>4
  <2> HIDE DEF v
  <2>3. ~clashed => Copied(v, h)
    BY <1>3, <2>1, <2>2 DEF Copied, Copying
  <2> QED BY <1>4, <2>1, <2>2, <2>3
<1>10. CASE Region!Check(c)
  <2>1. u.step = "check" /\ UNCHANGED <<obj, created, kept, pc, clashed, writes, name>>
    BY <1>10 DEF Region!Check, Region!See, u
  <2>2. CASE u.s0 = h.seq
    <3> DEFINE v == [u EXCEPT !.step = "open", !.tries = 0, !.ok = TRUE]
    <3>1. view' = [view EXCEPT ![c] = v]
      BY <1>10, <2>2 DEF Region!Check, Region!See, Region!Seen, Region!Consistent, h, u
    <3>2. v \in Views /\ v.obj = u.obj /\ v.step = "open" /\ v.quiet = u.quiet /\ v.got = u.got
      BY <1>1 DEF Views
    <3> HIDE DEF v
    <3>3. ~clashed /\ u.quiet => h.magic /\ h.seq % 2 = 0 /\ u.got[1] = h.words[1] /\ u.got[2] = h.words[2]
      BY <1>3, <2>1, <2>2 DEF Copied, Copying
    <3>4. ~clashed => Whole(h)
      BY <1>2 DEF RegionInv, WrittenWhole, h, u
    <3>5. ~clashed => Copied(v, h)
      BY <3>2, <3>3, <3>4 DEF Copied, Copying, Whole
    <3> QED BY <1>4, <2>1, <3>1, <3>2, <3>5
  <2>3. CASE u.s0 # h.seq
    <3>1. view' = [view EXCEPT ![c] = Region!Failed(u)]
      BY <1>10, <2>3 DEF Region!Check, Region!See, Region!Seen, Region!Consistent, h, u
    <3>2. Region!Failed(u) \in Views /\ Region!Failed(u).obj = u.obj /\ Region!Failed(u).step # "closed"
      BY <1>1, <2>1, FailedIsView
    <3>3. ~clashed => Copied(Region!Failed(u), h)
      BY <1>1, <1>2, <1>3, <2>1, FailedIs
    <3> QED BY <1>4, <2>1, <3>1, <3>2, <3>3
  <2> QED BY <2>2, <2>3
<1> QED
  BY <1>6, <1>7, <1>8, <1>9, <1>10
-----------------------------------------------------------------------------
(* A step of a producer with its handles: it closes, moves or loses what it  *)
(* had.                                                                     *)
LEMMA HandleStep ==
  ASSUME RegionInv, NEW p \in Producers, NEW r \in Handles, NEW k \in Handles,
         NEW s \in {"idle", "moved"} \cup Making \cup Writing, NEW x \in Handles,
         created' = [created EXCEPT ![p] = r], kept' = [kept EXCEPT ![p] = k],
         pc' = [pc EXCEPT ![p] = s], UNCHANGED <<obj, view, clashed, writes>>,
         name' = Region!Left(Region!Unlinked(x, name), Region!Held(created', kept', view)),
         r = Region!Closed /\ s \notin Making /\ s \notin Writing,
         ~clashed => /\ k # Region!Closed => k \in {kept[p], created[p]}
                     /\ k # Region!Closed => k.obj \in Regions /\ WrittenTo(s, obj[k.obj])
                     /\ x = Region!Closed \/ \A q \in Producers : created'[q] = Region!Closed /\ kept'[q] = Region!Closed
  PROVE  RegionInv'
<1>1. /\ created' \in [Producers -> Handles] /\ kept' \in [Producers -> Handles]
      /\ created'[p] = r /\ kept'[p] = k /\ pc'[p] = s
      /\ \A q \in Producers : q # p => created'[q] = created[q] /\ kept'[q] = kept[q] /\ pc'[q] = pc[q]
  BY DEF RegionInv, RegionTypes
<1>2. name' \in {0, name} /\ (x = Region!Closed => name' = Region!Left(name, Region!Held(created', kept', view)))
  BY HandleIs DEF Region!Left, Region!Unlinked
<1>3. \A q \in Producers : created'[q].obj \in Region!Held(created', kept', view)
                           /\ kept'[q].obj \in Region!Held(created', kept', view)
  BY DEF Region!Held
<1>4. RegionTypes'
  BY <1>1, <1>2 DEF RegionInv, RegionTypes
<1>5. Mapped'
  BY <1>1 DEF RegionInv, Mapped, Writing, Making
<1>6. ASSUME ~clashed PROVE OneOwner'
  <2>1. \A q \in Producers : /\ created'[q] # Region!Closed => name = created'[q].obj
                             /\ kept'[q] # Region!Closed => name = kept'[q].obj
    BY <1>1, <1>6 DEF RegionInv, OneOwner
  <2>2. \A q \in Producers : /\ created'[q] # Region!Closed => name' = created'[q].obj
                             /\ kept'[q] # Region!Closed => name' = kept'[q].obj
    BY <1>2, <1>3, <1>6, <2>1 DEF Region!Left
  <2>3. \A q, t \in Producers : Pair(q, t)'
    BY <1>1, <1>6 DEF RegionInv, OneOwner, Pair
  <2> QED BY <2>2, <2>3 DEF OneOwner
<1>7. ASSUME ~clashed PROVE WrittenWhole'
  <2>1. \A q \in Producers : created'[q] # Region!Closed => MadeTo(pc'[q], obj'[created'[q].obj])
    BY <1>1, <1>7 DEF RegionInv, WrittenWhole
  <2>2. \A q \in Producers : kept'[q] # Region!Closed => WrittenTo(pc[q], obj[kept[q].obj])'
    <3>1. kept'[p] # Region!Closed => WrittenTo(s, obj[k.obj])
      BY <1>1, <1>7
    <3>2. \A q \in Producers : kept[q] # Region!Closed => WrittenTo(pc[q], obj[kept[q].obj])
      BY <1>7 DEF RegionInv, WrittenWhole
    <3> QED BY <1>1, <3>1, <3>2 DEF WrittenTo
  <2>3. \A o \in Regions : Whole(obj'[o])
    BY <1>7 DEF RegionInv, WrittenWhole
  <2> QED BY <2>1, <2>2, <2>3 DEF WrittenWhole
<1>8. ASSUME ~clashed PROVE CopiesWhole'
  BY <1>8 DEF RegionInv, CopiesWhole
<1> QED
  BY <1>4, <1>5, <1>6, <1>7, <1>8 DEF RegionInv

LEMMA HandlesMove ==
  ASSUME RegionInv, NEW p \in Producers,
         \/ Region!CreateFails(p) \/ Region!Keep(p) \/ Region!Destroy(p) \/ Region!Close(p)
         \/ Region!Dies(p)
  PROVE  RegionInv'
<1>1. /\ created[p] \in Handles /\ kept[p] \in Handles /\ obj \in [Regions -> Headers]
      /\ created \in [Producers -> Handles] /\ kept \in [Producers -> Handles]
      /\ pc \in [Producers -> {"idle", "moved"} \cup Making \cup Writing] /\ pc[p] \in {"idle", "moved"} \cup Making \cup Writing
  BY DEF RegionInv, RegionTypes
<1>2. created[p] # Region!Closed <=> pc[p] \in Making
  BY DEF RegionInv, Mapped
<1>3. /\ created = [created EXCEPT ![p] = created[p]] /\ kept = [kept EXCEPT ![p] = kept[p]]
  BY <1>1
<1>4. ~clashed /\ kept[p] # Region!Closed => kept[p].obj \in Regions /\ WrittenTo(pc[p], obj[kept[p].obj])
  BY <1>1, HandleIs DEF RegionInv, WrittenWhole
<1>5. ~clashed /\ created[p] # Region!Closed =>
        /\ created[p].obj \in Regions /\ MadeTo(pc[p], obj[created[p].obj])
        /\ \A q \in Producers : kept[q] = Region!Closed /\ (q # p => created[q] = Region!Closed)
  BY <1>1, HandleIs DEF RegionInv, WrittenWhole, OneOwner, Pair
<1>6. ~clashed /\ kept[p] # Region!Closed =>
        \A q \in Producers : created[q] = Region!Closed /\ (q # p => kept[q] = Region!Closed)
  BY DEF RegionInv, OneOwner, Pair
<1>7. \A n, held_ : Region!Left(n, held_) = Region!Left(Region!Unlinked(Region!Closed, n), held_)
  BY HandleIs DEF Region!Unlinked
<1>8. Region!Closed \in Handles /\ {"idle", "moved"} \cap (Making \cup Writing) = {}
  BY HandleIs DEF Making, Writing
<1>9. CASE Region!CreateFails(p)
  <2>1. /\ created' = [created EXCEPT ![p] = Region!Closed] /\ kept' = [kept EXCEPT ![p] = kept[p]]
        /\ pc' = [pc EXCEPT ![p] = "idle"] /\ UNCHANGED <<obj, view, clashed, writes>>
        /\ name' = Region!Left(Region!Unlinked(created[p], name), Region!Held(created', kept', view))
        /\ pc[p] \in Making
    BY <1>3, <1>9 DEF Region!CreateFails, Making
  <2>2. ~clashed => kept[p] = Region!Closed /\ \A q \in Producers : created'[q] = Region!Closed /\ kept'[q] = Region!Closed
    BY <1>1, <1>2, <1>5, <2>1
  <2> QED
    BY <1>1, <1>8, <2>1, <2>2, HandleStep
<1>10. CASE Region!Keep(p)
  <2>1. /\ created' = [created EXCEPT ![p] = Region!Closed] /\ kept' = [kept EXCEPT ![p] = created[p]]
        /\ pc' = [pc EXCEPT ![p] = "moved"] /\ UNCHANGED <<obj, view, clashed, writes>>
        /\ name' = Region!Left(Region!Unlinked(kept[p], name), Region!Held(created', kept', view))
        /\ pc[p] = "ready" /\ pc[p] \in Making
    BY <1>10 DEF Region!Keep, Region!Moved, Making
  <2>2. ~clashed => kept[p] = Region!Closed
    BY <1>2, <1>5, <2>1
  <2>3. ~clashed => created[p].obj \in Regions /\ WrittenTo("moved", obj[created[p].obj])
    BY <1>2, <1>5, <2>1 DEF WrittenTo, MadeTo, Writing
  <2> QED
    BY <1>1, <1>8, <2>1, <2>2, <2>3, HandleStep
<1>11. CASE Region!Destroy(p)
  <2>1. /\ created' = [created EXCEPT ![p] = Region!Closed] /\ kept' = [kept EXCEPT ![p] = kept[p]]
        /\ pc' = [pc EXCEPT ![p] = "idle"] /\ UNCHANGED <<obj, view, clashed, writes>>
        /\ name' = Region!Left(Region!Unlinked(created[p], name), Region!Held(created', kept', view))
        /\ pc[p] = "moved"
    BY <1>3, <1>11 DEF Region!Destroy
  <2>2. created[p] = Region!Closed
    BY <1>2, <1>8, <2>1
  <2>3. ~clashed /\ kept[p] # Region!Closed => kept[p].obj \in Regions /\ WrittenTo("idle", obj[kept[p].obj])
    BY <1>4, <2>1 DEF WrittenTo, Writing
  <2> QED
    BY <1>1, <1>8, <2>1, <2>2, <2>3, HandleStep
<1>12. CASE Region!Close(p)
  <2>1. /\ created' = [created EXCEPT ![p] = created[p]] /\ kept' = [kept EXCEPT ![p] = Region!Closed]
        /\ pc' = [pc EXCEPT ![p] = "idle"] /\ UNCHANGED <<obj, view, clashed, writes>>
        /\ name' = Region!Left(Region!Unlinked(kept[p], name), Region!Held(created', kept', view))
        /\ pc[p] = "idle" /\ kept[p] # Region!Closed
    BY <1>1, <1>3, <1>12 DEF Region!Close
  <2>2. created[p] = Region!Closed
    BY <1>2, <1>8, <2>1
  <2>3. ~clashed => \A q \in Producers : created'[q] = Region!Closed /\ kept'[q] = Region!Closed
    BY <1>1, <1>6, <2>1, <2>2
  <2> QED
    BY <1>1, <1>8, <2>1, <2>2, <2>3, HandleStep
<1>13. CASE Region!Dies(p)
  <2>1. /\ created' = [created EXCEPT ![p] = Region!Closed] /\ kept' = [kept EXCEPT ![p] = Region!Closed]
        /\ pc' = [pc EXCEPT ![p] = "idle"] /\ UNCHANGED <<obj, view, clashed, writes>>
        /\ name' = Region!Left(name, Region!Held(created', kept', view))
    BY <1>13 DEF Region!Dies
  <2> QED
    BY <1>1, <1>7, <1>8, <2>1, HandleStep
<1> QED
  BY <1>9, <1>10, <1>11, <1>12, <1>13
-----------------------------------------------------------------------------
(* A step of create() on the object it has mapped.                          *)

(* The reads that are under way on it are spoilt.                            *)
LEMMA ReadsAreSpoilt ==
  ASSUME RegionInv, NEW o \in Regions, NEW h \in Headers, obj' = [obj EXCEPT ![o] = h], Region!Disturb(o)
  PROVE  /\ view' \in [Consumers -> Views]
         /\ \A c \in Consumers : view'[c].obj = 0 <=> view'[c].step = "closed"
         /\ ~clashed => CopiesWhole'
<1>1. ASSUME NEW c \in Consumers
      PROVE  /\ view'[c] \in Views /\ view'[c].obj = view[c].obj /\ view'[c].step = view[c].step
             /\ view'[c].ok = view[c].ok
             /\ view[c].obj = o => ~view'[c].quiet
             /\ view[c].obj # o => view'[c] = view[c]
  <2>1. view[c] \in Views /\ view'[c] = IF view[c].obj = o THEN [view[c] EXCEPT !.quiet = FALSE] ELSE view[c]
    BY DEF Region!Disturb, RegionInv, RegionTypes
  <2>2. ASSUME NEW v \in Views
        PROVE  LET w == [v EXCEPT !.quiet = FALSE]
               IN  w \in Views /\ w.obj = v.obj /\ w.step = v.step /\ w.ok = v.ok /\ w.quiet = FALSE
    BY <2>2 DEF Views
  <2> QED BY <2>1, <2>2
<1>2. view' \in [Consumers -> Views]
  BY <1>1 DEF Region!Disturb
<1>3. ASSUME NEW c \in Consumers PROVE view'[c].obj = 0 <=> view'[c].step = "closed"
  BY <1>1 DEF RegionInv, Mapped
<1>4. ASSUME ~clashed, NEW c \in Consumers, view'[c].obj # 0 PROVE Copied(view'[c], obj'[view'[c].obj])
  <2>1. Copied(view[c], obj[view[c].obj]) /\ view[c].obj \in Regions
    BY <1>1, <1>4, ViewIs DEF RegionInv, CopiesWhole
  <2>2. CASE view[c].obj # o
    <3>1. obj'[view[c].obj] = obj[view[c].obj]
      BY <2>1, <2>2 DEF RegionInv, RegionTypes
    <3> QED BY <1>1, <2>1, <2>2, <3>1
  <2>3. CASE view[c].obj = o
    BY <1>1, <2>1, <2>3 DEF Copied
  <2> QED BY <2>2, <2>3
<1>5. ASSUME ~clashed, NEW c \in Consumers, view'[c].obj = 0 PROVE ~view'[c].ok
  BY <1>1, <1>5 DEF RegionInv, CopiesWhole
<1> QED
  BY <1>2, <1>3, <1>4, <1>5 DEF CopiesWhole

LEMMA MakeStep ==
  ASSUME RegionInv, NEW p \in Producers, NEW from \in Making, NEW to \in Making, NEW h \in Headers,
         Region!Step(p, from, to, h), ~clashed => Whole(h) /\ MadeTo(to, h)
  PROVE  RegionInv'
<1> DEFINE o == created[p].obj
<1>1. /\ pc[p] = from /\ pc' = [pc EXCEPT ![p] = to] /\ obj' = [obj EXCEPT ![o] = h] /\ Region!Disturb(o)
      /\ UNCHANGED <<name, created, kept, clashed, writes>>
  BY DEF Region!Step
<1>2. created[p] # Region!Closed /\ o \in Regions
  BY <1>1, HandleIs DEF RegionInv, Mapped, RegionTypes
<1> HIDE DEF o
<1>3. /\ view' \in [Consumers -> Views]
      /\ \A c \in Consumers : view'[c].obj = 0 <=> view'[c].step = "closed"
      /\ ~clashed => CopiesWhole'
  BY <1>1, <1>2, ReadsAreSpoilt
<1>4. /\ obj' \in [Regions -> Headers] /\ obj'[o] = h /\ \A q \in Regions : q # o => obj'[q] = obj[q]
      /\ pc' \in [Producers -> {"idle", "moved"} \cup Making \cup Writing]
      /\ pc'[p] = to /\ \A q \in Producers : q # p => pc'[q] = pc[q]
  BY <1>1, <1>2 DEF RegionInv, RegionTypes
<1>5. RegionTypes'
  BY <1>1, <1>3, <1>4 DEF RegionInv, RegionTypes
<1>6. Mapped'
  BY <1>1, <1>3, <1>4 DEF RegionInv, Mapped, Making, Writing
<1>7. ASSUME ~clashed PROVE OneOwner'
  BY <1>1, <1>7 DEF RegionInv, OneOwner, Pair
<1>8. ASSUME ~clashed PROVE WrittenWhole'
  <2>1. \A q \in Producers : kept[q] = Region!Closed /\ (q # p => created[q] = Region!Closed)
    BY <1>2, <1>8 DEF RegionInv, OneOwner, Pair
  <2>2. MadeTo(pc'[p], obj'[created[p].obj])
    BY <1>4, <1>8 DEF o
  <2>3. \A q \in Regions : Whole(obj'[q])
    BY <1>4, <1>8 DEF RegionInv, WrittenWhole
  <2> QED BY <1>1, <2>1, <2>2, <2>3 DEF WrittenWhole
<1> QED
  BY <1>1, <1>3, <1>5, <1>6, <1>7, <1>8 DEF RegionInv

LEMMA HeaderIs ==
  ASSUME NEW h \in Headers
  PROVE  /\ h.present \in BOOLEAN /\ h.magic \in BOOLEAN /\ h.version \in Nat /\ h.pid \in Producers \cup {0}
         /\ h.seq \in Nat /\ h.words \in [1 .. 2 -> Nat]
BY DEF Headers

LEMMA RegionIsMade ==
  ASSUME RegionInv, NEW p \in Producers,
         \/ Region!Size(p) \/ Region!ZeroHeader(p) \/ Region!ZeroPayload(p) \/ Region!Describe(p)
         \/ Region!SetMagic(p)
  PROVE  RegionInv'
<1> DEFINE h == obj[created[p].obj]
<1>1. pc[p] \in Making
  BY DEF Region!Size, Region!ZeroHeader, Region!ZeroPayload, Region!Describe, Region!SetMagic, Region!Step, Making
<1>2. created[p] # Region!Closed /\ created[p].obj \in Regions
  BY <1>1, HandleIs DEF RegionInv, Mapped, RegionTypes
<1>3. h \in Headers /\ h = Region!Mine(p)
  BY <1>2 DEF RegionInv, RegionTypes, Region!Mine
<1>4. ~clashed => Whole(h) /\ MadeTo(pc[p], h)
  BY <1>2 DEF RegionInv, WrittenWhole
<1> HIDE DEF h
<1>5. /\ h.present \in BOOLEAN /\ h.magic \in BOOLEAN /\ h.version \in Nat /\ h.pid \in Producers \cup {0}
      /\ h.seq \in Nat /\ h.words \in [1 .. 2 -> Nat]
  BY <1>3, HeaderIs
<1>6. {"created", "sized", "cleared", "zeroed", "described", "ready"} = Making
  BY DEF Making
<1>7. CASE Region!Size(p)
  <2> DEFINE g == [h EXCEPT !.present = TRUE]
  <2>1. Region!Step(p, "created", "sized", g) /\ pc[p] = "created"
    BY <1>3, <1>7 DEF Region!Size, Region!Step
  <2>2. g \in Headers /\ g.magic = h.magic /\ g.seq = h.seq /\ g.words = h.words
    BY <1>3 DEF Headers
  <2> HIDE DEF g
  <2>3. ~clashed => Whole(g) /\ MadeTo("sized", g)
    BY <1>4, <2>2 DEF Whole, MadeTo
  <2> QED BY <1>6, <2>1, <2>2, <2>3, MakeStep
<1>8. CASE Region!ZeroHeader(p)
  <2> DEFINE g == [Region!Blank EXCEPT !.words = h.words]
  <2>1. Region!Step(p, "sized", "cleared", g) /\ pc[p] = "sized"
    BY <1>3, <1>8 DEF Region!ZeroHeader, Region!Step
  <2>2. g \in Headers /\ g.magic = FALSE /\ g.seq = 0 /\ g.words = h.words
    BY <1>5 DEF Headers, Region!Blank
  <2> HIDE DEF g
  <2>3. Whole(g) /\ MadeTo("cleared", g)
    BY <2>2 DEF Whole, MadeTo
  <2> QED BY <1>6, <2>1, <2>2, <2>3, MakeStep
<1>9. CASE Region!ZeroPayload(p)
  <2> DEFINE g == [h EXCEPT !.words = Region!Blank.words]
  <2>1. Region!Step(p, "cleared", "zeroed", g) /\ pc[p] = "cleared"
    BY <1>3, <1>9 DEF Region!ZeroPayload, Region!Step
  <2>2. ASSUME NEW w \in [1 .. 2 -> Nat]
        PROVE  LET x == [h EXCEPT !.words = w]
               IN  x \in Headers /\ x.magic = h.magic /\ x.seq = h.seq /\ x.words = w
    BY <1>3, <2>2 DEF Headers
  <2>3. g \in Headers /\ g.magic = h.magic /\ g.seq = h.seq /\ g.words = Region!Blank.words
    BY <2>2, BlankIs
  <2> HIDE DEF g
  <2>4. ~clashed => ~h.magic /\ h.seq = 0
    BY <1>4, <2>1 DEF MadeTo
  <2>5. ~clashed => Whole(g) /\ MadeTo("zeroed", g)
    BY <2>3, <2>4, BlankIs DEF Whole, MadeTo
  <2> QED BY <1>6, <2>1, <2>3, <2>5, MakeStep
<1>10. CASE Region!Describe(p)
  <2> DEFINE g == [h EXCEPT !.version = Version[p], !.pid = p]
  <2>1. Region!Step(p, "zeroed", "described", g) /\ pc[p] = "zeroed"
    BY <1>3, <1>10 DEF Region!Describe, Region!Step
  <2>2. Version[p] \in Nat
    BY RegionsAre
  <2>3. ASSUME NEW n \in Nat
        PROVE  LET x == [h EXCEPT !.version = n, !.pid = p]
               IN  x \in Headers /\ x.magic = h.magic /\ x.seq = h.seq /\ x.words = h.words
    BY <1>3, <2>3 DEF Headers
  <2>4. g \in Headers /\ g.magic = h.magic /\ g.seq = h.seq /\ g.words = h.words
    BY <2>2, <2>3
  <2> HIDE DEF g
  <2>5. ~clashed => Whole(g) /\ MadeTo("described", g)
    BY <1>4, <2>1, <2>4 DEF Whole, MadeTo
  <2> QED BY <1>6, <2>1, <2>4, <2>5, MakeStep
<1>11. CASE Region!SetMagic(p)
  <2> DEFINE g == [h EXCEPT !.magic = TRUE]
  <2>1. Region!Step(p, "described", "ready", g) /\ pc[p] = "described"
    BY <1>3, <1>11 DEF Region!SetMagic, Region!Step
  <2>2. g \in Headers /\ g.seq = h.seq /\ g.words = h.words
    BY <1>3 DEF Headers
  <2> HIDE DEF g
  <2>3. ~clashed => Whole(g) /\ MadeTo("ready", g)
    BY <1>4, <2>1, <2>2 DEF Whole, MadeTo
  <2> QED BY <1>6, <2>1, <2>2, <2>3, MakeStep
<1> QED
  BY <1>7, <1>8, <1>9, <1>10, <1>11
LEMMA RegionIsCreated ==
  ASSUME RegionInv, NEW p \in Producers, Region!Create(p)
  PROVE  RegionInv'
<1>1. PICK o : /\ o = IF name # 0 THEN name ELSE Region!NewObject
               /\ name' = o
               /\ obj' = [obj EXCEPT ![o] = IF platform = "posix" THEN [Region!Blank EXCEPT !.present = FALSE]
                                            ELSE IF name # 0 THEN @ ELSE Region!Blank]
               /\ created' = [created EXCEPT ![p] = [obj |-> o, owner |-> TRUE]]
               /\ Region!Disturb(o)
  BY DEF Region!Create
<1>2. /\ pc[p] = "idle" /\ created[p] = Region!Closed /\ (name = 0 => Region!Spare # {})
      /\ pc' = [pc EXCEPT ![p] = "created"] /\ UNCHANGED <<kept, writes>>
      /\ clashed' = (clashed \/ \E q \in Producers : created[q].owner \/ kept[q].owner)
  BY DEF Region!Create
<1>3. o \in Regions
  <2>1. CASE name # 0
    BY <1>1, <2>1 DEF RegionInv, RegionTypes
  <2>2. CASE name = 0
    BY <1>1, <1>2, <2>2 DEF Region!NewObject, Region!Spare
  <2> QED BY <2>1, <2>2
<1>4. PICK h \in Headers : obj' = [obj EXCEPT ![o] = h] /\ (~clashed => Whole(h))
  <2>1. [Region!Blank EXCEPT !.present = FALSE] \in Headers /\ ~[Region!Blank EXCEPT !.present = FALSE].magic
    BY DEF Headers, Region!Blank
  <2>2. obj[o] \in Headers /\ (~clashed => Whole(obj[o]))
    BY <1>3 DEF RegionInv, RegionTypes, WrittenWhole
  <2> QED
    BY <1>1, <2>1, <2>2, BlankIs DEF Whole
<1>5. /\ view' \in [Consumers -> Views]
      /\ \A c \in Consumers : view'[c].obj = 0 <=> view'[c].step = "closed"
      /\ ~clashed => CopiesWhole'
  BY <1>1, <1>3, <1>4, ReadsAreSpoilt
<1>6. [obj |-> o, owner |-> TRUE] \in Handles /\ [obj |-> o, owner |-> TRUE] # Region!Closed
  <2>1. [obj |-> o, owner |-> TRUE].owner
    OBVIOUS
  <2> QED BY <1>3, <2>1, HandleIs DEF Handles
<1>7. /\ created' \in [Producers -> Handles] /\ created'[p] = [obj |-> o, owner |-> TRUE]
      /\ \A q \in Producers : q # p => created'[q] = created[q]
      /\ pc' \in [Producers -> {"idle", "moved"} \cup Making \cup Writing]
      /\ pc'[p] = "created" /\ \A q \in Producers : q # p => pc'[q] = pc[q]
      /\ obj' \in [Regions -> Headers] /\ obj'[o] = h /\ \A q \in Regions : q # o => obj'[q] = obj[q]
  BY <1>1, <1>2, <1>3, <1>4, <1>6 DEF RegionInv, RegionTypes, Making
<1>8. clashed' \in BOOLEAN
  BY <1>2 DEF RegionInv, RegionTypes
<1>9. RegionTypes'
  BY <1>1, <1>2, <1>3, <1>5, <1>7, <1>8 DEF RegionInv, RegionTypes
<1>10. Mapped'
  BY <1>2, <1>5, <1>6, <1>7 DEF RegionInv, Mapped, Making, Writing
<1>11. ASSUME ~clashed'
       PROVE  ~clashed /\ \A q \in Producers : created[q] = Region!Closed /\ kept[q] = Region!Closed
  BY <1>2, <1>11, HandleIs DEF RegionInv, RegionTypes
<1>12. ASSUME ~clashed' PROVE OneOwner'
  <2>1. \A q \in Producers : kept'[q] = Region!Closed /\ (q # p => created'[q] = Region!Closed)
    BY <1>2, <1>7, <1>11, <1>12
  <2>2. name' = created'[p].obj
    BY <1>1, <1>7
  <2> QED BY <2>1, <2>2 DEF OneOwner, Pair
<1>13. ASSUME ~clashed' PROVE WrittenWhole'
  <2>1. \A q \in Producers : kept'[q] = Region!Closed /\ (q # p => created'[q] = Region!Closed)
    BY <1>2, <1>7, <1>11, <1>13
  <2>2. \A q \in Regions : Whole(obj'[q])
    BY <1>4, <1>7, <1>11, <1>13 DEF RegionInv, WrittenWhole
  <2>3. MadeTo(pc'[p], obj'[created'[p].obj])
    BY <1>7 DEF MadeTo
  <2> QED BY <2>1, <2>2, <2>3 DEF WrittenWhole
<1> QED
  BY <1>5, <1>9, <1>10, <1>11, <1>12, <1>13 DEF RegionInv

-----------------------------------------------------------------------------
(* A step of a write.                                                       *)
LEMMA WriteStep ==
  ASSUME RegionInv, NEW p \in Producers, NEW from \in {"idle"} \cup Writing, NEW to \in {"idle"} \cup Writing,
         NEW h \in Headers, Region!Write(p, from, to, h), writes' \in Nat,
         ~clashed => /\ Whole(h) /\ (to \in Writing <=> h.seq % 2 = 1)
                     /\ to = "half" => h.words[1] = writes'
                     /\ to = "whole" => h.words[1] = h.words[2]
                     /\ \A v \in Views : Copied(v, Region!Kept(p)) => Copied(v, h)
  PROVE  RegionInv'
<1> DEFINE o == kept[p].obj
<1>1. /\ pc[p] = from /\ kept[p] # Region!Closed /\ pc' = [pc EXCEPT ![p] = to] /\ obj' = [obj EXCEPT ![o] = h]
      /\ UNCHANGED <<name, created, kept, view, clashed>>
  BY DEF Region!Write
<1>2. o \in Regions
  BY <1>1, HandleIs DEF RegionInv, RegionTypes
<1>3. Region!Kept(p) = obj[o]
  BY DEF Region!Kept
<1> HIDE DEF o
<1>4. /\ obj' \in [Regions -> Headers] /\ obj'[o] = h /\ \A q \in Regions : q # o => obj'[q] = obj[q]
      /\ pc' \in [Producers -> {"idle", "moved"} \cup Making \cup Writing]
      /\ pc'[p] = to /\ \A q \in Producers : q # p => pc'[q] = pc[q]
  BY <1>1, <1>2 DEF RegionInv, RegionTypes
<1>5. from \notin Making /\ to \notin Making
  BY DEF Making, Writing
<1>6. RegionTypes'
  BY <1>1, <1>4 DEF RegionInv, RegionTypes
<1>7. Mapped'
  BY <1>1, <1>4, <1>5 DEF RegionInv, Mapped
<1>8. ASSUME ~clashed PROVE OneOwner'
  BY <1>1, <1>8 DEF RegionInv, OneOwner, Pair
<1>9. ASSUME ~clashed PROVE WrittenWhole'
  <2>1. \A q \in Producers : created[q] = Region!Closed /\ (q # p => kept[q] = Region!Closed)
    BY <1>1, <1>9 DEF RegionInv, OneOwner, Pair
  <2>2. \A q \in Regions : Whole(obj'[q])
    BY <1>4, <1>9 DEF RegionInv, WrittenWhole
  <2>3. WrittenTo(to, h)'
    BY <1>9 DEF WrittenTo
  <2>4. WrittenTo(pc[p], obj[kept[p].obj])'
    BY <1>1, <1>4, <1>9 DEF WrittenTo, o
  <2> QED BY <1>1, <2>1, <2>2, <2>4 DEF WrittenWhole
<1>10. ASSUME ~clashed, NEW c \in Consumers, view[c].obj # 0 PROVE Copied(view[c], obj'[view[c].obj])
  <2>1. Copied(view[c], obj[view[c].obj]) /\ view[c] \in Views /\ view[c].obj \in Regions
    BY <1>10, ViewIs DEF RegionInv, RegionTypes, CopiesWhole
  <2> QED BY <1>3, <1>4, <1>10, <2>1
<1>11. ASSUME ~clashed PROVE CopiesWhole'
  BY <1>1, <1>10, <1>11 DEF RegionInv, CopiesWhole
<1> QED
  BY <1>1, <1>6, <1>7, <1>8, <1>9, <1>11 DEF RegionInv

(* The number moves on, to odd and to even; the words change under odd ones. *)
LEMMA RegionIsWritten ==
  ASSUME RegionInv, NEW p \in Producers,
         Region!begin_write(p) \/ Region!Word1(p) \/ Region!Word2(p) \/ Region!end_write(p)
  PROVE  RegionInv'
<1> DEFINE h == Region!Kept(p)
<1>1. kept[p] # Region!Closed /\ kept[p].obj \in Regions
  BY HandleIs DEF Region!begin_write, Region!Word1, Region!Word2, Region!end_write, Region!Write,
                  RegionInv, RegionTypes
<1>2. h \in Headers
  BY <1>1 DEF RegionInv, RegionTypes, Region!Kept
<1>3. ~clashed => Whole(h) /\ WrittenTo(pc[p], h)
  BY <1>1 DEF RegionInv, WrittenWhole, Region!Kept
<1> HIDE DEF h
<1>4. h.seq \in Nat /\ h.seq + 1 \in Nat /\ h.words \in [1 .. 2 -> Nat] /\ writes \in Nat
  BY <1>2, HeaderIs DEF RegionInv, RegionTypes
<1>5. /\ {"idle", "begun", "half", "whole"} = {"idle"} \cup Writing
      /\ "idle" \notin Writing
  BY DEF Writing
<1>6. ASSUME NEW v \in Views
      PROVE  v.s0 \in Nat /\ v.quiet \in BOOLEAN /\ v.ok \in BOOLEAN
  BY ViewIs
<1>7. ASSUME NEW n \in Nat
      PROVE  LET x == [h EXCEPT !.seq = n]
             IN  x \in Headers /\ x.magic = h.magic /\ x.seq = n /\ x.words = h.words
  BY <1>2 DEF Headers
<1>8. ASSUME NEW w \in [1 .. 2 -> Nat]
      PROVE  LET x == [h EXCEPT !.words = w]
             IN  x \in Headers /\ x.magic = h.magic /\ x.seq = h.seq /\ x.words = w
  BY <1>2 DEF Headers
<1>9. CASE Region!begin_write(p)
  <2> DEFINE g == [h EXCEPT !.seq = h.seq + 1]
  <2>1. Region!Write(p, "idle", "begun", g) /\ writes' \in Nat /\ pc[p] = "idle"
    BY <1>4, <1>9 DEF Region!begin_write, Region!Write, h
  <2>2. g \in Headers /\ g.magic = h.magic /\ g.seq = h.seq + 1 /\ g.words = h.words
    BY <1>4, <1>7
  <2> HIDE DEF g
  <2>3. ~clashed => h.seq % 2 = 0
    BY <1>3, <1>4, <1>5, <2>1 DEF WrittenTo
  <2>4. ~clashed => Whole(g) /\ g.seq % 2 = 1
    BY <1>4, <2>2, <2>3 DEF Whole
  <2>5. ASSUME NEW v \in Views, Copied(v, h) PROVE Copied(v, g)
    BY <1>4, <1>6, <2>2, <2>5 DEF Copied, Copying
  <2>6. "begun" \in Writing /\ "begun" # "half" /\ "begun" # "whole"
    BY DEF Writing
  <2> QED BY <1>5, <2>1, <2>2, <2>4, <2>5, <2>6, WriteStep DEF h
<1>10. CASE Region!Word1(p)
  <2> DEFINE g == [h EXCEPT !.words = [h.words EXCEPT ![1] = writes]]
  <2>1. Region!Write(p, "begun", "half", g) /\ writes' = writes /\ pc[p] = "begun"
    BY <1>2, <1>10 DEF Region!Word1, Region!Write, h
  <2>2. g \in Headers /\ g.magic = h.magic /\ g.seq = h.seq /\ g.words[1] = writes
    BY <1>4, <1>8
  <2> HIDE DEF g
  <2>3. ~clashed => h.seq % 2 = 1
    BY <1>3, <2>1 DEF WrittenTo, Writing
  <2>4. ~clashed => Whole(g) /\ g.seq % 2 = 1
    BY <1>4, <2>2, <2>3 DEF Whole
  <2>5. ASSUME ~clashed, NEW v \in Views, Copied(v, h) PROVE Copied(v, g)
    BY <1>4, <1>6, <2>2, <2>3, <2>5 DEF Copied, Copying
  <2>6. "half" \in Writing /\ "half" # "whole"
    BY DEF Writing
  <2> QED BY <1>4, <1>5, <2>1, <2>2, <2>4, <2>5, <2>6, WriteStep DEF h
<1>11. CASE Region!Word2(p)
  <2> DEFINE g == [h EXCEPT !.words = [h.words EXCEPT ![2] = writes]]
  <2>1. Region!Write(p, "half", "whole", g) /\ writes' = writes /\ pc[p] = "half"
    BY <1>2, <1>11 DEF Region!Word2, Region!Write, h
  <2>2. g \in Headers /\ g.magic = h.magic /\ g.seq = h.seq /\ g.words[1] = h.words[1] /\ g.words[2] = writes
    BY <1>4, <1>8
  <2> HIDE DEF g
  <2>3. ~clashed => h.seq % 2 = 1 /\ h.words[1] = writes
    BY <1>3, <2>1 DEF WrittenTo, Writing
  <2>4. ~clashed => Whole(g) /\ g.seq % 2 = 1 /\ g.words[1] = g.words[2]
    BY <1>4, <2>2, <2>3 DEF Whole
  <2>5. ASSUME ~clashed, NEW v \in Views, Copied(v, h) PROVE Copied(v, g)
    BY <1>4, <1>6, <2>2, <2>3, <2>5 DEF Copied, Copying
  <2>6. "whole" \in Writing /\ "half" # "whole"
    BY DEF Writing
  <2> QED BY <1>4, <1>5, <2>1, <2>2, <2>4, <2>5, <2>6, WriteStep DEF h
<1>12. CASE Region!end_write(p)
  <2> DEFINE g == [h EXCEPT !.seq = h.seq + 1]
  <2>1. Region!Write(p, "whole", "idle", g) /\ writes' = writes /\ pc[p] = "whole"
    BY <1>12 DEF Region!end_write, Region!Write, h
  <2>2. g \in Headers /\ g.magic = h.magic /\ g.seq = h.seq + 1 /\ g.words = h.words
    BY <1>4, <1>7
  <2> HIDE DEF g
  <2>3. ~clashed => h.seq % 2 = 1 /\ h.words[1] = h.words[2]
    BY <1>3, <2>1 DEF WrittenTo, Writing
  <2>4. ~clashed => Whole(g) /\ ~(g.seq % 2 = 1)
    BY <1>4, <2>2, <2>3 DEF Whole
  <2>5. ASSUME ~clashed, NEW v \in Views, Copied(v, h) PROVE Copied(v, g)
    BY <1>4, <1>6, <2>2, <2>3, <2>5 DEF Copied, Copying
  <2> QED BY <1>4, <1>5, <2>1, <2>2, <2>4, <2>5, WriteStep DEF h
<1> QED
  BY <1>9, <1>10, <1>11, <1>12

LEMMA RegionStep == RegionInv /\ Region!Next => RegionInv'
<1> SUFFICES ASSUME RegionInv, Region!Next PROVE RegionInv'
  OBVIOUS
<1>1. CASE \E p \in Producers :
             \/ Region!Create(p) \/ Region!Size(p) \/ Region!ZeroHeader(p) \/ Region!ZeroPayload(p)
             \/ Region!Describe(p) \/ Region!SetMagic(p)
             \/ Region!CreateFails(p) \/ Region!Keep(p) \/ Region!Destroy(p) \/ Region!Close(p)
             \/ Region!Dies(p)
             \/ Region!begin_write(p) \/ Region!Word1(p) \/ Region!Word2(p) \/ Region!end_write(p)
  BY <1>1, RegionIsCreated, RegionIsMade, HandlesMove, RegionIsWritten
<1>2. CASE \E c \in Consumers :
             \/ Region!Open(c) \/ Region!Validate(c) \/ Region!Leave(c)
             \/ Region!Begin(c) \/ Region!Load(c) \/ Region!Copy1(c) \/ Region!Copy2(c) \/ Region!Check(c)
  BY <1>2, ConsumerKeeps, ConsumerReads
<1> QED
  BY <1>1, <1>2 DEF Region!Next

LEMMA RegionIsWhole == RegionInv => Region!RegionIsSound
<1> SUFFICES ASSUME RegionInv, ~clashed PROVE Region!ReadsAreWhole /\ Region!OwnersAreFound
  BY DEF Region!RegionIsSound
<1>1. ASSUME NEW c \in Consumers, view[c].ok, view[c].quiet PROVE view[c].got[1] = view[c].got[2]
  <2>1. CASE view[c].obj # 0
    BY <1>1, <2>1 DEF RegionInv, CopiesWhole, Copied
  <2>2. CASE view[c].obj = 0
    BY <1>1, <2>2 DEF RegionInv, CopiesWhole
  <2> QED BY <2>1, <2>2
<1>2. Region!OwnersAreFound
  BY DEF RegionInv, OneOwner, Region!OwnersAreFound
<1> QED
  BY <1>1, <1>2 DEF Region!ReadsAreWhole

-----------------------------------------------------------------------------
(* The parts together.                                                      *)

(* What a part does among the others is what it does alone.                 *)
LEMMA PartsAlone ==
  Spec => /\ Affinity!Init /\ [][Affinity!Next]_affinityVars
          /\ Tuning!Init /\ [][Tuning!Next]_tuningVars
          /\ Etw!Init /\ [][Etw!Next]_etwVars
          /\ Oracle!Init /\ [][Oracle!Next]_oracleVars
          /\ Outside!Init /\ [][Outside!Next]_corralVars
          /\ Switches!Init /\ [][Switches!Next]_switchesVars
          /\ Region!Init /\ [][Region!Next]_regionVars
<1>1. Init => /\ Affinity!Init /\ Tuning!Init /\ Etw!Init
              /\ Oracle!Init /\ Outside!Init /\ Switches!Init /\ Region!Init
  BY DEF Init
<1>2. [Next]_vars => [Affinity!Next]_affinityVars
  BY DEF Next, vars, OnlyRules, OnlyOracle, OnlyTopo, OnlyOutside, OnlyMetrics, OnlySwitches,
         OnlySnapshot, OnlyEtw, OnlyAffinity, OnlyTuning, OnlyRegion
<1>3. [Next]_vars => [Tuning!Next]_tuningVars
  BY DEF Next, vars, OnlyRules, OnlyOracle, OnlyTopo, OnlyOutside, OnlyMetrics, OnlySwitches,
         OnlySnapshot, OnlyEtw, OnlyAffinity, OnlyTuning, OnlyRegion
<1>4. [Next]_vars => [Etw!Next]_etwVars
  BY DEF Next, vars, OnlyRules, OnlyOracle, OnlyTopo, OnlyOutside, OnlyMetrics, OnlySwitches,
         OnlySnapshot, OnlyEtw, OnlyAffinity, OnlyTuning, OnlyRegion
<1>5. [Next]_vars => [Oracle!Next]_oracleVars
  BY DEF Next, vars, OnlyRules, OnlyOracle, OnlyTopo, OnlyOutside, OnlyMetrics, OnlySwitches,
         OnlySnapshot, OnlyEtw, OnlyAffinity, OnlyTuning, OnlyRegion
<1>6. [Next]_vars => [Outside!Next]_corralVars
  BY DEF Next, vars, OnlyRules, OnlyOracle, OnlyTopo, OnlyOutside, OnlyMetrics, OnlySwitches,
         OnlySnapshot, OnlyEtw, OnlyAffinity, OnlyTuning, OnlyRegion
<1>7. [Next]_vars => [Switches!Next]_switchesVars
  BY DEF Next, vars, OnlyRules, OnlyOracle, OnlyTopo, OnlyOutside, OnlyMetrics, OnlySwitches,
         OnlySnapshot, OnlyEtw, OnlyAffinity, OnlyTuning, OnlyRegion
<1>8. [Next]_vars => [Region!Next]_regionVars
  BY DEF Next, vars, OnlyRules, OnlyOracle, OnlyTopo, OnlyOutside, OnlyMetrics, OnlySwitches,
         OnlySnapshot, OnlyEtw, OnlyAffinity, OnlyTuning, OnlyRegion
<1> QED
  BY <1>1, <1>2, <1>3, <1>4, <1>5, <1>6, <1>7, <1>8, PTL DEF Spec

(* A change of a processor set is undone by the value its call returned, as  *)
(* long as the process or thread lives and nobody else writes, and whatever *)
(* the tuning daemon changed is in a snapshot or about to be restored, at    *)
(* every point at which the daemon may die.                                 *)
THEOREM ChangesAreUndoable == Spec => []ChangesCanBeUndone
<1>1. CallInv /\ [Affinity!Next]_affinityVars => CallInv'
  <2>1. ASSUME CallInv, UNCHANGED affinityVars PROVE CallInv'
    BY <2>1 DEF CallInv, CallTypes, WorldTypes, CallPlaces, HandleHolds, Undoing, Standing,
                affinityVars
  <2> QED
    BY <2>1, CallStep
<1>2. TuningInv /\ [Tuning!Next]_tuningVars => TuningInv'
  <2>1. ASSUME TuningInv, UNCHANGED tuningVars PROVE TuningInv'
    BY <2>1 DEF TuningInv, SettingTypes, Sessions, Kept, Tuning!EverythingCanBeGivenBack,
                Tuning!OnRecord, tuningVars
  <2> QED
    BY <2>1, TuningStep
<1>3. CallInv /\ TuningInv => ChangesCanBeUndone
  BY CallsAreUndone DEF TuningInv, ChangesCanBeUndone
<1> QED
  BY <1>1, <1>2, <1>3, CallsBegin, TuningBegins, PartsAlone, PTL

(* An administrator's agent leaves no trace session running that it does    *)
(* not hold, whatever crashed before it and whoever stops sessions, and the *)
(* tier of tracing is the one the last Settle ticks asked for and changes   *)
(* for nothing less.                                                        *)
THEOREM TracingIsOwned == Spec => []Etw!NoStraySession /\ Etw!TierFollowsTheWish
<1>1. EtwInv /\ [Etw!Next]_etwVars => EtwInv' /\ [Etw!Commits]_(Etw!vars)
  <2>1. ASSUME EtwInv, UNCHANGED etwVars PROVE EtwInv' /\ UNCHANGED Etw!vars
    BY <2>1 DEF EtwInv, EtwRecords, TierInv, WishInv, SessionInv, etwVars, Etw!vars
  <2> QED
    BY <2>1, EtwStep
<1> QED
  BY <1>1, EtwBegins, EtwIsSound, PartsAlone, PTL DEF Etw!TierFollowsTheWish

(* The gate answers for the game that is asked for and for what ran while it  *)
(* was asked, whatever services and drivers come and go between the calls.  *)
THEOREM GateIsForNow == Spec => []Oracle!GateIsRight
<1>1. OracleInv /\ [Oracle!Next]_oracleVars => OracleInv'
  <2>1. ASSUME OracleInv, UNCHANGED oracleVars PROVE OracleInv'
    <3>1. UNCHANGED <<running, list, game, answer, always, ever>>
      BY <2>1 DEF oracleVars
    <3>2. ListInv'
      BY <2>1, <3>1 DEF OracleInv, ListInv, ListIsRecord, Oracle!Names, Oracle!From,
                        Oracle!NoAnswer
    <3>3. Oracle!GateIsRight'
      BY <2>1, <3>1 DEF OracleInv, Oracle!GateIsRight, Oracle!probe_allowed
    <3>4. AnswerInv'
      BY <2>1, <3>1 DEF OracleInv, AnswerInv
    <3> QED
      BY <3>2, <3>3, <3>4 DEF OracleInv
  <2> QED
    BY <2>1, OracleStep
<1>2. OracleInv => Oracle!GateIsRight
  BY DEF OracleInv
<1> QED
  BY <1>1, <1>2, OracleBegins, PartsAlone, PTL

(* The corral takes hold of nothing before it has looked for an optimizer,  *)
(* nor when one has run for CoexistEvery passes, although it looks in every  *)
(* CoexistEvery-th pass only and a pass goes on while optimizers start.      *)
THEOREM OptimizersAreLeftAlone == Spec => Outside!OptimizerIsNotFought
<1>1. ScanInv /\ [Outside!Next]_corralVars
        => ScanInv' /\ [\A p \in Background : p \in held' \ held
                                      => scanned /\ ran < CoexistEvery]_(Outside!vars)
  <2>1. ASSUME ScanInv, UNCHANGED corralVars PROVE ScanInv' /\ UNCHANGED Outside!vars
    BY <2>1 DEF ScanInv, corralVars, Outside!vars
  <2> QED
    BY <2>1, ScanStep
<1> QED
  BY <1>1, ScanBegins, PartsAlone, PTL DEF Outside!OptimizerIsNotFought

(* A process that refuses is journaled and tried FailMax times at most, and   *)
(* not before FailBackoff passes are over since it last refused, as long as  *)
(* no other process of its slot takes its entry: for every number of slots,  *)
(* of refusals and of passes, and whatever pids are used again.              *)
THEOREM RefusedAreLeftAlone ==
  Spec => []Outside!RefusedIsLeftAlone /\ Outside!RefusedIsGivenTime
<1>1. TableInv /\ [Outside!Next]_corralVars
        => TableInv' /\ [\A p \in Background : refusals[p] > 0 /\ refusals'[p] > refusals[p]
                                               /\ p \notin evicted
                                      => since[p] >= FailBackoff]_(Outside!vars)
  <2>1. ASSUME TableInv, UNCHANGED corralVars PROVE TableInv' /\ UNCHANGED Outside!vars
    <3>1. UNCHANGED <<fail, refusals, since, evicted>> /\ UNCHANGED Outside!vars
      BY <2>1 DEF corralVars, Outside!vars
    <3>2. \A p \in Background : Counted(p)'
      BY <2>1, <3>1 DEF TableInv, Counted, Outside!Slot, Outside!Never
    <3> QED
      BY <2>1, <3>1, <3>2 DEF TableInv
  <2> QED
    BY <2>1, TableStep
<1> QED
  BY <1>1, TableBegins, RefusedAreFew, PartsAlone, PTL DEF Outside!RefusedIsGivenTime

(* With at most one thread event lost, a context switch is charged to the     *)
(* process of its thread or to nobody, whatever thread ids collide in the    *)
(* cache and are used again.                                                *)
THEOREM SwitchesAreAttributed == MaxLost \in {0, 1} => (Spec => []Switches!AttributionIsRight)
<1> SUFFICES ASSUME MaxLost \in {0, 1} PROVE Spec => []Switches!AttributionIsRight
  OBVIOUS
<1>1. SwitchInv /\ [Switches!Next]_switchesVars => SwitchInv'
  <2>1. ASSUME SwitchInv, UNCHANGED switchesVars PROVE SwitchInv'
    BY <2>1 DEF SwitchInv, SwitchTypes, CacheInv, Switches!AttributionIsRight, switchesVars
  <2> QED
    BY <2>1, SwitchStep
<1>2. SwitchInv => Switches!AttributionIsRight
  BY DEF SwitchInv
<1>3. Switches!Init => SwitchInv
  BY SwitchesBegin
<1> QED
  BY <1>1, <1>2, <1>3, PartsAlone, PTL

(* What is read of a shared memory region is one publication of its owner,    *)
(* and a name leads to the region of the producer that holds it, whoever     *)
(* creates, opens, closes and dies between two steps of another.            *)
THEOREM RegionsAreSound == Spec => []Region!RegionIsSound
<1>1. RegionInv /\ [Region!Next]_regionVars => RegionInv'
  <2>1. ASSUME RegionInv, UNCHANGED regionVars PROVE RegionInv'
    BY <2>1 DEF RegionInv, RegionTypes, Mapped, OneOwner, Pair, WrittenWhole, MadeTo, WrittenTo,
                Whole, CopiesWhole, Copied, regionVars
  <2> QED
    BY <2>1, RegionStep
<1> QED
  BY <1>1, RegionBegins, RegionIsWhole, PartsAlone, PTL

(* What belongs to other programs or is shared with them is respected, by the *)
(* gate, the corral, the trace session and the region: all of it together.    *)
THEOREM OthersStayRespected == Spec => OthersAreRespected
BY GateIsForNow, OptimizersAreLeftAlone, RefusedAreLeftAlone, TracingIsOwned, RegionsAreSound, PTL
   DEF OthersAreRespected
=============================================================================
