------------------------ MODULE PlacementTickProofs ------------------------
(***************************************************************************)
(* What holds of PlacementTick for every set of processes, whatever their   *)
(* kinds, the configuration the agent starts from and the periods of the    *)
(* scans.                                                                   *)
(***************************************************************************)
EXTENDS PlacementTick, TLAPS

----------------------------------------------------------------------------
(* The executor's operations.                                               *)

(* apply() writes masks and rows only, whatever the set of processes.       *)
LEMMA ApplyTyped ==
  ASSUME TypeOK, NEW S, NEW target, NEW r,
         \A p \in S \cap Proc : target[p] \in Mask /\ r[p] \in {"game", "evict", "memory", "corral", "user"},
         Apply(S, target, r)
  PROVE  mask' \in [Proc -> Mask] /\ row' \in [Proc -> Row \cup {NoRow}]
<1> DEFINE done == {p \in S : row[p] = NoRow /\ p \in up \ Denied}
<1>1. \A p \in Proc : p \in done => [rule |-> r[p], prev |-> mask[p], new |-> target[p]] \in Row
  BY DEF TypeOK, Row
<1>2. QED
  BY <1>1 DEF Apply, TypeOK

LEMMA DifferentialTyped ==
  ASSUME TypeOK, NEW S, NEW D, NEW target, NEW r,
         \A p \in S \cap Proc : target[p] \in Mask /\ r[p] \in {"game", "evict", "memory", "corral", "user"},
         ApplyWithDifferential(S, D, target, r)
  PROVE  mask' \in [Proc -> Mask] /\ row' \in [Proc -> Row \cup {NoRow}] /\ thread' \subseteq Proc
<1> DEFINE done == {p \in S : row[p] = NoRow /\ p \in up \ Denied}
<1>1. \A p \in Proc : p \in done => [rule |-> r[p], prev |-> mask[p], new |-> target[p]] \in Row
  BY DEF TypeOK, Row
<1>2. mask' \in [Proc -> Mask]
  BY DEF ApplyWithDifferential, TypeOK, Mask
<1>3. row' \in [Proc -> Row \cup {NoRow}]
  BY <1>1 DEF ApplyWithDifferential, TypeOK
<1>4. thread' \subseteq Proc
  BY DEF ApplyWithDifferential, TypeOK
<1>5. QED
  BY <1>2, <1>3, <1>4

(* A row holds a rule that places; no row is the record of none.            *)
LEMMA RowRules ==
  ASSUME TypeOK, NEW p \in Proc
  PROVE  /\ row[p] = NoRow <=> row[p].rule = "none"
         /\ row[p] # NoRow => /\ row[p].prev \in Mask /\ row[p].new \in Mask
                              /\ row[p].rule \in {"game", "evict", "memory", "corral", "user"}
BY DEF TypeOK, Row, NoRow

LEMMA RevertTyped ==
  ASSUME TypeOK, NEW S, S \subseteq {p \in Proc : row[p] # NoRow}, RevertRows(S)
  PROVE  mask' \in [Proc -> Mask] /\ row' \in [Proc -> Row \cup {NoRow}]
<1>1. \A p \in Proc : p \in S => row[p].prev \in Mask
  BY RowRules
<1>2. QED
  BY <1>1 DEF RevertRows, TypeOK

LEMMA RevertAllTyped ==
  ASSUME TypeOK, RevertAll
  PROVE  /\ mask' \in [Proc -> Mask] /\ row' \in [Proc -> Row \cup {NoRow}]
         /\ thread' \subseteq Proc
<1>1. \A p \in Proc : row[p] # NoRow => row[p].prev \in Mask
  BY RowRules
<1>2. QED
  BY <1>1 DEF RevertAll, TypeOK, Mask

LEMMA RowsOfPlaced ==
  ASSUME TypeOK, NEW R, "none" \notin R
  PROVE  RowsOf(R) \subseteq {p \in Proc : row[p] # NoRow}
BY RowRules DEF RowsOf

(* What a reset or a pause and what a change of the differential mode have  *)
(* in common with every command: the machine, the observation and the label *)
(* stay.                                                                    *)
LEMMA CommandTyped == TypeOK /\ Command => TypeOK'
<1> SUFFICES ASSUME TypeOK, Command PROVE TypeOK'
  OBVIOUS
<1> USE DEF Handle, seeVars, confVars, execVars, osVars
<1>0. ASSUME mask' \in [Proc -> Mask], row' \in [Proc -> Row \cup {NoRow}], thread' \subseteq Proc,
             UNCHANGED <<up, gone, acRunning, tick, seeVars, label>>, phase' = "observe",
             paused' \in BOOLEAN, live' \in BOOLEAN, diff' \in BOOLEAN, profile' \in Profile,
             rule' \in [Proc -> {"none", "never", "freq", "vcache"}]
      PROVE  TypeOK'
  BY <1>0 DEF TypeOK
<1> USE DEF RevertNone
<1>1. CASE NoCommand
  BY <1>1 DEF NoCommand, TypeOK
<1>2. CASE PausePolicies \/ ForceRevertAll
  BY <1>2, <1>0, RevertAllTyped DEF PausePolicies, ForceRevertAll, TypeOK
<1>3. CASE ResumePolicies
  BY <1>3, <1>0 DEF ResumePolicies, TypeOK
<1>4. ASSUME NEW b \in BOOLEAN, SetDifferentialPin(b) PROVE TypeOK'
  <2>1. mask' \in [Proc -> Mask] /\ row' \in [Proc -> Row \cup {NoRow}] /\ thread' \subseteq Proc
    BY <1>4, RevertAllTyped DEF SetDifferentialPin, TypeOK
  <2>2. QED
    BY <1>4, <1>0, <2>1 DEF SetDifferentialPin, TypeOK
<1>5. ASSUME NEW b \in BOOLEAN, NEW keep \in BOOLEAN, SetCorralLive(b, keep) PROVE TypeOK'
  <2>1. mask' \in [Proc -> Mask] /\ row' \in [Proc -> Row \cup {NoRow}]
    BY <1>5, RevertTyped, RowsOfPlaced DEF SetCorralLive
  <2>2. QED
    BY <1>5, <1>0, <2>1 DEF SetCorralLive, TypeOK
<1>6. ASSUME NEW p \in Proc, NEW a \in RuleAction, SetProcessRule(p, a) PROVE TypeOK'
  BY <1>6, <1>0, TickAssumption DEF SetProcessRule, TypeOK, TickAssumption
<1>7. ASSUME NEW p \in Proc, RemoveProcessRule(p) PROVE TypeOK'
  <2>1. mask' \in [Proc -> Mask] /\ row' \in [Proc -> Row \cup {NoRow}]
    BY <1>7, RevertTyped, RowsOfPlaced DEF RemoveProcessRule
  <2>2. QED
    BY <1>7, <1>0, <2>1 DEF RemoveProcessRule, TypeOK
<1>8. ASSUME NEW f \in Profile, SetProfile(f) PROVE TypeOK'
  <2>1. mask' \in [Proc -> Mask] /\ row' \in [Proc -> Row \cup {NoRow}]
    BY <1>8, RevertTyped, RowsOfPlaced DEF SetProfile
  <2>2. QED
    BY <1>8, <1>0, <2>1 DEF SetProfile, TypeOK
<1>9. QED
  BY <1>1, <1>2, <1>3, <1>4, <1>5, <1>6, <1>7, <1>8 DEF Command

LEMMA ObserveTyped ==
  ASSUME TypeOK, NEW reload \in BOOLEAN, NEW capture \in BOOLEAN, NEW load \in [Refreshed -> Load],
         NEW evident \in SUBSET Refreshed, Observe(reload, capture, load, evident)
  PROVE  TypeOK'
<1>1. Refreshed \subseteq Proc
  BY DEF TypeOK, Refreshed
<1>2. /\ up' \subseteq Proc /\ gone' \subseteq Proc /\ tracked' \subseteq Proc /\ thread' \subseteq Proc
      /\ {acRunning', paused', live', diff', acQuiet', coexist'} \subseteq BOOLEAN
      /\ phase' = "user" /\ tick' \in 0..(Cycle - 1) /\ profile' \in Profile
      /\ rule' \in [Proc -> {"none", "never", "freq", "vcache"}]
      /\ label' \in [Proc -> {"none", "allowed", "blocked"}]
  BY <1>1 DEF Observe, TypeOK, confVars
<1>3. row' \in [Proc -> Row \cup {NoRow}]
  BY DEF Observe, TypeOK
<1>4. mask' \in [Proc -> Mask]
  <2>1. \A p \in RowsOf(AcQuietRules) : row[p].prev \in Mask
    BY RowsOfPlaced, RowRules DEF AcQuietRules
  <2>2. QED
    BY <2>1 DEF Observe, TypeOK
<1>5. sample' \in [Proc -> [load : {"new", "idle"} \cup Load, seen : Mask \cup {"none"}]]
  <2>1. \A p \in Refreshed : \A quiet :
          Captured(p, load[p], quiet, mask') \in [load : {"new", "idle"} \cup Load, seen : Mask \cup {"none"}]
    BY <1>1, <1>4 DEF Captured
  <2>2. Unseen \in [load : {"new", "idle"} \cup Load, seen : Mask \cup {"none"}]
    BY DEF Unseen
  <2>3. QED
    BY <2>1, <2>2, <1>1 DEF Observe, TypeOK
<1>6. cache' \in [Proc -> Kind \cup {"unknown", "absent"}]
  <2>1. \A p \in Proc : TrueKind(p) \in Kind
    BY DEF TrueKind, Kind
  <2>2. \A c \in [Proc -> Kind \cup {"unknown", "absent"}] : \A p \in Proc :
          Classified(c, p, evident) \in Kind \cup {"unknown"}
    BY <2>1 DEF Classified
  <2>3. [p \in Proc |-> "absent"] \in [Proc -> Kind \cup {"unknown", "absent"}]
    OBVIOUS
  <2>4. PICK c \in [Proc -> Kind \cup {"unknown", "absent"}] :
          cache' = IF tick % RefreshEvery = 0
                   THEN [p \in Proc |-> IF p \in Refreshed THEN Classified(c, p, evident) ELSE c[p]]
                   ELSE c
    BY <2>3 DEF Observe, TypeOK
  <2>5. QED
    BY <2>2, <2>4
<1>7. kind' \in [Proc -> Kind \cup {"unknown"}]
  <2>1. \A c \in Kind \cup {"unknown", "absent"} : KindOf(c) \in Kind \cup {"unknown"}
    BY DEF KindOf
  <2>2. QED
    BY <2>1, <1>6 DEF Observe
<1>8. QED
  BY <1>2, <1>3, <1>4, <1>5, <1>6, <1>7 DEF TypeOK

LEMMA LabelTyped ==
  ASSUME TypeOK, NEW S, NEW v \in [tracked -> Verdict], S \subseteq tracked, Labelled(S, v)
  PROVE  label' \in [Proc -> {"none", "allowed", "blocked"}]
<1>1. \A p \in tracked : Outcome(p, v) \in {"allowed", "blocked", "refused"}
  BY TickAssumption DEF Outcome, TickAssumption
<1>2. QED
  BY <1>1 DEF Labelled, TypeOK

LEMMA PassesTyped ==
  ASSUME TypeOK
  PROVE  /\ \A v \in [tracked -> Verdict] : UserPass(v) => TypeOK'
         /\ \A found \in BOOLEAN : CorralPass(found) => TypeOK'
         /\ \A v \in [tracked -> Verdict], hot \in SUBSET tracked : PolicyPass(v, hot) => TypeOK'
<1> USE DEF confVars, seeVars
<1>1. ASSUME NEW v \in [tracked -> Verdict], UserPass(v) PROVE TypeOK'
  <2> DEFINE wants == IF UserPassOpen THEN {p \in tracked : UserWants(p)} ELSE {}
             gated == {p \in wants : kind[p] \in {"game", "unknown"}}
             S     == {p \in wants : p \in gated => Passes(p, v)}
  <2>1. \A p \in S \cap Proc : rule[p] \in Mask /\ [q \in Proc |-> "user"][p] = "user"
    BY DEF UserWants, Mask
  <2>2. Apply(S, rule, [p \in Proc |-> "user"])
    BY <1>1 DEF UserPass
  <2>3. mask' \in [Proc -> Mask] /\ row' \in [Proc -> Row \cup {NoRow}]
    <3> HIDE DEF S
    <3>1. QED
      BY <2>1, <2>2, ApplyTyped
  <2>4. label' \in [Proc -> {"none", "allowed", "blocked"}]
    <3>1. gated \subseteq tracked /\ Labelled(gated, v)
      BY <1>1 DEF UserPass
    <3> HIDE DEF gated
    <3>2. QED
      BY <3>1, LabelTyped
  <2>5. QED
    BY <1>1, <2>3, <2>4 DEF UserPass, TypeOK
<1>2. ASSUME NEW found \in BOOLEAN, CorralPass(found) PROVE TypeOK'
  <2> DEFINE S == IF CorralOpen /\ ~coexist' THEN {p \in tracked : WouldCorral(p)} ELSE {}
             t == [p \in Proc |-> "freq"]
             r == [p \in Proc |-> "corral"]
  <2>1. Apply(S, t, r)
    BY <1>2 DEF CorralPass
  <2>2. \A p \in S \cap Proc : t[p] \in Mask /\ r[p] \in {"game", "evict", "memory", "corral", "user"}
    BY DEF Mask
  <2>3. mask' \in [Proc -> Mask] /\ row' \in [Proc -> Row \cup {NoRow}]
    <3> HIDE DEF S, t, r
    <3>1. QED
      BY <2>1, <2>2, ApplyTyped
  <2>4. QED
    BY <1>2, <2>3 DEF CorralPass, TypeOK
<1>3. ASSUME NEW v \in [tracked -> Verdict], NEW hot \in SUBSET tracked, PolicyPass(v, hot)
      PROVE  TypeOK'
  <2> DEFINE chosen == IF PolicyPassOpen
                       THEN {p \in tracked \ Bad : Decided(p) /\ rule[p] = "none"} ELSE {}
             gated  == {p \in chosen : kind[p] = "game"}
             passed == {p \in chosen : p \in gated => Passes(p, v)}
             split  == {p \in passed \ Recalled : kind[p] = "game" /\ diff /\ p \in hot}
             t      == [p \in Proc |-> IF p \in Recalled \/ kind[p] = "game" THEN "vcache" ELSE "freq"]
             r      == [p \in Proc |-> IF p \in Recalled THEN "memory"
                                       ELSE IF kind[p] = "game" THEN "game" ELSE "evict"]
  <2>1. ApplyWithDifferential(passed \ split, split, t, r) /\ Labelled(gated, v)
    BY <1>3 DEF PolicyPass
  <2>2. \A p \in Proc : t[p] \in Mask /\ r[p] \in {"game", "evict", "memory", "corral", "user"}
    BY DEF Mask
  <2>3. mask' \in [Proc -> Mask] /\ row' \in [Proc -> Row \cup {NoRow}] /\ thread' \subseteq Proc
    <3> HIDE DEF passed, split, t, r
    <3>1. QED
      BY <2>1, <2>2, DifferentialTyped
  <2>4. label' \in [Proc -> {"none", "allowed", "blocked"}]
    <3>1. gated \subseteq tracked
      OBVIOUS
    <3> HIDE DEF gated
    <3>2. QED
      BY <2>1, <3>1, LabelTyped
  <2>5. tick' \in 0..(Cycle - 1)
    BY <1>3, TickAssumption DEF PolicyPass, TypeOK, TickAssumption
  <2>6. kind' \in [Proc -> Kind \cup {"unknown"}]
    BY <1>3 DEF PolicyPass
  <2>7. QED
    BY <1>3, <2>3, <2>4, <2>5, <2>6 DEF PolicyPass, TypeOK
<1>4. QED
  BY <1>1, <1>2, <1>3

(* Every variable of the tick keeps its type.                               *)
THEOREM TypeCorrect == Spec => []TypeOK
<1>1. Init => TypeOK
  <2> SUFFICES ASSUME Init PROVE TypeOK
    OBVIOUS
  <2>1. acRunning \in BOOLEAN /\ paused \in BOOLEAN /\ live \in BOOLEAN /\ profile \in Profile
    <3>1. ("ac" \in Env) \in BOOLEAN /\ StartPaused \subseteq BOOLEAN /\ StartLive \subseteq BOOLEAN
          /\ StartProfile \subseteq Profile
      BY TickAssumption DEF TickAssumption
    <3>2. acRunning \in {FALSE, "ac" \in Env} /\ paused \in StartPaused /\ live \in StartLive
          /\ profile \in StartProfile
      BY DEF Init
    <3>3. acRunning \in BOOLEAN
      BY <3>1, <3>2
    <3>4. QED
      BY <3>1, <3>2, <3>3
  <2>2. tick \in 0..(Cycle - 1)
    BY TickAssumption DEF Init, TickAssumption
  <2>3. {acRunning, paused, live, diff, acQuiet, coexist} \subseteq BOOLEAN
    BY <2>1 DEF Init
  <2>4. /\ mask \in [Proc -> Mask] /\ row \in [Proc -> Row \cup {NoRow}]
        /\ sample \in [Proc -> [load : {"new", "idle"} \cup Load, seen : Mask \cup {"none"}]]
    BY DEF Init, Mask, Unseen
  <2>5. /\ rule \in [Proc -> {"none", "never", "freq", "vcache"}]
        /\ cache \in [Proc -> Kind \cup {"unknown", "absent"}]
        /\ kind \in [Proc -> Kind \cup {"unknown"}]
        /\ label \in [Proc -> {"none", "allowed", "blocked"}]
        /\ phase \in {"command", "observe", "user", "corral", "policy"}
        /\ up \subseteq Proc /\ gone \subseteq Proc /\ tracked \subseteq Proc /\ thread \subseteq Proc
    BY DEF Init
  <2>6. QED
    BY <2>1, <2>2, <2>3, <2>4, <2>5 DEF TypeOK
<1>2. TypeOK /\ [Next]_vars => TypeOK'
  <2> SUFFICES ASSUME TypeOK, [Next]_vars PROVE TypeOK'
    OBVIOUS
  <2>1. CASE Command
    BY <2>1, CommandTyped
  <2>2. ASSUME NEW reload \in BOOLEAN, NEW capture \in BOOLEAN, NEW load \in [Refreshed -> Load],
               NEW evident \in SUBSET Refreshed, Observe(reload, capture, load, evident)
        PROVE  TypeOK'
    BY <2>2, ObserveTyped
  <2>3. CASE \/ \E v \in [tracked -> Verdict] : UserPass(v)
             \/ \E found \in BOOLEAN : CorralPass(found)
             \/ \E v \in [tracked -> Verdict], hot \in SUBSET tracked : PolicyPass(v, hot)
    BY <2>3, PassesTyped
  <2>4. CASE Machine
    <3> USE DEF osVars, confVars, seeVars, execVars, TypeOK
    <3>1. ASSUME NEW p \in Proc, Launch(p) PROVE TypeOK'
      BY <3>1 DEF Launch
    <3>2. ASSUME NEW p \in Proc, Exit(p) PROVE TypeOK'
      <4>1. mask' \in [Proc -> Mask]
        BY <3>2 DEF Exit, Mask
      <4>2. QED
        BY <3>2, <4>1 DEF Exit
    <3>3. ASSUME NEW p \in Proc, NEW m \in ForeignMask, Repin(p, m) PROVE TypeOK'
      <4>1. mask' \in [Proc -> Mask]
        BY <3>3, TickAssumption DEF Repin, TickAssumption
      <4>2. QED
        BY <3>3, <4>1 DEF Repin
    <3>4. CASE AcToggle
      <4>1. acRunning' \in BOOLEAN
        BY <3>4 DEF AcToggle
      <4>2. QED
        BY <3>4, <4>1 DEF AcToggle
    <3>5. QED
      BY <2>4, <3>1, <3>2, <3>3, <3>4 DEF Machine
  <2>5. CASE UNCHANGED vars
    BY <2>5 DEF vars, TypeOK, osVars, confVars, seeVars, execVars
  <2>6. QED
    BY <2>1, <2>2, <2>3, <2>4, <2>5 DEF Next, Tick
<1>3. QED
  BY <1>1, <1>2, PTL DEF Spec

----------------------------------------------------------------------------
(* Where a row comes from: one of the three passes made it, for a tracked   *)
(* process that runs and had none, while that pass was open; it holds the   *)
(* mask the process had.                                                    *)
LEMMA RowsComeFromOpenPasses ==
  ASSUME TypeOK, [Next]_vars, NEW p \in Proc, row'[p] # row[p], row'[p] # NoRow
  PROVE  /\ row[p] = NoRow /\ p \in tracked \cap up /\ row'[p].prev = mask[p]
         /\ UNCHANGED <<up, gone, tracked, confVars, acQuiet>>
         /\ \/ row'[p].rule = "user" /\ UserPassOpen /\ rule[p] # "none"
            \/ row'[p].rule = "corral" /\ CorralOpen
            \/ row'[p].rule \in {"game", "evict", "memory"} /\ PolicyPassOpen
<1> USE DEF confVars, seeVars, execVars, osVars
<1>1. ~Command
  BY DEF Command, NoCommand, PausePolicies, ResumePolicies, ForceRevertAll, SetDifferentialPin,
         SetCorralLive, SetProcessRule, RemoveProcessRule, SetProfile, RevertNone, RevertAll, RevertRows
<1>2. ASSUME NEW reload, NEW capture, NEW load, NEW evident, Observe(reload, capture, load, evident)
      PROVE  FALSE
  BY <1>2 DEF Observe
<1>3. ~Machine /\ ~UNCHANGED vars
  BY DEF Machine, Launch, Exit, Repin, AcToggle, vars
<1>4. ASSUME NEW v, UserPass(v)
      PROVE  /\ row[p] = NoRow /\ p \in tracked \cap up /\ row'[p].prev = mask[p]
             /\ row'[p].rule = "user" /\ UserPassOpen /\ rule[p] # "none"
  BY <1>4 DEF UserPass, Apply, UserWants
<1>5. ASSUME NEW found, CorralPass(found)
      PROVE  /\ row[p] = NoRow /\ p \in tracked \cap up /\ row'[p].prev = mask[p]
             /\ row'[p].rule = "corral" /\ CorralOpen
  BY <1>5 DEF CorralPass, Apply
<1>6. ASSUME NEW v, NEW hot, PolicyPass(v, hot)
      PROVE  /\ row[p] = NoRow /\ p \in tracked \cap up /\ row'[p].prev = mask[p]
             /\ row'[p].rule \in {"game", "evict", "memory"} /\ PolicyPassOpen
  BY <1>6 DEF PolicyPass, ApplyWithDifferential
<1>7. QED
  BY <1>1, <1>2, <1>3, <1>4, <1>5, <1>6 DEF Next, Tick, UserPass, CorralPass, PolicyPass

(* What closes a pass for the rows that stay.  The agent goes quiet in the  *)
(* scan only, which takes back the corral's and the user's rows; it leaves  *)
(* the corral's profile, or any that places, by a command that takes back   *)
(* the rows of the passes it closes.                                        *)
LEMMA QuietTakesBack ==
  ASSUME TypeOK, [Next]_vars, NEW p \in RowsOf({"corral", "user"}), row'[p] = row[p], ~acQuiet
  PROVE  ~acQuiet'
<1>1. p \in Proc /\ row[p] # NoRow /\ row[p].rule \in {"corral", "user"}
  BY DEF RowsOf, NoRow
<1>2. ASSUME NEW reload, NEW capture, NEW load, NEW evident, Observe(reload, capture, load, evident)
      PROVE  ~acQuiet'
  BY <1>1, <1>2 DEF Observe, AcQuietRules, RowsOf
<1>3. CASE Command
  BY <1>3 DEF Command, Handle, NoCommand, PausePolicies, ResumePolicies, ForceRevertAll,
              SetDifferentialPin, SetCorralLive, SetProcessRule, RemoveProcessRule, SetProfile, seeVars
<1>4. CASE Machine \/ UNCHANGED vars
  BY <1>4 DEF Machine, Launch, Exit, Repin, AcToggle, vars, seeVars
<1>5. QED
  BY <1>2, <1>3, <1>4 DEF Next, Tick, UserPass, CorralPass, PolicyPass, seeVars

LEMMA ProfileTakesBack ==
  ASSUME TypeOK, [Next]_vars, NEW p \in Proc, row[p] # NoRow, row'[p] = row[p]
  PROVE  /\ row[p].rule = "corral" /\ profile = "corral" => profile' = "corral"
         /\ row[p].rule = "user" /\ profile # "monitor" => profile' # "monitor"
<1>1. ASSUME NEW f \in Profile, SetProfile(f)
      PROVE  /\ row[p].rule = "corral" /\ profile = "corral" => profile' = "corral"
             /\ row[p].rule = "user" /\ profile # "monitor" => profile' # "monitor"
  BY <1>1 DEF SetProfile, RevertRows, RowsOf
<1>2. ASSUME NEW reload, NEW capture, NEW load, NEW evident, Observe(reload, capture, load, evident)
      PROVE  UNCHANGED profile
  BY <1>2 DEF Observe, confVars
<1>3. CASE Command /\ ~\E f \in Profile : SetProfile(f)
  BY <1>3 DEF Command, NoCommand, PausePolicies, ResumePolicies, ForceRevertAll, SetDifferentialPin,
              SetCorralLive, SetProcessRule, RemoveProcessRule, confVars
<1>4. CASE Machine \/ UNCHANGED vars
  BY <1>4 DEF Machine, Launch, Exit, Repin, AcToggle, vars, confVars
<1>5. QED
  BY <1>1, <1>2, <1>3, <1>4 DEF Next, Tick, UserPass, CorralPass, PolicyPass, confVars

(* The corral holds no process outside its profile or after the scan saw a  *)
(* kernel anti-cheat.                                                       *)
THEOREM CorralProfile == Spec => []CorralStaysInItsProfile
<1>1. Init => CorralStaysInItsProfile
  BY DEF Init, CorralStaysInItsProfile, RowsOf, NoRow
<1>2. TypeOK /\ TypeOK' /\ CorralStaysInItsProfile /\ [Next]_vars => CorralStaysInItsProfile'
  <2> SUFFICES ASSUME TypeOK, TypeOK', CorralStaysInItsProfile, [Next]_vars,
                      NEW p \in Proc, row'[p].rule = "corral"
               PROVE  profile' = "corral" /\ ~acQuiet'
    BY DEF CorralStaysInItsProfile, RowsOf
  <2>1. row'[p] # NoRow
    BY DEF NoRow
  <2>2. CASE row'[p] # row[p]
    <3>1. CorralOpen /\ UNCHANGED <<confVars, acQuiet>>
      BY <2>1, <2>2, RowsComeFromOpenPasses
    <3>2. QED
      BY <3>1 DEF CorralOpen, confVars
  <2>3. CASE row'[p] = row[p]
    <3>1. p \in RowsOf({"corral"}) /\ p \in RowsOf({"corral", "user"})
      BY <2>3 DEF RowsOf
    <3>2. profile = "corral" /\ ~acQuiet
      BY <3>1 DEF CorralStaysInItsProfile
    <3>3. QED
      BY <2>1, <2>3, <3>1, <3>2, QuietTakesBack, ProfileTakesBack DEF RowsOf
  <2>4. QED
    BY <2>2, <2>3
<1>3. QED
  BY <1>1, <1>2, TypeCorrect, PTL DEF Spec

(* Neither a rule nor the pause goes from under a pin of the user.          *)
LEMMA CommandsTakeBack ==
  ASSUME TypeOK, [Next]_vars, NEW p \in Proc, row[p] # NoRow, row'[p] = row[p]
  PROVE  /\ row[p].rule = "user" /\ rule[p] # "none" => rule'[p] # "none"
         /\ ~paused => ~paused'
<1>1. CASE Command
  <2>1. ASSUME NEW b, SetDifferentialPin(b) PROVE UNCHANGED <<rule, paused>>
    BY <2>1 DEF SetDifferentialPin
  <2>2. ASSUME NEW b, NEW keep, SetCorralLive(b, keep) PROVE UNCHANGED <<rule, paused>>
    BY <2>2 DEF SetCorralLive
  <2>3. ASSUME NEW f, SetProfile(f) PROVE UNCHANGED <<rule, paused>>
    BY <2>3 DEF SetProfile
  <2>4. ASSUME NEW q \in Proc, NEW a \in RuleAction, SetProcessRule(q, a)
        PROVE  UNCHANGED paused /\ (rule[p] # "none" => rule'[p] # "none")
    BY <2>4, TickAssumption DEF SetProcessRule, TypeOK, TickAssumption
  <2>5. ASSUME NEW q \in Proc, RemoveProcessRule(q)
        PROVE  UNCHANGED paused /\ (row[p].rule = "user" /\ rule[p] # "none" => rule'[p] # "none")
    BY <2>5 DEF RemoveProcessRule, RevertRows, RowsOf, TypeOK
  <2>6. CASE NoCommand \/ ResumePolicies
    BY <2>6, TypeOK DEF NoCommand, ResumePolicies, confVars, TypeOK
  <2>7. ~PausePolicies /\ ~ForceRevertAll
    BY DEF PausePolicies, ForceRevertAll, RevertAll
  <2>8. QED
    BY <1>1, <2>1, <2>2, <2>3, <2>4, <2>5, <2>6, <2>7 DEF Command
<1>2. ASSUME NEW reload, NEW capture, NEW load, NEW evident, Observe(reload, capture, load, evident)
      PROVE  UNCHANGED <<rule, paused>>
  BY <1>2 DEF Observe, confVars
<1>3. CASE Machine \/ UNCHANGED vars
  BY <1>3 DEF Machine, Launch, Exit, Repin, AcToggle, vars, confVars
<1>4. ASSUME NEW v, NEW hot, NEW found, UserPass(v) \/ CorralPass(found) \/ PolicyPass(v, hot)
      PROVE  UNCHANGED <<rule, paused>>
  BY <1>4 DEF UserPass, CorralPass, PolicyPass, confVars
<1>5. Command \/ (Machine \/ UNCHANGED vars) \/ UNCHANGED <<rule, paused>>
  BY <1>2, <1>4 DEF Next, Tick
<1>6. QED
  BY <1>1, <1>3, <1>5

(* A pin of the user stands only while its process has a rule and the pass  *)
(* that made it is open.                                                    *)
THEOREM UserPinsAreRuled == Spec => []UserPinsHaveRules
<1>1. Init => UserPinsHaveRules
  BY DEF Init, UserPinsHaveRules, RowsOf, NoRow
<1>2. TypeOK /\ TypeOK' /\ UserPinsHaveRules /\ [Next]_vars => UserPinsHaveRules'
  <2> SUFFICES ASSUME TypeOK, TypeOK', UserPinsHaveRules, [Next]_vars,
                      NEW p \in Proc, row'[p].rule = "user"
               PROVE  rule'[p] # "none" /\ ~paused' /\ profile' # "monitor" /\ ~acQuiet'
    BY DEF UserPinsHaveRules, RowsOf
  <2>1. row'[p] # NoRow
    BY DEF NoRow
  <2>2. CASE row'[p] # row[p]
    <3>1. UserPassOpen /\ rule[p] # "none" /\ UNCHANGED <<confVars, acQuiet>>
      BY <2>1, <2>2, RowsComeFromOpenPasses
    <3>2. QED
      BY <3>1 DEF UserPassOpen, PlacementAllowed, confVars
  <2>3. CASE row'[p] = row[p]
    <3>1. p \in RowsOf({"user"}) /\ p \in RowsOf({"corral", "user"}) /\ row[p] # NoRow
      BY <2>1, <2>3 DEF RowsOf
    <3>2. rule[p] # "none" /\ ~paused /\ profile # "monitor" /\ ~acQuiet
      BY <3>1 DEF UserPinsHaveRules
    <3>3. rule'[p] # "none" /\ ~paused'
      BY <2>3, <3>1, <3>2, CommandsTakeBack DEF RowsOf
    <3>4. profile' # "monitor" /\ ~acQuiet'
      BY <2>3, <3>1, <3>2, QuietTakesBack, ProfileTakesBack DEF RowsOf
    <3>5. QED
      BY <3>3, <3>4
  <2>4. QED
    BY <2>2, <2>3
<1>3. QED
  BY <1>1, <1>2, TypeCorrect, PTL DEF Spec

(* A differential pin comes from the policy pass too.                       *)
LEMMA ThreadsComeFromThePolicies ==
  ASSUME TypeOK, [Next]_vars, NEW p \in Proc, p \in thread' \ thread
  PROVE  PolicyPassOpen /\ UNCHANGED confVars
<1>1. ~Command
  BY DEF Command, NoCommand, PausePolicies, ResumePolicies, ForceRevertAll, SetDifferentialPin,
         SetCorralLive, SetProcessRule, RemoveProcessRule, SetProfile, RevertNone, RevertAll, execVars
<1>2. ASSUME NEW reload, NEW capture, NEW load, NEW evident, Observe(reload, capture, load, evident)
      PROVE  FALSE
  BY <1>2 DEF Observe
<1>3. ~Machine /\ ~UNCHANGED vars
  BY DEF Machine, Launch, Exit, Repin, AcToggle, vars, execVars
<1>4. ASSUME NEW v, NEW hot, PolicyPass(v, hot) PROVE PolicyPassOpen /\ UNCHANGED confVars
  BY <1>4 DEF PolicyPass, ApplyWithDifferential
<1>5. QED
  BY <1>1, <1>2, <1>3, <1>4 DEF Next, Tick, UserPass, CorralPass

(* A pause leaves no placement but the corral's, until it ends.             *)
THEOREM PauseIsQuiet == Spec => []PausedIsQuiet
<1>1. Init => PausedIsQuiet
  BY DEF Init, PausedIsQuiet, RowsOf, NoRow
<1>2. TypeOK /\ TypeOK' /\ PausedIsQuiet /\ [Next]_vars => PausedIsQuiet'
  <2> SUFFICES ASSUME TypeOK, TypeOK', PausedIsQuiet, [Next]_vars, paused'
               PROVE  /\ \A p \in Proc : row'[p].rule \notin {"game", "evict", "memory", "user"}
                      /\ thread' = {}
    BY DEF PausedIsQuiet, RowsOf
  <2>1. CASE ~paused
    <3>1. PausePolicies \/ ForceRevertAll
      <4>1. ASSUME NEW reload, NEW capture, NEW load, NEW evident,
                   Observe(reload, capture, load, evident)
            PROVE  FALSE
        BY <2>1, <4>1 DEF Observe, confVars
      <4>2. ~Machine /\ ~UNCHANGED vars
        BY <2>1 DEF Machine, Launch, Exit, Repin, AcToggle, vars, confVars
      <4>3. QED
        BY <2>1, <4>1, <4>2 DEF Next, Tick, Command, NoCommand, ResumePolicies, SetDifferentialPin,
             SetCorralLive, SetProcessRule, RemoveProcessRule, SetProfile, UserPass, CorralPass,
             PolicyPass, confVars
    <3>2. QED
      BY <3>1 DEF PausePolicies, ForceRevertAll, RevertAll, NoRow
  <2>2. CASE paused
    <3>1. thread = {} /\ \A p \in Proc : row[p].rule \notin {"game", "evict", "memory", "user"}
      BY <2>2 DEF PausedIsQuiet, RowsOf
    <3>2. ~PolicyPassOpen /\ ~UserPassOpen
      BY <2>2 DEF PolicyPassOpen, UserPassOpen
    <3>3. ASSUME NEW p \in Proc PROVE row'[p].rule \notin {"game", "evict", "memory", "user"}
      <4>1. CASE row'[p] = row[p]
        BY <3>1, <4>1
      <4>2. CASE row'[p] # row[p] /\ row'[p] # NoRow
        BY <3>2, <4>2, RowsComeFromOpenPasses
      <4>3. CASE row'[p] = NoRow
        BY <4>3 DEF NoRow
      <4>4. QED
        BY <4>1, <4>2, <4>3
    <3>4. thread' \subseteq thread
      <4>1. thread' \subseteq Proc
        BY DEF TypeOK
      <4>2. QED
        BY <3>2, <4>1, ThreadsComeFromThePolicies
    <3>5. QED
      BY <3>1, <3>3, <3>4
  <2>3. QED
    BY <2>1, <2>2 DEF TypeOK
<1>3. QED
  BY <1>1, <1>2, TypeCorrect, PTL DEF Spec

(* What NoOrphan needs to be kept: rows are of processes that have started, *)
(* and are of tracked ones while they run, so the pruning of the untracked  *)
(* loses the row of no running process; and a process that does not run has *)
(* the mask it would start with.                                            *)
PinsKnown ==
  /\ \A p \in Proc : row[p] # NoRow => p \in up \cup gone /\ (p \in up => p \in tracked)
  /\ "repin" \notin Env =>
       \A p \in Proc : /\ p \notin up \/ row[p] = NoRow => mask[p] = "full"
                       /\ row[p] # NoRow => row[p].prev = "full"

LEMMA CommandKeepsPins == TypeOK /\ PinsKnown /\ Command => PinsKnown'
<1> SUFFICES ASSUME TypeOK, PinsKnown, Command PROVE PinsKnown'
  OBVIOUS
<1>1. UNCHANGED <<up, gone, tracked>>
  BY DEF Command, Handle, NoCommand, PausePolicies, ResumePolicies, ForceRevertAll, SetDifferentialPin,
         SetCorralLive, SetProcessRule, RemoveProcessRule, SetProfile, seeVars, osVars
<1>2. UNCHANGED <<mask, row>> \/ RevertAll
      \/ \E S : RevertRows(S) /\ S \subseteq {p \in Proc : row[p] # NoRow}
  <2>1. CASE NoCommand \/ ResumePolicies \/ \E p \in Proc, a \in RuleAction : SetProcessRule(p, a)
    BY <2>1 DEF NoCommand, ResumePolicies, SetProcessRule, RevertNone, osVars, execVars
  <2>2. CASE PausePolicies \/ ForceRevertAll \/ \E b \in BOOLEAN : SetDifferentialPin(b)
    BY <2>2 DEF PausePolicies, ForceRevertAll, SetDifferentialPin, RevertNone
  <2>3. CASE \E b, keep \in BOOLEAN : SetCorralLive(b, keep)
    BY <2>3, RowsOfPlaced DEF SetCorralLive
  <2>4. CASE \E p \in Proc : RemoveProcessRule(p)
    BY <2>4, RowsOfPlaced DEF RemoveProcessRule
  <2>5. CASE \E f \in Profile : SetProfile(f)
    BY <2>5, RowsOfPlaced DEF SetProfile
  <2>6. QED
    BY <2>1, <2>2, <2>3, <2>4, <2>5 DEF Command
<1>3. CASE UNCHANGED <<mask, row>>
  BY <1>1, <1>3 DEF PinsKnown
<1>4. CASE RevertAll
  BY <1>1, <1>4 DEF PinsKnown, RevertAll
<1>5. ASSUME NEW S, RevertRows(S), S \subseteq {p \in Proc : row[p] # NoRow} PROVE PinsKnown'
  <2>1. \A p \in Proc : row'[p] = IF p \in S THEN NoRow ELSE row[p]
    BY <1>5 DEF RevertRows
  <2>2. \A p \in Proc : mask'[p] = IF p \in S /\ p \in up THEN row[p].prev ELSE mask[p]
    BY <1>5 DEF RevertRows
  <2>3. QED
    BY <1>1, <1>5, <2>1, <2>2 DEF PinsKnown
<1>6. QED
  BY <1>2, <1>3, <1>4, <1>5

LEMMA ObserveKeepsPins ==
  ASSUME TypeOK, PinsKnown, NEW reload, NEW capture, NEW load, NEW evident,
         Observe(reload, capture, load, evident)
  PROVE  PinsKnown'
<1> DEFINE pruned == {p \in Proc : row[p] # NoRow /\ p \notin Refreshed}
<1>1. UNCHANGED <<up, gone>> /\ tracked' = Refreshed
  BY DEF Observe
<1>2. \A p \in Proc : p \in tracked \cap up => p \in Refreshed
  BY DEF Refreshed
<1>3. PICK undone : /\ undone \subseteq {p \in Proc : row[p] # NoRow} \ pruned
                    /\ row' = [p \in Proc |-> IF p \in pruned \cup undone THEN NoRow ELSE row[p]]
                    /\ mask' = [p \in Proc |-> IF p \in undone \cap up THEN row[p].prev ELSE mask[p]]
  <2>1. RowsOf(AcQuietRules) \subseteq {p \in Proc : row[p] # NoRow}
    BY RowsOfPlaced DEF AcQuietRules
  <2>2. QED
    BY <2>1 DEF Observe
<1>4. \A p \in Proc : p \in pruned => p \notin up
  BY <1>2 DEF PinsKnown
<1>5. \A p \in Proc : row'[p] # NoRow => row'[p] = row[p] /\ p \notin undone
  BY <1>3
<1> HIDE DEF pruned
<1>6. QED
  BY <1>1, <1>2, <1>3, <1>4, <1>5 DEF PinsKnown

(* Where nobody else changes affinities, a process that is in no table has  *)
(* the mask it started with, and what a row captured is that mask.          *)
THEOREM NoPinIsOrphaned == Spec => []NoOrphan
<1>1. Init => PinsKnown
  BY DEF Init, PinsKnown
<1>2. TypeOK /\ PinsKnown /\ [Next]_vars => PinsKnown'
  <2> SUFFICES ASSUME TypeOK, PinsKnown, [Next]_vars PROVE PinsKnown'
    OBVIOUS
  <2> USE DEF osVars, seeVars, execVars
  <2>1. CASE Command
    BY <2>1, CommandKeepsPins
  <2>2. ASSUME NEW reload, NEW capture, NEW load, NEW evident, Observe(reload, capture, load, evident)
        PROVE  PinsKnown'
    BY <2>2, ObserveKeepsPins
  <2>3. ASSUME NEW S, NEW D, NEW target, NEW r, S \subseteq tracked,
               Apply(S, target, r) \/ ApplyWithDifferential(S, D, target, r),
               UNCHANGED <<up, gone, tracked>>
        PROVE  PinsKnown'
    <3>1. \A p \in Proc :
            \/ row'[p] = row[p] /\ (mask'[p] = mask[p] \/ (p \in up /\ mask'[p] = "full"))
            \/ /\ p \in up \cap tracked /\ row[p] = NoRow /\ row'[p] # NoRow
               /\ row'[p].prev = mask[p]
      BY <2>3 DEF Apply, ApplyWithDifferential, NoRow, TypeOK
    <3>2. QED
      BY <2>3, <3>1 DEF PinsKnown
  <2>4. ASSUME NEW v, NEW found, NEW hot, UserPass(v) \/ CorralPass(found) \/ PolicyPass(v, hot)
        PROVE  PinsKnown'
    <3>1. \E S, D, target, r : /\ S \subseteq tracked
                               /\ Apply(S, target, r) \/ ApplyWithDifferential(S, D, target, r)
      <4>1. CASE UserPass(v)
        BY <4>1 DEF UserPass
      <4>2. CASE CorralPass(found)
        BY <4>2 DEF CorralPass
      <4>3. CASE PolicyPass(v, hot)
        BY <4>3 DEF PolicyPass
      <4>4. QED
        BY <2>4, <4>1, <4>2, <4>3
    <3>2. UNCHANGED <<up, gone, tracked>>
      BY <2>4 DEF UserPass, CorralPass, PolicyPass
    <3>3. QED
      BY <2>3, <3>1, <3>2
  <2>5. CASE Machine
    BY <2>5 DEF Machine, Launch, Exit, Repin, AcToggle, PinsKnown, TypeOK
  <2>6. CASE UNCHANGED vars
    BY <2>6 DEF vars, PinsKnown
  <2>7. QED
    BY <2>1, <2>2, <2>4, <2>5, <2>6 DEF Next, Tick
<1>3. TypeOK /\ PinsKnown => NoOrphan
  BY DEF PinsKnown, NoOrphan, TypeOK
<1>4. QED
  BY <1>1, <1>2, <1>3, TypeCorrect, PTL DEF Spec

(* A process known as a game is placed, or its thread is, only with a       *)
(* standing ALLOWED label.                                                  *)
THEOREM GamesPassTheGate == Spec => GamePlacedIfAllowed
<1> DEFINE Gated == \A p \in Proc :
                      (/\ kind[p] = "game"
                       /\ (row[p] = NoRow /\ row'[p] # NoRow) \/ p \in thread' \ thread)
                        => label'[p] = "allowed"
<1>1. TypeOK /\ [Next]_vars => Gated
  <2> SUFFICES ASSUME TypeOK, [Next]_vars, NEW p \in Proc, kind[p] = "game",
                      (row[p] = NoRow /\ row'[p] # NoRow) \/ p \in thread' \ thread
               PROVE  label'[p] = "allowed"
    OBVIOUS
  <2>1. ~Command
    BY DEF Command, NoCommand, PausePolicies, ResumePolicies, ForceRevertAll, SetDifferentialPin,
           SetCorralLive, SetProcessRule, RemoveProcessRule, SetProfile, RevertNone, RevertAll,
           RevertRows, execVars
  <2>2. ASSUME NEW reload, NEW capture, NEW load, NEW evident, Observe(reload, capture, load, evident)
        PROVE  FALSE
    BY <2>2 DEF Observe
  <2>3. ~Machine /\ ~UNCHANGED vars
    BY DEF Machine, Launch, Exit, Repin, AcToggle, vars, execVars
  <2>4. ASSUME NEW v, NEW S, Labelled(S, v), p \in S, Passes(p, v) PROVE label'[p] = "allowed"
    BY <2>4 DEF Labelled, Passes
  <2>5. ASSUME NEW v, UserPass(v) PROVE label'[p] = "allowed"
    <3> DEFINE wants == IF UserPassOpen THEN {q \in tracked : UserWants(q)} ELSE {}
               gated == {q \in wants : kind[q] \in {"game", "unknown"}}
    <3>1. p \in gated /\ Passes(p, v) /\ Labelled(gated, v)
      BY <2>5 DEF UserPass, Apply
    <3> HIDE DEF gated
    <3>2. QED
      BY <3>1, <2>4
  <2>6. ASSUME NEW found PROVE ~CorralPass(found)
    BY DEF CorralPass, Apply, WouldCorral
  <2>7. ASSUME NEW v, NEW hot, PolicyPass(v, hot) PROVE label'[p] = "allowed"
    <3> DEFINE chosen == IF PolicyPassOpen
                         THEN {q \in tracked \ Bad : Decided(q) /\ rule[q] = "none"} ELSE {}
               gated  == {q \in chosen : kind[q] = "game"}
    <3>1. p \in gated /\ Passes(p, v) /\ Labelled(gated, v)
      BY <2>7 DEF PolicyPass, ApplyWithDifferential
    <3> HIDE DEF gated
    <3>2. QED
      BY <3>1, <2>4
  <2>8. QED
    BY <2>1, <2>2, <2>3, <2>5, <2>6, <2>7 DEF Next, Tick
<1>2. QED
  BY <1>1, TypeCorrect, PTL DEF Spec, GamePlacedIfAllowed
=============================================================================
