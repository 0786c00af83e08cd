----------------------------- MODULE OpticalFlow -----------------------------
(***************************************************************************)
(* What OpticalFlowPipeline records into a command buffer, and what the GPU *)
(* finds when it runs it: the layouts of the pipeline's own images, the     *)
(* writes that were made visible, the contents each dispatch reads, and the *)
(* descriptor sets it is bound with.                                        *)
(*                                                                          *)
(* The caller waits for its fence before it records again, as               *)
(* FrameInterpolatorNode does, so the commands of two records never overlap.*)
(* The search itself is data: a field of vectors is the pair of frames it   *)
(* was computed from.                                                       *)
(***************************************************************************)
EXTENDS Integers, Sequences, SequencesExt

CONSTANTS
  Frames,       \* views of the frames
  Targets,      \* views the warp writes to
  Depths,       \* pyramid depths, n_levels_
  MaxInFlight,  \* the number of descriptor sets of each kind
  Parities,     \* the two pairs of frames the application bakes, or <<>>
  None

(* A set of each kind is there, and a view is not the absence of one.       *)
FlowAssumption == MaxInFlight \in Nat \ {0} /\ None \notin Targets

VARIABLES
  depth, emit, affine,   \* n_levels_, emit_second_best_, mv_affine_; depth 0 before init()
  armed,                 \* temporal_prior_
  have_prev,             \* have_prev_mv_
  img,                   \* each image: its layout, whether a write is pending, its content
  sets,                  \* the views each slot's sets were written with
  next_set, last_slot,
  baked,                 \* the target baked with Parities, or None
  last,                  \* the pair of the last record
  shown                  \* what the last warp wrote: [asked, drawn, sound]

vars == <<depth, emit, affine, armed, have_prev, img, sets, next_set, last_slot, baked, last, shown>>

Slots  == 0..(MaxInFlight - 1)
Top    == CHOOSE n \in Depths : \A d \in Depths : d <= n
A(i)   == <<"A", i>>
B(i)   == <<"B", i>>
MV(i)  == <<"MV", i>>
Sad    == <<"sad", 0>>
Cand   == <<"cand", 0>>
Blank  == <<"placeholder", 0>>
Prior  == <<"prior", 0>>
Field  == <<"affine", 0>>
Images == {A(i) : i \in 1..Top} \cup {B(i) : i \in 1..Top} \cup {MV(i) : i \in 0..Top}
            \cup {Sad, Cand, Blank, Prior, Field}
Nothing == [asked |-> None, drawn |-> None, sound |-> TRUE]
Zero   == <<>>                         \* vectors that are cleared: of no pair
Fresh  == [layout |-> "undefined", pending |-> FALSE, content |-> None]

Barrier(x, from, to) == <<[op |-> "barrier", img |-> x, from |-> from, to |-> to]>>
Membar               == <<[op |-> "membar"]>>
Copy(x, y)           == <<[op |-> "copy", src |-> x, img |-> y]>>
Clear(x)             == <<[op |-> "clear", img |-> x]>>
(* A dispatch reads images in a layout, expects what is in them, and writes *)
(* its outputs in GENERAL.                                                  *)
Dispatch(layout, expects, outputs, content) ==
  <<[op |-> "dispatch", layout |-> layout, expects |-> expects, outputs |-> outputs,
     content |-> content]>>
When(b, s)           == IF b THEN s ELSE <<>>
Each(is, f(_))       == FlattenSeq([k \in 1..Len(is) |-> f(is[k])])

-----------------------------------------------------------------------------
(* What the GPU does with one command.  A command that finds the wrong      *)
(* layout, a write not made visible, or another content than the algorithm  *)
(* needs there, spoils the record.                                          *)

Ready(s, x, layout) == s.img[x].layout = layout /\ ~s.img[x].pending

Run(s, c) ==
  CASE c.op = "barrier" ->
         [img |-> [s.img EXCEPT ![c.img] =
                     [layout |-> c.to, pending |-> FALSE,
                      content |-> IF c.from = "undefined" THEN None ELSE @.content]],
          sound |-> s.sound /\ c.from \in {"undefined", s.img[c.img].layout}]
    [] c.op = "membar" ->
         [s EXCEPT !.img = [x \in Images |-> [s.img[x] EXCEPT !.pending = FALSE]]]
    [] c.op = "copy" ->
         [img |-> [s.img EXCEPT ![c.img].content = s.img[c.src].content, ![c.img].pending = TRUE],
          sound |-> s.sound /\ Ready(s, c.src, "source") /\ s.img[c.img].layout = "destination"]
    [] c.op = "clear" ->
         [img |-> [s.img EXCEPT ![c.img].content = Zero, ![c.img].pending = TRUE],
          sound |-> s.sound /\ s.img[c.img].layout = "destination"]
    [] c.op = "dispatch" ->
         [img |-> [x \in Images |->
                     IF x \in c.outputs THEN [s.img[x] EXCEPT !.content = c.content, !.pending = TRUE]
                     ELSE s.img[x]],
          sound |-> /\ s.sound
                    /\ \A x \in DOMAIN c.expects :
                         Ready(s, x, c.layout) /\ s.img[x].content = c.expects[x]
                    /\ \A x \in c.outputs : Ready(s, x, "general")]

Execute(commands) == FoldLeft(Run, [img |-> img, sound |-> TRUE], commands)

-----------------------------------------------------------------------------
(* The parts of record_optical_flow().                                      *)

coarsest    == depth - 1

(* mutant: the prior is used by the first record, too.                      *)
priorUnseeded == armed /\ coarsest >= 1

priorActive == armed /\ have_prev /\ coarsest >= 1

CopyPrior ==
  Barrier(MV(coarsest), "general", "source") \o Barrier(Prior, "undefined", "destination")
  \o Copy(MV(coarsest), Prior)
  \o Barrier(Prior, "destination", "general") \o Barrier(MV(coarsest), "source", "general")

Discard(x) == Barrier(x, "undefined", "general")

DiscardLevel(i) ==
  Discard(A(i)) \o Discard(B(i)) \o When(~(priorActive /\ i = coarsest), Discard(MV(i)))

Discards ==
  Each([i \in 1..coarsest |-> i], DiscardLevel) \o Discard(MV(0)) \o Discard(Sad)
  \o When(emit, Discard(Cand)) \o Discard(Blank)

ClearPrior ==
  Barrier(Prior, "undefined", "destination") \o Clear(Prior) \o Barrier(Prior, "destination", "general")

(* A level is made from the one above it; the frame itself is the caller's. *)
Shrink(x(_), frame, i) ==
  Dispatch("general", IF i = 1 THEN <<>> ELSE [y \in {x(i - 1)} |-> frame], {x(i)}, frame)

BuildLevel(a, b, i) == Shrink(A, a, i) \o Shrink(B, b, i) \o Membar

(* A level starts its search at the vectors of the coarser one; the         *)
(* coarsest at those of the previous pair, or at zero.                      *)
Predictor(pair, i) ==
  IF i < coarsest THEN [y \in {MV(i + 1)} |-> pair]
  ELSE [y \in {Prior} |-> IF priorActive THEN last ELSE Zero]

MatchLevel(a, b, i) ==
  Dispatch("general",
           [y \in (IF i = 0 THEN {} ELSE {A(i), B(i)}) \cup DOMAIN Predictor(<<a, b>>, i) |->
              CASE y = A(i) -> a [] y = B(i) -> b [] OTHER -> Predictor(<<a, b>>, i)[y]],
           {MV(i), Sad} \cup (IF i = 0 /\ emit THEN {Cand} ELSE {}), <<a, b>>)
  \o Membar

FieldsForReading ==
  Barrier(MV(0), "general", "read only") \o Barrier(Sad, "general", "read only")
  \o When(emit, Barrier(Cand, "general", "read only"))

FitAffine(a, b) ==
  Discard(Field)
  \o Dispatch("read only", [y \in {MV(0), Sad} |-> <<a, b>>], {Field}, <<a, b>>)
  \o Barrier(Field, "general", "read only")

(* The warp reads the two fields and writes the caller's target.            *)
Warp(a, b) == Dispatch("read only", [y \in {MV(0), Sad} |-> <<a, b>>], {}, <<a, b>>)

Commands(a, b) ==
  LET Build(i) == BuildLevel(a, b, i)  Match(i) == MatchLevel(a, b, i)
  IN When(priorActive, CopyPrior) \o Discards \o When(~priorActive, ClearPrior)
     \o Each([i \in 1..coarsest |-> i], Build)
     \o Each([i \in 1..depth |-> depth - i], Match)
     \o FieldsForReading \o When(affine, FitAffine(a, b)) \o Warp(a, b)

-----------------------------------------------------------------------------
(* The calls.                                                               *)

Start ==
  /\ depth = 0
  /\ depth' \in Depths /\ emit' \in BOOLEAN /\ affine' \in BOOLEAN
  /\ img' = [x \in Images |-> Fresh] /\ sets' = [s \in Slots |-> None] /\ next_set' = 0
  /\ UNCHANGED <<armed, have_prev, last_slot, baked, last, shown>>

Shutdown ==
  /\ depth > 0
  /\ depth' = 0 /\ have_prev' = FALSE /\ baked' = None /\ next_set' = 0
  /\ shown' = Nothing
  /\ UNCHANGED <<emit, affine, armed, img, sets, last_slot, last>>

SetTemporalPrior ==
  /\ armed' \in BOOLEAN \ {armed}
  /\ UNCHANGED <<depth, emit, affine, have_prev, img, sets, next_set, last_slot, baked, last, shown>>

Pair(a, b, c) == [a |-> a, b |-> b, c |-> c]

(* prebake_fg_descriptors(): the pairs of the two parities, into the first  *)
(* two slots.  The application bakes cold, before its first record.         *)
Prebake ==
  /\ depth > 0 /\ ~emit /\ ~affine /\ MaxInFlight >= 2 /\ Len(Parities) = 2
  /\ baked = None /\ ~have_prev
  /\ \E c \in Targets :
       /\ baked' = c
       /\ sets' = [s \in Slots |-> IF s < 2 THEN Pair(Parities[s + 1][1], Parities[s + 1][2], c)
                                   ELSE sets[s]]
  /\ UNCHANGED <<depth, emit, affine, armed, have_prev, img, next_set, last_slot, last, shown>>

(* The slot whose parity was baked for these views, if there is one.        *)
Parity(a, b, c) ==
  IF baked # c THEN None
  ELSE IF <<a, b>> = Parities[1] THEN 0 ELSE IF <<a, b>> = Parities[2] THEN 1 ELSE None

(* The sets of the slot are what the GPU reads the frames and the target    *)
(* through.                                                                 *)
Record(a, b, c) ==
  LET parity == Parity(a, b, c)
      slot   == IF parity # None THEN parity ELSE next_set
      bound  == IF parity # None THEN sets[slot] ELSE Pair(a, b, c)
      after  == Execute(Commands(bound.a, bound.b))
  IN /\ depth > 0
     /\ sets' = [sets EXCEPT ![slot] = bound]
     /\ next_set' = IF parity # None THEN next_set ELSE (next_set + 1) % MaxInFlight
     /\ last_slot' = slot
     /\ img' = after.img
     /\ have_prev' = TRUE /\ last' = <<bound.a, bound.b>>
     /\ shown' = [asked |-> Pair(a, b, c), drawn |-> bound, sound |-> after.sound]
     /\ UNCHANGED <<depth, emit, affine, armed, baked>>

(* mutant: the warp is bound with the slot that comes next.                 *)
RecordWarpNext ==
  /\ depth > 0 /\ have_prev
  /\ LET bound == sets[next_set]
     IN /\ bound # None
        /\ img' = Execute(Warp(bound.a, bound.b)).img
        /\ shown' = [shown EXCEPT !.drawn = bound, !.sound = Execute(Warp(bound.a, bound.b)).sound]
  /\ UNCHANGED <<depth, emit, affine, armed, have_prev, sets, next_set, last_slot, baked, last>>

(* The warp again, at another time between the same two frames: its caller  *)
(* has recorded the pair before.                                            *)
RecordWarpOnly ==
  /\ depth > 0 /\ have_prev
  /\ LET bound == sets[last_slot]
         after == Execute(Warp(bound.a, bound.b))
     IN /\ img' = after.img
        /\ shown' = [shown EXCEPT !.drawn = bound, !.sound = after.sound]
  /\ UNCHANGED <<depth, emit, affine, armed, have_prev, sets, next_set, last_slot, baked, last>>

Init ==
  /\ depth = 0 /\ emit = FALSE /\ affine = FALSE /\ armed = FALSE /\ have_prev = FALSE
  /\ img = [x \in Images |-> Fresh] /\ sets = [s \in Slots |-> None]
  /\ next_set = 0 /\ last_slot = 0 /\ baked = None /\ last = None
  /\ shown = Nothing

Next ==
  \/ Start \/ Shutdown \/ SetTemporalPrior \/ Prebake \/ RecordWarpOnly
  \/ \E a, b \in Frames, c \in Targets : a # b /\ Record(a, b, c)

Spec == Init /\ [][Next]_vars

-----------------------------------------------------------------------------
(* Every command of every record, with the prior armed and disarmed at any  *)
(* time, at every depth and after any shutdown, finds its images in the     *)
(* layout it was recorded for, the writes it depends on visible, the        *)
(* pyramid and the vectors of its own pair, and as a seed the vectors of    *)
(* the pair before, never an image whose contents were discarded            *)
(* (OpticalFlowPipeline.hpp:194).                                           *)
RecordsAreSound == shown.sound

(* As long as nothing is baked, a record and every further warp of it draw  *)
(* the pair that was asked for, into the target that was asked for.         *)
DrawsWhatWasAsked == baked = None => shown.drawn = shown.asked

(* A record draws what it was asked to draw, with baked slots as well: "the *)
(* prebaked slots 0/1 are never clobbered by a fallback record between      *)
(* prebaked records" (OpticalFlowPipeline.cpp:853).                         *)
BakedSlotsAreKept == shown.drawn = shown.asked
=============================================================================
