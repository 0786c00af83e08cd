---------------------------- MODULE FramePipeline ----------------------------
(***************************************************************************)
(* Frames on their way to the display: a renderer acquires a slot of the     *)
(* FramePool and publishes its index, FrameInterpolatorNode puts a blended    *)
(* frame between two of them, PresentNode shows them and releases the slots. *)
(* The two nodes tick on threads of their own; the graphics queue works      *)
(* beside them, and the thread that owns the graph starts it, restarts the   *)
(* interpolator and stops it all.                                           *)
(***************************************************************************)
EXTENDS Naturals, Sequences, FiniteSetsExt

CONSTANTS kPoolSize,     \* slots of the pool
          Capacity,      \* frames a transport holds; publish drops one more
          MaxFrames, MaxStarts   \* bounds: frames rendered, starts of the interpolator

PipelineAssumption == {kPoolSize, Capacity, MaxFrames, MaxStarts} \subseteq Nat \ {0}

Slots == 1 .. kPoolSize
NoFrame == [slot |-> 0, id |-> 0, mid |-> FALSE]     \* slot 0 stands for UINT32_MAX

VARIABLES in_use,     \* FramePool: the slots acquired
          image,      \* slot -> the frame last drawn into it
          rendered,   \* frame_id of the renderer
          up, down,   \* the transports before and after the interpolator
          node,       \* FrameInterpolatorNode: [at, algo, bound, compute, has, prev, cur, todo]
  ctl,        \* the owner of the graph: [at, restart, late, starts]
  fence,      \* fence_ of the interpolator: signalled
  job,        \* what its command buffer makes the queue do: [a, b, c], slots, 0 if idle
  present,    \* PresentNode: [fenced: fences_initialized_, waits: the frame at hand, shown: the last one]
  fences      \* PresentNode: the fences_ that are signalled

vars == <<in_use, image, rendered, up, down, node, ctl, fence, job, present, fences>>

Idle == [a |-> NoFrame, b |-> NoFrame, c |-> 0]

\* bind_frame_pool was called before, or not; PresentNode has its fences, each signalled, or could
\* not create them, which start() ignores.
Init == /\ in_use = {} /\ image = [s \in Slots |-> 0] /\ rendered = 0 /\ up = <<>> /\ down = <<>>
        /\ \E algo \in {"PassThrough", "LinearBlend"}, bound \in BOOLEAN :
             node = [at |-> "loop", algo |-> algo, bound |-> bound, compute |-> FALSE, has |-> FALSE,
                     prev |-> NoFrame, cur |-> NoFrame, todo |-> <<>>]
        /\ ctl = [at |-> "off", restart |-> FALSE, late |-> FALSE, starts |-> 0]
        /\ fence = TRUE /\ job = Idle
        /\ \E fenced \in BOOLEAN : present = [fenced |-> fenced, waits |-> NoFrame, shown |-> NoFrame]
        /\ fences = Slots

Free == Slots \ in_use

Published(ring, f) == IF Len(ring) < Capacity THEN Append(ring, f) ELSE ring

----------------------------------------------------------------------------
(* The renderer, code of the application: draws into a free slot, or skips the frame. *)

Render == /\ rendered < MaxFrames /\ Free # {}
          /\ LET s == Min(Free) IN
             /\ in_use' = in_use \cup {s} /\ image' = [image EXCEPT ![s] = rendered + 1]
             /\ up' = Published(up, [slot |-> s, id |-> rendered + 1, mid |-> FALSE])
          /\ rendered' = rendered + 1
          /\ UNCHANGED <<down, node, ctl, fence, job, present, fences>>

----------------------------------------------------------------------------
(* FrameInterpolatorNode. *)

\* on_start: without a pool the blend is metadata only.  A pipeline that does not come up makes the
\* node a PassThrough for good; a command pool, buffer or fence that does not is an error, which
\* leaves the algorithm and which start() and restart_node() ignore.
OnStart(outcome) ==
  /\ ctl.at = "off" /\ (ctl.starts = 0 \/ ctl.restart)
  /\ LET tries == node.algo = "LinearBlend" /\ node.bound
     IN node' = [node EXCEPT !.compute = tries /\ outcome = "up",
                             !.algo = IF tries /\ outcome = "refused" THEN "PassThrough" ELSE @]
  /\ ctl' = [at |-> "up", restart |-> FALSE, late |-> FALSE, starts |-> ctl.starts + 1]
  /\ UNCHANGED <<in_use, image, rendered, up, down, fence, job, present, fences>>

PrevLast(f) == <<f, node.prev>>       \* mutant: the new frame goes out before the one before it

\* tick: what goes out before the blended frame and after it.
Before(f) == <<node.prev>>
After(f)  == <<f>>

\* The worker sees that the node is not paused; the owner may pause it before the tick is through.
Begin == /\ node.at = "loop" /\ ctl.at = "up"
         /\ node' = [node EXCEPT !.at = "poll"]
         /\ UNCHANGED <<in_use, image, rendered, up, down, ctl, fence, job, present, fences>>

PollNothing == /\ node.at = "poll" /\ up = <<>>
               /\ node' = [node EXCEPT !.at = "loop"]
               /\ UNCHANGED <<in_use, image, rendered, up, down, ctl, fence, job, present, fences>>

Receive == /\ node.at = "poll" /\ up # <<>>
           /\ LET f == Head(up)
                  blends == node.algo # "PassThrough" /\ node.has IN
              /\ up' = Tail(up)
              /\ node' = [node EXCEPT !.at = IF blends THEN "before" ELSE "after", !.cur = f,
                                      !.todo = IF blends THEN Before(f) ELSE After(f)]
           /\ UNCHANGED <<in_use, image, rendered, down, ctl, fence, job, present, fences>>

\* One publish of the tick; after the last one the frame becomes prev_frame_.
Publish == /\ node.at \in {"before", "after"} /\ node.todo # <<>>
           /\ LET last == Len(node.todo) = 1 IN
              /\ down' = Published(down, Head(node.todo))
              /\ node' = [node EXCEPT !.todo = Tail(@),
                            !.at = IF ~last THEN @ ELSE IF @ = "before" THEN "blend" ELSE "loop",
                            !.prev = IF last /\ node.at = "after" THEN node.cur ELSE @,
                            !.has = @ \/ (last /\ node.at = "after")]
           /\ UNCHANGED <<in_use, image, rendered, up, ctl, fence, job, present, fences>>

\* The blended frame as metadata: it takes over the slot of the frame before it.
Midpoint(slot) == [slot |-> slot, id |-> node.prev.id, mid |-> TRUE]

\* blend_linear, blend_optical_flow: no pipeline, or no free slot.
BlendNothing == /\ node.at = "blend" /\ (node.compute => Free = {})
                /\ node' = [node EXCEPT !.at = "after", !.todo = <<Midpoint(node.prev.slot)>> \o After(node.cur)]
                /\ UNCHANGED <<in_use, image, rendered, up, down, ctl, fence, job, present, fences>>

AcquireOutput == /\ node.at = "blend" /\ node.compute /\ Free # {}
                 /\ in_use' = in_use \cup {Min(Free)}
                 /\ node' = [node EXCEPT !.at = "submit", !.todo = <<Midpoint(Min(Free))>> \o After(node.cur)]
                 /\ UNCHANGED <<image, rendered, up, down, ctl, fence, job, present, fences>>

Unfenced == TRUE                      \* mutant: records over a command buffer that is still at work

\* vkWaitForFences of the submission of the tick before.
Fenced == fence

Submit == /\ node.at = "submit" /\ node.compute /\ Fenced
          /\ fence' = FALSE
          /\ job' = [a |-> node.prev, b |-> node.cur, c |-> Head(node.todo).slot]
          /\ node' = [node EXCEPT !.at = "after"]
          /\ UNCHANGED <<in_use, image, rendered, up, down, ctl, present, fences>>

\* What the tick found is destroyed under it: nothing is submitted.
SubmitLost == /\ node.at = "submit" /\ ~node.compute
              /\ node' = [node EXCEPT !.at = "after"]
              /\ UNCHANGED <<in_use, image, rendered, up, down, ctl, fence, job, present, fences>>

\* The queue: the output is half of each image as it is now.
Compute == /\ job # Idle /\ job' = Idle /\ fence' = TRUE
           /\ image' = [image EXCEPT ![job.c] = job.a.id]
           /\ UNCHANGED <<in_use, rendered, up, down, node, ctl, present, fences>>

----------------------------------------------------------------------------
(* on_stop of the interpolator, on the thread of the graph's owner. *)

Stops(restart) == /\ ctl.at = "up"
                  /\ ctl' = [ctl EXCEPT !.at = "waits", !.restart = restart]
                  /\ node' = [node EXCEPT !.has = FALSE]
                  /\ UNCHANGED <<in_use, image, rendered, up, down, fence, job, present, fences>>

\* shutdown: the workers are joined; nothing ticks again.
Shutdown == node.at = "loop" /\ Stops(FALSE)

\* restart_node: wherever the worker is in its tick.
RestartNode == ctl.starts < MaxStarts /\ Stops(TRUE)

\* vkWaitForFences, for a second at most; the result is ignored.
Waited == /\ ctl.at = "waits"
          /\ ctl' = [ctl EXCEPT !.at = "destroys", !.late = ~fence]
          /\ UNCHANGED <<in_use, image, rendered, up, down, node, fence, job, present, fences>>

\* The pipeline, the fence and the command pool go; of a blend still at work the output may or may
\* not have been written.
Destroy == /\ ctl.at = "destroys"
           /\ ctl' = [ctl EXCEPT !.at = "off"]
           /\ node' = [node EXCEPT !.compute = FALSE]
           /\ fence' = TRUE /\ job' = Idle
           /\ \/ image' = image
              \/ job # Idle /\ image' = [image EXCEPT ![job.c] = job.a.id]
           /\ UNCHANGED <<in_use, rendered, up, down, present, fences>>

----------------------------------------------------------------------------
(* PresentNode. *)

Take == /\ present.waits = NoFrame /\ down # <<>>
        /\ down' = Tail(down) /\ present' = [present EXCEPT !.waits = Head(down)]
        /\ UNCHANGED <<in_use, image, rendered, up, node, ctl, fence, job, fences>>

\* The fence of the slot, which is reset and given to no submission; then release().
Present == /\ present.waits # NoFrame /\ (present.fenced => present.waits.slot \in fences)
           /\ fences' = IF present.fenced THEN fences \ {present.waits.slot} ELSE fences
           /\ in_use' = in_use \ {present.waits.slot}
           /\ present' = [present EXCEPT !.waits = NoFrame, !.shown = present.waits]
           /\ UNCHANGED <<image, rendered, up, down, node, ctl, fence, job>>

Next == \/ Render \/ Begin \/ PollNothing \/ Receive \/ Publish
        \/ BlendNothing \/ AcquireOutput \/ Submit \/ SubmitLost \/ Compute
        \/ Shutdown \/ RestartNode \/ Waited \/ Destroy \/ Take \/ Present
        \/ \E outcome \in {"up", "refused", "failed"} : OnStart(outcome)

Spec == Init /\ [][Next]_vars

----------------------------------------------------------------------------
(* Correctness. *)

Destroying == ctl.at = "destroys" /\ ctl'.at = "off"

\* The command buffer is recorded over only when the queue is done with it, across the ticks and
\* the restarts; and what the queue uses is destroyed under it only if it took longer than the
\* second on_stop waits, or if the node is restarted, whose worker may submit behind the wait.
OneJobAtATime ==
  [][job # Idle => job' \in {job, Idle} /\ (Destroying => ctl.late \/ ctl.restart)]_vars

\* "Drain any in-flight compute work before destroying its resources" (FrameInterpolatorNode.cpp:410).
DrainedBeforeDestroyed == [][Destroying => job = Idle]_vars

Rank(f) == 2 * f.id + IF f.mid THEN 1 ELSE 0

\* Whatever the transports drop and however the threads interleave, the display never goes back
\* in time: each frame is shown after the one before it, a blended one between its two.
NeverBack == [][Rank(present'.shown) >= Rank(present.shown)]_vars

\* "Genera un frame interpolado C = blend(A, B, 0.5) entre A y B" (FrameInterpolatorNode.hpp:9): the
\* images the queue reads are those of the two frames.
BlendsItsFrames == job # Idle => image[job.a.slot] = job.a.id /\ image[job.b.slot] = job.b.id

\* PresentNode "Libera el slot de FramePool cuando el GPU termina (vkWaitForFences)"
\* (PresentNode.hpp:11): what it waits for comes.
WaitEnds == present.waits # NoFrame => present.waits.slot \in fences
=============================================================================
