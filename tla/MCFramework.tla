---------------------------- MODULE MCFramework -----------------------------
(***************************************************************************)
(* The parts of the framework that draw, each on its own: the graph runtime *)
(* and its scheduler (GraphRuntime), the objects on the graphics processor  *)
(* (GpuObjects), the optical flow (OpticalFlow), the frames of the window   *)
(* (VulkanFrames), the presentation plane (PresentSurface), the pipeline of *)
(* interpolated frames (FramePipeline), and the channel between threads     *)
(* (RingChannel).                                                           *)
(***************************************************************************)
EXTENDS Naturals, Sequences, TLC

CONSTANTS
  Focus,                         \* the parts looked at
  None,
  Graphs, Topology, Budget,      \* of GraphRuntime
  Classes, Levels, PoolSlots,    \* of GpuObjects
  Frames, Parities,              \* of OpticalFlow
  Targets, Depths, MaxInFlight,
  Sizes, MaxChanges, MaxRefusals,           \* of VulkanFrames
  Stall, Oldest, MaxSwitches, MaxLosses,    \* of PresentSurface
  kPoolSize, Transport, MaxFrames, MaxStarts,   \* of FramePipeline
  Producers, Readers, Capacity, MaxClaims   \* of RingChannel

VARIABLES
  focus,      \* the part that moves
  graph, multi, order, stop, quiescing, started, paused, life, rings, owner, k, worker,
  stopper, manager, target,
  cls, option, todo, undo, alive, held, lost, initialized, degraded, spent, busy,
  depth, emit, affine, armed, have_prev, img, sets, next_set, last_slot, baked, last, warped,
  win, changes, seen, mail, cached, tick, current, in_flight, uses, built, swapchains, whole,
  acquired, refusals, missed,
  pc, made, lastGasp, shown, yielded, fresh, beaten, wdRun, wpc, wdue, age, still, foreground,
  switches, losses, device_lost,
  in_use, image, rendered, up, down, node, ctl, fence, job, present, fences,
  producer_cursor, live_readers, reader_cursors, slots, pub, rd, alone

-----------------------------------------------------------------------------
(* The values that are looked at.                                           *)
W(s, d) == [src |-> s, dst |-> d]
H(role) == [role |-> role, vcache |-> FALSE, isolated |-> FALSE, gpu |-> FALSE,
            numa |-> None, mate |-> None, foes |-> {}, ccd |-> "none"]
G(size, wires, roles, validated) ==
  [size |-> size, wires |-> wires, hints |-> [i \in 1..size |-> H(roles[i])],
   validated |-> validated]
Pairs == {W(s, d) : s, d \in 0..1}

(* Every graph of two nodes with at most two wires, and some of three.      *)
MCGraphs ==
  {G(2, ws, <<"COMPUTE", "UI_MAIN">>, v) :
     ws \in {<<>>} \cup {<<w>> : w \in Pairs} \cup (Pairs \X Pairs), v \in BOOLEAN}
    \cup {G(3, <<W(2, 1), W(1, 0), W(2, 0)>>, <<"COMPUTE", "COMPUTE", "COMPUTE">>, TRUE)}
    \cup {G(3, ws, <<"RENDER", "COMPUTE", "COMPUTE">>, TRUE) :
            ws \in {<<W(0, 1), W(1, 2), W(2, 0)>>, <<W(0, 1), W(1, 0)>>,
                    <<W(0, 1), W(1, 2), W(2, 1)>>, <<W(0, 2)>>}}

(* The pairs of frames that are baked.                                      *)
MCParities == <<<<"f0", "f1">>, <<"f1", "f0">>>>

C(id, vcache, ccd) ==
  [id |-> id, vcache |-> vcache, efficiency |-> FALSE, ccd |-> ccd, ccx |-> ccd, numa |-> 0,
   sibling |-> None, freq |-> 5, gpu |-> FALSE]

(* A processor with two V-Cache cores and one that is not.                  *)
MCTopology == <<C(0, FALSE, 1), C(1, TRUE, 0), C(2, TRUE, 0)>>
MCBudget == [efficiency |-> TRUE, cores |-> None, numa |-> None, siblings |-> TRUE]

-----------------------------------------------------------------------------
Graph == INSTANCE GraphRuntime

Gpu == INSTANCE GpuObjects

Flow == INSTANCE OpticalFlow WITH
  shown <- warped

Window == INSTANCE VulkanFrames WITH
  pc <- tick, fence <- in_flight, made <- swapchains

Plane == INSTANCE PresentSurface WITH
  lost <- device_lost

Pipeline == INSTANCE FramePipeline WITH
  Capacity <- Transport

Channel == INSTANCE RingChannel

ASSUME FrameworkAssumption ==
  /\ Graph!GraphAssumption /\ Flow!FlowAssumption /\ Window!FramesAssumption /\ Plane!PresentAssumption
  /\ Pipeline!PipelineAssumption /\ Channel!ChannelAssumption

graphVars == <<graph, multi, order, stop, quiescing, started, paused, life, rings, owner, k,
               worker, stopper, manager, target>>
gpuVars == <<cls, option, todo, undo, alive, held, lost, initialized, degraded, spent, busy>>
flowVars == <<depth, emit, affine, armed, have_prev, img, sets, next_set, last_slot, baked,
              last, warped>>
framesVars == <<win, changes, seen, mail, cached, tick, current, in_flight, uses, built,
                swapchains, whole, acquired, refusals, missed>>
planeVars == <<pc, made, lastGasp, shown, yielded, fresh, beaten, wdRun, wpc, wdue, age,
               still, foreground, switches, losses, device_lost>>
pipelineVars == <<in_use, image, rendered, up, down, node, ctl, fence, job, present, fences>>
channelVars == <<producer_cursor, live_readers, reader_cursors, slots, pub, rd, alone>>
vars == <<focus, graphVars, gpuVars, flowVars, framesVars, planeVars, pipelineVars,
          channelVars>>

(* The parts share no state, so the behaviours in which one of them moves are *)
(* enough for what is said of each: the others stay as they begin.           *)
Init ==
  /\ focus \in Focus
  /\ Graph!Init /\ (focus # "graph" => graph = G(2, <<>>, <<"COMPUTE", "UI_MAIN">>, TRUE) /\ multi)
  /\ Gpu!Init /\ (focus # "gpu" => cls = "image" /\ option = CHOOSE o \in Gpu!Options : TRUE)
  /\ Window!Init /\ (focus # "frames" => win = 1)
  /\ Pipeline!Init /\ (focus # "pipeline" => ~node.bound /\ node.algo = "PassThrough" /\ present.fenced)
  /\ Flow!Init /\ Plane!Init /\ Channel!Init

OnlyGraph ==
  focus = "graph" /\ UNCHANGED <<focus, gpuVars, flowVars, framesVars, planeVars,
                                 pipelineVars, channelVars>>
OnlyGpu ==
  focus = "gpu" /\ UNCHANGED <<focus, graphVars, flowVars, framesVars, planeVars,
                               pipelineVars, channelVars>>
OnlyFlow ==
  focus = "flow" /\ UNCHANGED <<focus, graphVars, gpuVars, framesVars, planeVars,
                                pipelineVars, channelVars>>
OnlyWindow ==
  focus = "frames" /\ UNCHANGED <<focus, graphVars, gpuVars, flowVars, planeVars,
                                  pipelineVars, channelVars>>
OnlyPlane ==
  focus = "plane" /\ UNCHANGED <<focus, graphVars, gpuVars, flowVars, framesVars,
                                 pipelineVars, channelVars>>
OnlyPipeline ==
  focus = "pipeline" /\ UNCHANGED <<focus, graphVars, gpuVars, flowVars, framesVars,
                                    planeVars, channelVars>>
OnlyChannel ==
  focus = "channel" /\ UNCHANGED <<focus, graphVars, gpuVars, flowVars, framesVars, planeVars,
                                   pipelineVars>>

Next ==
  \/ OnlyGraph /\ Graph!Next
  \/ OnlyGpu /\ Gpu!Next
  \/ OnlyFlow /\ Flow!Next
  \/ OnlyWindow /\ Window!Next
  \/ OnlyPlane /\ Plane!Next
  \/ OnlyPipeline /\ Pipeline!Next
  \/ OnlyChannel /\ Channel!Next

(* Threads go on; the graph's managers finish the restart they are in.       *)
Fairness ==
  /\ WF_vars(OnlyGraph /\ Graph!RunReturns) /\ WF_vars(OnlyGraph /\ Graph!Restart)
  /\ \A n \in Graph!AnyNode : WF_vars(OnlyGraph /\ n \in Graph!All /\ Graph!Worker(n))
  /\ WF_vars(OnlyWindow /\ Window!Thread)
  /\ \A f \in Window!Frame : WF_vars(OnlyWindow /\ Window!Complete(f))

Spec == Init /\ [][Next]_vars /\ Fairness

-----------------------------------------------------------------------------
(* Whoever uses something finds it: no node is ticked that was stopped or      *)
(* destroyed, no window is destroyed under its watchdog and no framebuffer     *)
(* under the processor that draws into it, a warp draws the pair it is asked  *)
(* for and a reader misses no message; and a plane that nobody renews or that *)
(* has yielded covers nobody.                                                *)
UsersFindWhatTheyUse ==
  /\ Graph!TicksTouchLiveNodes /\ Graph!UpstreamOutlives
  /\ Window!FramebuffersOutlive /\ Window!RecordsAnIdleFrame
  /\ Plane!WindowOutlivesItsUsers /\ Plane!StalledPlaneIsGone /\ Plane!YieldedIsHidden
  /\ Flow!DrawsWhatWasAsked /\ Channel!ReadersMissNothing

(* What is built is whole, and what is taken down is gone: the objects on the *)
(* graphics processor, parents before what is made from them and after it,    *)
(* whichever creation fails; a graph is refused for its cycle or its orphan   *)
(* only, and its nodes spread over the cores; a record waits for what it      *)
(* reads.                                                                    *)
WhatIsBuiltIsWhole ==
  /\ Gpu!NothingIsLeft /\ Gpu!ParentsOutlive /\ Gpu!NothingInUseIsDestroyed /\ Gpu!UpIsWhole
  /\ Graph!VerdictIsRight /\ Graph!ComputeSpreads /\ Flow!RecordsAreSound

(* The interpolator records over no work in progress, and destroys none but  *)
(* after a second of waiting or in a restart; and the display never goes    *)
(* back in time.                                                            *)
FramesComeInOrder == Pipeline!OneJobAtATime /\ Pipeline!NeverBack

(* The threads get where they go: a graph that is stopped ends, and the window *)
(* goes on presenting.                                                      *)
EverythingGoesOn == Graph!StopTakesEffect /\ ((focus = "frames") => Window!FramesGoOn)
=============================================================================
