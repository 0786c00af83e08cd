--------------------------- MODULE FrameworkProofs --------------------------
(***************************************************************************)
(* Theorems of MCFramework, for any values of its constants: the frames on  *)
(* their way to the display, the presentation plane, the frames of the      *)
(* window, the pairs the optical flow draws, the channel of several         *)
(* producers and readers, and the life of a graph.                          *)
(***************************************************************************)
EXTENDS MCFramework, Integers, FiniteSetTheorems, TLAPS

-----------------------------------------------------------------------------
(* The frames on their way to the display (FramePipeline).                  *)

(* The slots that can be picked, and a frame in one of them.                *)
AnySlot == {0} \cup {Pipeline!Min(S) : S \in SUBSET Pipeline!Slots}
Frame == [slot : AnySlot, id : Nat, mid : BOOLEAN]

(* The queue works only on what the node waits for before the next record;  *)
(* and once shutdown has joined the workers nothing is given to it any more, *)
(* so that what on_stop has waited for is all there is.                     *)
JobInv ==
  /\ DOMAIN node = {"at", "algo", "bound", "compute", "has", "prev", "cur", "todo"}
  /\ DOMAIN ctl = {"at", "restart", "late", "starts"}
  /\ job # Pipeline!Idle => ~fence
  /\ ctl.at \in {"waits", "destroys"} /\ ~ctl.restart => node.at = "loop"
  /\ ctl.at = "destroys" /\ ~ctl.restart /\ ~ctl.late => job = Pipeline!Idle

LEMMA JobBegins == Pipeline!Init => JobInv
BY DEF Pipeline!Init, JobInv

(* What OneJobAtATime says of a step.                                       *)
JobKept ==
  job # Pipeline!Idle =>
    job' \in {job, Pipeline!Idle} /\ (Pipeline!Destroying => ctl.late \/ ctl.restart)

LEMMA JobStep ==
  ASSUME JobInv, Pipeline!Next
  PROVE  JobInv' /\ JobKept
<1>1. CASE Pipeline!Render
  BY <1>1 DEF Pipeline!Render, JobInv, JobKept, Pipeline!Destroying, Pipeline!Idle, Pipeline!NoFrame
<1>2. CASE Pipeline!Begin
  BY <1>2 DEF Pipeline!Begin, JobInv, JobKept, Pipeline!Destroying, Pipeline!Idle, Pipeline!NoFrame
<1>3. CASE Pipeline!PollNothing
  BY <1>3 DEF Pipeline!PollNothing, JobInv, JobKept, Pipeline!Destroying, Pipeline!Idle, Pipeline!NoFrame
<1>4. CASE Pipeline!Receive
  BY <1>4 DEF Pipeline!Receive, JobInv, JobKept, Pipeline!Destroying, Pipeline!Idle, Pipeline!NoFrame
<1>5. CASE Pipeline!Publish
  BY <1>5 DEF Pipeline!Publish, JobInv, JobKept, Pipeline!Destroying, Pipeline!Idle, Pipeline!NoFrame
<1>6. CASE Pipeline!BlendNothing
  BY <1>6 DEF Pipeline!BlendNothing, JobInv, JobKept, Pipeline!Destroying, Pipeline!Idle, Pipeline!NoFrame
<1>7. CASE Pipeline!AcquireOutput
  BY <1>7 DEF Pipeline!AcquireOutput, JobInv, JobKept, Pipeline!Destroying, Pipeline!Idle, Pipeline!NoFrame
<1>8. CASE Pipeline!Submit
  BY <1>8 DEF Pipeline!Submit, Pipeline!Fenced, JobInv, JobKept, Pipeline!Destroying, Pipeline!Idle, Pipeline!NoFrame
<1>9. CASE Pipeline!SubmitLost
  BY <1>9 DEF Pipeline!SubmitLost, JobInv, JobKept, Pipeline!Destroying, Pipeline!Idle, Pipeline!NoFrame
<1>10. CASE Pipeline!Compute
  BY <1>10 DEF Pipeline!Compute, JobInv, JobKept, Pipeline!Destroying, Pipeline!Idle, Pipeline!NoFrame
<1>11. CASE Pipeline!Shutdown
  BY <1>11 DEF Pipeline!Shutdown, Pipeline!Stops, JobInv, JobKept, Pipeline!Destroying, Pipeline!Idle, Pipeline!NoFrame
<1>12. CASE Pipeline!RestartNode
  BY <1>12 DEF Pipeline!RestartNode, Pipeline!Stops, JobInv, JobKept, Pipeline!Destroying, Pipeline!Idle, Pipeline!NoFrame
<1>13. CASE Pipeline!Waited
  BY <1>13 DEF Pipeline!Waited, JobInv, JobKept, Pipeline!Destroying, Pipeline!Idle, Pipeline!NoFrame
<1>14. CASE Pipeline!Destroy
  BY <1>14 DEF Pipeline!Destroy, JobInv, JobKept, Pipeline!Destroying, Pipeline!Idle, Pipeline!NoFrame
<1>15. CASE Pipeline!Take
  BY <1>15 DEF Pipeline!Take, JobInv, JobKept, Pipeline!Destroying, Pipeline!Idle, Pipeline!NoFrame
<1>16. CASE Pipeline!Present
  BY <1>16 DEF Pipeline!Present, JobInv, JobKept, Pipeline!Destroying, Pipeline!Idle, Pipeline!NoFrame
<1>17. ASSUME NEW outcome \in {"up", "refused", "failed"}, Pipeline!OnStart(outcome)
       PROVE  JobInv' /\ JobKept
  BY <1>17 DEF Pipeline!OnStart, JobInv, JobKept, Pipeline!Destroying, Pipeline!Idle, Pipeline!NoFrame
<1> QED
  BY <1>1, <1>2, <1>3, <1>4, <1>5, <1>6, <1>7, <1>8, <1>9, <1>10, <1>11, <1>12, <1>13, <1>14, <1>15, <1>16, <1>17 DEF Pipeline!Next

-----------------------------------------------------------------------------
(* The order of the frames (FramePipeline).                                 *)

Rank(f) == Pipeline!Rank(f)

(* Nothing that is out, shown or waiting, comes after r.                    *)
Reached(p, d, r) ==
  /\ Rank(p.shown) <= r /\ Rank(p.waits) <= r
  /\ \A i \in 1 .. Len(d) : Rank(d[i]) <= r

(* What is out is in order.                                                 *)
OutInv(p, d) ==
  /\ p \in [fenced : BOOLEAN, waits : Frame, shown : Frame] /\ d \in Seq(Frame)
  /\ p.waits # Pipeline!NoFrame => Rank(p.shown) <= Rank(p.waits)
  /\ \A i \in 1 .. Len(d) : Rank(p.shown) <= Rank(d[i]) /\ Rank(p.waits) <= Rank(d[i])
  /\ \A i, j \in 1 .. Len(d) : i < j => Rank(d[i]) <= Rank(d[j])

LEMMA FrameFacts ==
  /\ Pipeline!NoFrame \in Frame /\ Rank(Pipeline!NoFrame) = 0
  /\ \A f \in Frame :
       /\ f.slot \in AnySlot /\ f.id \in Nat /\ f.mid \in BOOLEAN /\ Rank(f) \in Nat
       /\ Rank(f) = IF f.mid THEN 2 * f.id + 1 ELSE 2 * f.id
<1>1. Pipeline!NoFrame \in Frame
  BY DEF Pipeline!NoFrame, Frame, AnySlot
<1>2. ASSUME NEW f \in Frame
      PROVE  /\ f.slot \in AnySlot /\ f.id \in Nat /\ f.mid \in BOOLEAN
  BY DEF Frame
<1>3. ASSUME NEW f \in Frame
      PROVE  Rank(f) \in Nat /\ Rank(f) = IF f.mid THEN 2 * f.id + 1 ELSE 2 * f.id
  <2>1. CASE f.mid
    BY <1>2, <2>1 DEF Rank, Pipeline!Rank
  <2>2. CASE ~f.mid
    BY <1>2, <2>2 DEF Rank, Pipeline!Rank
  <2> QED
    BY <2>1, <2>2
<1>4. Rank(Pipeline!NoFrame) = 0
  BY DEF Rank, Pipeline!Rank, Pipeline!NoFrame
<1> QED
  BY <1>1, <1>2, <1>3, <1>4

LEMMA PublishedInOrder ==
  ASSUME NEW p, NEW d, NEW f \in Frame, OutInv(p, d), Reached(p, d, Rank(f))
  PROVE  /\ OutInv(p, Pipeline!Published(d, f))
         /\ \A r \in Nat : r >= Rank(f) => Reached(p, Pipeline!Published(d, f), r)
<1> DEFINE e == Pipeline!Published(d, f)
<1>1. CASE e = d
  <2>1. ASSUME NEW r \in Nat, r >= Rank(f) PROVE Reached(p, d, r)
    BY <2>1, FrameFacts DEF Reached, OutInv
  <2> QED
    BY <1>1, <2>1
<1>2. CASE e = Append(d, f)
  <2>1. /\ p.waits \in Frame /\ p.shown \in Frame /\ d \in Seq(Frame)
    BY DEF OutInv
  <2>2. /\ e \in Seq(Frame) /\ Len(e) = Len(d) + 1 /\ Len(d) \in Nat
        /\ \A i \in 1 .. Len(e) : e[i] \in Frame
        /\ \A i \in 1 .. Len(e) : \/ i \in 1 .. Len(d) /\ e[i] = d[i]
                                  \/ i = Len(d) + 1 /\ e[i] = f
    BY <1>2, <2>1
  <2> HIDE DEF e
  <2>3. \A i \in 1 .. Len(e) : Rank(p.shown) <= Rank(e[i]) /\ Rank(p.waits) <= Rank(e[i])
    BY <2>2 DEF OutInv, Reached
  <2>4. \A i \in 1 .. Len(e) : Rank(e[i]) <= Rank(f)
    BY <2>2, FrameFacts DEF Reached
  <2>5. ASSUME NEW i \in 1 .. Len(e), NEW j \in 1 .. Len(e), i < j PROVE Rank(e[i]) <= Rank(e[j])
    <3>1. CASE j \in 1 .. Len(d)
      BY <2>2, <2>5, <3>1 DEF OutInv
    <3>2. CASE j = Len(d) + 1
      BY <2>2, <2>4, <2>5, <3>2
    <3> QED
      BY <2>2, <3>1, <3>2
  <2>6. ASSUME NEW r \in Nat, r >= Rank(f) PROVE Reached(p, e, r)
    <3>1. Rank(p.shown) <= r /\ Rank(p.waits) <= r
      BY <2>1, <2>6, FrameFacts DEF Reached
    <3>2. \A i \in 1 .. Len(e) : Rank(e[i]) <= r
      BY <2>2, <2>4, <2>6, FrameFacts
    <3> QED
      BY <3>1, <3>2 DEF Reached
  <2>7. OutInv(p, e)
    BY <2>2, <2>3, <2>5 DEF OutInv
  <2> QED
    BY <2>6, <2>7 DEF e
<1> QED
  BY <1>1, <1>2 DEF Pipeline!Published

(* One more, or one less, in what lies ahead.                               *)
LEMMA TakenInOrder ==
  ASSUME NEW p, NEW d, OutInv(p, d), d # <<>>, p.waits = Pipeline!NoFrame
  PROVE  LET q == [p EXCEPT !.waits = Head(d)]
         IN /\ OutInv(q, Tail(d)) /\ q.shown = p.shown
            /\ \A r \in Nat : Reached(p, d, r) => Reached(q, Tail(d), r)
<1> DEFINE q == [p EXCEPT !.waits = Head(d)]
           e == Tail(d)
<1>1. /\ p \in [fenced : BOOLEAN, waits : Frame, shown : Frame] /\ d \in Seq(Frame) /\ Len(d) \in Nat \ {0}
      /\ d[1] \in Frame /\ Head(d) = d[1]
  BY DEF OutInv
<1>2. q \in [fenced : BOOLEAN, waits : Frame, shown : Frame] /\ q.shown = p.shown /\ q.waits = d[1]
  BY <1>1
<1>3. /\ e \in Seq(Frame) /\ Len(e) = Len(d) - 1
      /\ \A i \in 1 .. Len(e) : i + 1 \in 1 .. Len(d) /\ e[i] = d[i + 1]
  BY <1>1
<1> HIDE DEF q, e
<1>4. 1 \in 1 .. Len(d)
  BY <1>1
<1>5. Rank(q.shown) <= Rank(q.waits)
  BY <1>2, <1>4 DEF OutInv
<1>6. \A i \in 1 .. Len(e) : Rank(q.shown) <= Rank(e[i]) /\ Rank(q.waits) <= Rank(e[i])
  <2>1. SUFFICES ASSUME NEW i \in 1 .. Len(e)
                 PROVE  Rank(q.shown) <= Rank(e[i]) /\ Rank(q.waits) <= Rank(e[i])
    OBVIOUS
  <2>2. i + 1 \in 1 .. Len(d) /\ 1 < i + 1 /\ e[i] = d[i + 1]
    BY <1>1, <1>3
  <2> QED
    BY <1>2, <1>4, <2>2 DEF OutInv
<1>7. \A i, j \in 1 .. Len(e) : i < j => Rank(e[i]) <= Rank(e[j])
  <2>1. SUFFICES ASSUME NEW i \in 1 .. Len(e), NEW j \in 1 .. Len(e), i < j
                 PROVE  Rank(e[i]) <= Rank(e[j])
    OBVIOUS
  <2>2. i + 1 \in 1 .. Len(d) /\ j + 1 \in 1 .. Len(d) /\ i + 1 < j + 1
    BY <1>1, <1>3, <2>1
  <2> QED
    BY <1>3, <2>2 DEF OutInv
<1>8. OutInv(q, e)
  BY <1>2, <1>3, <1>5, <1>6, <1>7 DEF OutInv
<1>9. ASSUME NEW r \in Nat, Reached(p, d, r) PROVE Reached(q, e, r)
  BY <1>2, <1>3, <1>4, <1>9 DEF Reached
<1> QED
  BY <1>2, <1>8, <1>9 DEF q, e

LEMMA ShownInOrder ==
  ASSUME NEW p, NEW d, OutInv(p, d), p.waits # Pipeline!NoFrame
  PROVE  LET q == [p EXCEPT !.waits = Pipeline!NoFrame, !.shown = p.waits]
         IN /\ OutInv(q, d) /\ Rank(p.shown) <= Rank(q.shown)
            /\ \A r \in Nat : Reached(p, d, r) => Reached(q, d, r)
<1> DEFINE q == [p EXCEPT !.waits = Pipeline!NoFrame, !.shown = p.waits]
<1>1. /\ p \in [fenced : BOOLEAN, waits : Frame, shown : Frame]
      /\ p.waits \in Frame /\ d \in Seq(Frame) /\ Rank(Pipeline!NoFrame) = 0
      /\ \A i \in 1 .. Len(d) : d[i] \in Frame /\ Rank(d[i]) \in Nat
  BY FrameFacts DEF OutInv
<1>2. /\ q \in [fenced : BOOLEAN, waits : Frame, shown : Frame] /\ q.waits = Pipeline!NoFrame /\ q.shown = p.waits
  BY <1>1, FrameFacts
<1> HIDE DEF q
<1>3. \A i \in 1 .. Len(d) : Rank(q.shown) <= Rank(d[i]) /\ Rank(q.waits) <= Rank(d[i])
  BY <1>1, <1>2 DEF OutInv
<1>4. OutInv(q, d) /\ Rank(p.shown) <= Rank(q.shown)
  BY <1>1, <1>2, <1>3 DEF OutInv
<1>5. ASSUME NEW r \in Nat, Reached(p, d, r) PROVE Reached(q, d, r)
  BY <1>1, <1>2, <1>5 DEF Reached
<1> QED
  BY <1>4, <1>5 DEF q

(* What lies before the nodes: the frames waiting for the interpolator are   *)
(* rendered ones, each after everything that is out and after those the node *)
(* holds.                                                                   *)
AheadInv(n, u, c, p, d) ==
  /\ u \in Seq(Frame)
  /\ \A i \in 1 .. Len(u) :
       /\ ~u[i].mid /\ 0 < u[i].id /\ u[i].id <= c
       /\ n.prev.id < u[i].id
       /\ n.at \notin {"loop", "poll"} => n.cur.id < u[i].id
       /\ Reached(p, d, 2 * u[i].id)
  /\ \A i, j \in 1 .. Len(u) : i < j => u[i].id < u[j].id

(* What the interpolator is still to publish comes after what is out, in its *)
(* order.                                                                   *)
NodeInv(n, c, p, d) ==
  /\ n.at \in {"loop", "poll", "before", "blend", "submit", "after"}
  /\ n.prev \in Frame /\ ~n.prev.mid /\ n.prev.id <= c
  /\ n.cur \in Frame /\ ~n.cur.mid /\ n.cur.id <= c
  /\ Reached(p, d, 2 * c)
  /\ n.at \in {"loop", "poll"} => Reached(p, d, 2 * n.prev.id)
  /\ n.at \in {"before", "blend", "submit"} =>
       Reached(p, d, 2 * n.prev.id) /\ n.prev.id < n.cur.id
  /\ n.at = "before" => n.todo = <<n.prev>>
  /\ n.at = "submit" => \E m \in Frame : m.mid /\ m.id = n.prev.id /\ n.todo = <<m, n.cur>>
  /\ n.at = "after" =>
       \/ n.todo = <<n.cur>> /\ Reached(p, d, 2 * n.cur.id)
       \/ /\ \E m \in Frame : m.mid /\ m.id = n.prev.id /\ n.todo = <<m, n.cur>>
          /\ Reached(p, d, 2 * n.prev.id) /\ n.prev.id < n.cur.id

LineInv(n, u, c, p, d) ==
  c \in Nat /\ OutInv(p, d) /\ AheadInv(n, u, c, p, d) /\ NodeInv(n, c, p, d)

OrderInv == JobInv /\ LineInv(node, up, rendered, present, down)

LEMMA ReachesFurther ==
  ASSUME NEW p, NEW d, OutInv(p, d), NEW r \in Nat, NEW s \in Nat, r <= s, Reached(p, d, r)
  PROVE  Reached(p, d, s)
<1>1. p.shown \in Frame /\ p.waits \in Frame /\ d \in Seq(Frame)
  BY DEF OutInv
<1>2. /\ Rank(p.shown) \in Nat /\ Rank(p.waits) \in Nat
      /\ \A i \in 1 .. Len(d) : Rank(d[i]) \in Nat
  BY <1>1, FrameFacts
<1> QED
  BY <1>2 DEF Reached

(* What is out only matters by how far it reaches.                          *)
LEMMA LineFollows ==
  ASSUME NEW n, NEW u, NEW c, NEW p, NEW d, NEW q, NEW e, LineInv(n, u, c, p, d),
         OutInv(q, e), \A r \in Nat : Reached(p, d, r) => Reached(q, e, r)
  PROVE  LineInv(n, u, c, q, e)
<1>1. AheadInv(n, u, c, q, e)
  <2>1. \A i \in 1 .. Len(u) : 2 * u[i].id \in Nat
    <3>1. SUFFICES ASSUME NEW i \in 1 .. Len(u) PROVE 2 * u[i].id \in Nat
      OBVIOUS
    <3>2. u[i] \in Frame
      BY DEF LineInv, AheadInv
    <3> QED
      BY <3>2, FrameFacts
  <2> QED
    BY <2>1 DEF LineInv, AheadInv
<1>2. 2 * c \in Nat /\ 2 * n.prev.id \in Nat /\ 2 * n.cur.id \in Nat
  BY FrameFacts DEF LineInv, NodeInv
<1>3. NodeInv(n, c, q, e)
  BY <1>2 DEF LineInv, NodeInv
<1> QED
  BY <1>1, <1>3 DEF LineInv

LEMMA RenderedInOrder ==
  ASSUME NEW n, NEW u, NEW c, NEW p, NEW d, NEW s \in AnySlot, LineInv(n, u, c, p, d)
  PROVE  LineInv(n, Pipeline!Published(u, [slot |-> s, id |-> c + 1, mid |-> FALSE]), c + 1, p, d)
<1> DEFINE f == [slot |-> s, id |-> c + 1, mid |-> FALSE]
           v == Pipeline!Published(u, f)
<1>1. c \in Nat /\ f \in Frame /\ u \in Seq(Frame) /\ f.id = c + 1 /\ ~f.mid
  BY DEF LineInv, AheadInv, Frame
<1>2. /\ n.prev.id \in Nat /\ n.prev.id <= c /\ n.cur.id \in Nat /\ n.cur.id <= c
      /\ \A i \in 1 .. Len(u) : u[i].id \in Nat /\ u[i].id <= c
  <2>1. ASSUME NEW i \in 1 .. Len(u) PROVE u[i].id \in Nat
    BY <1>1, FrameFacts
  <2> QED
    BY <2>1, FrameFacts DEF LineInv, AheadInv, NodeInv
<1>3. Reached(p, d, 2 * (c + 1))
  <2>1. Reached(p, d, 2 * c) /\ OutInv(p, d)
    BY DEF LineInv, NodeInv
  <2>2. 2 * c \in Nat /\ 2 * (c + 1) \in Nat /\ 2 * c <= 2 * (c + 1)
    BY <1>1
  <2> QED
    BY <2>1, <2>2, ReachesFurther
<1>4. v = u \/ v = Append(u, f)
  BY DEF Pipeline!Published
<1>5. /\ v \in Seq(Frame) /\ Len(v) \in Nat /\ Len(u) \in Nat
      /\ \A i \in 1 .. Len(v) : \/ i \in 1 .. Len(u) /\ v[i] = u[i]
                                \/ i = Len(u) + 1 /\ v[i] = f
  <2> HIDE DEF f, v
  <2>1. CASE v = u
    BY <1>1, <2>1
  <2>2. CASE v = Append(u, f)
    BY <1>1, <2>2
  <2> QED
    BY <1>4, <2>1, <2>2
<1> HIDE DEF f, v
<1>6. AheadInv(n, v, c + 1, p, d)
  <2>1. ASSUME NEW i \in 1 .. Len(v)
        PROVE  /\ ~v[i].mid /\ 0 < v[i].id /\ v[i].id <= c + 1
               /\ n.prev.id < v[i].id
               /\ n.at \notin {"loop", "poll"} => n.cur.id < v[i].id
               /\ Reached(p, d, 2 * v[i].id)
    <3>1. CASE i \in 1 .. Len(u) /\ v[i] = u[i]
      BY <1>1, <1>2, <3>1 DEF LineInv, AheadInv
    <3>2. CASE v[i] = f
      BY <1>1, <1>2, <1>3, <3>2
    <3> QED
      BY <1>5, <3>1, <3>2
  <2>2. ASSUME NEW i \in 1 .. Len(v), NEW j \in 1 .. Len(v), i < j PROVE v[i].id < v[j].id
    <3>1. CASE j \in 1 .. Len(u) /\ v[j] = u[j]
      BY <1>5, <2>2, <3>1 DEF LineInv, AheadInv
    <3>2. CASE j = Len(u) + 1 /\ v[j] = f
      <4>1. i \in 1 .. Len(u) /\ v[i] = u[i]
        BY <1>5, <2>2, <3>2
      <4>2. u[i].id \in Nat /\ u[i].id <= c
        BY <1>2, <4>1
      <4> QED
        BY <1>1, <3>2, <4>1, <4>2
    <3> QED
      BY <1>5, <3>1, <3>2
  <2> QED
    BY <1>5, <2>1, <2>2 DEF AheadInv
<1>7. NodeInv(n, c + 1, p, d)
  BY <1>1, <1>2, <1>3 DEF LineInv, NodeInv
<1> QED
  BY <1>1, <1>6, <1>7 DEF LineInv, f, v

LEMMA ReceivedInOrder ==
  ASSUME NEW n, NEW u, NEW c, NEW p, NEW d, NEW m, LineInv(n, u, c, p, d), u # <<>>,
         n.at = "poll", m.prev = n.prev, m.cur = Head(u),
         \/ m.at = "before" /\ m.todo = <<n.prev>>
         \/ m.at = "after" /\ m.todo = <<Head(u)>>
  PROVE  LineInv(m, Tail(u), c, p, d)
<1> DEFINE v == Tail(u)
<1>1. /\ u \in Seq(Frame) /\ Len(u) \in Nat \ {0} /\ 1 \in 1 .. Len(u) /\ Head(u) = u[1]
      /\ u[1] \in Frame
  BY DEF LineInv, AheadInv
<1>2. /\ v \in Seq(Frame) /\ Len(v) = Len(u) - 1
      /\ \A i \in 1 .. Len(v) : i + 1 \in 1 .. Len(u) /\ 1 < i + 1 /\ v[i] = u[i + 1]
  BY <1>1
<1> HIDE DEF v
<1>3. AheadInv(m, v, c, p, d)
  <2>1. ASSUME NEW i \in 1 .. Len(v)
        PROVE  /\ ~v[i].mid /\ 0 < v[i].id /\ v[i].id <= c
               /\ m.prev.id < v[i].id
               /\ m.cur.id < v[i].id
               /\ Reached(p, d, 2 * v[i].id)
    BY <1>1, <1>2 DEF LineInv, AheadInv
  <2>2. ASSUME NEW i \in 1 .. Len(v), NEW j \in 1 .. Len(v), i < j PROVE v[i].id < v[j].id
    <3>1. i + 1 \in 1 .. Len(u) /\ j + 1 \in 1 .. Len(u) /\ i + 1 < j + 1
      BY <1>1, <1>2, <2>2
    <3> QED
      BY <1>2, <3>1 DEF LineInv, AheadInv
  <2> QED
    BY <1>2, <2>1, <2>2 DEF AheadInv
<1>4. NodeInv(m, c, p, d)
  <2>1. /\ ~u[1].mid /\ 0 < u[1].id /\ u[1].id <= c /\ n.prev.id < u[1].id
        /\ Reached(p, d, 2 * u[1].id)
    BY <1>1 DEF LineInv, AheadInv
  <2> QED
    BY <1>1, <2>1 DEF LineInv, NodeInv
<1> QED
  BY <1>3, <1>4 DEF LineInv, v

(* A step of the node that publishes nothing.                               *)
LEMMA NodeMovesOn ==
  ASSUME NEW n, NEW u, NEW c, NEW p, NEW d, NEW m, LineInv(n, u, c, p, d),
         m.prev = n.prev, m.cur = n.cur,
         \/ n.at = m.at /\ n.todo = m.todo
         \/ n.at \in {"loop", "poll"} /\ m.at \in {"loop", "poll"}
         \/ /\ n.at = "blend" /\ m.at \in {"submit", "after"}
            /\ \E g \in Frame : g.mid /\ g.id = n.prev.id /\ m.todo = <<g, n.cur>>
         \/ n.at = "submit" /\ m.at = "after" /\ m.todo = n.todo
  PROVE  LineInv(m, u, c, p, d)
<1>1. AheadInv(m, u, c, p, d)
  BY DEF LineInv, AheadInv
<1>2. NodeInv(m, c, p, d)
  BY DEF LineInv, NodeInv
<1> QED
  BY <1>1, <1>2 DEF LineInv

(* A blended frame has its place between two.                               *)
LEMMA Between ==
  \A i, j \in Nat : i < j => /\ 2 * i \in Nat /\ 2 * i + 1 \in Nat
                             /\ 2 * i <= 2 * i + 1 /\ 2 * i + 1 <= 2 * j
OBVIOUS

(* One publish of the node.                                                 *)
LEMMA NodePublishes ==
  ASSUME NEW n, NEW u, NEW c, NEW p, NEW d, NEW m, LineInv(n, u, c, p, d), m.cur = n.cur,
         \/ n.at = "before" /\ m.at = "blend" /\ m.prev = n.prev
         \/ /\ n.at = "after" /\ Len(n.todo) # 1 /\ m.at = "after" /\ m.prev = n.prev
            /\ m.todo = Tail(n.todo)
         \/ n.at = "after" /\ Len(n.todo) = 1 /\ m.at = "loop" /\ m.prev = n.cur
  PROVE  LineInv(m, u, c, p, Pipeline!Published(d, Head(n.todo)))
<1> DEFINE f == Head(n.todo)
           e == Pipeline!Published(d, f)
<1>1. /\ c \in Nat /\ OutInv(p, d) /\ n.prev \in Frame /\ n.cur \in Frame
      /\ n.prev.id \in Nat /\ n.prev.id <= c /\ n.cur.id \in Nat /\ n.cur.id <= c
      /\ Rank(n.prev) = 2 * n.prev.id /\ Rank(n.cur) = 2 * n.cur.id
      /\ u \in Seq(Frame) /\ \A i \in 1 .. Len(u) : u[i].id \in Nat
  <2>1. ASSUME NEW i \in 1 .. Len(u), u \in Seq(Frame) PROVE u[i].id \in Nat
    BY <2>1, FrameFacts
  <2> QED
    BY <2>1, FrameFacts DEF LineInv, AheadInv, NodeInv
<1>2. /\ f \in Frame /\ Rank(f) \in Nat /\ Reached(p, d, Rank(f)) /\ Rank(f) <= 2 * n.cur.id
      /\ n.at = "before" => f = n.prev /\ n.prev.id < n.cur.id
      /\ n.at = "after" /\ Len(n.todo) = 1 => f = n.cur
      /\ n.at = "after" /\ Len(n.todo) # 1 => Tail(n.todo) = <<n.cur>>
  <2>1. CASE n.at = "before"
    <3>1. n.todo = <<n.prev>> /\ Reached(p, d, 2 * n.prev.id) /\ n.prev.id < n.cur.id
      BY <2>1 DEF LineInv, NodeInv
    <3> QED
      BY <1>1, <2>1, <3>1
  <2>2. CASE n.at = "after" /\ n.todo = <<n.cur>> /\ Reached(p, d, 2 * n.cur.id)
    BY <1>1, <2>2
  <2>3. CASE /\ n.at = "after" /\ Reached(p, d, 2 * n.prev.id) /\ n.prev.id < n.cur.id
             /\ \E g \in Frame : g.mid /\ g.id = n.prev.id /\ n.todo = <<g, n.cur>>
    <3>1. PICK g \in Frame : g.mid /\ g.id = n.prev.id /\ n.todo = <<g, n.cur>>
      BY <2>3
    <3>2. f = g /\ Len(n.todo) = 2 /\ Tail(n.todo) = <<n.cur>>
      BY <3>1
    <3>3. Rank(g) = 2 * n.prev.id + 1
      BY <3>1, FrameFacts
    <3>4. /\ 2 * n.prev.id \in Nat /\ 2 * n.prev.id + 1 \in Nat
          /\ 2 * n.prev.id <= 2 * n.prev.id + 1 /\ 2 * n.prev.id + 1 <= 2 * n.cur.id
      BY <1>1, <2>3, Between
    <3>5. Reached(p, d, 2 * n.prev.id + 1)
      BY <1>1, <2>3, <3>4, ReachesFurther
    <3> HIDE DEF f
    <3>6. f \in Frame /\ Rank(f) \in Nat /\ Reached(p, d, Rank(f)) /\ Rank(f) <= 2 * n.cur.id
      BY <3>1, <3>2, <3>3, <3>4, <3>5
    <3> QED
      BY <2>3, <3>2, <3>6
  <2> QED
    BY <2>1, <2>2, <2>3 DEF LineInv, NodeInv
<1> HIDE DEF f
<1>3. OutInv(p, e) /\ \A r \in Nat : r >= Rank(f) => Reached(p, e, r)
  BY <1>1, <1>2, PublishedInOrder
<1> HIDE DEF e
<1>4. AheadInv(m, u, c, p, e)
  <2>1. ASSUME NEW i \in 1 .. Len(u)
        PROVE  /\ ~u[i].mid /\ 0 < u[i].id /\ u[i].id <= c
               /\ m.prev.id < u[i].id
               /\ m.at \notin {"loop", "poll"} => m.cur.id < u[i].id
               /\ Reached(p, e, 2 * u[i].id)
    <3>1. /\ ~u[i].mid /\ 0 < u[i].id /\ u[i].id <= c
          /\ n.prev.id < u[i].id /\ n.cur.id < u[i].id
      BY DEF LineInv, AheadInv
    <3>2. 2 * u[i].id \in Nat /\ 2 * u[i].id >= Rank(f)
      <4>1. u[i].id \in Nat /\ n.cur.id \in Nat /\ Rank(f) \in Nat /\ Rank(f) <= 2 * n.cur.id
        BY <1>1, <1>2
      <4> QED
        BY <3>1, <4>1
    <3>3. Reached(p, e, 2 * u[i].id)
      BY <1>3, <3>2
    <3> QED
      BY <3>1, <3>3
  <2> QED
    BY <1>1, <2>1 DEF LineInv, AheadInv
<1>5. Reached(p, e, 2 * c) /\ Reached(p, e, 2 * n.cur.id)
  BY <1>1, <1>2, <1>3
<1>6. n.at = "before" => Reached(p, e, 2 * n.prev.id)
  BY <1>1, <1>2, <1>3
<1>7. NodeInv(m, c, p, e)
  BY <1>1, <1>2, <1>5, <1>6 DEF LineInv, NodeInv
<1> QED
  BY <1>1, <1>3, <1>4, <1>7 DEF LineInv, e, f

LEMMA OrderBegins == Pipeline!Init => OrderInv
<1> SUFFICES ASSUME Pipeline!Init PROVE OrderInv
  OBVIOUS
<1> DEFINE o == Pipeline!NoFrame
<1>1. /\ \E fenced \in BOOLEAN : present = [fenced |-> fenced, waits |-> o, shown |-> o]
      /\ down = <<>> /\ up = <<>> /\ rendered = 0
      /\ node.at = "loop" /\ node.prev = o /\ node.cur = o
  BY DEF Pipeline!Init
<1>2. o \in Frame /\ Rank(o) = 0 /\ o.id = 0 /\ ~o.mid
  BY FrameFacts DEF Pipeline!NoFrame
<1> HIDE DEF o
<1>3. /\ present.waits = o /\ present.shown = o
      /\ present \in [fenced : BOOLEAN, waits : Frame, shown : Frame]
  BY <1>1, <1>2
<1>4. OutInv(present, down)
  BY <1>1, <1>2, <1>3 DEF OutInv
<1>5. AheadInv(node, up, rendered, present, down)
  BY <1>1 DEF AheadInv
<1>6. NodeInv(node, rendered, present, down)
  BY <1>1, <1>2, <1>3 DEF NodeInv, Reached, o
<1> QED
  BY <1>1, <1>4, <1>5, <1>6, JobBegins DEF OrderInv, LineInv

LEMMA OneThenOne ==
  ASSUME NEW a, NEW b
  PROVE  <<a>> \o <<b>> = <<a, b>>
<1> DEFINE s == <<a>> \o <<b>>
<1>1. /\ <<a>> \in Seq({a, b}) /\ Len(<<a>>) = 1
      /\ <<b>> \in Seq({a, b}) /\ Len(<<b>>) = 1
  OBVIOUS
<1>2. s \in Seq({a, b}) /\ Len(s) = 2 /\ s[1] = a /\ s[2] = b
  BY <1>1
<1> HIDE DEF s
<1>3. s = <<a, b>>
  BY <1>2
<1> QED
  BY <1>3 DEF s

LEMMA OrderStep ==
  ASSUME OrderInv, Pipeline!Next
  PROVE  OrderInv' /\ (present'.shown # present.shown =>
                         Rank(present.shown) <= Rank(present'.shown))
<1> DEFINE Keeps == /\ LineInv(node', up', rendered', present', down')
                    /\ present'.shown # present.shown =>
                         Rank(present.shown) <= Rank(present'.shown)
<1>a. JobInv'
  BY JobStep DEF OrderInv
<1>b. LineInv(node, up, rendered, present, down) /\ JobInv
  BY DEF OrderInv
<1>c. LineInv(node', up', rendered', present', down')
        => LineInv(node, up, rendered, present, down)'
  BY DEF LineInv, OutInv, AheadInv, NodeInv, Reached, Rank, Pipeline!Rank
<1> SUFFICES Keeps
  BY <1>a, <1>c DEF OrderInv
<1>1. CASE Pipeline!Render
  <2> DEFINE s == Pipeline!Min(Pipeline!Free)
  <2>1. /\ up' = Pipeline!Published(up, [slot |-> s, id |-> rendered + 1, mid |-> FALSE])
        /\ rendered' = rendered + 1 /\ UNCHANGED <<down, node, present>>
    BY <1>1 DEF Pipeline!Render
  <2>2. s \in AnySlot
    BY DEF AnySlot, Pipeline!Free
  <2> HIDE DEF s
  <2>3. LineInv(node, up', rendered', present, down)
    BY <1>b, <2>1, <2>2, RenderedInOrder
  <2> QED
    BY <2>1, <2>3
<1>2. CASE Pipeline!Receive
  <2>1. /\ node.at = "poll" /\ up # <<>> /\ up' = Tail(up)
        /\ UNCHANGED <<rendered, down, present>>
        /\ node'.prev = node.prev /\ node'.cur = Head(up)
        /\ \/ node'.at = "before" /\ node'.todo = <<node.prev>>
           \/ node'.at = "after" /\ node'.todo = <<Head(up)>>
    BY <1>2, <1>b DEF Pipeline!Receive, Pipeline!Before, Pipeline!After, JobInv
  <2>2. LineInv(node', Tail(up), rendered, present, down)
    BY <1>b, <2>1, ReceivedInOrder
  <2> QED
    BY <2>1, <2>2
<1>3. CASE Pipeline!Publish
  <2>1. /\ down' = Pipeline!Published(down, Head(node.todo)) /\ node'.cur = node.cur
        /\ UNCHANGED <<up, rendered, present>>
    BY <1>3, <1>b DEF Pipeline!Publish, JobInv
  <2>2. \/ node.at = "before" /\ node'.at = "blend" /\ node'.prev = node.prev
        \/ /\ node.at = "after" /\ Len(node.todo) # 1 /\ node'.at = "after"
           /\ node'.prev = node.prev /\ node'.todo = Tail(node.todo)
        \/ node.at = "after" /\ Len(node.todo) = 1 /\ node'.at = "loop" /\ node'.prev = node.cur
    <3>1. node.at = "before" => node.todo = <<node.prev>>
      BY <1>b DEF LineInv, NodeInv
    <3>2. node.at = "before" => Len(node.todo) = 1
      BY <3>1
    <3> QED
      BY <1>3, <1>b, <3>2 DEF Pipeline!Publish, JobInv
  <2>3. LineInv(node', up, rendered, present, down')
    BY <1>b, <2>1, <2>2, NodePublishes
  <2> QED
    BY <2>1, <2>3
<1>4. CASE Pipeline!BlendNothing \/ Pipeline!AcquireOutput
  <2>1. /\ UNCHANGED <<up, rendered, down, present>> /\ node.at = "blend"
        /\ node'.prev = node.prev /\ node'.cur = node.cur /\ node'.at \in {"submit", "after"}
    BY <1>4, <1>b DEF Pipeline!BlendNothing, Pipeline!AcquireOutput, JobInv
  <2>2. PICK s \in AnySlot : node'.todo = <<Pipeline!Midpoint(s)>> \o <<node.cur>>
    <3>1. node.prev.slot \in AnySlot /\ Pipeline!Min(Pipeline!Free) \in AnySlot
      BY <1>b, FrameFacts DEF LineInv, NodeInv, AnySlot, Pipeline!Free
    <3> QED
      BY <1>4, <1>b, <3>1
         DEF Pipeline!BlendNothing, Pipeline!AcquireOutput, Pipeline!After, JobInv
  <2>3. /\ Pipeline!Midpoint(s) \in Frame /\ Pipeline!Midpoint(s).mid
        /\ Pipeline!Midpoint(s).id = node.prev.id
    BY <1>b, <2>2, FrameFacts DEF Pipeline!Midpoint, Frame, LineInv, NodeInv
  <2>4. node'.todo = <<Pipeline!Midpoint(s), node.cur>>
    BY <2>2, OneThenOne
  <2>5. LineInv(node', up, rendered, present, down)
    BY <1>b, <2>1, <2>3, <2>4, NodeMovesOn
  <2> QED
    BY <2>1, <2>5
<1>5. CASE Pipeline!Submit \/ Pipeline!SubmitLost
  <2>1. /\ UNCHANGED <<up, rendered, down, present>> /\ node.at = "submit" /\ node'.at = "after"
        /\ node'.prev = node.prev /\ node'.cur = node.cur /\ node'.todo = node.todo
    BY <1>5, <1>b DEF Pipeline!Submit, Pipeline!SubmitLost, JobInv
  <2>2. LineInv(node', up, rendered, present, down)
    BY <1>b, <2>1, NodeMovesOn
  <2> QED
    BY <2>1, <2>2
<1>6. CASE Pipeline!Compute \/ Pipeline!Waited
  BY <1>6, <1>b DEF Pipeline!Compute, Pipeline!Waited
<1>7. CASE Pipeline!Begin \/ Pipeline!PollNothing
  <2>1. /\ UNCHANGED <<up, rendered, down, present>> /\ node.at \in {"loop", "poll"}
        /\ node'.at \in {"loop", "poll"} /\ node'.prev = node.prev /\ node'.cur = node.cur
    BY <1>7, <1>b DEF Pipeline!Begin, Pipeline!PollNothing, JobInv
  <2>2. LineInv(node', up, rendered, present, down)
    BY <1>b, <2>1, NodeMovesOn
  <2> QED
    BY <2>1, <2>2
<1>8. CASE Pipeline!Take
  <2>1. /\ present.waits = Pipeline!NoFrame /\ down # <<>> /\ down' = Tail(down)
        /\ present' = [present EXCEPT !.waits = Head(down)] /\ UNCHANGED <<up, rendered, node>>
    BY <1>8 DEF Pipeline!Take
  <2>2. /\ OutInv(present', down') /\ present'.shown = present.shown
        /\ \A r \in Nat : Reached(present, down, r) => Reached(present', down', r)
    BY <1>b, <2>1, TakenInOrder DEF LineInv
  <2>3. LineInv(node, up, rendered, present', down')
    BY <1>b, <2>2, LineFollows
  <2> QED
    BY <2>1, <2>2, <2>3
<1>9. CASE Pipeline!Present
  <2>1. /\ present.waits # Pipeline!NoFrame /\ UNCHANGED <<down, up, rendered, node>>
        /\ present' = [present EXCEPT !.waits = Pipeline!NoFrame, !.shown = present.waits]
    BY <1>9 DEF Pipeline!Present
  <2>2. /\ OutInv(present', down) /\ Rank(present.shown) <= Rank(present'.shown)
        /\ \A r \in Nat : Reached(present, down, r) => Reached(present', down, r)
    BY <1>b, <2>1, ShownInOrder DEF LineInv
  <2>3. LineInv(node, up, rendered, present', down)
    BY <1>b, <2>2, LineFollows
  <2> QED
    BY <2>1, <2>2, <2>3
<1>10. CASE \/ Pipeline!Shutdown \/ Pipeline!RestartNode \/ Pipeline!Destroy
            \/ \E outcome \in {"up", "refused", "failed"} : Pipeline!OnStart(outcome)
  <2>1. /\ UNCHANGED <<up, rendered, down, present>> /\ node'.at = node.at
        /\ node'.prev = node.prev /\ node'.cur = node.cur /\ node'.todo = node.todo
    BY <1>10, <1>b DEF Pipeline!Shutdown, Pipeline!RestartNode, Pipeline!Stops, Pipeline!Destroy,
                       Pipeline!OnStart, JobInv
  <2>2. LineInv(node', up, rendered, present, down)
    BY <1>b, <2>1, NodeMovesOn
  <2> QED
    BY <2>1, <2>2
<1> QED
  BY <1>1, <1>2, <1>3, <1>4, <1>5, <1>6, <1>7, <1>8, <1>9, <1>10 DEF Pipeline!Next

(* A step of the pipeline, or of another part.                              *)
LEMMA PipelineStep ==
  ASSUME OrderInv, Pipeline!Next \/ UNCHANGED Pipeline!vars
  PROVE  /\ OrderInv' /\ JobKept
         /\ Pipeline!Rank(present'.shown) >= Pipeline!Rank(present.shown)
<1>0. Rank(present.shown) \in Nat
  BY FrameFacts DEF OrderInv, LineInv, OutInv
<1>1. CASE Pipeline!Next
  <2>1. OrderInv' /\ JobKept
    BY <1>1, OrderStep, JobStep DEF OrderInv
  <2>2. Rank(present.shown) <= Rank(present'.shown)
    BY <1>0, <1>1, OrderStep
  <2> QED
    BY <2>1, <2>2 DEF Rank
<1>2. CASE UNCHANGED Pipeline!vars
  <2>1. UNCHANGED <<node, ctl, up, rendered, present, down, job, fence>>
    BY <1>2 DEF Pipeline!vars
  <2>2. OrderInv'
    BY <2>1
       DEF OrderInv, JobInv, LineInv, OutInv, AheadInv, NodeInv, Reached, Rank, Pipeline!Rank
  <2>3. Rank(present'.shown) >= Rank(present.shown)
    BY <1>0, <2>1
  <2>4. JobKept
    BY <2>1 DEF JobKept, Pipeline!Destroying
  <2> QED
    BY <2>2, <2>3, <2>4 DEF Rank
<1> QED
  BY <1>1, <1>2
-----------------------------------------------------------------------------
(* The presentation plane (PresentSurface).                                 *)

Going == {"idle", "beat", "hide", "show", "import", "present"}

(* While frames are submitted there are a window and a watchdog; when there  *)
(* is neither a surface nor a part of one, nobody holds a window.           *)
WindowInv ==
  /\ Plane!WindowOutlivesItsUsers
  /\ pc \in Going \cup {"none", "create", "unwatch", "drop"}
  /\ pc \in Going => "window" \in made /\ wdRun /\ wpc # "off"
  /\ pc \in {"none", "create", "drop"} => wpc = "off" /\ ~lastGasp
  /\ pc \in {"none", "drop"} => ~shown
  /\ pc = "none" => made = {}

(* A plane that has yielded is hidden when the poll is through.             *)
YieldInv ==
  /\ yielded \in BOOLEAN /\ shown \in BOOLEAN
  /\ pc \in {"show", "import", "present"} => ~yielded
  /\ yielded /\ pc \in {"idle", "beat", "unwatch"} /\ wpc # "off" => ~shown

(* How long the consumer may have taken no step: as long as the watchdog has *)
(* counted and a round more, and no more than it lets pass.                 *)
StallInv ==
  /\ wpc \in {"off", "sleep", "look", "decide", "act"} /\ wdue \in 0 .. 1
  /\ age \in 0 .. Oldest /\ still \in 0 .. Oldest
  /\ wpc # "off" /\ ~yielded /\ fresh =>
       /\ wpc = "sleep" => still <= 1 - wdue
       /\ wpc = "decide" => still <= 1
       /\ wpc \in {"look", "act"} => still = 0
  /\ wpc # "off" /\ ~yielded /\ ~fresh /\ shown => still <= age + 1
  /\ ~yielded /\ beaten /\ shown =>
       /\ wpc = "sleep" => still <= Stall + 2 - wdue
       /\ wpc = "decide" => still <= Stall + 2
       /\ wpc = "look" => still <= Stall + 1

PlaneInv == WindowInv /\ YieldInv /\ StallInv

LEMMA PlaneTimes == Stall \in Nat /\ Oldest \in Nat /\ Oldest > Stall + 2
BY FrameworkAssumption DEF FrameworkAssumption, Plane!PresentAssumption

LEMMA PlaneBegins == Plane!Init => PlaneInv
<1> SUFFICES ASSUME Plane!Init PROVE PlaneInv
  OBVIOUS
<1>1. WindowInv
  BY DEF Plane!Init, WindowInv, Plane!WindowOutlivesItsUsers, Going
<1>2. YieldInv
  BY DEF Plane!Init, YieldInv
<1>3. StallInv
  BY PlaneTimes DEF Plane!Init, StallInv
<1> QED
  BY <1>1, <1>2, <1>3 DEF PlaneInv

(* Just after a step of the consumer nothing is late.                       *)
LEMMA NotLate ==
  ASSUME wpc' \in {"off", "sleep", "look", "decide", "act"}, wdue' \in 0 .. 1,
         age' \in 0 .. Oldest, still' = 0
  PROVE  StallInv'
<1> SUFFICES ASSUME NEW w \in 0 .. 1, NEW a \in 0 .. Oldest, wdue' = w, age' = a
             PROVE  StallInv'
  OBVIOUS
<1> QED
  BY PlaneTimes DEF StallInv

LEMMA ConsumerKeepsWindow ==
  ASSUME PlaneInv, Plane!Consumer
  PROVE  WindowInv' /\ YieldInv'
<1> USE DEF PlaneInv, WindowInv, YieldInv, Plane!WindowOutlivesItsUsers, Going, Plane!Step,
            Plane!windowVars, Plane!watchdogVars, Plane!Rest
<1>1. CASE Plane!CreateBegins
  BY <1>1 DEF Plane!CreateBegins
<1>2. CASE Plane!CreateFails
  BY <1>2 DEF Plane!CreateFails
<1>3. CASE Plane!CreateEnds
  BY <1>3 DEF Plane!CreateEnds, Plane!Part
<1>4. CASE Plane!Beat
  BY <1>4 DEF Plane!Beat
<1>5. CASE Plane!PollForeground
  <2>1. /\ pc = "beat" /\ UNCHANGED <<made, lastGasp, shown, wdRun, wpc>> 
        /\ \/ pc' = "hide" /\ ~yielded
           \/ pc' = "idle" /\ yielded
           \/ pc' \in {"show", "import"} /\ ~yielded'
    BY <1>5 DEF Plane!PollForeground
  <2>2. yielded' \in BOOLEAN
    BY <1>5 DEF Plane!PollForeground
  <2> QED
    BY <2>1, <2>2
<1>6. CASE Plane!YieldPlane
  BY <1>6 DEF Plane!YieldPlane
<1>7. CASE Plane!ReassertPlane
  BY <1>7 DEF Plane!ReassertPlane
<1>8. CASE Plane!ImportFrame
  BY <1>8 DEF Plane!ImportFrame
<1>9. CASE Plane!Presented
  BY <1>9 DEF Plane!Presented
<1>10. CASE Plane!PresentRecovers
  BY <1>10 DEF Plane!PresentRecovers, Plane!Part
<1>11. CASE Plane!PresentTerminal
  BY <1>11 DEF Plane!PresentTerminal
<1>12. CASE Plane!PresentFails
  BY <1>12 DEF Plane!PresentFails
<1>13. CASE Plane!DestroyBegins
  BY <1>13 DEF Plane!DestroyBegins
<1>14. CASE Plane!AfterLoss
  BY <1>14 DEF Plane!AfterLoss
<1>15. CASE Plane!Join
  BY <1>15 DEF Plane!Join
<1>16. CASE Plane!Drop
  BY <1>16 DEF Plane!Drop
<1>17. ASSUME NEW p \in Plane!Part, Plane!CreatePart(p) PROVE WindowInv' /\ YieldInv'
  BY <1>17 DEF Plane!CreatePart, Plane!Part
<1> QED
  BY <1>1, <1>2, <1>3, <1>4, <1>5, <1>6, <1>7, <1>8, <1>9, <1>10, <1>11, <1>12, <1>13, <1>14,
     <1>15, <1>16, <1>17
     DEF Plane!Consumer

LEMMA ConsumerIsSeen ==
  ASSUME PlaneInv, Plane!Consumer
  PROVE  StallInv'
<1>1. still' = 0 /\ wpc' \in {wpc, "sleep"} /\ wdue' \in {wdue, 1} /\ age' \in {age, 0}
  <2>1. CASE Plane!CreateBegins
    BY <2>1 DEF Plane!CreateBegins, Plane!Step, Plane!watchdogVars
  <2>2. CASE Plane!CreateFails
    BY <2>2 DEF Plane!CreateFails, Plane!Step, Plane!watchdogVars
  <2>3. CASE Plane!CreateEnds
    BY <2>3 DEF Plane!CreateEnds, Plane!Step, Plane!watchdogVars
  <2>4. CASE Plane!Beat
    BY <2>4 DEF Plane!Beat, Plane!Step, Plane!watchdogVars
  <2>5. CASE Plane!PollForeground
    BY <2>5 DEF Plane!PollForeground, Plane!Step, Plane!watchdogVars
  <2>6. CASE Plane!YieldPlane
    BY <2>6 DEF Plane!YieldPlane, Plane!Step, Plane!watchdogVars
  <2>7. CASE Plane!ReassertPlane
    BY <2>7 DEF Plane!ReassertPlane, Plane!Step, Plane!watchdogVars
  <2>8. CASE Plane!ImportFrame
    BY <2>8 DEF Plane!ImportFrame, Plane!Step, Plane!watchdogVars
  <2>9. CASE Plane!Presented
    BY <2>9 DEF Plane!Presented, Plane!Step, Plane!watchdogVars
  <2>10. CASE Plane!PresentRecovers
    BY <2>10 DEF Plane!PresentRecovers, Plane!Step, Plane!watchdogVars
  <2>11. CASE Plane!PresentTerminal
    BY <2>11 DEF Plane!PresentTerminal, Plane!Step, Plane!watchdogVars
  <2>12. CASE Plane!PresentFails
    BY <2>12 DEF Plane!PresentFails, Plane!Step, Plane!watchdogVars
  <2>13. CASE Plane!DestroyBegins
    BY <2>13 DEF Plane!DestroyBegins, Plane!Step, Plane!watchdogVars
  <2>14. CASE Plane!AfterLoss
    BY <2>14 DEF Plane!AfterLoss, Plane!Step, Plane!watchdogVars
  <2>15. CASE Plane!Join
    BY <2>15 DEF Plane!Join, Plane!Step, Plane!watchdogVars
  <2>16. CASE Plane!Drop
    BY <2>16 DEF Plane!Drop, Plane!Step, Plane!watchdogVars
  <2>17. ASSUME NEW p \in Plane!Part, Plane!CreatePart(p)
        PROVE  /\ still' = 0 /\ UNCHANGED <<wpc, wdue, age>>
    BY <2>17 DEF Plane!CreatePart, Plane!Step, Plane!watchdogVars
  <2> QED
    BY <2>1, <2>2, <2>3, <2>4, <2>5, <2>6, <2>7, <2>8, <2>9, <2>10, <2>11, <2>12, <2>13, <2>14,
       <2>15, <2>16, <2>17
       DEF Plane!Consumer
<1>2. /\ wpc' \in {"off", "sleep", "look", "decide", "act"} /\ wdue' \in 0 .. 1
      /\ age' \in 0 .. Oldest
  BY <1>1, PlaneTimes DEF PlaneInv, StallInv
<1> QED
  BY <1>1, <1>2, NotLate

LEMMA WatchdogStep ==
  ASSUME PlaneInv, Plane!Watchdog
  PROVE  PlaneInv'
<1> USE DEF Plane!Others
<1>1. WindowInv' /\ YieldInv'
  <2> USE DEF PlaneInv, WindowInv, YieldInv, Plane!WindowOutlivesItsUsers, Going
  <2>1. CASE Plane!Wake
    BY <2>1 DEF Plane!Wake
  <2>2. CASE Plane!Decide
    BY <2>2 DEF Plane!Decide, Plane!Rearm
  <2>3. CASE Plane!ForceHide
    BY <2>3 DEF Plane!ForceHide, Plane!Rearm
  <2>4. CASE Plane!Look
    BY <2>4 DEF Plane!Look
  <2> QED
    BY <2>1, <2>2, <2>3, <2>4 DEF Plane!Watchdog
<1>2. StallInv'
  <2> USE PlaneTimes DEF PlaneInv, StallInv, YieldInv
  <2>1. CASE Plane!Wake
    BY <2>1 DEF Plane!Wake
  <2>2. CASE Plane!Decide
    BY <2>2 DEF Plane!Decide, Plane!Rearm
  <2>3. CASE Plane!ForceHide
    BY <2>3 DEF Plane!ForceHide, Plane!Rearm
  <2>4. CASE Plane!Look
    BY <2>4 DEF Plane!Look
  <2> QED
    BY <2>1, <2>2, <2>3, <2>4 DEF Plane!Watchdog
<1> QED
  BY <1>1, <1>2 DEF PlaneInv

LEMMA PlaneStep ==
  ASSUME PlaneInv, Plane!Next
  PROVE  PlaneInv'
<1>1. CASE Plane!Switch
  <2>1. UNCHANGED <<pc, made, lastGasp, shown, yielded, fresh, beaten, wdRun, wpc, wdue, age,
                    still>>
    BY <1>1 DEF Plane!Switch, Plane!windowVars, Plane!watchdogVars
  <2>2. WindowInv' /\ YieldInv'
    BY <2>1 DEF PlaneInv, WindowInv, YieldInv, Plane!WindowOutlivesItsUsers
  <2>3. StallInv'
    BY <2>1 DEF PlaneInv, StallInv
  <2> QED
    BY <2>2, <2>3 DEF PlaneInv
<1>2. CASE Plane!Tick
  <2>1. /\ wpc \in {"off", "sleep"} /\ (wpc = "sleep" => wdue > 0)
        /\ wdue' = IF wpc = "sleep" THEN wdue - 1 ELSE wdue
        /\ age' = Plane!Older(age) /\ still' = Plane!Older(still)
        /\ UNCHANGED <<pc, made, lastGasp, shown, yielded, fresh, beaten, wdRun, wpc>>
    BY <1>2 DEF Plane!Tick, Plane!windowVars
  <2>2. WindowInv' /\ YieldInv'
    BY <2>1 DEF PlaneInv, WindowInv, YieldInv, Plane!WindowOutlivesItsUsers
  <2>3. StallInv'
    BY <2>1, PlaneTimes DEF PlaneInv, StallInv, Plane!Older
  <2> QED
    BY <2>2, <2>3 DEF PlaneInv
<1>3. CASE Plane!Consumer
  BY <1>3, ConsumerKeepsWindow, ConsumerIsSeen DEF PlaneInv
<1>4. CASE Plane!Watchdog
  BY <1>4, WatchdogStep
<1> QED
  BY <1>1, <1>2, <1>3, <1>4 DEF Plane!Next

LEMMA PlaneIsSafe ==
  PlaneInv => /\ Plane!WindowOutlivesItsUsers /\ Plane!YieldedIsHidden /\ Plane!StalledPlaneIsGone
<1> SUFFICES ASSUME PlaneInv
             PROVE  /\ Plane!WindowOutlivesItsUsers /\ Plane!YieldedIsHidden
                    /\ Plane!StalledPlaneIsGone
  OBVIOUS
<1>1. Plane!WindowOutlivesItsUsers
  BY DEF PlaneInv, WindowInv
<1>2. Plane!YieldedIsHidden
  BY DEF PlaneInv, WindowInv, YieldInv, Going, Plane!YieldedIsHidden
<1>3. ASSUME still > Stall + 2, beaten, wpc = "sleep", pc # "hide", shown PROVE FALSE
  <2>1. yielded
    BY <1>3, PlaneTimes DEF PlaneInv, StallInv, YieldInv
  <2>2. pc \notin {"show", "import", "present", "idle", "beat", "unwatch", "none", "create", "drop"}
    BY <1>3, <2>1 DEF PlaneInv, WindowInv, YieldInv
  <2> QED
    BY <1>3, <2>2 DEF PlaneInv, WindowInv, Going
<1> QED
  BY <1>1, <1>2, <1>3 DEF Plane!StalledPlaneIsGone

-----------------------------------------------------------------------------
(* The frames of the window (VulkanFrames).                                 *)

(* What the processor runs it signals when it is done, and it draws into    *)
(* the framebuffers there are; from the wait to the submission the fence of *)
(* the frame at hand is neither signalled nor given to the processor.       *)
FramesInv ==
  /\ current \in Window!Frame
  /\ DOMAIN in_flight = Window!Frame /\ DOMAIN uses = Window!Frame
  /\ \A f \in Window!Frame : uses[f] # 0 => in_flight[f] = "pending" /\ uses[f] = swapchains
  /\ tick = "acquire" => in_flight[current] = "unsignaled"
  /\ acquired \in BOOLEAN
  /\ acquired => tick \in {"draw", "present"} /\ in_flight[current] = "unsignaled"

LEMMA FramesBegin == Window!Init => FramesInv
<1> SUFFICES ASSUME Window!Init PROVE FramesInv
  OBVIOUS
<1>1. current \in Window!Frame
  BY DEF Window!Init, Window!Frame
<1>2. /\ DOMAIN in_flight = Window!Frame /\ DOMAIN uses = Window!Frame /\ tick = "window"
      /\ ~acquired /\ \A f \in Window!Frame : uses[f] = 0
  BY DEF Window!Init
<1>3. acquired \in BOOLEAN
  BY DEF Window!Init
<1> QED
  BY <1>1, <1>2, <1>3 DEF FramesInv

LEMMA RecreateKeeps ==
  ASSUME FramesInv, NEW n, Window!Recreate(n)
  PROVE  /\ UNCHANGED <<current, in_flight, uses>>
         /\ \A f \in Window!Frame : uses[f] = 0
BY DEF FramesInv, Window!Recreate, Window!Idle

(* Whether or not the swapchain is made again.                              *)
LEMMA MaybeRecreated ==
  ASSUME FramesInv, NEW wanted, NEW n,
         IF wanted THEN Window!Recreate(n) ELSE UNCHANGED Window!gpuVars
  PROVE  /\ UNCHANGED <<current, in_flight, uses>>
         /\ \A f \in Window!Frame :
              uses[f] # 0 => in_flight[f] = "pending" /\ uses[f] = swapchains'
<1>1. CASE wanted
  BY <1>1, RecreateKeeps
<1>2. CASE ~wanted
  BY <1>2 DEF FramesInv, Window!gpuVars
<1> QED
  BY <1>1, <1>2

LEMMA FramesStep ==
  ASSUME FramesInv, Window!Next
  PROVE  FramesInv'
<1>1. CASE Window!WindowChanges
  BY <1>1 DEF Window!WindowChanges, FramesInv, Window!gpuVars
<1>2. ASSUME NEW f \in Window!Frame, Window!Complete(f) PROVE FramesInv'
  BY <1>2 DEF Window!Complete, FramesInv
<1>3. CASE Window!Poll
  BY <1>3 DEF Window!Poll, FramesInv, Window!gpuVars
<1>4. CASE Window!ReceiveWindow
  <2>1. /\ tick = "window" /\ tick' = "fence" /\ UNCHANGED acquired
        /\ IF mail # None /\ mail # cached /\ mail # 0 THEN Window!Recreate(refusals)
           ELSE UNCHANGED Window!gpuVars
    BY <1>4 DEF Window!ReceiveWindow
  <2> HIDE <1>4
  <2> QED
    BY <2>1, MaybeRecreated DEF FramesInv
<1>5. CASE Window!WaitFence
  BY <1>5 DEF Window!WaitFence, FramesInv
<1>6. CASE Window!Acquire
  BY <1>6 DEF Window!Acquire, FramesInv, Window!gpuVars
<1>7. CASE Window!AcquireFails
  <2>1. PICK n \in {refusals, refusals + 1} :
          /\ tick = "acquire" /\ tick' = "draw" /\ acquired' = FALSE
          /\ IF win # 0 THEN Window!Recreate(n) ELSE UNCHANGED Window!gpuVars
    BY <1>7 DEF Window!AcquireFails
  <2> QED
    BY <2>1, MaybeRecreated DEF FramesInv
<1>8. CASE Window!Draw
  BY <1>8 DEF Window!Draw, FramesInv, Window!gpuVars
<1>9. CASE Window!Present \/ Window!PresentFails
  <2>1. /\ Window!Submitted /\ tick = "present" /\ tick' = "poll" /\ acquired' = FALSE
        /\ current' \in {current, 1 - current}
    BY <1>9 DEF Window!Present, Window!PresentFails
  <2>2. current' \in Window!Frame
    BY <2>1 DEF FramesInv, Window!Frame
  <2> QED
    BY <2>1, <2>2 DEF FramesInv, Window!Submitted
<1>10. CASE Window!SubmitFails
  BY <1>10 DEF Window!SubmitFails, FramesInv, Window!gpuVars
<1> QED
  BY <1>1, <1>2, <1>3, <1>4, <1>5, <1>6, <1>7, <1>8, <1>9, <1>10 DEF Window!Next, Window!Thread

LEMMA FramesAreSafe == FramesInv => Window!FramebuffersOutlive /\ Window!RecordsAnIdleFrame
BY DEF FramesInv, Window!FramebuffersOutlive, Window!RecordsAnIdleFrame

-----------------------------------------------------------------------------
(* The optical flow (OpticalFlow).                                          *)

(* With nothing baked, the slot of the last record holds what it was asked  *)
(* for, for the further warps of it.                                        *)
FlowInv ==
  /\ DOMAIN warped = {"asked", "drawn", "sound"}
  /\ have_prev => depth > 0
  /\ DOMAIN sets = Flow!Slots /\ next_set \in Flow!Slots
  /\ baked = None => warped.drawn = warped.asked
  /\ baked = None /\ have_prev => sets[last_slot] = warped.asked

LEMMA FlowBegins == Flow!Init => FlowInv
BY FrameworkAssumption
   DEF FrameworkAssumption, Flow!FlowAssumption, Flow!Init, FlowInv, Flow!Slots, Flow!Nothing

LEMMA FlowStep ==
  ASSUME FlowInv, Flow!Next
  PROVE  FlowInv'
<1> USE FrameworkAssumption DEF FrameworkAssumption, Flow!FlowAssumption
<1>1. CASE Flow!Start
  BY <1>1 DEF Flow!Start, FlowInv, Flow!Slots
<1>2. CASE Flow!Shutdown
  BY <1>2 DEF Flow!Shutdown, FlowInv, Flow!Slots, Flow!Nothing
<1>3. CASE Flow!SetTemporalPrior
  BY <1>3 DEF Flow!SetTemporalPrior, FlowInv
<1>4. CASE Flow!Prebake
  BY <1>4 DEF Flow!Prebake, FlowInv
<1>5. CASE Flow!RecordWarpOnly
  BY <1>5 DEF Flow!RecordWarpOnly, FlowInv
<1>6. ASSUME NEW a \in Frames, NEW b \in Frames, NEW c \in Targets, Flow!Record(a, b, c)
      PROVE  FlowInv'
  <2>1. (next_set + 1) % MaxInFlight \in Flow!Slots
    BY DEF FlowInv, Flow!Slots
  <2>2. CASE baked # None
    BY <1>6, <2>1, <2>2 DEF Flow!Record, FlowInv
  <2>3. CASE baked = None
    <3>1. Flow!Parity(a, b, c) = None
      BY <2>3 DEF Flow!Parity
    <3> QED
      BY <1>6, <2>1, <2>3, <3>1 DEF Flow!Record, FlowInv
  <2> QED
    BY <2>2, <2>3
<1> QED
  BY <1>1, <1>2, <1>3, <1>4, <1>5, <1>6 DEF Flow!Next

LEMMA FlowIsRight == FlowInv => Flow!DrawsWhatWasAsked
BY DEF FlowInv, Flow!DrawsWhatWasAsked

-----------------------------------------------------------------------------
(* Every set of naturals that is not empty has a least element: the sets     *)
(* 0 .. n are finite, and strict inclusion of finite sets is well-founded.   *)
LEMMA Least ==
  ASSUME NEW Numbers \in SUBSET Nat, Numbers # {}
  PROVE  \E m \in Numbers : \A n \in Numbers : m <= n
<1> DEFINE F == {0 .. m : m \in Numbers}
<1>1. F \subseteq FiniteSubsetsOf(Nat)
  <2> SUFFICES ASSUME NEW m \in Numbers PROVE 0 .. m \in FiniteSubsetsOf(Nat)
    OBVIOUS
  <2>1. m \in Int /\ 0 \in Int
    OBVIOUS
  <2>2. IsFiniteSet(0 .. m)
    BY <2>1, FS_Interval
  <2>3. 0 .. m \in SUBSET Nat
    OBVIOUS
  <2> QED
    BY <2>2, <2>3, Zenon DEF FiniteSubsetsOf
<1>2. F # {}
  OBVIOUS
<1>3. IsWellFoundedOn(StrictSubsetOrdering(Nat), FiniteSubsetsOf(Nat))
  BY FS_StrictSubsetOrderingWellFounded
<1>4. PICK x \in F : \A y \in F : ~(<<y, x>> \in StrictSubsetOrdering(Nat))
  <2> HIDE DEF F
  <2> QED
    BY <1>1, <1>2, <1>3, WFMin
<1>5. PICK m \in Numbers : x = 0 .. m
  OBVIOUS
<1>6. ASSUME NEW n \in Numbers, n < m PROVE FALSE
  <2>1. 0 .. n \in SUBSET Nat /\ 0 .. m \in SUBSET Nat /\ 0 .. n \subseteq 0 .. m
    BY <1>6
  <2>2. m \in 0 .. m /\ m \notin 0 .. n
    BY <1>6
  <2>3. <<0 .. n, 0 .. m>> \in StrictSubsetOrdering(Nat)
    BY <2>1, <2>2 DEF StrictSubsetOrdering
  <2> QED
    BY <1>4, <1>5, <2>3
<1> QED
  BY <1>6

-----------------------------------------------------------------------------
(* The channel between threads (RingChannel).                               *)

Steps == {"idle", "live", "cursors", "claim", "cursors2", "claim2", "write", "number"}
Taking == {"placed", "in", "found", "copied"}

(* The message a producer is at, and those that have claimed its place and   *)
(* not yet published its number.                                            *)
Number(p) == pub[p].pos + 1
InFlight(p) == pub[p].step \in {"write", "number"}

ChannelTypes ==
  /\ producer_cursor \in Nat /\ live_readers \in SUBSET Readers
  /\ reader_cursors \in [Readers -> Nat]
  /\ slots \in [0 .. Capacity - 1 -> [seq : Nat, data : Nat]]
  /\ pub \in [Producers -> [step : Steps, pos : Nat, live : SUBSET Readers, min : Int]]
  /\ rd \in [Readers -> [step : Taking \cup {"off", "joining"}, got : Nat]]
  /\ alone \in [Readers -> BOOLEAN]

(* A place is claimed once, and its number appears when it is published.    *)
ClaimsInv ==
  /\ \A i \in 0 .. Capacity - 1 : slots[i].seq <= producer_cursor
  /\ \A p \in Producers : InFlight(p) =>
       /\ Number(p) <= producer_cursor
       /\ \A i \in 0 .. Capacity - 1 : slots[i].seq # Number(p)
  /\ \A p, q \in Producers : InFlight(p) /\ InFlight(q) /\ p # q => pub[p].pos # pub[q].pos

(* No reader is ahead of the producers, and none without its bit.           *)
CursorsInv ==
  /\ \A r \in Readers : rd[r].step # "off" => r \in live_readers
  /\ \A r \in Readers : reader_cursors[r] <= producer_cursor
  /\ \A r \in Readers : rd[r].step \in {"found", "copied"} => Channel!NextOf(r) <= producer_cursor
  /\ \A r \in Readers : rd[r].step = "placed" => rd[r].got <= producer_cursor

(* The reader that nobody was ahead of when it took its cursor.             *)
Tracked(r) == alone[r] /\ rd[r].step \in Taking
From(r) == IF rd[r].step = "placed" THEN rd[r].got ELSE reader_cursors[r]

(* Every producer that is past its look at the bits has seen it, and goes by *)
(* a cursor that is not beyond its own; so what it has still to read fits    *)
(* the ring, where each place is that of one message.                       *)
SeenInv(r) ==
  /\ \A p \in Producers : pub[p].step \notin {"idle", "live"} => r \in pub[p].live
  /\ \A p \in Producers :
       pub[p].step \in {"claim", "claim2"} => pub[p].min # -1 /\ pub[p].min <= reader_cursors[r]
FitsInv(r) ==
  /\ reader_cursors[r] <= From(r) /\ From(r) <= producer_cursor
  /\ producer_cursor <= From(r) + Capacity
  /\ \A p \in Producers : InFlight(p) => From(r) < Number(p)
KeptInv(r) ==
  /\ \A p \in Producers :
       pub[p].step = "number" => slots[Channel!Place(Number(p))].data = Number(p)
  /\ \A n \in From(r) + 1 .. producer_cursor :
       /\ slots[Channel!Place(n)].seq <= n
       /\ slots[Channel!Place(n)].seq = n => slots[Channel!Place(n)].data = n
TakenInv(r) ==
  /\ rd[r].step \in {"found", "copied"} =>
       slots[Channel!Place(Channel!NextOf(r))].seq = Channel!NextOf(r)
  /\ rd[r].step = "copied" => rd[r].got = Channel!NextOf(r)

TrackedInv(r) == SeenInv(r) /\ FitsInv(r) /\ KeptInv(r) /\ TakenInv(r)

ChannelInv ==
  /\ ChannelTypes /\ ClaimsInv /\ CursorsInv
  /\ \A r \in Readers : Tracked(r) => TrackedInv(r)

LEMMA ChannelSize == Capacity \in Nat \ {0} /\ Readers \in SUBSET Nat
BY FrameworkAssumption DEF FrameworkAssumption, Channel!ChannelAssumption

(* Division with remainder, as the provers know it.                         *)
LEMMA Remainder ==
  ASSUME NEW w \in Int, w > 0, NEW n \in Int, NEW q \in Int, q = n \div w
  PROVE  n - w * q = n % w
BY SMT

LEMMA OneMultiple ==
  ASSUME NEW w \in Int, w > 0, NEW q \in Int, NEW s \in Int, NEW m \in Int, NEW n \in Int,
         NEW i \in Int, m - w * q = i, n - w * s = i, m < n, n - m < w
  PROVE  FALSE
BY SMT

LEMMA Apart ==
  ASSUME NEW w \in Nat \ {0}, NEW m \in Nat, NEW n \in Nat, m < n, n - m < w
  PROVE  m % w # n % w
<1> SUFFICES ASSUME m % w = n % w PROVE FALSE
  OBVIOUS
<1>1. w \in Int /\ w > 0 /\ m \in Int /\ n \in Int
  OBVIOUS
<1>2. m % w \in Int /\ m \div w \in Int /\ n \div w \in Int
  OBVIOUS
<1>3. m - w * (m \div w) = m % w /\ n - w * (n \div w) = n % w
  BY <1>1, <1>2, Remainder, Zenon
<1> QED
  BY <1>1, <1>2, <1>3, OneMultiple, Zenon

LEMMA Within == \A w, c, n, m \in Nat : n <= m /\ m <= c + w => n <= c + w
OBVIOUS

(* Two messages of one window of the ring have two places.                  *)
LEMMA PlacesOfWindow ==
  ASSUME NEW c \in Nat, NEW m \in Nat, NEW n \in Nat,
         c < m, m <= c + Capacity, c < n, n <= c + Capacity
  PROVE  /\ Channel!Place(m) \in 0 .. Capacity - 1
         /\ Channel!Place(m) = Channel!Place(n) => m = n
<1>1. Channel!Place(m) \in 0 .. Capacity - 1
  BY ChannelSize DEF Channel!Place
<1>2. CASE m < n
  <2>1. n - m < Capacity
    BY ChannelSize
  <2>2. m % Capacity # n % Capacity
    BY <1>2, <2>1, ChannelSize, Apart
  <2> QED
    BY <1>1, <2>2 DEF Channel!Place
<1>3. CASE n < m
  <2>1. m - n < Capacity
    BY ChannelSize
  <2>2. n % Capacity # m % Capacity
    BY <1>3, <2>1, ChannelSize, Apart
  <2> QED
    BY <1>1, <2>2 DEF Channel!Place
<1> QED
  BY <1>1, <1>2, <1>3

LEMMA PlaceIsOne == \A n \in Nat : Channel!Place(n) \in 0 .. Capacity - 1
BY ChannelSize DEF Channel!Place

(* The slowest of the readers looked at.                                    *)
LEMMA SlowestIsBelow ==
  ASSUME ChannelTypes, NEW live \in SUBSET Readers
  PROVE  /\ Channel!MinOf(live) \in Int
         /\ \A r \in live : Channel!MinOf(live) # -1 /\ Channel!MinOf(live) <= reader_cursors[r]
<1> DEFINE Cursors == {reader_cursors[r] : r \in live}
<1>1. CASE live = {}
  BY <1>1 DEF Channel!MinOf, Channel!NoReaders
<1>2. CASE live # {}
  <2>1. Cursors \in SUBSET Nat /\ Cursors # {}
    BY <1>2 DEF ChannelTypes
  <2> HIDE DEF Cursors
  <2>2. \E m \in Cursors : \A c \in Cursors : m <= c
    BY <2>1, Least
  <2>3. /\ Channel!Min(Cursors) \in Cursors
        /\ \A c \in Cursors : Channel!Min(Cursors) <= c
    BY <2>2 DEF Channel!Min
  <2>4. Channel!MinOf(live) = Channel!Min(Cursors)
    BY <1>2 DEF Channel!MinOf, Cursors
  <2>5. Channel!MinOf(live) \in Nat /\ \A c \in Cursors : Channel!MinOf(live) <= c
    BY <2>1, <2>3, <2>4
  <2>6. \A r \in live : reader_cursors[r] \in Cursors
    BY DEF Cursors
  <2> QED
    BY <2>5, <2>6
<1> QED
  BY <1>1, <1>2

LEMMA ChannelBegins == Channel!Init => ChannelInv
<1> SUFFICES ASSUME Channel!Init PROVE ChannelInv
  OBVIOUS
<1>1. ChannelTypes
  BY ChannelSize DEF Channel!Init, Channel!Idle, Channel!NoReaders, ChannelTypes, Steps, Taking
<1>2. ClaimsInv
  BY DEF Channel!Init, Channel!Idle, ClaimsInv, InFlight
<1>3. CursorsInv
  BY DEF Channel!Init, CursorsInv
<1>4. \A r \in Readers : ~Tracked(r)
  BY DEF Channel!Init, Tracked
<1> QED
  BY <1>1, <1>2, <1>3, <1>4 DEF ChannelInv

LEMMA ChannelIsRead == ChannelInv => Channel!ReadersMissNothing
<1> SUFFICES ASSUME ChannelInv, NEW r \in Readers, Channel!Joined(r), alone[r]
             PROVE  Channel!KeepsItsMessages(r)
  BY DEF Channel!ReadersMissNothing
<1>1. TrackedInv(r) /\ From(r) = reader_cursors[r]
  BY DEF ChannelInv, Tracked, Channel!Joined, Taking, From
<1> QED
  BY <1>1 DEF TrackedInv, KeptInv, TakenInv, Channel!KeepsItsMessages, Channel!NextOf

(* A producer that claims nothing moves on; it has looked where it must.     *)
LEMMA ProducerMoves ==
  ASSUME ChannelInv, NEW p \in Producers,
         NEW v \in [step : Steps, pos : Nat, live : SUBSET Readers, min : Int],
         pub' = [pub EXCEPT ![p] = v], ~InFlight(p), v.step \notin {"write", "number"},
         UNCHANGED <<producer_cursor, live_readers, reader_cursors, slots, rd, alone>>,
         \A r \in Readers : Tracked(r) /\ v.step \notin {"idle", "live"} =>
           /\ r \in v.live
           /\ v.step \in {"claim", "claim2"} => v.min # -1 /\ v.min <= reader_cursors[r]
  PROVE  ChannelInv'
<1>1. /\ pub \in [Producers -> [step : Steps, pos : Nat, live : SUBSET Readers, min : Int]]
      /\ pub' \in [Producers -> [step : Steps, pos : Nat, live : SUBSET Readers, min : Int]]
      /\ pub'[p] = v /\ \A q \in Producers : q # p => pub'[q] = pub[q]
  BY DEF ChannelInv, ChannelTypes
<1>2. ChannelTypes'
  BY <1>1 DEF ChannelInv, ChannelTypes
<1>3. \A q \in Producers : pub'[q].step \in {"write", "number"} => q # p /\ pub'[q] = pub[q]
  BY <1>1
<1>4. ClaimsInv'
  BY <1>3 DEF ChannelInv, ClaimsInv, InFlight, Number
<1>5. CursorsInv'
  BY DEF ChannelInv, CursorsInv, Channel!NextOf
<1>6. ASSUME NEW r \in Readers, Tracked(r)' PROVE TrackedInv(r)'
  <2>1. Tracked(r) /\ TrackedInv(r)
    BY <1>6 DEF ChannelInv, Tracked
  <2>2. SeenInv(r)'
    <3>1. SUFFICES ASSUME NEW q \in Producers
                   PROVE  /\ pub'[q].step \notin {"idle", "live"} => r \in pub'[q].live
                          /\ pub'[q].step \in {"claim", "claim2"} =>
                               pub'[q].min # -1 /\ pub'[q].min <= reader_cursors[r]
      BY DEF SeenInv
    <3>2. CASE q = p
      BY <1>1, <2>1, <3>2
    <3>3. CASE q # p
      BY <1>1, <2>1, <3>3 DEF TrackedInv, SeenInv
    <3> QED
      BY <3>2, <3>3
  <2>3. FitsInv(r)'
    BY <1>3, <2>1 DEF TrackedInv, FitsInv, InFlight, Number, From
  <2>4. KeptInv(r)'
    BY <1>3, <2>1 DEF TrackedInv, KeptInv, Number, From
  <2>5. TakenInv(r)'
    BY <2>1 DEF TrackedInv, TakenInv, Channel!NextOf
  <2> QED
    BY <2>2, <2>3, <2>4, <2>5 DEF TrackedInv
<1> QED
  BY <1>2, <1>4, <1>5, <1>6 DEF ChannelInv

(* The next place is claimed: for every reader it fits the ring.            *)
LEMMA ProducerClaims ==
  ASSUME ChannelInv, NEW p \in Producers, pub[p].step \in {"claim", "claim2"},
         ~Channel!Full(pub[p]), producer_cursor = pub[p].pos,
         producer_cursor' = producer_cursor + 1,
         pub' = [pub EXCEPT ![p] = [pub[p] EXCEPT !.step = "write"]],
         UNCHANGED <<live_readers, reader_cursors, slots, rd, alone>>
  PROVE  ChannelInv'
<1>1. /\ pub \in [Producers -> [step : Steps, pos : Nat, live : SUBSET Readers, min : Int]]
      /\ producer_cursor \in Nat /\ reader_cursors \in [Readers -> Nat]
      /\ slots \in [0 .. Capacity - 1 -> [seq : Nat, data : Nat]]
      /\ \A i \in 0 .. Capacity - 1 : slots[i].seq \in Nat /\ slots[i].seq <= producer_cursor
      /\ rd \in [Readers -> [step : Taking \cup {"off", "joining"}, got : Nat]]
  BY DEF ChannelInv, ChannelTypes, ClaimsInv
<1>2. /\ pub'[p].step = "write" /\ pub'[p].pos = pub[p].pos /\ pub'[p].live = pub[p].live
      /\ \A q \in Producers : q # p => pub'[q] = pub[q]
      /\ pub' \in [Producers -> [step : Steps, pos : Nat, live : SUBSET Readers, min : Int]]
  <2> DEFINE v == [pub[p] EXCEPT !.step = "write"]
  <2>1. /\ v \in [step : Steps, pos : Nat, live : SUBSET Readers, min : Int]
        /\ v.step = "write" /\ v.pos = pub[p].pos /\ v.live = pub[p].live
    BY <1>1 DEF Steps
  <2>2. pub' = [pub EXCEPT ![p] = v]
    OBVIOUS
  <2> HIDE DEF v
  <2>3. pub'[p] = v /\ \A q \in Producers : q # p => pub'[q] = pub[q]
    BY <1>1, <2>2
  <2>4. pub' \in [Producers -> [step : Steps, pos : Nat, live : SUBSET Readers, min : Int]]
    BY <1>1, <2>1, <2>2
  <2> QED
    BY <2>1, <2>3, <2>4
<1>3. ChannelTypes'
  <2>1. producer_cursor' \in Nat
    BY <1>1
  <2> QED
    BY <1>2, <2>1 DEF ChannelInv, ChannelTypes
<1>4. ClaimsInv'
  <2>1. \A i \in 0 .. Capacity - 1 : slots[i].seq <= producer_cursor + 1
                                     /\ slots[i].seq # producer_cursor + 1
    BY <1>1
  <2>2. \A q \in Producers : q # p /\ pub[q].step \in {"write", "number"} =>
          /\ pub[q].pos \in Nat /\ pub[q].pos + 1 <= producer_cursor
          /\ pub[q].pos + 1 <= producer_cursor + 1 /\ pub[q].pos # producer_cursor
          /\ \A i \in 0 .. Capacity - 1 : slots[i].seq # pub[q].pos + 1
    BY <1>1 DEF ChannelInv, ClaimsInv, InFlight, Number
  <2>3. ASSUME NEW q \in Producers, pub'[q].step \in {"write", "number"}
        PROVE  /\ pub'[q].pos + 1 <= producer_cursor + 1
               /\ \A i \in 0 .. Capacity - 1 : slots[i].seq # pub'[q].pos + 1
    <3>1. CASE q = p
      BY <1>1, <1>2, <2>1, <3>1
    <3>2. CASE q # p
      BY <1>2, <2>2, <2>3, <3>2
    <3> QED
      BY <3>1, <3>2
  <2>4. ASSUME NEW q \in Producers, NEW s \in Producers, q # s,
               pub'[q].step \in {"write", "number"}, pub'[s].step \in {"write", "number"}
        PROVE  pub'[q].pos # pub'[s].pos
    <3>1. CASE q = p \/ s = p
      BY <1>2, <2>2, <2>4, <3>1
    <3>2. CASE q # p /\ s # p
      BY <1>2, <2>4, <3>2 DEF ChannelInv, ClaimsInv, InFlight
    <3> QED
      BY <3>1, <3>2
  <2> QED
    BY <2>1, <2>3, <2>4 DEF ClaimsInv, InFlight, Number
<1>5. CursorsInv'
  <2>1. \A n \in Nat : n <= producer_cursor => n <= producer_cursor + 1
    BY <1>1
  <2>2. \A r \in Readers :
          reader_cursors[r] \in Nat /\ Channel!NextOf(r) \in Nat /\ rd[r].got \in Nat
    BY <1>1 DEF Channel!NextOf
  <2> QED
    BY <2>1, <2>2 DEF ChannelInv, CursorsInv, Channel!NextOf
<1>6. ASSUME NEW r \in Readers, Tracked(r)' PROVE TrackedInv(r)'
  <2>1. Tracked(r) /\ TrackedInv(r)
    BY <1>6 DEF ChannelInv, Tracked
  <2>2. From(r) \in Nat /\ From(r) <= producer_cursor /\ reader_cursors[r] <= From(r)
    BY <1>1, <2>1 DEF TrackedInv, FitsInv, From
  <2>3. SeenInv(r)'
    <3>1. r \in pub[p].live
      BY <2>1 DEF TrackedInv, SeenInv
    <3> QED
      BY <1>2, <2>1, <3>1 DEF TrackedInv, SeenInv
  <2>4. producer_cursor + 1 <= From(r) + Capacity
    <3>1. pub[p].min # -1 /\ pub[p].min <= reader_cursors[r] /\ pub[p].min \in Int
      BY <1>1, <2>1 DEF TrackedInv, SeenInv
    <3>2. ~(pub[p].pos + 1 - pub[p].min > Capacity + 0)
      BY <3>1 DEF Channel!Full, Channel!FullOverBy, Channel!NoReaders
    <3>3. reader_cursors[r] \in Nat
      BY <1>1
    <3> QED
      BY <1>1, <2>2, <3>1, <3>2, <3>3, ChannelSize
  <2>5. FitsInv(r)'
    <3>1. From(r)' = From(r)
      BY DEF From
    <3>2. \A q \in Producers : pub'[q].step \in {"write", "number"} => From(r) < pub'[q].pos + 1
      <4>1. SUFFICES ASSUME NEW q \in Producers, pub'[q].step \in {"write", "number"}
                     PROVE  From(r) < pub'[q].pos + 1
        OBVIOUS
      <4>2. CASE q = p
        BY <1>1, <1>2, <2>2, <4>2
      <4>3. CASE q # p
        BY <1>2, <2>1, <4>1, <4>3 DEF TrackedInv, FitsInv, InFlight, Number
      <4> QED
        BY <4>2, <4>3
    <3> HIDE DEF From
    <3> QED
      BY <1>1, <2>2, <2>4, <3>1, <3>2 DEF FitsInv, InFlight, Number
  <2>6. KeptInv(r)'
    <3>1. From(r)' = From(r)
      BY DEF From
    <3>2. \A q \in Producers : pub'[q].step = "number" => q # p /\ pub'[q] = pub[q]
      BY <1>2
    <3>3. ASSUME NEW n \in From(r) + 1 .. producer_cursor + 1
          PROVE  /\ slots[Channel!Place(n)].seq <= n
                 /\ slots[Channel!Place(n)].seq = n => slots[Channel!Place(n)].data = n
      <4>1. CASE n \in From(r) + 1 .. producer_cursor
        BY <2>1, <4>1 DEF TrackedInv, KeptInv
      <4>2. CASE n = producer_cursor + 1
        <5>1. Channel!Place(n) \in 0 .. Capacity - 1
          BY <1>1, <4>2, PlaceIsOne
        <5> QED
          BY <1>1, <4>2, <5>1
      <4> QED
        BY <1>1, <2>2, <4>1, <4>2
    <3> HIDE DEF From
    <3> QED
      BY <2>1, <3>1, <3>2, <3>3 DEF TrackedInv, KeptInv, Number
  <2>7. TakenInv(r)'
    BY <2>1 DEF TrackedInv, TakenInv, Channel!NextOf
  <2> QED
    BY <2>3, <2>5, <2>6, <2>7 DEF TrackedInv
<1> QED
  BY <1>3, <1>4, <1>5, <1>6 DEF ChannelInv

(* What a reader has to read is kept by a step that leaves the places it     *)
(* reads from alone.                                                        *)
LEMMA ProducerWritesData ==
  ASSUME ChannelInv, NEW p \in Producers, pub[p].step = "write",
         pub' = [pub EXCEPT ![p] = [pub[p] EXCEPT !.step = "number"]],
         slots' = [slots EXCEPT ![Channel!Place(Number(p))].data = Number(p)],
         UNCHANGED <<producer_cursor, live_readers, reader_cursors, rd, alone>>
  PROVE  ChannelInv'
<1>1. /\ pub \in [Producers -> [step : Steps, pos : Nat, live : SUBSET Readers, min : Int]]
      /\ producer_cursor \in Nat /\ Number(p) \in Nat
      /\ slots \in [0 .. Capacity - 1 -> [seq : Nat, data : Nat]]
      /\ Channel!Place(Number(p)) \in 0 .. Capacity - 1
  BY PlaceIsOne DEF ChannelInv, ChannelTypes, Number
<1>2. /\ pub'[p].step = "number" /\ pub'[p].pos = pub[p].pos /\ pub'[p].live = pub[p].live
      /\ \A q \in Producers : q # p => pub'[q] = pub[q]
      /\ pub' \in [Producers -> [step : Steps, pos : Nat, live : SUBSET Readers, min : Int]]
  BY <1>1 DEF Steps
<1> DEFINE i == Channel!Place(Number(p))
<1>3. /\ slots' \in [0 .. Capacity - 1 -> [seq : Nat, data : Nat]]
      /\ slots'[i].data = Number(p)
      /\ \A j \in 0 .. Capacity - 1 : slots'[j].seq = slots[j].seq
      /\ \A j \in 0 .. Capacity - 1 : j # i => slots'[j] = slots[j]
  BY <1>1
<1> HIDE DEF i
<1>4. ChannelTypes'
  BY <1>2, <1>3 DEF ChannelInv, ChannelTypes
<1>5. \A q \in Producers :
        /\ pub'[q].pos = pub[q].pos /\ pub'[q].live = pub[q].live
        /\ (pub'[q].step \in {"write", "number"}) <=> (pub[q].step \in {"write", "number"})
  BY <1>2
<1>6. ClaimsInv'
  BY <1>3, <1>5 DEF ChannelInv, ClaimsInv, InFlight, Number
<1>7. CursorsInv'
  BY DEF ChannelInv, CursorsInv, Channel!NextOf
<1>8. ASSUME NEW r \in Readers, Tracked(r)' PROVE TrackedInv(r)'
  <2>1. Tracked(r) /\ TrackedInv(r)
    BY <1>8 DEF ChannelInv, Tracked
  <2>2. SeenInv(r)'
    BY <1>2, <2>1 DEF TrackedInv, SeenInv
  <2>3. FitsInv(r)'
    BY <1>5, <2>1 DEF TrackedInv, FitsInv, InFlight, Number, From
  <2>4. KeptInv(r)'
    <3>1. /\ From(r)' = From(r) /\ From(r) \in Nat /\ producer_cursor <= From(r) + Capacity
          /\ From(r) < Number(p) /\ Number(p) <= producer_cursor
      BY <1>1, <2>1 DEF From, ChannelInv, ChannelTypes, TrackedInv, FitsInv, ClaimsInv, InFlight
    <3> HIDE DEF From
    <3>2. ASSUME NEW q \in Producers, pub'[q].step = "number"
          PROVE  slots'[Channel!Place(pub'[q].pos + 1)].data = pub'[q].pos + 1
      <4>1. CASE q = p
        BY <1>2, <1>3, <4>1 DEF Number, i
      <4>2. CASE q # p
        <5>1. /\ pub'[q] = pub[q] /\ pub[q].step = "number" /\ Number(q) \in Nat
              /\ Number(q) # Number(p) /\ From(r) < Number(q) /\ Number(q) <= producer_cursor
              /\ slots[Channel!Place(Number(q))].data = Number(q)
          <6>1. pub'[q] = pub[q] /\ pub[q].step = "number" /\ InFlight(q) /\ InFlight(p)
            BY <1>2, <3>2, <4>2 DEF InFlight
          <6>2. Number(q) \in Nat /\ Number(q) # Number(p) /\ Number(q) <= producer_cursor
            BY <1>1, <4>2, <6>1 DEF ChannelInv, ClaimsInv, Number
          <6>3. From(r) < Number(q)
            BY <2>1, <6>1 DEF TrackedInv, FitsInv
          <6>4. slots[Channel!Place(Number(q))].data = Number(q)
            BY <2>1, <6>1 DEF TrackedInv, KeptInv
          <6> QED
            BY <6>1, <6>2, <6>3, <6>4
        <5>2. Channel!Place(Number(q)) \in 0 .. Capacity - 1 /\ Channel!Place(Number(q)) # i
          <6>1. Number(q) <= From(r) + Capacity /\ Number(p) <= From(r) + Capacity
            BY <1>1, <3>1, <5>1, ChannelSize
          <6> QED
            BY <1>1, <3>1, <5>1, <6>1, PlacesOfWindow DEF i
        <5> QED
          BY <1>3, <5>1, <5>2 DEF Number
      <4> QED
        BY <4>1, <4>2
    <3>3. ASSUME NEW n \in From(r) + 1 .. producer_cursor
          PROVE  /\ slots'[Channel!Place(n)].seq <= n
                 /\ slots'[Channel!Place(n)].seq = n => slots'[Channel!Place(n)].data = n
      <4>1. /\ n \in Nat /\ From(r) < n /\ n <= From(r) + Capacity
            /\ Channel!Place(n) \in 0 .. Capacity - 1
        <5>1. n \in Nat /\ From(r) < n /\ n <= producer_cursor
          BY <1>1, <3>1
        <5>2. n <= From(r) + Capacity
          BY <1>1, <3>1, <5>1, ChannelSize
        <5>3. Channel!Place(n) \in 0 .. Capacity - 1
          BY <5>1, PlaceIsOne
        <5> QED
          BY <5>1, <5>2, <5>3
      <4>2. /\ slots[Channel!Place(n)].seq <= n
            /\ slots[Channel!Place(n)].seq = n => slots[Channel!Place(n)].data = n
        BY <2>1 DEF TrackedInv, KeptInv
      <4>3. CASE Channel!Place(n) # i
        BY <1>3, <4>1, <4>2, <4>3
      <4>4. CASE Channel!Place(n) = i
        <5>1. n = Number(p)
          BY <1>1, <3>1, <4>1, <4>4, PlacesOfWindow, ChannelSize DEF i
        <5> QED
          BY <1>3, <4>1, <4>2, <4>4, <5>1
      <4> QED
        BY <4>3, <4>4
    <3> QED
      BY <3>1, <3>2, <3>3 DEF KeptInv, Number
  <2>5. TakenInv(r)'
    <3>1. Channel!NextOf(r) \in Nat /\ Channel!Place(Channel!NextOf(r)) \in 0 .. Capacity - 1
      BY PlaceIsOne DEF ChannelInv, ChannelTypes, Channel!NextOf
    <3> QED
      BY <1>3, <2>1, <3>1 DEF TrackedInv, TakenInv, Channel!NextOf
  <2> QED
    BY <2>2, <2>3, <2>4, <2>5 DEF TrackedInv
<1> QED
  BY <1>4, <1>6, <1>7, <1>8 DEF ChannelInv

LEMMA ProducerWritesNumber ==
  ASSUME ChannelInv, NEW p \in Producers, pub[p].step = "number",
         pub' = [pub EXCEPT ![p] = Channel!Idle],
         slots' = [slots EXCEPT ![Channel!Place(Number(p))].seq = Number(p)],
         UNCHANGED <<producer_cursor, live_readers, reader_cursors, rd, alone>>
  PROVE  ChannelInv'
<1>1. /\ pub \in [Producers -> [step : Steps, pos : Nat, live : SUBSET Readers, min : Int]]
      /\ producer_cursor \in Nat /\ Number(p) \in Nat
      /\ slots \in [0 .. Capacity - 1 -> [seq : Nat, data : Nat]]
      /\ Channel!Place(Number(p)) \in 0 .. Capacity - 1
  BY PlaceIsOne DEF ChannelInv, ChannelTypes, Number
<1>2. /\ pub'[p].step = "idle"
      /\ \A q \in Producers : q # p => pub'[q] = pub[q]
      /\ pub' \in [Producers -> [step : Steps, pos : Nat, live : SUBSET Readers, min : Int]]
  BY <1>1 DEF Steps, Channel!Idle, Channel!NoReaders
<1> DEFINE i == Channel!Place(Number(p))
<1>3. /\ slots' \in [0 .. Capacity - 1 -> [seq : Nat, data : Nat]]
      /\ slots'[i].seq = Number(p)
      /\ \A j \in 0 .. Capacity - 1 : slots'[j].data = slots[j].data
      /\ \A j \in 0 .. Capacity - 1 : j # i => slots'[j] = slots[j]
  BY <1>1
<1> HIDE DEF i
<1>4. ChannelTypes'
  BY <1>2, <1>3 DEF ChannelInv, ChannelTypes
<1>5. \A q \in Producers :
        pub'[q].step \notin {"idle", "live"} => q # p /\ pub'[q] = pub[q]
  BY <1>2
<1>6. ClaimsInv'
  <2>1. Number(p) <= producer_cursor
    BY DEF ChannelInv, ClaimsInv, InFlight
  <2>2. \A j \in 0 .. Capacity - 1 : slots'[j].seq <= producer_cursor
    BY <1>3, <2>1 DEF ChannelInv, ClaimsInv
  <2>3. ASSUME NEW q \in Producers, pub'[q].step \in {"write", "number"},
               NEW j \in 0 .. Capacity - 1
        PROVE  slots'[j].seq # pub'[q].pos + 1
    <3>1. /\ q # p /\ pub'[q] = pub[q] /\ slots[j].seq # pub[q].pos + 1
          /\ pub[q].pos # pub[p].pos /\ pub[q].pos \in Nat /\ pub[p].pos \in Nat
      BY <1>1, <1>5, <2>3 DEF ChannelInv, ClaimsInv, InFlight, Number
    <3> QED
      BY <1>3, <3>1 DEF Number
  <2> QED
    BY <1>5, <2>2, <2>3 DEF ChannelInv, ClaimsInv, InFlight, Number
<1>7. CursorsInv'
  BY DEF ChannelInv, CursorsInv, Channel!NextOf
<1>8. ASSUME NEW r \in Readers, Tracked(r)' PROVE TrackedInv(r)'
  <2>1. Tracked(r) /\ TrackedInv(r)
    BY <1>8 DEF ChannelInv, Tracked
  <2>2. SeenInv(r)'
    BY <1>5, <2>1 DEF TrackedInv, SeenInv
  <2>3. FitsInv(r)'
    BY <1>5, <2>1 DEF TrackedInv, FitsInv, InFlight, Number, From
  <2>4. KeptInv(r)'
    <3>1. /\ From(r)' = From(r) /\ From(r) \in Nat /\ producer_cursor <= From(r) + Capacity
          /\ From(r) < Number(p) /\ Number(p) <= producer_cursor
      BY <1>1, <2>1 DEF From, ChannelInv, ChannelTypes, TrackedInv, FitsInv, ClaimsInv, InFlight
    <3>2. slots[i].data = Number(p)
      BY <2>1 DEF TrackedInv, KeptInv, i
    <3> HIDE DEF From
    <3>3. ASSUME NEW q \in Producers, pub'[q].step = "number"
          PROVE  slots'[Channel!Place(pub'[q].pos + 1)].data = pub'[q].pos + 1
      <4>1. /\ pub'[q] = pub[q] /\ pub[q].step = "number" /\ Number(q) \in Nat
            /\ slots[Channel!Place(Number(q))].data = Number(q)
            /\ Channel!Place(Number(q)) \in 0 .. Capacity - 1
        <5>1. pub'[q] = pub[q] /\ pub[q].step = "number"
          BY <1>5, <3>3
        <5>2. Number(q) \in Nat
          BY <1>1 DEF Number
        <5>3. slots[Channel!Place(Number(q))].data = Number(q)
          BY <2>1, <5>1 DEF TrackedInv, KeptInv
        <5> QED
          BY <5>1, <5>2, <5>3, PlaceIsOne
      <4> QED
        BY <1>3, <4>1 DEF Number
    <3>4. ASSUME NEW n \in From(r) + 1 .. producer_cursor
          PROVE  /\ slots'[Channel!Place(n)].seq <= n
                 /\ slots'[Channel!Place(n)].seq = n => slots'[Channel!Place(n)].data = n
      <4>1. /\ n \in Nat /\ From(r) < n /\ n <= From(r) + Capacity
            /\ Channel!Place(n) \in 0 .. Capacity - 1
        <5>1. n \in Nat /\ From(r) < n /\ n <= producer_cursor
          BY <1>1, <3>1
        <5>2. n <= From(r) + Capacity
          BY <1>1, <3>1, <5>1, ChannelSize
        <5>3. Channel!Place(n) \in 0 .. Capacity - 1
          BY <5>1, PlaceIsOne
        <5> QED
          BY <5>1, <5>2, <5>3
      <4>2. /\ slots[Channel!Place(n)].seq <= n
            /\ slots[Channel!Place(n)].seq = n => slots[Channel!Place(n)].data = n
        BY <2>1 DEF TrackedInv, KeptInv
      <4>3. CASE Channel!Place(n) # i
        BY <1>3, <4>1, <4>2, <4>3
      <4>4. CASE Channel!Place(n) = i
        <5>1. n = Number(p)
          BY <1>1, <3>1, <4>1, <4>4, PlacesOfWindow, ChannelSize DEF i
        <5> QED
          BY <1>1, <1>3, <3>2, <4>1, <4>4, <5>1
      <4> QED
        BY <4>3, <4>4
    <3> QED
      BY <3>1, <3>3, <3>4 DEF KeptInv, Number
  <2>5. TakenInv(r)'
    <3>1. Channel!NextOf(r) \in Nat /\ Channel!Place(Channel!NextOf(r)) \in 0 .. Capacity - 1
      BY PlaceIsOne DEF ChannelInv, ChannelTypes, Channel!NextOf
    <3>2. CASE Channel!Place(Channel!NextOf(r)) # i
      BY <1>3, <2>1, <3>1, <3>2 DEF TrackedInv, TakenInv, Channel!NextOf
    <3>3. CASE Channel!Place(Channel!NextOf(r)) = i /\ rd[r].step \in {"found", "copied"}
      <4>1. From(r) = reader_cursors[r] /\ From(r) \in Nat /\ Channel!NextOf(r) = From(r) + 1
        BY <3>3 DEF From, ChannelInv, ChannelTypes, Channel!NextOf
      <4>2. /\ From(r) < Number(p) /\ Number(p) <= producer_cursor
            /\ producer_cursor <= From(r) + Capacity
        BY <2>1 DEF TrackedInv, FitsInv, ChannelInv, ClaimsInv, InFlight
      <4> HIDE DEF From
      <4>3. /\ From(r) < Channel!NextOf(r) /\ Channel!NextOf(r) <= From(r) + Capacity
            /\ From(r) < Number(p) /\ Number(p) <= From(r) + Capacity
        <5>1. Number(p) <= From(r) + Capacity
          BY <1>1, <4>1, <4>2, Within, ChannelSize
        <5>2. From(r) < From(r) + 1 /\ From(r) + 1 <= From(r) + Capacity
          BY <4>1, ChannelSize
        <5> QED
          BY <4>1, <4>2, <5>1, <5>2
      <4>4. Channel!NextOf(r) = Number(p)
        BY <1>1, <3>1, <3>3, <4>1, <4>3, PlacesOfWindow DEF i
      <4> QED
        BY <1>3, <2>1, <3>3, <4>4 DEF TrackedInv, TakenInv, Channel!NextOf
    <3> QED
      BY <3>2, <3>3, <2>1 DEF TakenInv, TrackedInv
  <2> QED
    BY <2>2, <2>3, <2>4, <2>5 DEF TrackedInv
<1> QED
  BY <1>4, <1>6, <1>7, <1>8 DEF ChannelInv

(* A step of a reader that moves no cursor.                                 *)
LEMMA ReaderStays ==
  ASSUME ChannelInv, NEW r \in Readers,
         NEW v \in [step : Taking \cup {"off", "joining"}, got : Nat],
         rd' = [rd EXCEPT ![r] = v],
         UNCHANGED <<producer_cursor, reader_cursors, slots, pub>>,
         \/ /\ v.step = "joining" /\ live_readers' = live_readers \cup {r} /\ UNCHANGED alone
         \/ /\ v.step = "off" /\ live_readers' = live_readers \ {r} /\ UNCHANGED alone
         \/ /\ rd[r].step = "joining" /\ v.step = "placed" /\ v.got = producer_cursor
            /\ UNCHANGED live_readers
            /\ alone' = [alone EXCEPT ![r] = \A p \in Producers : pub[p].step = "idle"]
         \/ /\ rd[r].step = "in" /\ v.step = "found" /\ UNCHANGED <<live_readers, alone>>
            /\ slots[Channel!Place(Channel!NextOf(r))].seq = Channel!NextOf(r)
         \/ /\ rd[r].step = "found" /\ v.step = "copied" /\ UNCHANGED <<live_readers, alone>>
            /\ v.got = slots[Channel!Place(Channel!NextOf(r))].data
  PROVE  ChannelInv'
<1>1. /\ rd \in [Readers -> [step : Taking \cup {"off", "joining"}, got : Nat]]
      /\ producer_cursor \in Nat /\ reader_cursors \in [Readers -> Nat]
      /\ alone \in [Readers -> BOOLEAN] /\ live_readers \in SUBSET Readers
      /\ slots \in [0 .. Capacity - 1 -> [seq : Nat, data : Nat]]
      /\ Channel!NextOf(r) \in Nat /\ Channel!NextOf(r) = reader_cursors[r] + 1
      /\ Channel!Place(Channel!NextOf(r)) \in 0 .. Capacity - 1
  <2>1. ChannelTypes
    BY DEF ChannelInv
  <2>2. Channel!NextOf(r) \in Nat /\ Channel!NextOf(r) = reader_cursors[r] + 1
    BY <2>1 DEF ChannelTypes, Channel!NextOf
  <2>3. Channel!Place(Channel!NextOf(r)) \in 0 .. Capacity - 1
    BY <2>2, PlaceIsOne
  <2> QED
    BY <2>1, <2>2, <2>3 DEF ChannelTypes
<1>2. /\ rd' \in [Readers -> [step : Taking \cup {"off", "joining"}, got : Nat]] /\ rd'[r] = v
      /\ \A s \in Readers : s # r => rd'[s] = rd[s]
  BY <1>1
<1>3. /\ live_readers' \in SUBSET Readers /\ alone' \in [Readers -> BOOLEAN]
      /\ \A s \in Readers :
           s # r => alone'[s] = alone[s] /\ (s \in live_readers' <=> s \in live_readers)
  <2>1. live_readers' \in {live_readers, live_readers \cup {r}, live_readers \ {r}}
    OBVIOUS
  <2>2. alone' \in {alone, [alone EXCEPT ![r] = \A p \in Producers : pub[p].step = "idle"]}
    OBVIOUS
  <2>3. alone' \in [Readers -> BOOLEAN] /\ \A s \in Readers : s # r => alone'[s] = alone[s]
    BY <1>1, <2>2
  <2> QED
    BY <1>1, <2>1, <2>3
<1>4. ChannelTypes'
  BY <1>1, <1>2, <1>3 DEF ChannelInv, ChannelTypes
<1>5. ClaimsInv'
  BY DEF ChannelInv, ClaimsInv, InFlight, Number
<1>6. CursorsInv'
  <2>1. v.step # "off" => r \in live_readers'
    BY DEF ChannelInv, CursorsInv
  <2>2. v.step \in {"found", "copied"} => Channel!NextOf(r) <= producer_cursor
    <3>1. slots[Channel!Place(Channel!NextOf(r))].seq <= producer_cursor
      BY <1>1 DEF ChannelInv, ClaimsInv
    <3> QED
      BY <3>1 DEF ChannelInv, CursorsInv
  <2>3. v.step = "placed" => v.got <= producer_cursor
    BY <1>1
  <2>4. ASSUME NEW s \in Readers
        PROVE  /\ rd'[s].step # "off" => s \in live_readers'
               /\ reader_cursors[s] <= producer_cursor
               /\ rd'[s].step \in {"found", "copied"} => Channel!NextOf(s) <= producer_cursor
               /\ rd'[s].step = "placed" => rd'[s].got <= producer_cursor
    <3>1. CASE s = r
      BY <1>2, <2>1, <2>2, <2>3, <3>1 DEF ChannelInv, CursorsInv
    <3>2. CASE s # r
      BY <1>2, <1>3, <3>2 DEF ChannelInv, CursorsInv
    <3> QED
      BY <3>1, <3>2
  <2> QED
    BY <2>4 DEF CursorsInv, Channel!NextOf
<1>7. ASSUME NEW s \in Readers, s # r, Tracked(s)' PROVE TrackedInv(s)'
  <2>1. Tracked(s) /\ TrackedInv(s)
    BY <1>2, <1>3, <1>7 DEF ChannelInv, Tracked
  <2>2. SeenInv(s)'
    BY <2>1 DEF TrackedInv, SeenInv
  <2>3. From(s)' = From(s)
    BY <1>2, <1>7 DEF From
  <2>4. FitsInv(s)'
    BY <2>1, <2>3 DEF TrackedInv, FitsInv, InFlight, Number
  <2>5. KeptInv(s)'
    BY <2>1, <2>3 DEF TrackedInv, KeptInv, Number
  <2>6. TakenInv(s)'
    BY <1>2, <1>7, <2>1 DEF TrackedInv, TakenInv, Channel!NextOf
  <2> QED
    BY <2>2, <2>4, <2>5, <2>6 DEF TrackedInv
<1>8. ASSUME Tracked(r)' PROVE TrackedInv(r)'
  <2>1. CASE v.step = "placed"
    <3>1. \A p \in Producers : pub[p].step = "idle"
      BY <1>1, <1>8, <2>1 DEF Tracked
    <3>2. From(r)' = producer_cursor
      BY <1>2, <2>1 DEF From
    <3>3. reader_cursors[r] <= producer_cursor
      BY DEF ChannelInv, CursorsInv
    <3>4. SeenInv(r)'
      BY <3>1 DEF SeenInv
    <3>5. FitsInv(r)'
      <4>1. /\ reader_cursors[r] <= From(r)' /\ From(r)' <= producer_cursor
            /\ producer_cursor <= From(r)' + Capacity
        BY <1>1, <3>2, <3>3, ChannelSize
      <4>2. \A p \in Producers : ~InFlight(p)'
        BY <3>1 DEF InFlight
      <4> HIDE DEF From
      <4> QED
        BY <4>1, <4>2 DEF FitsInv
    <3>6. KeptInv(r)'
      BY <1>1, <3>1, <3>2 DEF KeptInv
    <3>7. TakenInv(r)'
      BY <1>2, <2>1 DEF TakenInv
    <3> QED
      BY <3>4, <3>5, <3>6, <3>7 DEF TrackedInv
  <2>2. CASE v.step \in {"found", "copied"}
    <3>1. Tracked(r) /\ TrackedInv(r)
      BY <1>8, <2>2 DEF ChannelInv, Tracked, Taking
    <3>2. From(r)' = From(r) /\ From(r) = reader_cursors[r]
      BY <1>2, <2>2 DEF From
    <3>3. SeenInv(r)'
      BY <3>1 DEF TrackedInv, SeenInv
    <3>4. FitsInv(r)'
      BY <3>1, <3>2 DEF TrackedInv, FitsInv, InFlight, Number
    <3>5. KeptInv(r)'
      BY <3>1, <3>2 DEF TrackedInv, KeptInv, Number
    <3>6. slots[Channel!Place(Channel!NextOf(r))].seq = Channel!NextOf(r)
      BY <2>2, <3>1 DEF TrackedInv, TakenInv
    <3>7. v.step = "copied" => v.got = Channel!NextOf(r)
      <4>1. SUFFICES ASSUME v.step = "copied" PROVE v.got = Channel!NextOf(r)
        OBVIOUS
      <4>2. v.got = slots[Channel!Place(Channel!NextOf(r))].data /\ rd[r].step = "found"
        BY <4>1
      <4>3. Channel!NextOf(r) \in From(r) + 1 .. producer_cursor
        BY <1>1, <3>2, <4>2 DEF ChannelInv, CursorsInv
      <4> QED
        BY <3>1, <3>6, <4>2, <4>3 DEF TrackedInv, KeptInv
    <3>8. TakenInv(r)'
      BY <1>2, <3>6, <3>7 DEF TakenInv, Channel!NextOf
    <3> QED
      BY <3>3, <3>4, <3>5, <3>8 DEF TrackedInv
  <2> QED
    BY <1>2, <1>8, <2>1, <2>2 DEF Tracked, Taking
<1> QED
  BY <1>4, <1>5, <1>6, <1>7, <1>8 DEF ChannelInv

(* A reader stores its cursor: the one it took, or the next.                *)
LEMMA ReaderStores ==
  ASSUME ChannelInv, NEW r \in Readers, NEW c \in Nat,
         rd' = [rd EXCEPT ![r] = [step |-> "in", got |-> 0]],
         reader_cursors' = [reader_cursors EXCEPT ![r] = c],
         UNCHANGED <<producer_cursor, live_readers, slots, pub, alone>>,
         \/ rd[r].step = "placed" /\ c = rd[r].got
         \/ rd[r].step = "copied" /\ c = Channel!NextOf(r)
  PROVE  ChannelInv'
<1>1. /\ rd \in [Readers -> [step : Taking \cup {"off", "joining"}, got : Nat]]
      /\ producer_cursor \in Nat /\ reader_cursors \in [Readers -> Nat]
      /\ slots \in [0 .. Capacity - 1 -> [seq : Nat, data : Nat]]
      /\ pub \in [Producers -> [step : Steps, pos : Nat, live : SUBSET Readers, min : Int]]
      /\ Channel!NextOf(r) = reader_cursors[r] + 1
  BY DEF ChannelInv, ChannelTypes, Channel!NextOf
<1>2. /\ rd' \in [Readers -> [step : Taking \cup {"off", "joining"}, got : Nat]]
      /\ rd'[r].step = "in" /\ reader_cursors'[r] = c /\ reader_cursors' \in [Readers -> Nat]
      /\ \A s \in Readers : s # r => rd'[s] = rd[s] /\ reader_cursors'[s] = reader_cursors[s]
  BY <1>1 DEF Taking
<1>3. c <= producer_cursor
  BY DEF ChannelInv, CursorsInv
<1>4. ChannelTypes'
  BY <1>1, <1>2 DEF ChannelInv, ChannelTypes
<1>5. ClaimsInv'
  BY DEF ChannelInv, ClaimsInv, InFlight, Number
<1>6. CursorsInv'
  <2>1. ASSUME NEW s \in Readers
        PROVE  /\ rd'[s].step # "off" => s \in live_readers
               /\ reader_cursors'[s] <= producer_cursor
               /\ rd'[s].step \in {"found", "copied"} => reader_cursors'[s] + 1 <= producer_cursor
               /\ rd'[s].step = "placed" => rd'[s].got <= producer_cursor
    <3>1. CASE s = r
      BY <1>2, <1>3, <3>1 DEF ChannelInv, CursorsInv
    <3>2. CASE s # r
      BY <1>2, <3>2 DEF ChannelInv, CursorsInv, Channel!NextOf
    <3> QED
      BY <3>1, <3>2
  <2> QED
    BY <2>1 DEF CursorsInv, Channel!NextOf
<1>7. ASSUME NEW s \in Readers, s # r, Tracked(s)' PROVE TrackedInv(s)'
  <2>1. Tracked(s) /\ TrackedInv(s)
    BY <1>2, <1>7 DEF ChannelInv, Tracked
  <2>2. SeenInv(s)'
    BY <1>2, <1>7, <2>1 DEF TrackedInv, SeenInv
  <2>3. From(s)' = From(s)
    BY <1>2, <1>7 DEF From
  <2>4. FitsInv(s)'
    BY <1>2, <1>7, <2>1, <2>3 DEF TrackedInv, FitsInv, InFlight, Number
  <2>5. KeptInv(s)'
    BY <2>1, <2>3 DEF TrackedInv, KeptInv, Number
  <2>6. TakenInv(s)'
    BY <1>2, <1>7, <2>1 DEF TrackedInv, TakenInv, Channel!NextOf
  <2> QED
    BY <2>2, <2>4, <2>5, <2>6 DEF TrackedInv
<1>8. ASSUME Tracked(r)' PROVE TrackedInv(r)'
  <2>1. Tracked(r) /\ TrackedInv(r)
    BY <1>8 DEF ChannelInv, Tracked, Taking
  <2>2. From(r)' = c
    BY <1>2 DEF From
  <2>3. reader_cursors[r] \in Nat /\ reader_cursors[r] <= c
    BY <1>1, <2>1 DEF TrackedInv, FitsInv, From
  <2>4. From(r) \in Nat /\ From(r) <= c
    BY <1>1, <2>3 DEF From
  <2>5. SeenInv(r)'
    <3>1. ASSUME NEW p \in Producers, pub[p].step \in {"claim", "claim2"}
          PROVE  pub[p].min # -1 /\ pub[p].min <= c
      <4>1. pub[p].min \in Int /\ pub[p].min # -1 /\ pub[p].min <= reader_cursors[r]
        BY <1>1, <2>1, <3>1 DEF TrackedInv, SeenInv
      <4> QED
        BY <2>3, <4>1
    <3> QED
      BY <1>2, <2>1, <3>1 DEF TrackedInv, SeenInv
  <2>6. FitsInv(r)'
    <3>1. producer_cursor <= c + Capacity
      BY <1>1, <2>1, <2>4, ChannelSize DEF TrackedInv, FitsInv
    <3>2. ASSUME NEW p \in Producers, InFlight(p) PROVE c < Number(p)
      <4>1. From(r) < Number(p) /\ Number(p) \in Nat
        BY <1>1, <2>1, <3>2 DEF TrackedInv, FitsInv, Number
      <4>2. CASE rd[r].step = "placed"
        BY <4>1, <4>2 DEF From
      <4>3. CASE rd[r].step = "copied"
        <5>1. slots[Channel!Place(c)].seq = c /\ From(r) = reader_cursors[r]
          BY <2>1, <4>3 DEF TrackedInv, TakenInv, From
        <5>2. Channel!Place(c) \in 0 .. Capacity - 1
          BY PlaceIsOne
        <5>3. Number(p) # c
          BY <3>2, <5>1, <5>2 DEF ChannelInv, ClaimsInv
        <5> QED
          BY <1>1, <4>1, <4>3, <5>1, <5>3
      <4> QED
        BY <4>2, <4>3
    <3> QED
      BY <1>2, <1>3, <2>2, <3>1, <3>2 DEF FitsInv, InFlight, Number
  <2>7. KeptInv(r)'
    <3>1. \A n \in c + 1 .. producer_cursor : n \in From(r) + 1 .. producer_cursor
      BY <1>1, <2>4
    <3> HIDE DEF From
    <3> QED
      BY <2>1, <2>2, <3>1 DEF TrackedInv, KeptInv, Number
  <2>8. TakenInv(r)'
    BY <1>2 DEF TakenInv
  <2> QED
    BY <2>5, <2>6, <2>7, <2>8 DEF TrackedInv
<1> QED
  BY <1>4, <1>5, <1>6, <1>7, <1>8 DEF ChannelInv

(* A step of a producer's call of publish().                                *)
LEMMA ProducerStep ==
  ASSUME ChannelInv, NEW p \in Producers, Channel!Publish(p) \/ Channel!Producer(p)
  PROVE  ChannelInv'
<1>1. /\ pub \in [Producers -> [step : Steps, pos : Nat, live : SUBSET Readers, min : Int]]
      /\ pub[p] \in [step : Steps, pos : Nat, live : SUBSET Readers, min : Int]
      /\ producer_cursor \in Nat /\ live_readers \in SUBSET Readers
  BY DEF ChannelInv, ChannelTypes
<1>2. \A r \in Readers : Tracked(r) => r \in live_readers /\ SeenInv(r)
  BY DEF ChannelInv, CursorsInv, TrackedInv, Tracked, Taking
<1>3. CASE Channel!Publish(p)
  <2> DEFINE v == [pub[p] EXCEPT !.step = "live", !.pos = producer_cursor]
  <2>1. v \in [step : Steps, pos : Nat, live : SUBSET Readers, min : Int] /\ v.step = "live"
    BY <1>1 DEF Steps
  <2>2. /\ pub' = [pub EXCEPT ![p] = v] /\ ~InFlight(p)
        /\ UNCHANGED <<producer_cursor, live_readers, reader_cursors, slots, rd, alone>>
    BY <1>3 DEF Channel!Publish, Channel!Producing, InFlight
  <2> HIDE DEF v
  <2> QED
    BY <2>1, <2>2, ProducerMoves
<1>4. ASSUME NEW from \in {"live", "claim"}, NEW to \in {"cursors", "cursors2"},
             Channel!ScanLive(p, from, to)
      PROVE  ChannelInv'
  <2> DEFINE v == [pub[p] EXCEPT !.step = to, !.live = live_readers]
  <2>1. /\ v \in [step : Steps, pos : Nat, live : SUBSET Readers, min : Int]
        /\ v.step = to /\ v.live = live_readers
    BY <1>1 DEF Steps
  <2>2. /\ pub' = [pub EXCEPT ![p] = v] /\ ~InFlight(p)
        /\ UNCHANGED <<producer_cursor, live_readers, reader_cursors, slots, rd, alone>>
    BY <1>4 DEF Channel!ScanLive, Channel!Producing, InFlight
  <2> HIDE DEF v
  <2> QED
    BY <1>2, <2>1, <2>2, ProducerMoves
<1>5. ASSUME NEW from \in {"cursors", "cursors2"}, NEW to \in {"claim", "claim2"},
             Channel!ScanCursors(p, from, to)
      PROVE  ChannelInv'
  <2> DEFINE v == [pub[p] EXCEPT !.step = to, !.min = Channel!MinOf(pub[p].live)]
  <2>1. /\ Channel!MinOf(pub[p].live) \in Int
        /\ \A r \in pub[p].live : /\ Channel!MinOf(pub[p].live) # -1
                                  /\ Channel!MinOf(pub[p].live) <= reader_cursors[r]
    BY <1>1, SlowestIsBelow DEF ChannelInv
  <2>2. /\ v \in [step : Steps, pos : Nat, live : SUBSET Readers, min : Int]
        /\ v.step = to /\ v.live = pub[p].live /\ v.min = Channel!MinOf(pub[p].live)
    BY <1>1, <2>1 DEF Steps
  <2>3. /\ pub' = [pub EXCEPT ![p] = v] /\ ~InFlight(p) /\ pub[p].step = from
        /\ UNCHANGED <<producer_cursor, live_readers, reader_cursors, slots, rd, alone>>
    BY <1>5 DEF Channel!ScanCursors, Channel!Producing, InFlight
  <2>4. \A r \in Readers : Tracked(r) => r \in pub[p].live
    BY <1>2, <2>3 DEF SeenInv
  <2>5. \A r \in Readers : Tracked(r) => /\ r \in v.live
                                        /\ v.min # -1 /\ v.min <= reader_cursors[r]
    BY <2>1, <2>2, <2>4
  <2>6. v.step \notin {"write", "number"}
    BY <2>2
  <2> HIDE DEF v
  <2> QED
    BY <2>2, <2>3, <2>5, <2>6, ProducerMoves
<1>6. ASSUME NEW from \in {"claim", "claim2"}, Channel!Swap(p, from), ~Channel!Full(pub[p]),
             UNCHANGED slots
      PROVE  ChannelInv'
  <2>1. CASE producer_cursor = pub[p].pos
    <3>1. /\ pub[p].step \in {"claim", "claim2"} /\ producer_cursor' = producer_cursor + 1
          /\ pub' = [pub EXCEPT ![p] = [pub[p] EXCEPT !.step = "write"]]
          /\ UNCHANGED <<live_readers, reader_cursors, slots, rd, alone>>
      BY <1>6, <2>1 DEF Channel!Swap, Channel!Producing
    <3> QED
      BY <1>6, <2>1, <3>1, ProducerClaims
  <2>2. CASE producer_cursor # pub[p].pos
    <3> DEFINE v == [pub[p] EXCEPT !.step = "claim", !.pos = producer_cursor]
    <3>1. /\ v \in [step : Steps, pos : Nat, live : SUBSET Readers, min : Int]
          /\ v.step = "claim" /\ v.live = pub[p].live /\ v.min = pub[p].min
      BY <1>1 DEF Steps
    <3>2. /\ pub' = [pub EXCEPT ![p] = v] /\ ~InFlight(p) /\ pub[p].step = from
          /\ UNCHANGED <<producer_cursor, live_readers, reader_cursors, slots, rd, alone>>
      BY <1>6, <2>2 DEF Channel!Swap, Channel!Producing, InFlight
    <3>3. \A r \in Readers : Tracked(r) =>
            r \in pub[p].live /\ pub[p].min # -1 /\ pub[p].min <= reader_cursors[r]
      BY <1>2, <3>2 DEF SeenInv
    <3> HIDE DEF v
    <3> QED
      BY <3>1, <3>2, <3>3, ProducerMoves
  <2> QED
    BY <2>1, <2>2
<1>7. CASE Channel!ReturnFull(p)
  <2> DEFINE v == Channel!Idle
  <2>1. v \in [step : Steps, pos : Nat, live : SUBSET Readers, min : Int] /\ v.step = "idle"
    BY DEF Channel!Idle, Channel!NoReaders, Steps
  <2>2. /\ pub' = [pub EXCEPT ![p] = v] /\ ~InFlight(p)
        /\ UNCHANGED <<producer_cursor, live_readers, reader_cursors, slots, rd, alone>>
    BY <1>7 DEF Channel!ReturnFull, Channel!Producing, InFlight
  <2> HIDE DEF v
  <2> QED
    BY <2>1, <2>2, ProducerMoves
<1>8. CASE Channel!WriteData(p)
  BY <1>8, ProducerWritesData DEF Channel!WriteData, Channel!Producing, Number
<1>9. CASE Channel!WriteSeq(p)
  BY <1>9, ProducerWritesNumber DEF Channel!WriteSeq, Channel!Producing, Number
<1> QED
  BY <1>3, <1>4, <1>5, <1>6, <1>7, <1>8, <1>9
     DEF Channel!Producer, Channel!Claim, Channel!ClaimAgain, Channel!LookAgain

(* A step of a reader.                                                      *)
LEMMA ReaderStep ==
  ASSUME ChannelInv, NEW r \in Readers,
         Channel!Subscribe(r) \/ Channel!Unsubscribe(r) \/ Channel!Reader(r)
  PROVE  ChannelInv'
<1> DEFINE At(s) == [step |-> s, got |-> 0]
<1>1. /\ rd \in [Readers -> [step : Taking \cup {"off", "joining"}, got : Nat]]
      /\ producer_cursor \in Nat /\ reader_cursors \in [Readers -> Nat]
      /\ slots \in [0 .. Capacity - 1 -> [seq : Nat, data : Nat]]
      /\ rd[r].got \in Nat /\ Channel!NextOf(r) \in Nat
      /\ slots[Channel!Place(Channel!NextOf(r))].data \in Nat
  <2>1. ChannelTypes
    BY DEF ChannelInv
  <2>2. rd[r].got \in Nat /\ Channel!NextOf(r) \in Nat
    BY <2>1 DEF ChannelTypes, Channel!NextOf
  <2>3. Channel!Place(Channel!NextOf(r)) \in 0 .. Capacity - 1
    BY <2>2, PlaceIsOne
  <2>4. slots[Channel!Place(Channel!NextOf(r))].data \in Nat
    BY <2>1, <2>3 DEF ChannelTypes
  <2> QED
    BY <2>1, <2>2, <2>4 DEF ChannelTypes
<1>2. CASE Channel!Subscribe(r)
  BY <1>2, ReaderStays, At("joining") \in [step : Taking \cup {"off", "joining"}, got : Nat]
     DEF Channel!Subscribe, Channel!Reading
<1>3. CASE Channel!Unsubscribe(r)
  BY <1>3, ReaderStays, At("off") \in [step : Taking \cup {"off", "joining"}, got : Nat]
     DEF Channel!Unsubscribe, Channel!Reading
<1>4. CASE Channel!LoadCursor(r)
  <2> DEFINE v == [step |-> "placed", got |-> producer_cursor]
  <2>1. /\ v \in [step : Taking \cup {"off", "joining"}, got : Nat]
        /\ v.step = "placed" /\ v.got = producer_cursor
    BY <1>1 DEF Taking
  <2>2. /\ rd[r].step = "joining" /\ rd' = [rd EXCEPT ![r] = v]
        /\ UNCHANGED <<producer_cursor, reader_cursors, slots, pub, live_readers>>
        /\ alone' = [alone EXCEPT ![r] = \A p \in Producers : pub[p].step = "idle"]
    BY <1>4 DEF Channel!LoadCursor, Channel!Reading
  <2> HIDE DEF v
  <2> QED
    BY <2>1, <2>2, ReaderStays
<1>5. CASE Channel!StoreCursor(r)
  BY <1>1, <1>5, ReaderStores DEF Channel!StoreCursor, Channel!Reading
<1>6. CASE Channel!Find(r)
  <2>1. /\ At("found") \in [step : Taking \cup {"off", "joining"}, got : Nat]
        /\ At("found").step = "found"
    BY DEF Taking
  <2>2. /\ rd[r].step = "in" /\ rd' = [rd EXCEPT ![r] = At("found")]
        /\ UNCHANGED <<producer_cursor, reader_cursors, slots, pub, live_readers, alone>>
        /\ slots[Channel!Place(Channel!NextOf(r))].seq = Channel!NextOf(r)
    BY <1>6 DEF Channel!Find, Channel!Reading
  <2> HIDE DEF At
  <2> QED
    BY <2>1, <2>2, ReaderStays
<1>7. CASE Channel!Copy(r)
  <2> DEFINE v == [step |-> "copied", got |-> slots[Channel!Place(Channel!NextOf(r))].data]
  <2>1. /\ v \in [step : Taking \cup {"off", "joining"}, got : Nat]
        /\ v.step = "copied" /\ v.got = slots[Channel!Place(Channel!NextOf(r))].data
    BY <1>1 DEF Taking
  <2>2. /\ rd[r].step = "found" /\ rd' = [rd EXCEPT ![r] = v]
        /\ UNCHANGED <<producer_cursor, reader_cursors, slots, pub, live_readers, alone>>
    BY <1>7 DEF Channel!Copy, Channel!Reading
  <2> HIDE DEF v
  <2> QED
    BY <2>1, <2>2, ReaderStays
<1>8. CASE Channel!Advance(r)
  BY <1>1, <1>8, ReaderStores DEF Channel!Advance, Channel!Reading
<1> QED
  BY <1>2, <1>3, <1>4, <1>5, <1>6, <1>7, <1>8 DEF Channel!Reader

LEMMA ChannelStep == ChannelInv /\ (Channel!Next \/ UNCHANGED channelVars) => ChannelInv'
<1>1. ChannelInv /\ Channel!Next => ChannelInv'
  BY ProducerStep, ReaderStep DEF Channel!Next
<1>2. ChannelInv /\ UNCHANGED channelVars => ChannelInv'
  BY DEF channelVars, ChannelInv, ChannelTypes, ClaimsInv, CursorsInv, Tracked, TrackedInv, SeenInv,
         FitsInv, KeptInv, TakenInv, From, InFlight, Number, Channel!NextOf
<1> QED
  BY <1>1, <1>2

-----------------------------------------------------------------------------
(* The life of a graph (GraphRuntime).                                      *)

(* The graph is built, and not yet destroyed.                                *)
Size == graph.size

Built == owner \notin {"build", "end"}

(* The order is that of the graph, and the wires are there for the nodes.     *)
Ordered ==
  /\ graph \in Graphs
  /\ Built => /\ order = Graph!TickOrder(Size, graph.wires)
              /\ rings = "live"
  /\ rings \in {"none", "live", "freed"}
  /\ owner = "build" => rings = "none" /\ \A n \in Graph!All : life[n] = "none"
  /\ rings = "freed" => \A n \in Graph!All : life[n] = "gone"

(* Where the owner is says which nodes it has started, stopped, destroyed.    *)
Running ==
  {"spawn", "ready", "wait", "run", "look", "tick", "pump", "pumplook", "pumptick", "down", "join"}

Owners == Running \cup {"build", "start", "stopping", "idle", "dtor", "dtorjoin", "destroy",
                        "free", "end"}

LifeInv ==
  /\ DOMAIN life = Graph!All
  /\ owner = "start" => \A i \in 1..Size : life[order[i]] = IF i < k THEN "on" ELSE "made"
  /\ owner \in Running =>
       \A n \in Graph!All : life[n] = "on" \/ (n = target /\ life[n] = "off" /\ manager = "start")
  /\ owner = "stopping" => \A i \in 1..Size : life[order[i]] = IF i <= k THEN "on" ELSE "off"
  /\ owner = "idle" => \A n \in Graph!All : life[n] = "off"
  /\ owner \in {"dtor", "dtorjoin"} =>
       \/ \A n \in Graph!All : life[n] = "on"
       \/ \A n \in Graph!All : life[n] = "off"
  /\ owner = "destroy" => \A n \in Graph!All : n < k => life[n] = "gone"
  /\ owner = "free" => \A n \in Graph!All : life[n] = "gone"

(* Where the owner is bounds its place, and the workers.                      *)
PlaceInv ==
  /\ owner = "build" => k = 1
  /\ owner \in {"start", "spawn", "run", "look", "tick", "stopping"} => k \in 1..Size
  /\ owner \in {"pump", "pumplook", "pumptick"} => k \in DOMAIN Graph!Pumped
  /\ owner = "destroy" => k \in Graph!All

WorkersInv ==
  /\ DOMAIN worker = Graph!All
  /\ \A n \in Graph!All :
       worker[n] \in {"loop", "look", "tick"} =>
         \/ owner \in Running
         \/ owner \in {"dtor", "dtorjoin"} /\ \A m \in Graph!All : life[m] = "on"

(* A restart is under way only while the graph is in use.                     *)
ManagerInv ==
  /\ owner \in Owners /\ manager \in {"idle", "stop", "start", "resume"}
  /\ manager # "idle" => Graph!InUse /\ target \in Graph!All

GraphInv == Ordered /\ LifeInv /\ PlaceInv /\ WorkersInv /\ ManagerInv

LEMMA GraphIs ==
  ASSUME graph \in Graphs
  PROVE  /\ Size \in Nat \ {0} /\ Graph!All = 0..(Size - 1) /\ None \notin Graph!All
         /\ \A i \in DOMAIN graph.wires : graph.wires[i].src \in Graph!All /\ graph.wires[i].dst \in Graph!All
         /\ Graph!Enumerates(Graph!TickOrder(Size, graph.wires), graph)
         /\ Graph!Acyclic(Size, graph.wires)
              => Graph!FollowsWires(Graph!TickOrder(Size, graph.wires), graph)
         /\ Graph!Pumped \in Seq(Graph!All)
         /\ Graph!Pumped = <<>> => Graph!external = {}
BY FrameworkAssumption
   DEF Graph!GraphAssumption, Graph!Pumped, Graph!external, Graph!All, Graph!Nodes, Size

LEMMA OrderIs ==
  ASSUME Ordered, Built
  PROVE  /\ Len(order) = Size /\ Size \in Nat \ {0}
         /\ \A i \in 1..Size : order[i] \in Graph!All
         /\ \A n \in Graph!All : \E i \in 1..Size : order[i] = n
         /\ \A i, j \in 1..Size : order[i] = order[j] => i = j
BY GraphIs DEF Ordered, Graph!Enumerates, Graph!All, Size

LEMMA GraphBegins == Graph!Init => GraphInv
BY DEF Graph!Init, GraphInv, Ordered, LifeInv, PlaceInv, WorkersInv, ManagerInv, Built, Running, Owners

LEMMA GraphIsSafe == GraphInv => Graph!TicksTouchLiveNodes /\ Graph!UpstreamOutlives
<1> SUFFICES ASSUME GraphInv PROVE Graph!TicksTouchLiveNodes /\ Graph!UpstreamOutlives
  OBVIOUS
<1> USE DEF GraphInv
<1>1. \A n \in Graph!All :
        worker[n] = "tick" => Built /\ (life[n] = "on" \/ (n = target /\ life[n] = "off"))
  BY DEF WorkersInv, LifeInv, Running, Built
<1>2. owner = "tick" => Built /\ order[k] \in Graph!All
                        /\ (life[order[k]] = "on" \/ (order[k] = target /\ life[order[k]] = "off"))
  BY OrderIs DEF PlaceInv, LifeInv, Running, Built
<1>3. owner = "pumptick" =>
        LET n == Graph!Pumped[k]
        IN  Built /\ n \in Graph!All /\ (life[n] = "on" \/ (n = target /\ life[n] = "off"))
  <2> SUFFICES ASSUME owner = "pumptick" PROVE LET n == Graph!Pumped[k]
        IN  Built /\ n \in Graph!All /\ (life[n] = "on" \/ (n = target /\ life[n] = "off"))
    OBVIOUS
  <2>1. Graph!Pumped[k] \in Graph!All
    BY GraphIs DEF PlaceInv, Ordered
  <2> QED
    BY <2>1 DEF LifeInv, Running, Built
<1>4. Graph!TicksTouchLiveNodes
  BY <1>1, <1>2, <1>3 DEF Graph!TicksTouchLiveNodes, Graph!Ticking, Ordered
<1>5. ASSUME Graph!Acyclic(Size, graph.wires), owner \notin {"destroy", "free", "end"},
             NEW i \in DOMAIN graph.wires, life[graph.wires[i].dst] = "on"
      PROVE  life[graph.wires[i].src] = "on" \/ graph.wires[i].src = target
  <2> DEFINE s == graph.wires[i].src
             d == graph.wires[i].dst
  <2>1. s \in Graph!All /\ d \in Graph!All
    BY GraphIs DEF Ordered
  <2>2. CASE owner = "build"
    BY <2>1, <2>2, <1>5 DEF Ordered
  <2>3. CASE owner \in {"start", "stopping"}
    <3>1. Graph!FollowsWires(order, graph)
      BY <1>5, <2>3, GraphIs DEF Ordered, Built
    <3>2. PICK a \in 1..Size : order[a] = s
      BY <2>1, <2>3, OrderIs DEF Built
    <3>3. PICK b \in 1..Size : order[b] = d
      BY <2>1, <2>3, OrderIs DEF Built
    <3>4. a < b
      BY <3>1, <3>2, <3>3 DEF Graph!FollowsWires, Size
    <3>5. k \in 1..Size /\ Size \in Nat
      BY <2>3, OrderIs DEF PlaceInv, Built
    <3> QED
      BY <1>5, <2>3, <3>2, <3>3, <3>4, <3>5 DEF LifeInv
  <2>4. CASE owner \in Running \cup {"idle", "dtor", "dtorjoin"}
    BY <1>5, <2>1, <2>4 DEF LifeInv
  <2>5. owner \in {"build", "start", "stopping", "idle", "dtor", "dtorjoin"} \cup Running
    BY <1>5 DEF ManagerInv, Owners
  <2> QED
    BY <2>2, <2>3, <2>4, <2>5
<1>6. Graph!UpstreamOutlives
  BY <1>5 DEF Graph!UpstreamOutlives, Size
<1> QED
  BY <1>4, <1>6

(* The owner goes from one place in a graph that runs to another.            *)
LEMMA OwnerMoves ==
  ASSUME GraphInv, owner \in Running, owner' \in Running, PlaceInv',
         UNCHANGED <<graph, order, rings, life, worker, manager, target>>,
         Graph!InUse' \/ manager = "idle"
  PROVE  GraphInv'
<1>1. Ordered' /\ WorkersInv'
  BY DEF GraphInv, Ordered, WorkersInv, Built, Running, Size, Graph!All
<1>2. LifeInv'
  BY DEF GraphInv, LifeInv, Running, Size, Graph!All
<1>3. ManagerInv'
  BY DEF GraphInv, ManagerInv, Owners, Graph!InUse, Graph!All
<1> QED
  BY <1>1, <1>2, <1>3 DEF GraphInv

(* The owner's place in what it walks over.                                  *)
LEMMA NextPlaces ==
  ASSUME GraphInv
  PROVE  /\ owner \in Running /\ k \in 1..Size /\ k < Len(order) => k + 1 \in 1..Size
         /\ Built => 1 \in 1..Size
         /\ k \in DOMAIN Graph!Pumped /\ k < Len(Graph!Pumped) => k + 1 \in DOMAIN Graph!Pumped
         /\ Graph!external # {} => 1 \in DOMAIN Graph!Pumped
<1>1. Graph!Pumped \in Seq(Graph!All) /\ (Graph!external # {} => Graph!Pumped # <<>>)
  BY GraphIs DEF GraphInv, Ordered
<1>2. Built => Len(order) = Size /\ Size \in Nat \ {0}
  BY OrderIs DEF GraphInv
<1>3. owner \in Running => Built
  BY DEF Running, Built
<1> QED
  BY <1>1, <1>2, <1>3

LEMMA GraphStep == ASSUME GraphInv, Graph!Next PROVE GraphInv'
<1>1. CASE Graph!Build
  <2>1. owner = "build" /\ UNCHANGED <<graph, worker, manager, target, k>>
    BY <1>1 DEF Graph!Build
  <2>2. CASE Graph!Refused
    <3>1. owner' = "end" /\ UNCHANGED <<order, life, rings>>
      BY <1>1, <2>2 DEF Graph!Build
    <3> QED
      BY <2>1, <3>1 DEF GraphInv, Ordered, LifeInv, PlaceInv, WorkersInv, ManagerInv, Built, Running,
                        Owners, Size, Graph!InUse, Graph!All
  <2>3. CASE ~Graph!Refused
    <3>1. /\ owner' = "start" /\ order' = Graph!TickOrder(Size, graph.wires)
          /\ life' = [n \in Graph!All |-> "made"] /\ rings' = "live"
      BY <1>1, <2>3 DEF Graph!Build, Size
    <3>2. k = 1 /\ Size \in Nat \ {0} /\ Size' = Size /\ Graph!All' = Graph!All
      BY <2>1, GraphIs DEF GraphInv, Ordered, PlaceInv, Size, Graph!All
    <3>3. \A i \in 1..Size : order'[i] \in Graph!All
      BY <3>1, GraphIs DEF GraphInv, Ordered, Graph!Enumerates, Graph!All, Size
    <3>4. Ordered'
      BY <2>1, <3>1, <3>2 DEF GraphInv, Ordered, Built, Size
    <3>5. LifeInv'
      BY <2>1, <3>1, <3>2, <3>3 DEF LifeInv, Running
    <3>6. PlaceInv' /\ WorkersInv' /\ ManagerInv'
      BY <2>1, <3>1, <3>2 DEF GraphInv, PlaceInv, WorkersInv, ManagerInv, Running, Owners, Graph!InUse
    <3> QED
      BY <3>4, <3>5, <3>6 DEF GraphInv
  <2> QED
    BY <2>2, <2>3
<1>2. CASE Graph!CreateFails
  <2>1. /\ owner = "build" /\ owner' = "end" /\ UNCHANGED <<graph, order, rings, worker, manager, target>>
        /\ DOMAIN life' = Graph!All
    BY <1>2 DEF Graph!CreateFails
  <2> QED
    BY <2>1 DEF GraphInv, Ordered, LifeInv, PlaceInv, WorkersInv, ManagerInv, Built, Running, Owners, Size,
                Graph!InUse, Graph!All
<1>3. CASE Graph!StartNode
  <2>1. /\ owner = "start" /\ UNCHANGED <<graph, order, rings, worker, manager, target>>
        /\ life' = [life EXCEPT ![order[k]] = "on"]
        /\ IF k < Len(order) THEN k' = k + 1 /\ owner' = owner
           ELSE k' = 1 /\ owner' \in {"spawn", "ready"}
    BY <1>3 DEF Graph!StartNode
  <2>2. k \in 1..Size /\ Len(order) = Size /\ Size \in Nat \ {0} /\ Size' = Size /\ Graph!All' = Graph!All
    BY <2>1, OrderIs DEF GraphInv, PlaceInv, Built, Size, Graph!All
  <2>3. \A i \in 1..Size : life'[order[i]] = IF i <= k THEN "on" ELSE "made"
    <3>1. \A i \in 1..Size : i <= k <=> i < k \/ i = k
      BY <2>2
    <3> QED
      BY <2>1, <2>2, <3>1, OrderIs DEF GraphInv, LifeInv, Built
  <2>4. Ordered' /\ WorkersInv' /\ ManagerInv'
    BY <2>1, <2>2 DEF GraphInv, Ordered, WorkersInv, ManagerInv, Built, Running, Owners, Graph!InUse, Size
  <2>5. CASE k < Size
    <3>1. LifeInv'
      <4>1. \A i \in 1..Size : i < k + 1 <=> i <= k
        BY <2>2
      <4> QED
        BY <2>1, <2>2, <2>3, <2>5, <4>1 DEF GraphInv, LifeInv, Running
    <3>2. PlaceInv'
      BY <2>1, <2>2, <2>5 DEF PlaceInv
    <3> QED
      BY <2>4, <3>1, <3>2 DEF GraphInv
  <2>6. CASE k = Size
    <3>1. \A n \in Graph!All : life'[n] = "on"
      BY <2>1, <2>2, <2>3, <2>6, OrderIs DEF GraphInv, Built
    <3>2. LifeInv' /\ PlaceInv'
      BY <2>1, <2>2, <2>6, <3>1 DEF GraphInv, LifeInv, PlaceInv, Running
    <3> QED
      BY <2>4, <3>2 DEF GraphInv
  <2> QED
    BY <2>2, <2>5, <2>6
<1>4. CASE Graph!Spawn
  <2>1. /\ owner = "spawn" /\ UNCHANGED <<graph, order, rings, life, manager, target>>
        /\ DOMAIN worker' = DOMAIN worker
        /\ IF k < Len(order) THEN k' = k + 1 /\ owner' = "spawn" ELSE k' = 1 /\ owner' = "ready"
    BY <1>4 DEF Graph!Spawn
  <2>2. PlaceInv'
    BY <2>1, NextPlaces DEF GraphInv, PlaceInv, Built, Running, Size
  <2>3. Ordered' /\ LifeInv' /\ WorkersInv'
    BY <2>1 DEF GraphInv, Ordered, LifeInv, WorkersInv, Built, Running, Size, Graph!All
  <2>4. ManagerInv'
    BY <2>1 DEF GraphInv, ManagerInv, Owners, Running, Graph!InUse, Graph!All
  <2> QED
    BY <2>2, <2>3, <2>4 DEF GraphInv
<1>5. CASE Graph!Call
  <2>1. k' = 1 /\ UNCHANGED <<graph, order, rings, life, worker, manager, target>>
    BY <1>5 DEF Graph!Call, Graph!ownerOnly
  <2>2. CASE owner = "ready" /\ owner' \in {"wait", "run"}
    <3>1. PlaceInv'
      BY <2>1, <2>2, NextPlaces DEF PlaceInv, Built, Size
    <3> QED
      BY <2>1, <2>2, <3>1, OwnerMoves DEF Running, Graph!InUse
  <2>3. CASE owner = "ready" /\ Graph!external # {} /\ owner' = "pump"
    <3>1. Graph!Pumped' = Graph!Pumped
      BY <2>1 DEF Graph!Pumped
    <3>2. PlaceInv'
      BY <2>1, <2>3, <3>1, NextPlaces DEF PlaceInv
    <3> QED
      BY <2>1, <2>3, <3>2, OwnerMoves DEF Running, Graph!InUse
  <2>4. CASE owner = "ready" /\ manager = "idle" /\ owner' = "down"
    <3>1. PlaceInv'
      BY <2>4 DEF PlaceInv
    <3> QED
      BY <2>1, <2>4, <3>1, OwnerMoves DEF Running
  <2>5. CASE owner \in {"ready", "idle"} /\ manager = "idle" /\ owner' = "dtor"
    <3>1. LifeInv' /\ WorkersInv'
      BY <2>1, <2>5 DEF GraphInv, LifeInv, WorkersInv, Running, Size, Graph!All
    <3> QED
      BY <2>1, <2>5, <3>1 DEF GraphInv, Ordered, PlaceInv, ManagerInv, Built, Owners, Size, Graph!All
  <2> QED
    BY <1>5, <2>2, <2>3, <2>4, <2>5 DEF Graph!Call, Graph!Joined
<1>6. CASE Graph!Wait
  <2>1. owner = "wait" /\ owner' = "ready" /\ UNCHANGED <<graph, order, rings, life, worker, manager, target>>
    BY <1>6 DEF Graph!Wait, Graph!ownerOnly
  <2>2. PlaceInv'
    BY <2>1 DEF PlaceInv
  <2> QED
    BY <2>1, <2>2, OwnerMoves DEF Running, Graph!InUse
<1>7. CASE Graph!Round
  <2>1. /\ owner = "run" /\ owner' \in {"ready", "look"} /\ k' = 1
        /\ UNCHANGED <<graph, order, rings, life, worker, manager, target>>
    BY <1>7 DEF Graph!Round, Graph!ownerOnly
  <2>2. PlaceInv'
    BY <2>1, NextPlaces DEF PlaceInv, Built, Size
  <2> QED
    BY <2>1, <2>2, OwnerMoves DEF Running, Graph!InUse
<1>8. CASE Graph!Look
  <2>1. owner = "look" /\ UNCHANGED <<graph, order, rings, life, worker, manager, target>>
    BY <1>8 DEF Graph!Look, Graph!ownerOnly
  <2>2. \/ owner' = "look" /\ k < Len(order) /\ k' = k + 1
        \/ owner' = "run" /\ k' = 1
        \/ owner' = "tick" /\ k' = k
    BY <1>8 DEF Graph!Look, Graph!NextNode
  <2>3. PlaceInv'
    BY <2>1, <2>2, NextPlaces DEF GraphInv, PlaceInv, Running, Built, Size
  <2> QED
    BY <2>1, <2>2, <2>3, OwnerMoves DEF Running, Graph!InUse
<1>9. CASE Graph!TickEnds
  <2>1. owner = "tick" /\ UNCHANGED <<graph, order, rings, life, worker, manager, target>>
    BY <1>9 DEF Graph!TickEnds, Graph!ownerOnly
  <2>2. \/ owner' = "look" /\ k < Len(order) /\ k' = k + 1
        \/ owner' = "run" /\ k' = 1
        \/ owner' = "ready"
    BY <1>9 DEF Graph!TickEnds, Graph!NextNode
  <2>3. PlaceInv'
    BY <2>1, <2>2, NextPlaces DEF GraphInv, PlaceInv, Running, Built, Size
  <2> QED
    BY <2>1, <2>2, <2>3, OwnerMoves DEF Running, Graph!InUse
<1>10. CASE Graph!Pump
  <2>1. /\ owner = "pump" /\ Graph!Pumped' = Graph!Pumped
        /\ UNCHANGED <<graph, order, rings, life, worker, manager, target>>
    BY <1>10 DEF Graph!Pump, Graph!ownerOnly, Graph!Pumped
  <2>2. \/ owner' = "ready"
        \/ owner' = "pumplook" /\ k' = k
    BY <1>10 DEF Graph!Pump, Graph!NextPump
  <2>3. PlaceInv'
    BY <2>1, <2>2, NextPlaces DEF GraphInv, PlaceInv
  <2> QED
    BY <2>1, <2>2, <2>3, OwnerMoves DEF Running, Graph!InUse
<1>11. CASE Graph!PumpLook
  <2>1. /\ owner = "pumplook" /\ Graph!Pumped' = Graph!Pumped
        /\ UNCHANGED <<graph, order, rings, life, worker, manager, target>>
    BY <1>11 DEF Graph!PumpLook, Graph!ownerOnly, Graph!Pumped
  <2>2. \/ owner' = "ready"
        \/ owner' = "pumptick" /\ k' = k
        \/ owner' = "pump" /\ k < Len(Graph!Pumped) /\ k' = k + 1
    BY <1>11 DEF Graph!PumpLook, Graph!NextPump
  <2>3. PlaceInv'
    BY <2>1, <2>2, NextPlaces DEF GraphInv, PlaceInv
  <2> QED
    BY <2>1, <2>2, <2>3, OwnerMoves DEF Running, Graph!InUse
<1>12. CASE Graph!PumpEnds
  <2>1. /\ owner = "pumptick" /\ Graph!Pumped' = Graph!Pumped
        /\ UNCHANGED <<graph, order, rings, life, worker, manager, target>>
    BY <1>12 DEF Graph!PumpEnds, Graph!ownerOnly, Graph!Pumped
  <2>2. \/ owner' = "ready"
        \/ owner' = "pump" /\ k < Len(Graph!Pumped) /\ k' = k + 1
    BY <1>12 DEF Graph!PumpEnds, Graph!NextPump
  <2>3. PlaceInv'
    BY <2>1, <2>2, NextPlaces DEF GraphInv, PlaceInv
  <2> QED
    BY <2>1, <2>2, <2>3, OwnerMoves DEF Running, Graph!InUse
<1>13. CASE Graph!Shutdown
  <2>1. owner = "down" /\ owner' = "join" /\ UNCHANGED <<graph, order, rings, life, worker, manager, target>>
    BY <1>13 DEF Graph!Shutdown, Graph!ownerOnly
  <2>2. PlaceInv' /\ manager = "idle"
    BY <2>1 DEF GraphInv, PlaceInv, ManagerInv, Graph!InUse
  <2> QED
    BY <2>1, <2>2, OwnerMoves DEF Running
<1>14. CASE Graph!Join
  <2>1. /\ owner = "join" /\ owner' = "stopping" /\ k' = Len(order)
        /\ worker' = [n \in Graph!All |-> "none"]
        /\ UNCHANGED <<graph, order, rings, life, manager, target>>
    BY <1>14 DEF Graph!Join
  <2>2. /\ Len(order) = Size /\ Size \in Nat \ {0}
        /\ \A i \in 1..Size : order[i] \in Graph!All
    BY <2>1, OrderIs DEF GraphInv, Built
  <2>3. manager = "idle" /\ \A n \in Graph!All : life[n] = "on"
    BY <2>1 DEF GraphInv, LifeInv, ManagerInv, Graph!InUse, Running
  <2>4. Size' = Size /\ Graph!All' = Graph!All
    BY <2>1 DEF Size, Graph!All
  <2>5. LifeInv' /\ PlaceInv'
    BY <2>1, <2>2, <2>3, <2>4 DEF GraphInv, LifeInv, PlaceInv, Running
  <2>6. Ordered' /\ WorkersInv' /\ ManagerInv'
    BY <2>1, <2>3, <2>4 DEF GraphInv, Ordered, WorkersInv, ManagerInv, Built, Owners, Size
  <2> QED
    BY <2>5, <2>6 DEF GraphInv
<1>15. CASE Graph!StopNode
  <2>1. /\ owner = "stopping" /\ UNCHANGED <<graph, order, rings, worker, manager, target>>
        /\ life' = [life EXCEPT ![order[k]] = "off"]
        /\ IF k > 1 THEN k' = k - 1 /\ owner' = owner ELSE k' = 1 /\ owner' = "idle"
    BY <1>15 DEF Graph!StopNode
  <2>2. k \in 1..Size /\ Len(order) = Size /\ Size \in Nat \ {0} /\ Size' = Size /\ Graph!All' = Graph!All
    BY <2>1, OrderIs DEF GraphInv, PlaceInv, Built, Size, Graph!All
  <2>3. \A i \in 1..Size : life'[order[i]] = IF i < k THEN "on" ELSE "off"
    <3>1. \A i \in 1..Size : i < k <=> i <= k /\ i # k
      BY <2>2
    <3>2. \A i \in 1..Size : life[order[i]] = IF i <= k THEN "on" ELSE "off"
      BY <2>1 DEF GraphInv, LifeInv
    <3>3. \A i \in 1..Size : life'[order[i]] = IF i = k THEN "off" ELSE life[order[i]]
      BY <2>1, <2>2, OrderIs DEF GraphInv, LifeInv, Built
    <3> QED
      BY <3>1, <3>2, <3>3
  <2>4. Ordered' /\ WorkersInv' /\ ManagerInv'
    BY <2>1, <2>2 DEF GraphInv, Ordered, WorkersInv, ManagerInv, Built, Running, Owners, Graph!InUse, Size
  <2>5. CASE k > 1
    <3>1. LifeInv'
      <4>1. \A i \in 1..Size : i <= k - 1 <=> i < k
        BY <2>2
      <4> QED
        BY <2>1, <2>2, <2>3, <2>5, <4>1 DEF GraphInv, LifeInv, Running
    <3>2. PlaceInv'
      BY <2>1, <2>2, <2>5 DEF PlaceInv
    <3> QED
      BY <2>4, <3>1, <3>2 DEF GraphInv
  <2>6. CASE k = 1
    <3>1. \A n \in Graph!All : life'[n] = "off"
      BY <2>1, <2>2, <2>3, <2>6, OrderIs DEF GraphInv, Built
    <3>2. LifeInv' /\ PlaceInv'
      BY <2>1, <2>2, <2>6, <3>1 DEF GraphInv, LifeInv, PlaceInv, Running
    <3> QED
      BY <2>4, <3>2 DEF GraphInv
  <2> QED
    BY <2>2, <2>5, <2>6
<1>16. CASE Graph!Destructor
  <2>1. /\ owner = "dtor" /\ owner' = "dtorjoin"
        /\ UNCHANGED <<graph, order, rings, life, worker, manager, target>>
    BY <1>16 DEF Graph!Destructor, Graph!ownerOnly
  <2> QED
    BY <2>1 DEF GraphInv, Ordered, LifeInv, PlaceInv, WorkersInv, ManagerInv, Built, Running, Owners, Size,
                Graph!InUse, Graph!All
<1>17. CASE Graph!DestructorJoin
  <2>1. /\ owner = "dtorjoin" /\ owner' = "destroy" /\ k' = 0
        /\ UNCHANGED <<graph, order, rings, life, worker, manager, target>>
        /\ \A n \in Graph!All : worker[n] \in {"none", "done"}
    BY <1>17 DEF Graph!DestructorJoin, Graph!ownerOnly, Graph!AllDone
  <2>2. 0 \in Graph!All /\ Graph!All' = Graph!All /\ \A n \in Graph!All : ~(n < 0)
    BY <2>1, GraphIs DEF GraphInv, Ordered, Graph!All
  <2> QED
    BY <2>1, <2>2 DEF GraphInv, Ordered, LifeInv, PlaceInv, WorkersInv, ManagerInv, Built, Running, Owners,
                      Size, Graph!InUse
<1>18. CASE Graph!DestroyNode
  <2>1. /\ owner = "destroy" /\ life' = [life EXCEPT ![k] = "gone"]
        /\ IF k < Size - 1 THEN k' = k + 1 /\ owner' = owner ELSE k' = 1 /\ owner' = "free"
        /\ UNCHANGED <<graph, order, rings, worker, manager, target>>
    BY <1>18 DEF Graph!DestroyNode, Size
  <2>2. /\ Size \in Nat \ {0} /\ Graph!All = 0..(Size - 1) /\ k \in 0..(Size - 1)
        /\ Graph!All' = Graph!All /\ Size' = Size
    BY <2>1, GraphIs DEF GraphInv, Ordered, PlaceInv, Graph!All, Size
  <2>3. /\ k < Size - 1 => k + 1 \in Graph!All /\ \A n \in Graph!All : n < k + 1 => n < k \/ n = k
        /\ ~(k < Size - 1) => \A n \in Graph!All : n < k \/ n = k
    BY <2>2
  <2>4. Ordered' /\ PlaceInv' /\ WorkersInv' /\ ManagerInv'
    BY <2>1, <2>2, <2>3 DEF GraphInv, Ordered, PlaceInv, WorkersInv, ManagerInv, Built, Running, Owners,
                            Graph!InUse, Size
  <2>5. LifeInv'
    BY <2>1, <2>2, <2>3 DEF GraphInv, LifeInv, Running
  <2> QED
    BY <2>4, <2>5 DEF GraphInv
<1>19. CASE Graph!FreeWires
  <2>1. /\ owner = "free" /\ owner' = "end" /\ rings' = "freed"
        /\ UNCHANGED <<graph, order, life, worker, manager, target>>
    BY <1>19 DEF Graph!FreeWires
  <2> QED
    BY <2>1 DEF GraphInv, Ordered, LifeInv, PlaceInv, WorkersInv, ManagerInv, Built, Running, Owners, Size,
                Graph!InUse, Graph!All
<1>20. CASE Graph!StopCall
  <2>1. UNCHANGED <<graph, order, rings, life, owner, k, worker, manager, target>>
    BY <1>20 DEF Graph!StopCall
  <2> QED
    BY <2>1 DEF GraphInv, Ordered, LifeInv, PlaceInv, WorkersInv, ManagerInv, Built, Size,
                Graph!Pumped, Graph!InUse, Graph!All
<1>21. CASE Graph!RestartStops
  <2>1. /\ manager = "stop" /\ manager' = "start" /\ life' = [life EXCEPT ![target] = "off"]
        /\ UNCHANGED <<graph, order, rings, owner, k, worker, target>>
    BY <1>21 DEF Graph!RestartStops, Graph!managerOnly
  <2>2. Graph!InUse /\ target \in Graph!All /\ owner \in Running /\ Built
    BY <2>1 DEF GraphInv, ManagerInv, Graph!InUse, Running, Built
  <2>3. Size' = Size /\ Graph!All' = Graph!All /\ Graph!Pumped' = Graph!Pumped
    BY <2>1 DEF Size, Graph!All, Graph!Pumped
  <2>4. Ordered' /\ PlaceInv' /\ ManagerInv'
    BY <2>1, <2>2, <2>3
    DEF GraphInv, Ordered, PlaceInv, ManagerInv, Graph!InUse, Built, Running, Owners, Size
  <2>5. LifeInv' /\ WorkersInv'
    BY <2>1, <2>2, <2>3 DEF GraphInv, LifeInv, WorkersInv, Graph!InUse, Running
  <2> QED
    BY <2>4, <2>5 DEF GraphInv
<1>22. CASE Graph!RestartStarts
  <2>1. /\ manager = "start" /\ manager' = "resume" /\ life' = [life EXCEPT ![target] = "on"]
        /\ UNCHANGED <<graph, order, rings, owner, k, worker, target>>
    BY <1>22 DEF Graph!RestartStarts, Graph!managerOnly
  <2>2. Graph!InUse /\ target \in Graph!All /\ owner \in Running /\ Built
    BY <2>1 DEF GraphInv, ManagerInv, Graph!InUse, Running, Built
  <2>3. Size' = Size /\ Graph!All' = Graph!All /\ Graph!Pumped' = Graph!Pumped
    BY <2>1 DEF Size, Graph!All, Graph!Pumped
  <2>4. Ordered' /\ PlaceInv' /\ ManagerInv'
    BY <2>1, <2>2, <2>3
    DEF GraphInv, Ordered, PlaceInv, ManagerInv, Graph!InUse, Built, Running, Owners, Size
  <2>5. LifeInv' /\ WorkersInv'
    BY <2>1, <2>2, <2>3 DEF GraphInv, LifeInv, WorkersInv, Graph!InUse, Running
  <2> QED
    BY <2>4, <2>5 DEF GraphInv
<1>23. CASE Graph!RestartResumes
  <2>1. /\ manager = "resume" /\ manager' = "idle"
        /\ UNCHANGED <<graph, order, rings, life, owner, k, worker>>
    BY <1>23 DEF Graph!RestartResumes, Graph!managerOnly
  <2> QED
    BY <2>1 DEF GraphInv, Ordered, LifeInv, PlaceInv, WorkersInv, ManagerInv, Built, Size,
                Graph!Pumped, Graph!InUse, Graph!All
<1>24. ASSUME NEW n \in Graph!All, Graph!WorkerLoop(n) PROVE GraphInv'
  <2>1. /\ worker[n] \in {"loop", "look", "tick"} /\ DOMAIN worker' = DOMAIN worker
        /\ \A m \in DOMAIN worker : m # n => worker'[m] = worker[m]
        /\ UNCHANGED <<graph, order, rings, life, owner, k, manager, target>>
    BY <1>24 DEF Graph!WorkerLoop, Graph!workerOnly
  <2>2. WorkersInv'
    BY <2>1 DEF GraphInv, WorkersInv, Graph!All
  <2> QED
    BY <2>1, <2>2 DEF GraphInv, Ordered, LifeInv, PlaceInv, ManagerInv, Built, Size, Graph!Pumped,
                      Graph!InUse, Graph!All
<1>25. ASSUME NEW n \in Graph!All, Graph!WorkerLook(n) PROVE GraphInv'
  <2>1. /\ worker[n] \in {"loop", "look", "tick"} /\ DOMAIN worker' = DOMAIN worker
        /\ \A m \in DOMAIN worker : m # n => worker'[m] = worker[m]
        /\ UNCHANGED <<graph, order, rings, life, owner, k, manager, target>>
    BY <1>25 DEF Graph!WorkerLook, Graph!workerOnly
  <2>2. WorkersInv'
    BY <2>1 DEF GraphInv, WorkersInv, Graph!All
  <2> QED
    BY <2>1, <2>2 DEF GraphInv, Ordered, LifeInv, PlaceInv, ManagerInv, Built, Size, Graph!Pumped,
                      Graph!InUse, Graph!All
<1>26. ASSUME NEW n \in Graph!All, Graph!WorkerTicked(n) PROVE GraphInv'
  <2>1. /\ worker[n] \in {"loop", "look", "tick"} /\ DOMAIN worker' = DOMAIN worker
        /\ \A m \in DOMAIN worker : m # n => worker'[m] = worker[m]
        /\ UNCHANGED <<graph, order, rings, life, owner, k, manager, target>>
    BY <1>26 DEF Graph!WorkerTicked, Graph!workerOnly
  <2>2. WorkersInv'
    BY <2>1 DEF GraphInv, WorkersInv, Graph!All
  <2> QED
    BY <2>1, <2>2 DEF GraphInv, Ordered, LifeInv, PlaceInv, ManagerInv, Built, Size, Graph!Pumped,
                      Graph!InUse, Graph!All
<1>27. ASSUME NEW n \in Graph!All, Graph!PauseNode(n) PROVE GraphInv'
  <2>1. UNCHANGED <<graph, order, rings, life, owner, k, worker, manager, target>>
    BY <1>27 DEF Graph!PauseNode, Graph!managerOnly
  <2> QED
    BY <2>1 DEF GraphInv, Ordered, LifeInv, PlaceInv, WorkersInv, ManagerInv, Built, Size,
                Graph!Pumped, Graph!InUse, Graph!All
<1>28. ASSUME NEW n \in Graph!All, Graph!ResumeNode(n) PROVE GraphInv'
  <2>1. UNCHANGED <<graph, order, rings, life, owner, k, worker, manager, target>>
    BY <1>28 DEF Graph!ResumeNode, Graph!managerOnly
  <2> QED
    BY <2>1 DEF GraphInv, Ordered, LifeInv, PlaceInv, WorkersInv, ManagerInv, Built, Size,
                Graph!Pumped, Graph!InUse, Graph!All
<1>29. ASSUME NEW n \in Graph!All, Graph!RestartNode(n) PROVE GraphInv'
  <2>1. /\ manager = "idle" /\ Graph!InUse /\ manager' = "stop" /\ target' = n
        /\ UNCHANGED <<graph, order, rings, life, owner, k, worker>>
    BY <1>29 DEF Graph!RestartNode, Graph!managerOnly
  <2>2. Ordered' /\ LifeInv' /\ PlaceInv' /\ WorkersInv'
    BY <2>1 DEF GraphInv, Ordered, LifeInv, PlaceInv, WorkersInv, Built, Size, Graph!Pumped, Graph!All
  <2>3. ManagerInv'
    BY <2>1 DEF GraphInv, ManagerInv, Graph!InUse, Graph!All
  <2> QED
    BY <2>2, <2>3 DEF GraphInv
<1> QED
  BY <1>1, <1>2, <1>3, <1>4, <1>5, <1>6, <1>7, <1>8, <1>9, <1>10, <1>11, <1>12, <1>13,
     <1>14, <1>15, <1>16, <1>17, <1>18, <1>19, <1>20, <1>21, <1>22, <1>23, <1>24, <1>25,
     <1>26, <1>27, <1>28, <1>29
  DEF Graph!Next, Graph!Owner, Graph!Worker, Graph!Restart

-----------------------------------------------------------------------------
(* Theorems.                                                                *)

(* The parts share no state: a step of the system is a step of one of them.  *)
LEMMA PartsAlone ==
  ASSUME [Next]_vars
  PROVE  /\ [Graph!Next]_graphVars /\ [Flow!Next]_flowVars
         /\ [Window!Next]_framesVars /\ [Plane!Next]_planeVars
         /\ [Pipeline!Next]_pipelineVars /\ [Channel!Next]_channelVars
BY DEF Next, vars, OnlyGraph, OnlyGpu, OnlyFlow, OnlyWindow, OnlyPlane, OnlyPipeline, OnlyChannel

LEMMA PartsBegin ==
  Init => /\ Graph!Init /\ Flow!Init /\ Window!Init /\ Plane!Init /\ Pipeline!Init /\ Channel!Init
BY DEF Init

(* The interpolator never records over a command buffer that the queue is     *)
(* still at work on, across ticks and restarts; it destroys none under the    *)
(* queue when the graph is shut down, unless the queue takes more than the    *)
(* second that on_stop waits, nor ever but in that case and in a restart; and *)
(* the display never goes back in time: however many frames the pool and the *)
(* transports hold, whatever they drop, wherever a restart catches the tick,  *)
(* whatever of it fails, and however the threads interleave.                 *)
THEOREM FramesAreInOrder == Spec => FramesComeInOrder
<1>1. OrderInv /\ [Next]_vars =>
        /\ OrderInv'
        /\ [JobKept]_(Pipeline!vars)
        /\ [Pipeline!Rank(present'.shown) >= Pipeline!Rank(present.shown)]_(Pipeline!vars)
  <2>1. [Next]_vars => Pipeline!Next \/ UNCHANGED Pipeline!vars
    BY PartsAlone DEF pipelineVars, Pipeline!vars
  <2> QED
    BY <2>1, PipelineStep
<1>2. Init => OrderInv
  BY PartsBegin, OrderBegins
<1> QED
  BY <1>1, <1>2, PTL DEF Spec, FramesComeInOrder, Pipeline!OneJobAtATime, Pipeline!NeverBack, JobKept

(* A plane whose consumer takes no step for longer than the watchdog lets     *)
(* pass is hidden, and so is one that has yielded to another program, once   *)
(* the poll that found it is through: for every stall time.                  *)
THEOREM PlaneIsHiddenInTime == Spec => [](Plane!StalledPlaneIsGone /\ Plane!YieldedIsHidden)
<1>1. PlaneInv /\ [Plane!Next]_planeVars => PlaneInv'
  <2>1. ASSUME PlaneInv, UNCHANGED planeVars PROVE PlaneInv'
    BY <2>1 DEF PlaneInv, WindowInv, YieldInv, StallInv, Plane!WindowOutlivesItsUsers, planeVars
  <2> QED
    BY <2>1, PlaneStep
<1>2. Init => PlaneInv
  BY PartsBegin, PlaneBegins
<1> QED
  BY <1>1, <1>2, PlaneIsSafe, PartsAlone, PTL DEF Spec

(* No window is destroyed that the watchdog or the last-gasp handler may      *)
(* still use, no framebuffer is made anew under the processor that draws into *)
(* it, and no frame is recorded over that the processor has: whatever the     *)
(* window's sizes and whatever acquire or present is refused.                *)
THEOREM WindowsOutliveTheirUsers ==
  Spec => [](/\ Plane!WindowOutlivesItsUsers
             /\ Window!FramebuffersOutlive /\ Window!RecordsAnIdleFrame)
<1>1. PlaneInv /\ [Plane!Next]_planeVars => PlaneInv'
  <2>1. ASSUME PlaneInv, UNCHANGED planeVars PROVE PlaneInv'
    BY <2>1 DEF PlaneInv, WindowInv, YieldInv, StallInv, Plane!WindowOutlivesItsUsers, planeVars
  <2> QED
    BY <2>1, PlaneStep
<1>2. FramesInv /\ [Window!Next]_framesVars => FramesInv'
  <2>1. ASSUME FramesInv, UNCHANGED framesVars PROVE FramesInv'
    BY <2>1 DEF FramesInv, framesVars
  <2> QED
    BY <2>1, FramesStep
<1>3. Init => PlaneInv /\ FramesInv
  BY PartsBegin, PlaneBegins, FramesBegin
<1> QED
  BY <1>1, <1>2, <1>3, PlaneIsSafe, FramesAreSafe, PartsAlone, PTL DEF Spec

(* A warp draws the pair of frames it is asked for, as long as nothing else   *)
(* was baked: for any number of sets in flight and any pairs.                *)
THEOREM PairsAreDrawn == Spec => []Flow!DrawsWhatWasAsked
<1>1. FlowInv /\ [Flow!Next]_flowVars => FlowInv'
  <2>1. ASSUME FlowInv, UNCHANGED flowVars PROVE FlowInv'
    BY <2>1 DEF FlowInv, flowVars
  <2> QED
    BY <2>1, FlowStep
<1>2. Init => FlowInv
  BY PartsBegin, FlowBegins
<1> QED
  BY <1>1, <1>2, FlowIsRight, PartsAlone, PTL DEF Spec

(* A reader of the channel that took its cursor while nobody published finds   *)
(* every message from there on, whole and in order, whichever producers and  *)
(* readers come, go and stall between the steps of the others: for any        *)
(* number of them and any capacity.                                          *)
THEOREM MessagesAreNotMissed == Spec => []Channel!ReadersMissNothing
<1>1. ChannelInv /\ [Channel!Next]_channelVars => ChannelInv'
  BY ChannelStep
<1>2. Init => ChannelInv
  BY PartsBegin, ChannelBegins
<1> QED
  BY <1>1, <1>2, ChannelIsRead, PartsAlone, PTL DEF Spec

(* Whoever ticks a node, a worker, the owner's loop or its pump, finds it     *)
(* started and its wires there, but for the one a restart is in the middle of, *)
(* and in a graph without a cycle those that feed a node that is on are on,    *)
(* from the first start to the last stop: for any graphs whose nodes are       *)
(* ordered as GraphAssumption says, in either mode, whoever stops, pauses and  *)
(* restarts between two steps of the others.                                 *)
THEOREM NodesAreAlive == Spec => [](Graph!TicksTouchLiveNodes /\ Graph!UpstreamOutlives)
<1>1. GraphInv /\ [Graph!Next]_graphVars => GraphInv'
  <2>1. ASSUME GraphInv, UNCHANGED graphVars PROVE GraphInv'
    BY <2>1 DEF GraphInv, Ordered, LifeInv, PlaceInv, WorkersInv, ManagerInv, Built, Size, Graph!Pumped,
                Graph!InUse, Graph!All, graphVars
  <2> QED
    BY <2>1, GraphStep
<1>2. Init => GraphInv
  BY PartsBegin, GraphBegins
<1> QED
  BY <1>1, <1>2, GraphIsSafe, PartsAlone, PTL DEF Spec

(* Whoever uses a node, a window, a framebuffer, a pair of frames or a message *)
(* finds it, and nobody is left behind a plane: all of the above together.    *)
THEOREM UsersAreServed == Spec => []UsersFindWhatTheyUse
<1>1. /\ Graph!TicksTouchLiveNodes /\ Graph!UpstreamOutlives
      /\ Window!FramebuffersOutlive /\ Window!RecordsAnIdleFrame
      /\ Plane!WindowOutlivesItsUsers /\ Plane!StalledPlaneIsGone /\ Plane!YieldedIsHidden
      /\ Flow!DrawsWhatWasAsked /\ Channel!ReadersMissNothing
      => UsersFindWhatTheyUse
  BY DEF UsersFindWhatTheyUse
<1> QED
  BY <1>1, NodesAreAlive, PlaneIsHiddenInTime, WindowsOutliveTheirUsers, PairsAreDrawn,
     MessagesAreNotMissed, PTL
=============================================================================
