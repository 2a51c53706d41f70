--------------------------- MODULE Interpolation ---------------------------
(***************************************************************************)
(* game/interpolation.cpp: where one avatar is drawn.                      *)
(*                                                                         *)
(* Each snapshot of the player is pushed into a ring buffer with the local *)
(* time it arrived at; each frame asks for the position INTERP_DELAY ago.  *)
(* g_interpStates holds one such state per avatar, independent of the      *)
(* others: count = 0 stands for an avatar without one.                     *)
(*                                                                         *)
(* One of the three axes and the rotation are modelled; the axes are       *)
(* treated alike.  Time is counted in ticks longer than a millisecond, and *)
(* a position or an angle that is not a whole number is kept as a          *)
(* fraction.                                                               *)
(***************************************************************************)
EXTENDS Integers, Sequences

CONSTANTS
  BUFFER_SIZE,     \* 5 in the code
  INTERP_DELAY,    \* 2/30 s in the code
  EXTRAP_TIMEOUT,  \* 0.5 s in the code
  PI,              \* half a turn, in units of angle
  Poses,           \* posX and rotZ of the snapshots considered
  FrameTimes,      \* lengths of a frame
  MaxTime          \* bound: ticks of the game clock

ASSUME BufferAssumption == BUFFER_SIZE \in Nat \ {0}
ASSUME TimesAssumption ==
  /\ INTERP_DELAY \in Nat /\ EXTRAP_TIMEOUT \in Nat
  /\ FrameTimes \subseteq Nat \ {0} /\ MaxTime \in Nat

\* The engine keeps rotZ within one turn.
ASSUME PosesAssumption ==
  PI \in Nat \ {0} /\ Poses \subseteq [pos : Int, rot : 0 .. 2 * PI - 1]

VARIABLES
  gameTime,  \* g_gameTime
  samples,   \* EntityInterpState.samples
  count,     \* EntityInterpState.count
  writeIdx,  \* EntityInterpState.writeIdx
  vel,       \* EntityInterpState.velX
  frame,     \* what the frame does next: "begin", "push" or "draw"
  shown,     \* what the last Interp_GetState returned
  path       \* history: all samples pushed since the avatar has a state

vars == <<gameTime, samples, count, writeIdx, vel, frame, shown, path>>

Slots == 0 .. BUFFER_SIZE - 1

Sample == [pos : Int, rot : 0 .. 2 * PI - 1, time : Nat]
Unused == [pos |-> 0, rot |-> 0, time |-> 0]

\* The number num / den.
Fraction == [num : Int, den : Nat \ {0}]
Whole(n) == [num |-> n, den |-> 1]

\* The cases of Interp_GetState; "none" is its return value false.
Cases == {"none", "oldest", "between", "extrapolated", "frozen"}

TypeOK ==
  /\ gameTime \in Nat
  /\ samples \in [Slots -> Sample]
  /\ count \in 0 .. BUFFER_SIZE
  /\ writeIdx \in Slots
  /\ vel \in Fraction
  /\ frame \in {"begin", "push", "draw"}
  /\ shown.case \in Cases /\ shown.pos \in Fraction /\ shown.rot \in Fraction
  /\ path \in Seq(Sample)

Init ==
  /\ gameTime = 0
  /\ samples = [i \in Slots |-> Unused]
  /\ count = 0
  /\ writeIdx = 0
  /\ vel = Whole(0)
  /\ frame = "begin"
  /\ shown = [case |-> "none", pos |-> Whole(0), rot |-> Whole(0)]
  /\ path = <<>>

---------------------------------------------------------------------------
\* Fault: the oldest sample is looked for at the write index, where it only is
\* once the buffer is full.
GetSampleFromWriteIdx(logicalIdx) == samples[(writeIdx + logicalIdx) % BUFFER_SIZE]

\* logicalIdx 0 is the oldest sample, count - 1 the newest.
GetSample(logicalIdx) ==
  LET oldest == (writeIdx - count + BUFFER_SIZE) % BUFFER_SIZE
  IN  samples[(oldest + logicalIdx) % BUFFER_SIZE]

Oldest == GetSample(0)
Newest == GetSample(count - 1)

renderTime == gameTime - INTERP_DELAY

\* The whole frame is in main.cpp; these are the calls it makes for one avatar.
BeginFrame(dt) ==
  /\ frame = "begin"
  /\ frame' = "push"
  /\ gameTime' = gameTime + dt
  /\ UNCHANGED <<samples, count, writeIdx, vel, shown, path>>

NoSnapshot ==
  /\ frame = "push"
  /\ frame' = "draw"
  /\ UNCHANGED <<gameTime, samples, count, writeIdx, vel, shown, path>>

Interp_PushSnapshot(x, rotZ) ==
  /\ frame = "push"
  /\ frame' = "draw"
  /\ vel' = IF count > 0 /\ gameTime > Newest.time
            THEN [num |-> x - Newest.pos, den |-> gameTime - Newest.time]
            ELSE vel
  /\ samples' = [samples EXCEPT ![writeIdx] = [pos |-> x, rot |-> rotZ, time |-> gameTime]]
  /\ writeIdx' = (writeIdx + 1) % BUFFER_SIZE
  /\ count' = IF count < BUFFER_SIZE THEN count + 1 ELSE count
  /\ path' = Append(path, [pos |-> x, rot |-> rotZ, time |-> gameTime])
  /\ UNCHANGED <<gameTime, shown>>

\* Fault: only the samples are dropped.
RemoveKeepsVelocity ==
  /\ frame = "push"
  /\ samples' = [i \in Slots |-> Unused]
  /\ count' = 0
  /\ writeIdx' = 0
  /\ path' = <<>>
  /\ UNCHANGED <<gameTime, vel, frame, shown>>

\* Interp_RemoveEntity or Interp_Clear; the next push starts from a new state.
Interp_RemoveEntity ==
  /\ frame = "push"
  /\ samples' = [i \in Slots |-> Unused]
  /\ count' = 0
  /\ writeIdx' = 0
  /\ vel' = Whole(0)
  /\ path' = <<>>
  /\ UNCHANGED <<gameTime, frame, shown>>

---------------------------------------------------------------------------
\* Fault: a render time that is a sample's own is between none.
BracketsStrict ==
  {i \in 0 .. count - 2 :
     GetSample(i).time < renderTime /\ renderTime < GetSample(i + 1).time}

\* The pairs of neighbouring samples that enclose the render time.
Brackets ==
  {i \in 0 .. count - 2 :
     GetSample(i).time <= renderTime /\ renderTime <= GetSample(i + 1).time}

\* Fault: the part of the way is measured from the later sample.
LerpBackwards(from, way, a, b, time) ==
  IF b.time > a.time
  THEN [num |-> from * (b.time - a.time) + (b.time - time) * way, den |-> b.time - a.time]
  ELSE Whole(from)

\* from + t * way with t = (time - a.time) / (b.time - a.time), or 0
Lerp(from, way, a, b, time) ==
  IF b.time > a.time
  THEN [num |-> from * (b.time - a.time) + (time - a.time) * way, den |-> b.time - a.time]
  ELSE Whole(from)

\* The difference of two angles; within one turn neither loop goes round twice.
AngleDiff(a, b) ==
  CASE b - a > PI  -> b - a - 2 * PI
    [] b - a < -PI -> b - a + 2 * PI
    [] OTHER       -> b - a

Extrapolate ==
  [num |-> Newest.pos * vel.den + vel.num * (renderTime - Newest.time),
   den |-> vel.den]

NoState == count = 0

AtOldest == ~NoState /\ (count = 1 \/ renderTime <= Oldest.time)

Between == ~NoState /\ ~AtOldest /\ renderTime <= Newest.time /\ Brackets # {}

Frozen ==
  ~NoState /\ ~AtOldest /\ ~Between /\ gameTime - Newest.time > EXTRAP_TIMEOUT

Extrapolated == ~NoState /\ ~AtOldest /\ ~Between /\ ~Frozen

\* At a sample.
Snapped(case, s) == [case |-> case, pos |-> Whole(s.pos), rot |-> Whole(s.rot)]

\* Between two samples; a rotation takes the shorter way.
Interpolated(a, b) ==
  [case |-> "between",
   pos  |-> Lerp(a.pos, b.pos - a.pos, a, b, renderTime),
   rot  |-> Lerp(a.rot, AngleDiff(a.rot, b.rot), a, b, renderTime)]

Interp_GetState ==
  /\ frame = "draw"
  /\ frame' = "begin"
  /\ \/ NoState  /\ shown' = [shown EXCEPT !.case = "none"]
     \/ AtOldest /\ shown' = Snapped("oldest", Oldest)
     \/ /\ Between
        /\ \E i \in Brackets :
             /\ \A k \in Brackets : i <= k
             /\ shown' = Interpolated(GetSample(i), GetSample(i + 1))
     \/ Frozen /\ shown' = Snapped("frozen", Newest)
     \/ /\ Extrapolated
        /\ shown' = [case |-> "extrapolated", pos |-> Extrapolate, rot |-> Whole(Newest.rot)]
  /\ UNCHANGED <<gameTime, samples, count, writeIdx, vel, path>>

---------------------------------------------------------------------------
Next ==
  \/ \E dt \in FrameTimes : gameTime + dt <= MaxTime /\ BeginFrame(dt)
  \/ NoSnapshot
  \/ \E p \in Poses : Interp_PushSnapshot(p.pos, p.rot)
  \/ Interp_RemoveEntity
  \/ Interp_GetState

Spec == Init /\ [][Next]_vars

---------------------------------------------------------------------------
\* The ring buffer holds the samples pushed last, in the order they were pushed,
\* however often it wrapped: what GetSample counts from the oldest is the tail of
\* the path.
WindowIsRecent ==
  /\ count = IF Len(path) < BUFFER_SIZE THEN Len(path) ELSE BUFFER_SIZE
  /\ \A i \in 0 .. count - 1 : GetSample(i) = path[Len(path) - count + i + 1]

\* Arrival times never run backwards, and none is in the future.
PathOrdered ==
  /\ \A i, j \in 1 .. Len(path) : i < j => path[i].time < path[j].time
  /\ \A i \in 1 .. Len(path) : /\ path[i].time <= gameTime
                               /\ frame = "push" => path[i].time < gameTime

\* "Shouldn't reach here": a render time between the oldest and the newest sample
\* always falls between two neighbours.
BracketExists ==
  (count > 1 /\ Oldest.time < renderTime /\ renderTime <= Newest.time)
    => Brackets # {}

\* The stored velocity is that of the last two samples: no older motion is
\* continued, and none of an avatar that had the id before.
VelocityIsCurrent ==
  vel = IF Len(path) < 2 THEN Whole(0)
        ELSE LET a == path[Len(path) - 1]
                 b == path[Len(path)]
             IN  [num |-> b.pos - a.pos, den |-> b.time - a.time]

\* An avatar drawn in between is on the straight line between two samples that
\* arrived one after the other, at the point for the render time: no sample is
\* skipped and neither end is overshot.  It turns with it, by half a turn at most, so
\* that it ends up facing as the later sample says, also across north.
DrawnOnPath ==
  (frame = "begin" /\ shown.case = "between") =>
    \E i \in 1 .. Len(path) - 1 :
      LET a == path[i]
          b == path[i + 1]
          Reaches(f, from, way) ==
            (f.num - from * f.den) * (b.time - a.time) = (renderTime - a.time) * way * f.den
      IN  /\ a.time <= renderTime /\ renderTime <= b.time
          /\ Reaches(shown.pos, a.pos, b.pos - a.pos)
          /\ \E turn \in -PI .. PI :
               /\ a.rot + turn \in {b.rot - 2 * PI, b.rot, b.rot + 2 * PI}
               /\ Reaches(shown.rot, a.rot, turn)

\* What the invariants above rest on: where in the ring each of the last samples
\* is, and that the path leaves no gap between two of its times.
RingInv ==
  /\ writeIdx = Len(path) % BUFFER_SIZE
  /\ count = IF Len(path) < BUFFER_SIZE THEN Len(path) ELSE BUFFER_SIZE
  /\ \A k \in Len(path) - count + 1 .. Len(path) :
       samples[(k - 1) % BUFFER_SIZE] = path[k]

PathBracketed ==
  \A j \in 1 .. Len(path) - 1 : \A t \in 0 .. gameTime :
    (path[j].time <= t /\ t <= path[Len(path)].time) =>
      \E i \in j .. Len(path) - 1 : path[i].time <= t /\ t <= path[i + 1].time

\* The inductive invariant.
IInv ==
  /\ TypeOK
  /\ RingInv
  /\ PathOrdered
  /\ PathBracketed
  /\ VelocityIsCurrent
  /\ DrawnOnPath
=============================================================================
