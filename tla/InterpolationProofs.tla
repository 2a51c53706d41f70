------------------------ MODULE InterpolationProofs ------------------------
(***************************************************************************)
(* Proofs about Interpolation, for every buffer size, delay and timeout.   *)
(* The first part is the arithmetic of the ring buffer's indices, the      *)
(* second shows that the inductive invariant IInv is preserved, the third  *)
(* draws the properties from it.                                           *)
(***************************************************************************)
EXTENDS Interpolation, TLAPS

\* Quotient and remainder.
LEMMA DivMod ==
  ASSUME NEW n \in Nat \ {0}, NEW a \in Int
  PROVE  a % n \in 0 .. n - 1 /\ a \div n \in Int /\ a = n * (a \div n) + (a % n)
  BY Z3

\* A multiple of n that is smaller than n is 0.
LEMMA SmallMultiple ==
  ASSUME NEW n \in Nat \ {0}, NEW d \in Int, -n < n * d, n * d < n
  PROVE  d = 0
<1>1. CASE d >= 1
  <2>1. d - 1 \in Nat BY <1>1
  <2>2. n * (d - 1) >= 0 BY <2>1, Z3
  <2>   QED BY <2>2, Z3
<1>2. CASE d <= -1
  <2>1. -d - 1 \in Nat BY <1>2
  <2>2. n * (-d - 1) >= 0 BY <2>1, Z3
  <2>   QED BY <2>2, Z3
<1> QED BY <1>1, <1>2

\* A number is determined by its remainder among any n successive ones.
LEMMA RemaindersDiffer ==
  ASSUME NEW n \in Nat \ {0}, NEW a \in Int, NEW b \in Int, a < b, b < a + n
  PROVE  a % n # b % n
<1> DEFINE p == a \div n
           q == b \div n
           r == a % n
           s == b % n
<1>1. /\ p \in Int /\ r \in 0 .. n - 1 /\ a = n * p + r
      /\ q \in Int /\ s \in 0 .. n - 1 /\ b = n * q + s
  BY DivMod
<1> SUFFICES ASSUME r = s PROVE FALSE OBVIOUS
<1> HIDE DEF p, q, r, s
<1>2. n * (q - p) = b - a BY <1>1, Z3
<1>3. q - p = 0 BY <1>1, <1>2, SmallMultiple
<1>4. n * 0 = 0 BY Z3
<1> QED BY <1>2, <1>3, <1>4

\* A remainder that was added to is reduced once more.
LEMMA AddToRemainder ==
  ASSUME NEW n \in Nat \ {0}, NEW a \in Int, NEW b \in Int
  PROVE  ((a % n) + b) % n = (a + b) % n
<1> DEFINE r == a % n
           p == a \div n
           e == r + b
           q == e \div n
           s == e % n
           c == a + b
           u == c \div n
           v == c % n
<1>1. p \in Int /\ r \in 0 .. n - 1 /\ a = n * p + r BY DivMod
<1>2. e \in Int /\ c \in Int BY <1>1
<1>3. q \in Int /\ s \in 0 .. n - 1 /\ e = n * q + s BY <1>2, DivMod
<1>4. u \in Int /\ v \in 0 .. n - 1 /\ c = n * u + v BY <1>2, DivMod
<1>5. e = r + b /\ c = a + b OBVIOUS
<1> SUFFICES s = v OBVIOUS
<1> HIDE DEF r, p, e, q, s, c, u, v
<1>6. n * (p + q - u) = v - s BY <1>1, <1>3, <1>4, <1>5, Z3
<1>7. p + q - u = 0 BY <1>1, <1>3, <1>4, <1>6, SmallMultiple
<1>8. n * 0 = 0 BY Z3
<1> QED BY <1>3, <1>4, <1>6, <1>7, <1>8

\* A whole turn of the ring does not change the place.
LEMMA WholeTurn ==
  ASSUME NEW n \in Nat \ {0}, NEW a \in Int
  PROVE  (a + n) % n = a % n
<1> DEFINE r == a % n
           p == a \div n
           e == a + n
           q == e \div n
           s == e % n
<1>1. p \in Int /\ r \in 0 .. n - 1 /\ a = n * p + r BY DivMod
<1>2. e \in Int OBVIOUS
<1>3. q \in Int /\ s \in 0 .. n - 1 /\ e = n * q + s BY <1>2, DivMod
<1>4. e = a + n OBVIOUS
<1> SUFFICES s = r OBVIOUS
<1> HIDE DEF r, p, e, q, s
<1>5. n * (q - p - 1) = r - s BY <1>1, <1>3, <1>4, Z3
<1>6. q - p - 1 = 0 BY <1>1, <1>3, <1>5, SmallMultiple
<1>7. n * 0 = 0 BY Z3
<1> QED BY <1>1, <1>3, <1>5, <1>6, <1>7

LEMMA NextRemainder ==
  ASSUME NEW n \in Nat \ {0}, NEW a \in Nat
  PROVE  ((a % n) + 1) % n = (a + 1) % n
<1> DEFINE one == 1
<1>1. a \in Int /\ one \in Int /\ one = 1 OBVIOUS
<1> HIDE DEF one
<1>2. ((a % n) + one) % n = (a + one) % n BY <1>1, AddToRemainder, Zenon
<1> QED BY <1>1, <1>2, Zenon

---------------------------------------------------------------------------
\* What GetSample returns in a state where the ring is in order: it counts
\* from the oldest of the last samples.
LEMMA GetSampleIsTail ==
  ASSUME TypeOK, RingInv, NEW i \in 0 .. count - 1
  PROVE  GetSample(i) = path[Len(path) - count + i + 1]
<1> USE BufferAssumption
<1> DEFINE L == Len(path)
           k == L - count + i + 1
<1>1. L \in Nat /\ count \in 0 .. BUFFER_SIZE /\ count <= L /\ writeIdx = L % BUFFER_SIZE
  BY DEF TypeOK, RingInv
<1>2. k \in L - count + 1 .. L BY <1>1
<1>3. samples[(k - 1) % BUFFER_SIZE] = path[k] BY <1>2 DEF RingInv
<1> DEFINE o == L - count
           b == BUFFER_SIZE - count
           c == k - 1
<1>4. (writeIdx - count + BUFFER_SIZE) % BUFFER_SIZE = o % BUFFER_SIZE
  <2>1. /\ L \in Int /\ b \in Int /\ o \in Int /\ L + b = o + BUFFER_SIZE
        /\ writeIdx - count + BUFFER_SIZE = (L % BUFFER_SIZE) + b
    <3>1. L % BUFFER_SIZE \in Int BY <1>1, DivMod
    <3>   QED BY <1>1, <3>1
  <2>   HIDE DEF L, o, b
  <2>2. ((L % BUFFER_SIZE) + b) % BUFFER_SIZE = (L + b) % BUFFER_SIZE
    BY <2>1, AddToRemainder, Zenon
  <2>3. (o + BUFFER_SIZE) % BUFFER_SIZE = o % BUFFER_SIZE BY <2>1, WholeTurn, Zenon
  <2>   QED BY <2>1, <2>2, <2>3
<1>5. ((o % BUFFER_SIZE) + i) % BUFFER_SIZE = c % BUFFER_SIZE
  <2>1. c = o + i /\ o \in Int /\ i \in Int BY <1>1
  <2>   HIDE DEF L, k, o, c
  <2>   QED BY <2>1, AddToRemainder, Zenon
<1> QED BY <1>3, <1>4, <1>5 DEF GetSample

\* The ring shows the last samples pushed.
LEMMA RingIsWindow == TypeOK /\ RingInv => WindowIsRecent
  BY GetSampleIsTail DEF WindowIsRecent, RingInv

LEMMA NewestIsLast ==
  ASSUME TypeOK, RingInv, count > 0
  PROVE  Len(path) > 0 /\ Newest = path[Len(path)]
<1>1. count \in Nat /\ count - 1 \in 0 .. count - 1 /\ Len(path) \in Nat
  BY BufferAssumption DEF TypeOK
<1>2. Newest = path[Len(path) - count + (count - 1) + 1] BY <1>1, GetSampleIsTail DEF Newest
<1>3. Len(path) - count + (count - 1) + 1 = Len(path) BY <1>1
<1>4. Len(path) > 0 BY BufferAssumption, <1>1 DEF RingInv
<1> QED BY <1>2, <1>3, <1>4

---------------------------------------------------------------------------
LEMMA UnusedIsSample == Unused \in Sample
  BY PosesAssumption DEF Unused, Sample

\* The invariant holds at the start ...
LEMMA InitEstablishes == Init => IInv
<1> SUFFICES ASSUME Init PROVE IInv OBVIOUS
<1> USE BufferAssumption DEF Init
<1>1. TypeOK BY UnusedIsSample DEF TypeOK, Slots, Fraction, Whole, Cases
<1>2. RingInv
  <2>1. 0 % BUFFER_SIZE = 0 BY Z3
  <2>2. Len(path) = 0 OBVIOUS
  <2>   QED BY <2>1, <2>2 DEF RingInv
<1>3. PathOrdered /\ PathBracketed BY DEF PathOrdered, PathBracketed
<1>4. VelocityIsCurrent BY DEF VelocityIsCurrent
<1>5. DrawnOnPath BY DEF DrawnOnPath
<1> QED BY <1>1, <1>2, <1>3, <1>4, <1>5 DEF IInv

LEMMA PathTypes ==
  ASSUME TypeOK
  PROVE  /\ path \in Seq(Sample) /\ Len(path) \in Nat
         /\ \A k \in 1 .. Len(path) :
              /\ path[k] \in Sample /\ path[k].time \in Nat /\ path[k].pos \in Int
              /\ path[k].rot \in 0 .. 2 * PI - 1
<1>1. path \in Seq(Sample) /\ Len(path) \in Nat BY DEF TypeOK
<1>2. \A k \in 1 .. Len(path) : path[k] \in Sample BY <1>1
<1>3. \A s \in Sample : s.time \in Nat /\ s.pos \in Int /\ s.rot \in 0 .. 2 * PI - 1
  BY DEF Sample
<1> QED BY <1>1, <1>2, <1>3

\* ... is kept by a push ...
LEMMA PushTypes ==
  ASSUME IInv, NEW x \in Int, NEW r \in 0 .. 2 * PI - 1, Interp_PushSnapshot(x, r)
  PROVE  TypeOK'
<1>0. TypeOK /\ RingInv BY DEF IInv
<1> USE <1>0, BufferAssumption DEF TypeOK, Interp_PushSnapshot
<1> DEFINE new == [pos |-> x, rot |-> r, time |-> gameTime]
<1>1. new \in Sample BY DEF Sample
<1>2. samples' \in [Slots -> Sample] BY <1>1
<1>3. count' \in 0 .. BUFFER_SIZE OBVIOUS
<1>4. writeIdx' \in Slots
  <2>1. writeIdx + 1 \in Int BY DEF Slots
  <2>   QED BY <2>1, DivMod DEF Slots
<1>5. path' \in Seq(Sample) BY <1>1
<1>6. vel' \in Fraction
  <2>1. CASE count > 0 /\ gameTime > Newest.time
    <3>1. Len(path) > 0 /\ Newest = path[Len(path)] BY <2>1, NewestIsLast
    <3>2. Newest.time \in Nat /\ Newest.pos \in Int BY <3>1, PathTypes
    <3>3. /\ x - Newest.pos \in Int
          /\ gameTime - Newest.time \in Nat \ {0}
      BY <2>1, <3>2
    <3>   QED BY <2>1, <3>3 DEF Fraction
  <2>2. CASE ~(count > 0 /\ gameTime > Newest.time) BY <2>2
  <2>   QED BY <2>1, <2>2
<1> QED BY <1>2, <1>3, <1>4, <1>5, <1>6

LEMMA PushRing ==
  ASSUME IInv, NEW x \in Int, NEW r \in 0 .. 2 * PI - 1, Interp_PushSnapshot(x, r)
  PROVE  RingInv'
<1>0. TypeOK /\ RingInv BY DEF IInv
<1> USE BufferAssumption
<1> DEFINE L == Len(path)
           new == [pos |-> x, rot |-> r, time |-> gameTime]
<1>1. L \in Nat /\ count \in 0 .. BUFFER_SIZE /\ path \in Seq(Sample)
      /\ writeIdx = L % BUFFER_SIZE /\ L % BUFFER_SIZE \in Slots
  BY <1>0, PathTypes, DivMod DEF TypeOK, RingInv, Slots
<1>2. Len(path') = L + 1 /\ path'[L + 1] = new /\ \A k \in 1 .. L : path'[k] = path[k]
  BY <1>1 DEF Interp_PushSnapshot
<1>3. writeIdx' = (L + 1) % BUFFER_SIZE
  <2>1. writeIdx' = ((L % BUFFER_SIZE) + 1) % BUFFER_SIZE BY <1>1 DEF Interp_PushSnapshot
  <2>2. ((L % BUFFER_SIZE) + 1) % BUFFER_SIZE = (L + 1) % BUFFER_SIZE
    BY <1>1, NextRemainder
  <2>   QED BY <2>1, <2>2
<1>4. count' = IF L + 1 < BUFFER_SIZE THEN L + 1 ELSE BUFFER_SIZE
  BY <1>0, <1>1 DEF Interp_PushSnapshot, RingInv
<1>5. ASSUME NEW k \in L + 1 - count' + 1 .. L + 1
      PROVE  samples'[(k - 1) % BUFFER_SIZE] = path'[k]
  <2>1. CASE k = L + 1
    <3>1. samples'[L % BUFFER_SIZE] = new BY <1>0, <1>1 DEF Interp_PushSnapshot, TypeOK
    <3>2. k - 1 = L BY <2>1, <1>1
    <3>   QED BY <2>1, <3>1, <3>2, <1>2
  <2>2. CASE k # L + 1
    <3> DEFINE c == k - 1
    <3>1. /\ k \in L - count + 1 .. L /\ k \in 1 .. L
          /\ c \in Int /\ c < L /\ L < c + BUFFER_SIZE
      BY <1>0, <1>1, <1>4, <2>2 DEF RingInv
    <3>2. c % BUFFER_SIZE # L % BUFFER_SIZE
      <4>1. c \in Int /\ L \in Int /\ c < L /\ L < c + BUFFER_SIZE BY <3>1, <1>1
      <4>   HIDE DEF c, L
      <4>   QED BY <4>1, RemaindersDiffer
    <3>3. c % BUFFER_SIZE \in Slots BY <3>1, DivMod DEF Slots
    <3>4. samples'[c % BUFFER_SIZE] = samples[c % BUFFER_SIZE]
      BY <1>0, <1>1, <3>2, <3>3 DEF Interp_PushSnapshot, TypeOK
    <3>5. samples[c % BUFFER_SIZE] = path[k] BY <1>0, <3>1 DEF RingInv
    <3>   QED BY <3>1, <3>4, <3>5, <1>2
  <2>   QED BY <2>1, <2>2
<1> QED BY <1>2, <1>3, <1>4, <1>5 DEF RingInv

LEMMA PushPath ==
  ASSUME IInv, NEW x \in Int, NEW r \in 0 .. 2 * PI - 1, Interp_PushSnapshot(x, r)
  PROVE  PathOrdered' /\ PathBracketed' /\ VelocityIsCurrent'
<1>0. TypeOK /\ RingInv /\ PathOrdered /\ PathBracketed BY DEF IInv
<1> USE BufferAssumption
<1> DEFINE L == Len(path)
           new == [pos |-> x, rot |-> r, time |-> gameTime]
<1>1. /\ path \in Seq(Sample) /\ L \in Nat /\ gameTime \in Nat
      /\ gameTime' = gameTime /\ frame = "push" /\ frame' = "draw"
      /\ path' = Append(path, new)
  BY <1>0, PathTypes DEF TypeOK, Interp_PushSnapshot
<1>2. Len(path') = L + 1 /\ path'[L + 1] = new /\ \A k \in 1 .. L : path'[k] = path[k]
  BY <1>1
<1>3. \A k \in 1 .. L : path[k] \in Sample /\ path[k].time \in Nat /\ path[k].pos \in Int
  BY <1>0, PathTypes
<1>4. \A k \in 1 .. L : path[k].time < gameTime BY <1>0, <1>1 DEF PathOrdered
<1>5. PathOrdered'
  <2>1. ASSUME NEW i \in 1 .. L + 1, NEW j \in 1 .. L + 1, i < j
        PROVE  path'[i].time < path'[j].time
    <3>1. CASE j = L + 1 BY <3>1, <2>1, <1>1, <1>2, <1>4
    <3>2. CASE j # L + 1
      <4>1. i \in 1 .. L /\ j \in 1 .. L BY <3>2, <2>1, <1>1
      <4>2. path[i].time < path[j].time BY <4>1, <2>1, <1>0 DEF PathOrdered
      <4>   QED BY <4>1, <4>2, <1>2
    <3>   QED BY <3>1, <3>2
  <2>2. \A i \in 1 .. L + 1 : path'[i].time <= gameTime BY <1>1, <1>2, <1>3, <1>4
  <2>   QED BY <2>1, <2>2, <1>1, <1>2 DEF PathOrdered
<1>6. PathBracketed'
  <2> SUFFICES ASSUME NEW j \in 1 .. L, NEW t \in 0 .. gameTime,
                      path'[j].time <= t, t <= path'[L + 1].time
               PROVE  \E i \in j .. L : path'[i].time <= t /\ t <= path'[i + 1].time
    <3>1. L + 1 - 1 = L BY <1>1
    <3>   QED BY <1>1, <1>2, <3>1 DEF PathBracketed
  <2>1. CASE path[L].time <= t
    <3>1. L \in j .. L /\ path'[L].time <= t BY <2>1, <1>1, <1>2
    <3>   QED BY <3>1
  <2>2. CASE ~(path[L].time <= t)
    <3>1. j \in 1 .. L - 1 /\ t <= path[L].time /\ path[j].time <= t
      BY <2>2, <1>1, <1>2, <1>3
    <3>2. PICK i \in j .. L - 1 : path[i].time <= t /\ t <= path[i + 1].time
      BY <1>0, <3>1 DEF PathBracketed
    <3>3. i \in j .. L /\ i \in 1 .. L /\ i + 1 \in 1 .. L BY <1>1, <3>2
    <3>   QED BY <3>2, <3>3, <1>2
  <2>   QED BY <2>1, <2>2
<1>7. VelocityIsCurrent'
  <2>1. CASE L = 0
    <3>1. ~(count > 0) BY <1>0, <2>1 DEF RingInv
    <3>2. vel' = vel BY <3>1 DEF Interp_PushSnapshot
    <3>   QED BY <2>1, <3>2, <1>2, <1>0 DEF VelocityIsCurrent, IInv
  <2>2. CASE L > 0
    <3>1. count > 0 BY <1>0, <2>2, <1>1 DEF RingInv
    <3>2. Newest = path[L] BY <1>0, <3>1, NewestIsLast
    <3>3. gameTime > Newest.time BY <3>2, <2>2, <1>1, <1>3, <1>4
    <3>4. vel' = [num |-> x - path[L].pos, den |-> gameTime - path[L].time]
      BY <3>1, <3>2, <3>3 DEF Interp_PushSnapshot
    <3>5. Len(path') - 1 = L /\ ~(Len(path') < 2) /\ path'[L] = path[L]
      BY <1>1, <1>2, <2>2
    <3>   QED BY <1>2, <3>4, <3>5 DEF VelocityIsCurrent
  <2>   QED BY <1>1, <2>1, <2>2
<1> QED BY <1>5, <1>6, <1>7

\* ... by the steps that only let time pass or start over ...
LEMMA OtherStepsPreserve ==
  ASSUME IInv,
         \/ \E dt \in FrameTimes : BeginFrame(dt)
         \/ NoSnapshot
         \/ Interp_RemoveEntity
  PROVE  IInv'
<1>0. TypeOK /\ RingInv /\ PathOrdered /\ PathBracketed /\ VelocityIsCurrent
  BY DEF IInv
<1>1. CASE \E dt \in FrameTimes : BeginFrame(dt)
  <2>1. PICK dt \in FrameTimes : BeginFrame(dt) BY <1>1
  <2>2. dt \in Nat \ {0} BY TimesAssumption
  <2>3. /\ gameTime \in Nat /\ gameTime' \in Nat /\ gameTime < gameTime'
        /\ frame' = "push"
        /\ UNCHANGED <<samples, count, writeIdx, vel, shown, path>>
    BY <1>0, <2>1, <2>2 DEF BeginFrame, TypeOK
  <2>4. TypeOK' BY <1>0, <2>3 DEF TypeOK
  <2>5. RingInv' BY <1>0, <2>3 DEF RingInv
  <2>6. PathOrdered'
    <3>1. \A i \in 1 .. Len(path) : path[i].time <= gameTime' /\ path[i].time < gameTime'
      BY <1>0, <2>3, PathTypes DEF PathOrdered
    <3>   QED BY <1>0, <2>3, <3>1 DEF PathOrdered
  <2>7. PathBracketed'
    <3> SUFFICES ASSUME NEW j \in 1 .. Len(path) - 1, NEW t \in 0 .. gameTime',
                        path[j].time <= t, t <= path[Len(path)].time
                 PROVE  \E i \in j .. Len(path) - 1 :
                          path[i].time <= t /\ t <= path[i + 1].time
      BY <2>3 DEF PathBracketed
    <3>1. Len(path) \in 1 .. Len(path) BY <1>0, PathTypes
    <3>2. path[Len(path)].time <= gameTime /\ path[Len(path)].time \in Nat
      BY <1>0, <3>1, PathTypes DEF PathOrdered
    <3>3. t \in 0 .. gameTime BY <2>3, <3>2
    <3>   QED BY <1>0, <3>3 DEF PathBracketed
  <2>8. VelocityIsCurrent' BY <1>0, <2>3 DEF VelocityIsCurrent
  <2>9. DrawnOnPath' BY <2>3 DEF DrawnOnPath
  <2>   QED BY <2>4, <2>5, <2>6, <2>7, <2>8, <2>9 DEF IInv
<1>2. CASE NoSnapshot
  <2>1. /\ frame = "push" /\ frame' = "draw"
        /\ UNCHANGED <<gameTime, samples, count, writeIdx, vel, shown, path>>
    BY <1>2 DEF NoSnapshot
  <2>2. TypeOK' BY <1>0, <2>1 DEF TypeOK
  <2>3. RingInv' BY <1>0, <2>1 DEF RingInv
  <2>4. PathOrdered' BY <1>0, <2>1 DEF PathOrdered
  <2>5. PathBracketed' BY <1>0, <2>1 DEF PathBracketed
  <2>6. VelocityIsCurrent' BY <1>0, <2>1 DEF VelocityIsCurrent
  <2>7. DrawnOnPath' BY <2>1 DEF DrawnOnPath
  <2>   QED BY <2>2, <2>3, <2>4, <2>5, <2>6, <2>7 DEF IInv
<1>3. CASE Interp_RemoveEntity
  <2>1. /\ frame = "push" /\ count' = 0 /\ writeIdx' = 0 /\ path' = <<>>
        /\ vel' = Whole(0) /\ UNCHANGED <<gameTime, frame, shown>>
        /\ samples' = [i \in Slots |-> Unused]
        /\ Len(path') = 0
    BY <1>3 DEF Interp_RemoveEntity
  <2>2. TypeOK'
    <3>1. samples' \in [Slots -> Sample] BY <2>1, UnusedIsSample
    <3>2. count' \in 0 .. BUFFER_SIZE /\ writeIdx' \in Slots
      BY <2>1, BufferAssumption DEF Slots
    <3>3. vel' \in Fraction BY <2>1 DEF Whole, Fraction
    <3>4. path' \in Seq(Sample) BY <2>1
    <3>   QED BY <1>0, <2>1, <3>1, <3>2, <3>3, <3>4 DEF TypeOK
  <2>3. RingInv'
    <3>1. 0 % BUFFER_SIZE = 0 BY BufferAssumption, Z3
    <3>   QED BY <2>1, <3>1, BufferAssumption DEF RingInv
  <2>4. PathOrdered' /\ PathBracketed' BY <2>1 DEF PathOrdered, PathBracketed
  <2>5. VelocityIsCurrent' BY <2>1 DEF VelocityIsCurrent, Whole
  <2>6. DrawnOnPath' BY <2>1 DEF DrawnOnPath
  <2>   QED BY <2>2, <2>3, <2>4, <2>5, <2>6 DEF IInv
<1> QED BY <1>1, <1>2, <1>3

\* ... and by drawing.  Two neighbours in the ring are neighbours on the path.
LEMMA NeighboursOnPath ==
  ASSUME TypeOK, RingInv, PathOrdered, NEW i \in 0 .. count - 2
  PROVE  \E k \in 1 .. Len(path) - 1 :
           /\ GetSample(i) = path[k] /\ GetSample(i + 1) = path[k + 1]
           /\ path[k].time \in Nat /\ path[k + 1].time \in Nat
           /\ path[k].time < path[k + 1].time
           /\ path[k].pos \in Int /\ path[k + 1].pos \in Int
           /\ path[k].rot \in 0 .. 2 * PI - 1 /\ path[k + 1].rot \in 0 .. 2 * PI - 1
<1> DEFINE k == Len(path) - count + i + 1
<1>1. count \in Nat /\ Len(path) \in Nat /\ count <= Len(path)
  BY PathTypes, BufferAssumption DEF TypeOK, RingInv
<1>2. i \in 0 .. count - 1 /\ i + 1 \in 0 .. count - 1 BY <1>1
<1>3. GetSample(i) = path[k] BY <1>2, GetSampleIsTail
<1>4. GetSample(i + 1) = path[k + 1]
  <2>1. Len(path) - count + (i + 1) + 1 = k + 1 BY <1>1
  <2>   QED BY <1>2, <2>1, GetSampleIsTail
<1>5. k \in 1 .. Len(path) - 1 /\ k \in 1 .. Len(path) /\ k + 1 \in 1 .. Len(path) /\ k < k + 1
  BY <1>1
<1>6. path[k].time < path[k + 1].time BY <1>5 DEF PathOrdered
<1> HIDE DEF k
<1> QED BY <1>3, <1>4, <1>5, <1>6, PathTypes

\* What Lerp returns is as far along the way as the time is between the samples.
LEMMA LerpOnLine ==
  ASSUME NEW p \in Int, NEW w \in Int, NEW d \in Nat \ {0}, NEW e \in Int
  PROVE  /\ p * d + e * w \in Int
         /\ ((p * d + e * w) - p * d) * d = e * w * d
<1> DEFINE u == p * d
           v == e * w
<1>1. u \in Int /\ v \in Int BY Z3
<1>2. (u + v) - u = v BY <1>1
<1> QED BY <1>1, <1>2

LEMMA LerpReaches ==
  ASSUME NEW p \in Int, NEW w \in Int, NEW a, NEW b, NEW t \in Int,
         a.time \in Nat, b.time \in Nat, a.time < b.time,
         NEW f, f = Lerp(p, w, a, b, t)
  PROVE  /\ f \in Fraction
         /\ (f.num - p * f.den) * (b.time - a.time) = (t - a.time) * w * f.den
<1> DEFINE d == b.time - a.time
           e == t - a.time
<1>1. d \in Nat \ {0} /\ e \in Int /\ b.time > a.time OBVIOUS
<1>2. f = [num |-> p * d + e * w, den |-> d] BY <1>1 DEF Lerp
<1> HIDE DEF d, e
<1>3. /\ p * d + e * w \in Int
      /\ ((p * d + e * w) - p * d) * d = e * w * d
  BY <1>1, LerpOnLine
<1>4. f.num = p * d + e * w /\ f.den = d BY <1>2
<1>5. f \in Fraction BY <1>1, <1>2, <1>3 DEF Fraction
<1>6. (f.num - p * f.den) * d = e * w * f.den BY <1>3, <1>4
<1> QED BY <1>5, <1>6 DEF d, e

\* A turn by AngleDiff is half a turn at most and leads to the other angle.
LEMMA AngleDiffIsShorter ==
  ASSUME NEW a \in 0 .. 2 * PI - 1, NEW b \in 0 .. 2 * PI - 1
  PROVE  /\ AngleDiff(a, b) \in -PI .. PI
         /\ a + AngleDiff(a, b) \in {b - 2 * PI, b, b + 2 * PI}
BY PosesAssumption DEF AngleDiff

LEMMA DrawPreserves ==
  ASSUME IInv, Interp_GetState
  PROVE  IInv'
<1>0. TypeOK /\ RingInv /\ PathOrdered /\ PathBracketed /\ VelocityIsCurrent
  BY DEF IInv
<1>1. /\ frame = "draw" /\ frame' = "begin"
      /\ UNCHANGED <<gameTime, samples, count, writeIdx, vel, path>>
  BY DEF Interp_GetState
<1>2. renderTime \in Int /\ renderTime' = renderTime
  BY <1>0, <1>1, TimesAssumption DEF renderTime, TypeOK
<1>3. \A n \in Int : Whole(n) \in Fraction BY DEF Whole, Fraction
<1>4. count \in Nat BY <1>0, BufferAssumption DEF TypeOK
<1>t. \A s \in Sample : s.pos \in Int /\ s.time \in Nat /\ s.rot \in Int
  BY PosesAssumption DEF Sample
<1>5. shown'.case \in Cases /\ shown'.pos \in Fraction /\ shown'.rot \in Fraction /\ DrawnOnPath'
  <2>1. CASE NoState /\ shown' = [shown EXCEPT !.case = "none"]
    <3>1. shown.case \in Cases /\ shown.pos \in Fraction /\ shown.rot \in Fraction
      BY <1>0 DEF TypeOK
    <3>   QED BY <2>1, <3>1 DEF Cases, DrawnOnPath
  <2>2. CASE AtOldest /\ shown' = Snapped("oldest", Oldest)
    <3>1. count > 0 /\ 0 \in 0 .. count - 1 BY <2>2, <1>4 DEF AtOldest, NoState
    <3>2. Oldest = path[Len(path) - count + 0 + 1] BY <1>0, <3>1, GetSampleIsTail DEF Oldest
    <3>3. Len(path) - count + 0 + 1 \in 1 .. Len(path)
      BY <1>0, <1>4, <3>1, PathTypes, BufferAssumption DEF RingInv
    <3>4. Oldest \in Sample BY <1>0, <3>2, <3>3, PathTypes
    <3>   QED BY <2>2, <1>3, <1>t, <3>4 DEF Snapped, Cases, DrawnOnPath
  <2>3. CASE Between /\ \E i \in Brackets : shown' = Interpolated(GetSample(i), GetSample(i + 1))
    <3>1. PICK i \in Brackets : shown' = Interpolated(GetSample(i), GetSample(i + 1))
      BY <2>3
    <3>2. /\ i \in 0 .. count - 2 /\ GetSample(i).time <= renderTime
          /\ renderTime <= GetSample(i + 1).time
      BY DEF Brackets
    <3>3. PICK k \in 1 .. Len(path) - 1 :
             /\ GetSample(i) = path[k] /\ GetSample(i + 1) = path[k + 1]
             /\ path[k].time \in Nat /\ path[k + 1].time \in Nat
             /\ path[k].time < path[k + 1].time
             /\ path[k].pos \in Int /\ path[k + 1].pos \in Int
             /\ path[k].rot \in 0 .. 2 * PI - 1 /\ path[k + 1].rot \in 0 .. 2 * PI - 1
      BY <1>0, <3>2, NeighboursOnPath
    <3> DEFINE a == path[k]
               b == path[k + 1]
               turn == AngleDiff(a.rot, b.rot)
    <3>4. /\ shown'.case = "between"
          /\ shown'.pos = Lerp(a.pos, b.pos - a.pos, a, b, renderTime)
          /\ shown'.rot = Lerp(a.rot, turn, a, b, renderTime)
      BY <3>1, <3>3 DEF Interpolated
    <3>5. a.time <= renderTime /\ renderTime <= b.time BY <3>2, <3>3
    <3>6. turn \in -PI .. PI /\ a.rot + turn \in {b.rot - 2 * PI, b.rot, b.rot + 2 * PI}
      BY <3>3, AngleDiffIsShorter
    <3>7. /\ a.time \in Nat /\ b.time \in Nat /\ a.time < b.time
          /\ a.pos \in Int /\ b.pos - a.pos \in Int /\ a.rot \in Int
      BY <3>3, PosesAssumption
    <3>8. turn \in Int BY <3>6, PosesAssumption
    <3> HIDE DEF a, b, turn
    <3>9. /\ shown'.pos \in Fraction
          /\ (shown'.pos.num - a.pos * shown'.pos.den) * (b.time - a.time)
               = (renderTime - a.time) * (b.pos - a.pos) * shown'.pos.den
      BY <3>4, <3>7, <1>2, LerpReaches
    <3>10. /\ shown'.rot \in Fraction
           /\ (shown'.rot.num - a.rot * shown'.rot.den) * (b.time - a.time)
                = (renderTime - a.time) * turn * shown'.rot.den
      BY <3>4, <3>7, <3>8, <1>2, LerpReaches
    <3>11. DrawnOnPath'
      <4>1. path'[k] = a /\ path'[k + 1] = b /\ k \in 1 .. Len(path') - 1
        BY <1>1 DEF a, b
      <4>   QED BY <1>2, <3>5, <3>6, <3>9, <3>10, <4>1 DEF DrawnOnPath
    <3>   QED BY <3>4, <3>9, <3>10, <3>11 DEF Cases
  <2>4. CASE ~NoState /\ (\/ shown' = Snapped("frozen", Newest)
                          \/ shown' = [case |-> "extrapolated", pos |-> Extrapolate,
                                       rot |-> Whole(Newest.rot)])
    <3>1. Newest = path[Len(path)] /\ Len(path) \in 1 .. Len(path)
      BY <1>0, <1>4, <2>4, NewestIsLast, PathTypes DEF NoState
    <3>2. Newest \in Sample BY <1>0, <3>1, PathTypes
    <3>3. vel.num \in Int /\ vel.den \in Nat \ {0} BY <1>0 DEF TypeOK, Fraction
    <3>4. Extrapolate \in Fraction
      <4> DEFINE u == Newest.pos * vel.den
                 v == vel.num * (renderTime - Newest.time)
      <4>0. Newest.pos \in Int /\ Newest.time \in Nat BY <1>t, <3>2
      <4>1. u \in Int /\ v \in Int BY <4>0, <3>3, <1>2, Z3
      <4>2. Extrapolate = [num |-> u + v, den |-> vel.den] BY DEF Extrapolate
      <4>   HIDE DEF u, v
      <4>   QED BY <4>1, <4>2, <3>3 DEF Fraction
    <3>   QED BY <2>4, <1>3, <1>t, <3>2, <3>4 DEF Snapped, Cases, DrawnOnPath
  <2>   QED BY <2>1, <2>2, <2>3, <2>4 DEF Interp_GetState, Frozen, Extrapolated
<1>6. TypeOK' BY <1>0, <1>1, <1>5 DEF TypeOK
<1>7. RingInv' BY <1>0, <1>1 DEF RingInv
<1>8. PathOrdered' BY <1>0, <1>1 DEF PathOrdered
<1>9. PathBracketed' BY <1>0, <1>1 DEF PathBracketed
<1>10. VelocityIsCurrent' BY <1>0, <1>1 DEF VelocityIsCurrent
<1> QED BY <1>5, <1>6, <1>7, <1>8, <1>9, <1>10 DEF IInv

LEMMA NextPreserves == IInv /\ [Next]_vars => IInv'
<1> SUFFICES ASSUME IInv, [Next]_vars PROVE IInv' OBVIOUS
<1>1. CASE \E dt \in FrameTimes : gameTime + dt <= MaxTime /\ BeginFrame(dt)
  <2>1. \E dt \in FrameTimes : BeginFrame(dt) BY <1>1
  <2>   QED BY <2>1, OtherStepsPreserve
<1>2. CASE NoSnapshot BY <1>2, OtherStepsPreserve
<1>3. CASE Interp_RemoveEntity BY <1>3, OtherStepsPreserve
<1>4. CASE \E p \in Poses : Interp_PushSnapshot(p.pos, p.rot)
  <2>1. PICK p \in Poses : Interp_PushSnapshot(p.pos, p.rot) BY <1>4
  <2>2. p.pos \in Int /\ p.rot \in 0 .. 2 * PI - 1 BY PosesAssumption
  <2>3. DrawnOnPath' BY <2>1 DEF Interp_PushSnapshot, DrawnOnPath
  <2>   QED BY <2>1, <2>2, <2>3, PushTypes, PushRing, PushPath DEF IInv
<1>5. CASE Interp_GetState BY <1>5, DrawPreserves
<1>6. CASE UNCHANGED vars
  <2>1. UNCHANGED <<gameTime, samples, count, writeIdx, vel, frame, shown, path>>
    BY <1>6 DEF vars
  <2>2. TypeOK /\ RingInv /\ PathOrdered /\ PathBracketed /\ VelocityIsCurrent /\ DrawnOnPath
    BY DEF IInv
  <2>3. TypeOK' /\ RingInv' BY <2>1, <2>2 DEF TypeOK, RingInv
  <2>4. PathOrdered' /\ PathBracketed' BY <2>1, <2>2 DEF PathOrdered, PathBracketed
  <2>5. VelocityIsCurrent' BY <2>1, <2>2 DEF VelocityIsCurrent
  <2>6. renderTime' = renderTime BY <2>1 DEF renderTime
  <2>7. DrawnOnPath' BY <2>1, <2>2, <2>6 DEF DrawnOnPath
  <2>   QED BY <2>3, <2>4, <2>5, <2>7 DEF IInv
<1> QED BY <1>1, <1>2, <1>3, <1>4, <1>5, <1>6 DEF Next

---------------------------------------------------------------------------
\* The inductive invariant holds always.
THEOREM InterpolationInvariant == Spec => []IInv
<1>1. Init => IInv BY InitEstablishes
<1>2. IInv /\ [Next]_vars => IInv' BY NextPreserves
<1> QED BY <1>1, <1>2, PTL DEF Spec

\* The ring buffer shows the samples pushed last, in order, for every size of the
\* buffer and however often it wraps.
THEOREM RingShowsLastSamples == Spec => []WindowIsRecent
<1>1. IInv => WindowIsRecent BY RingIsWindow DEF IInv
<1> QED BY <1>1, InterpolationInvariant, PTL

\* The line marked "Shouldn't reach here" is not reached.
THEOREM BracketAlwaysFound == Spec => []BracketExists
<1>1. IInv => BracketExists
  <2> SUFFICES ASSUME TypeOK, RingInv, PathOrdered, PathBracketed,
                      count > 1, Oldest.time < renderTime, renderTime <= Newest.time
               PROVE  Brackets # {}
    BY DEF IInv, BracketExists
  <2> DEFINE L == Len(path)
             f == L - count + 1
  <2>1. count \in Nat /\ L \in Nat /\ count <= L
    BY PathTypes, BufferAssumption DEF TypeOK, RingInv
  <2>2. Newest = path[L] BY <2>1, NewestIsLast
  <2>3. Oldest = path[f]
    <3>1. 0 \in 0 .. count - 1 /\ L - count + 0 + 1 = f BY <2>1
    <3>   QED BY <3>1, GetSampleIsTail DEF Oldest
  <2>4. f \in 1 .. L - 1 /\ L \in 1 .. L /\ f \in 1 .. L BY <2>1
  <2>5. renderTime \in 0 .. gameTime
    <3>1. path[f].time \in Nat /\ path[L].time \in Nat BY <2>4, PathTypes
    <3>2. path[L].time <= gameTime BY <2>4 DEF PathOrdered
    <3>3. renderTime \in Int /\ gameTime \in Nat BY TimesAssumption DEF renderTime, TypeOK
    <3>   QED BY <2>2, <2>3, <3>1, <3>2, <3>3
  <2>6. path[f].time <= renderTime
    <3>1. path[f].time \in Nat BY <2>4, PathTypes
    <3>   QED BY <2>3, <2>5, <3>1
  <2>7. PICK k \in f .. L - 1 : path[k].time <= renderTime /\ renderTime <= path[k + 1].time
    BY <2>2, <2>4, <2>5, <2>6 DEF PathBracketed
  <2> DEFINE i == k - f
  <2>8. i \in 0 .. count - 2 /\ i \in 0 .. count - 1 /\ i + 1 \in 0 .. count - 1
        /\ L - count + i + 1 = k /\ L - count + (i + 1) + 1 = k + 1
    BY <2>1, <2>7
  <2>9. GetSample(i) = path[k] /\ GetSample(i + 1) = path[k + 1]
    BY <2>8, GetSampleIsTail
  <2>10. i \in Brackets BY <2>7, <2>8, <2>9 DEF Brackets
  <2>   QED BY <2>10
<1> QED BY <1>1, InterpolationInvariant, PTL

\* The velocity is that of the last two samples.
THEOREM VelocityAlwaysCurrent == Spec => []VelocityIsCurrent
<1>1. IInv => VelocityIsCurrent BY DEF IInv
<1> QED BY <1>1, InterpolationInvariant, PTL

\* An avatar drawn between samples is on the line between two that arrived one
\* after the other.
THEOREM AlwaysDrawnOnPath == Spec => []DrawnOnPath
<1>1. IInv => DrawnOnPath BY DEF IInv
<1> QED BY <1>1, InterpolationInvariant, PTL
=============================================================================
