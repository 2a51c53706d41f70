----------------------- MODULE ReliableChannelProofs -----------------------
(***************************************************************************)
(* Proofs about ReliableChannel, for any number and size of windows and    *)
(* any number of packets: the sender's books, that retransmission helps,   *)
(* and that the channel implements FifoChannel.                            *)
(***************************************************************************)
EXTENDS ReliableChannel, Integers, FiniteSetTheorems, SequenceTheorems, TLAPS

---------------------------------------------------------------------------
(***************************************************************************)
(* Arithmetic: what sequence numbers and windows say of packet numbers.    *)
(***************************************************************************)

\* Quotient and remainder.
LEMMA DivMod ==
  ASSUME NEW n \in Nat \ {0}, NEW a \in Nat
  PROVE  /\ a % n \in 0 .. n - 1 /\ a \div n \in Nat
         /\ a = (a \div n) * n + (a % n)
  BY Z3

LEMMA Times ==
  ASSUME NEW a \in Int, NEW b \in Int
  PROVE  a * b \in Int
  OBVIOUS

LEMMA TimesNat ==
  ASSUME NEW a \in Nat, NEW b \in Nat
  PROVE  a * b \in Nat
  BY Z3

LEMMA TimesMonotonic ==
  ASSUME NEW n \in Nat, NEW a \in Int, NEW b \in Int, a >= b + 1
  PROVE  a * n >= b * n + n
<1>1. PICK c \in Nat : a = b + 1 + c
  <2>1. a - b - 1 \in Nat OBVIOUS
  <2>2. a = b + 1 + (a - b - 1) OBVIOUS
  <2>   QED BY <2>1, <2>2
<1>2. a * n = b * n + n + c * n BY <1>1
<1>3. c * n \in Nat /\ b * n \in Int BY TimesNat, Times
<1> QED BY <1>2, <1>3

\* There is only one quotient and one remainder.
LEMMA DivUnique ==
  ASSUME NEW n \in Nat \ {0}, NEW a \in Nat, NEW q \in Int, NEW r \in 0 .. n - 1,
         a = q * n + r
  PROVE  a \div n = q /\ a % n = r
<1> DEFINE p == a \div n
           s == a % n
<1>1. p \in Nat /\ s \in 0 .. n - 1 /\ a = p * n + s BY DivMod
<1> HIDE DEF p, s
<1>2. p * n \in Int /\ q * n \in Int BY <1>1, Times
<1>3. ~(p >= q + 1)
  <2>1. p >= q + 1 => p * n >= q * n + n BY <1>1, TimesMonotonic
  <2>   QED BY <1>1, <1>2, <2>1
<1>4. ~(q >= p + 1)
  <2>1. q >= p + 1 => q * n >= p * n + n BY <1>1, TimesMonotonic
  <2>   QED BY <1>1, <1>2, <2>1
<1>5. p = q BY <1>1, <1>3, <1>4
<1>6. s = r BY <1>1, <1>2, <1>5
<1> QED BY <1>5, <1>6 DEF p, s

\* How many sequence numbers there are, and by how much a datagram may be late.
Numbers == WINDOWS * WINDOW_SIZE
Late == (FREE_WINDOWS + 1) * WINDOW_SIZE

LEMMA NumbersType ==
  /\ Numbers \in Nat \ {0} /\ Late \in Nat /\ Late < Numbers
  /\ WINDOWS \in Nat \ {0} /\ WINDOW_SIZE \in Nat \ {0}
<1> USE WindowsAssumption
<1>1. WINDOWS \in Nat \ {0} /\ WINDOW_SIZE \in Nat \ {0} OBVIOUS
<1>2. WINDOWS * WINDOW_SIZE >= Late + WINDOW_SIZE
  BY TimesMonotonic DEF Late
<1>3. Late \in Nat BY TimesNat DEF Late
<1>4. Numbers \in Nat BY TimesNat DEF Numbers
<1> QED BY <1>1, <1>2, <1>3, <1>4 DEF Numbers

\* The window i lies in when windows are counted on and on.
Block(i) == i \div WINDOW_SIZE

\* The sequence number leaves out the rounds through all the numbers, and its window
\* the rounds through all the windows.
LEMMA Parts ==
  ASSUME NEW i \in Nat
  PROVE  /\ SequenceNumber(i) \in 0 .. Numbers - 1
         /\ Window(SequenceNumber(i)) \in 0 .. WINDOWS - 1
         /\ i \div Numbers \in Nat /\ Block(i) \in Nat
         /\ i = (i \div Numbers) * Numbers + SequenceNumber(i)
         /\ Block(i) = (i \div Numbers) * WINDOWS + Window(SequenceNumber(i))
         /\ SequenceNumber(i) % WINDOW_SIZE = i % WINDOW_SIZE
<1> USE NumbersType
<1> DEFINE q == i \div Numbers
           r == i % Numbers
           w == r \div WINDOW_SIZE
           t == r % WINDOW_SIZE
<1>1. SequenceNumber(i) = r /\ Window(r) = w BY DEF SequenceNumber, Window, Numbers
<1>2. q \in Nat /\ r \in 0 .. Numbers - 1 /\ i = q * Numbers + r BY DivMod
<1> HIDE DEF q, r
<1>3. r \in Nat /\ w \in Nat /\ t \in 0 .. WINDOW_SIZE - 1 /\ r = w * WINDOW_SIZE + t
  <2>1. r \in Nat BY <1>2
  <2>   QED BY <2>1, DivMod
<1> HIDE DEF w, t
<1>4. w < WINDOWS
  <2>1. SUFFICES ASSUME w >= WINDOWS PROVE FALSE BY <1>3
  <2>2. w + 1 >= WINDOWS + 1 BY <1>3, <2>1
  <2>3. (w + 1) * WINDOW_SIZE >= WINDOWS * WINDOW_SIZE + WINDOW_SIZE
    BY <1>3, <2>2, TimesMonotonic
  <2>4. (w + 1) * WINDOW_SIZE = w * WINDOW_SIZE + WINDOW_SIZE /\ w * WINDOW_SIZE \in Int
    BY <1>3, Times
  <2>   QED BY <1>2, <1>3, <2>3, <2>4 DEF Numbers
<1>5. i = (q * WINDOWS + w) * WINDOW_SIZE + t
  <2>1. q * Numbers = (q * WINDOWS) * WINDOW_SIZE BY <1>2 DEF Numbers
  <2>2. (q * WINDOWS + w) * WINDOW_SIZE = (q * WINDOWS) * WINDOW_SIZE + w * WINDOW_SIZE
    BY <1>2, <1>3
  <2>3. q * Numbers \in Int /\ w * WINDOW_SIZE \in Int BY <1>2, <1>3, Times
  <2>   QED BY <1>2, <1>3, <2>1, <2>2, <2>3
<1>6. q * WINDOWS \in Nat BY <1>2, TimesNat
<1>7. i \div WINDOW_SIZE = q * WINDOWS + w /\ i % WINDOW_SIZE = t
  BY <1>3, <1>5, <1>6, DivUnique
<1> QED BY <1>1, <1>2, <1>3, <1>4, <1>6, <1>7 DEF Block, q, t

\* Packets that lie no more than n windows apart, and the other way round.
LEMMA BlockDistance ==
  ASSUME NEW i \in Nat, NEW j \in Nat, NEW n \in Nat
  PROVE  /\ i <= j => Block(i) <= Block(j)
         /\ j <= i + n * WINDOW_SIZE => Block(j) <= Block(i) + n
         /\ Block(j) <= Block(i) + n => j < i + (n + 1) * WINDOW_SIZE
<1> USE NumbersType
<1> DEFINE b == Block(i)
           c == Block(j)
           s == i % WINDOW_SIZE
           t == j % WINDOW_SIZE
<1>1. b \in Nat /\ s \in 0 .. WINDOW_SIZE - 1 /\ i = b * WINDOW_SIZE + s BY DivMod DEF Block
<1>2. c \in Nat /\ t \in 0 .. WINDOW_SIZE - 1 /\ j = c * WINDOW_SIZE + t BY DivMod DEF Block
<1> HIDE DEF b, c, s, t
<1>3. /\ b * WINDOW_SIZE \in Int /\ c * WINDOW_SIZE \in Int /\ n * WINDOW_SIZE \in Int
      /\ (b + n) * WINDOW_SIZE = b * WINDOW_SIZE + n * WINDOW_SIZE
      /\ (n + 1) * WINDOW_SIZE = n * WINDOW_SIZE + WINDOW_SIZE
      /\ (b + n + 1) * WINDOW_SIZE = b * WINDOW_SIZE + n * WINDOW_SIZE + WINDOW_SIZE
  <2>1. \A x \in Nat : x * WINDOW_SIZE \in Int BY Times
  <2>   QED BY <1>1, <1>2, <2>1
<1>4. b >= c + 1 => b * WINDOW_SIZE >= c * WINDOW_SIZE + WINDOW_SIZE
  BY <1>1, <1>2, TimesMonotonic
<1>5. c >= b + n + 1 => c * WINDOW_SIZE >= b * WINDOW_SIZE + n * WINDOW_SIZE + WINDOW_SIZE
  <2>1. c >= b + n + 1 => c * WINDOW_SIZE >= (b + n) * WINDOW_SIZE + WINDOW_SIZE
    BY <1>1, <1>2, TimesMonotonic
  <2>   QED BY <2>1, <1>3
<1>6. b + n + 1 >= c + 1 => (b + n + 1) * WINDOW_SIZE >= c * WINDOW_SIZE + WINDOW_SIZE
  <2>1. b + n + 1 \in Int /\ c \in Int BY <1>1, <1>2
  <2>   QED BY <2>1, TimesMonotonic
<1>7. i <= j => b <= c BY <1>1, <1>2, <1>3, <1>4
<1>8. j <= i + n * WINDOW_SIZE => c <= b + n BY <1>1, <1>2, <1>3, <1>5
<1>9. c <= b + n => j < i + (n + 1) * WINDOW_SIZE BY <1>1, <1>2, <1>3, <1>6
<1> QED BY <1>7, <1>8, <1>9 DEF b, c

\* Packets less than a round apart are told apart by their sequence numbers, and the
\* comparison with the last one says whether a round began in between.
LEMMA SameRound ==
  ASSUME NEW i \in Nat, NEW j \in Nat, i <= j, j < i + Numbers
  PROVE  \/ /\ j \div Numbers = i \div Numbers
            /\ SequenceNumber(j) - SequenceNumber(i) = j - i
         \/ /\ j \div Numbers = (i \div Numbers) + 1
            /\ SequenceNumber(j) - SequenceNumber(i) = j - i - Numbers
<1> USE NumbersType
<1> DEFINE p == i \div Numbers
           q == j \div Numbers
           r == SequenceNumber(i)
           s == SequenceNumber(j)
<1>1. p \in Nat /\ r \in 0 .. Numbers - 1 /\ i = p * Numbers + r BY Parts
<1>2. q \in Nat /\ s \in 0 .. Numbers - 1 /\ j = q * Numbers + s BY Parts
<1> HIDE DEF p, q, r, s
<1>3. p * Numbers \in Int /\ q * Numbers \in Int BY <1>1, <1>2, Times
<1>4. ~(p >= q + 1)
  <2>1. p >= q + 1 => p * Numbers >= q * Numbers + Numbers BY <1>1, <1>2, TimesMonotonic
  <2>   QED BY <1>1, <1>2, <1>3, <2>1
<1>5. ~(q >= p + 2)
  <2>1. q >= (p + 1) + 1 => q * Numbers >= (p + 1) * Numbers + Numbers
    BY <1>1, <1>2, TimesMonotonic
  <2>2. (p + 1) * Numbers = p * Numbers + Numbers BY <1>1
  <2>   QED BY <1>1, <1>2, <1>3, <2>1, <2>2
<1>6. q = p \/ q = p + 1 BY <1>1, <1>2, <1>4, <1>5
<1>7. CASE q = p BY <1>1, <1>2, <1>3, <1>7 DEF p, q, r, s
<1>8. CASE q = p + 1
  <2>1. q * Numbers = p * Numbers + Numbers BY <1>1, <1>8
  <2>2. s - r = j - i - Numbers BY <1>1, <1>2, <1>3, <2>1
  <2>   QED BY <1>8, <2>2 DEF p, q, r, s
<1> QED BY <1>6, <1>7, <1>8

LEMMA NumbersDistinct ==
  ASSUME NEW i \in Nat, NEW j \in Nat, i < j + Numbers, j < i + Numbers,
         SequenceNumber(i) = SequenceNumber(j)
  PROVE  i = j
<1>1. SequenceNumber(i) \in Int BY Parts, NumbersType
<1>2. CASE i <= j BY <1>1, <1>2, SameRound, NumbersType
<1>3. CASE j <= i BY <1>1, <1>3, SameRound, NumbersType
<1> QED BY <1>2, <1>3

\* What the receiver takes a packet for that is as new as the last one or newer ...
LEMMA Ahead ==
  ASSUME NEW i \in Nat, NEW last \in Nat, last <= i, i < last + Numbers
  PROVE  RelativeWindow(SequenceNumber(i), SequenceNumber(last))
           = Window(SequenceNumber(last)) + (Block(i) - Block(last))
<1> DEFINE q == i \div Numbers
           p == last \div Numbers
           r == SequenceNumber(i)
           s == SequenceNumber(last)
           v == Window(r)
           w == Window(s)
<1>1. r \in Nat /\ v \in Nat /\ q \in Nat /\ Block(i) = q * WINDOWS + v BY Parts
<1>2. s \in Nat /\ w \in Nat /\ p \in Nat /\ Block(last) = p * WINDOWS + w BY Parts
<1>3. \/ q = p /\ r - s = i - last
      \/ q = p + 1 /\ r - s = i - last - Numbers
  BY SameRound
<1>4. RelativeWindow(r, s) = v + (IF r < s THEN WINDOWS ELSE 0) BY DEF RelativeWindow
<1> HIDE DEF p, q, r, s, v, w
<1>5. q * WINDOWS \in Int /\ p * WINDOWS \in Int BY <1>1, <1>2, NumbersType, Times
<1>6. CASE q = p /\ r - s = i - last BY <1>1, <1>2, <1>4, <1>5, <1>6 DEF p, q, r, s, v, w
<1>7. CASE q = p + 1 /\ r - s = i - last - Numbers
  <2>1. q * WINDOWS = p * WINDOWS + WINDOWS BY <1>2, <1>7, NumbersType
  <2>2. r < s BY <1>1, <1>2, <1>7, NumbersType
  <2>3. RelativeWindow(r, s) = w + (Block(i) - Block(last))
    BY <1>1, <1>2, <1>4, <1>5, <2>1, <2>2, NumbersType
  <2>   QED BY <2>3 DEF r, s, w
<1> QED BY <1>3, <1>6, <1>7

\* ... and one that is older.
LEMMA Behind ==
  ASSUME NEW i \in Nat, NEW last \in Nat, i < last, last < i + Numbers
  PROVE  RelativeWindow(SequenceNumber(i), SequenceNumber(last))
           = Window(SequenceNumber(last)) + WINDOWS - (Block(last) - Block(i))
<1> DEFINE q == i \div Numbers
           p == last \div Numbers
           r == SequenceNumber(i)
           s == SequenceNumber(last)
           v == Window(r)
           w == Window(s)
<1>1. r \in Nat /\ v \in Nat /\ q \in Nat /\ Block(i) = q * WINDOWS + v BY Parts
<1>2. s \in Nat /\ w \in Nat /\ p \in Nat /\ Block(last) = p * WINDOWS + w BY Parts
<1>3. \/ p = q /\ s - r = last - i
      \/ p = q + 1 /\ s - r = last - i - Numbers
  BY SameRound
<1>4. RelativeWindow(r, s) = v + (IF r < s THEN WINDOWS ELSE 0) BY DEF RelativeWindow
<1> HIDE DEF p, q, r, s, v, w
<1>5. q * WINDOWS \in Int /\ p * WINDOWS \in Int BY <1>1, <1>2, NumbersType, Times
<1>6. CASE p = q /\ s - r = last - i
  <2>1. r < s BY <1>1, <1>2, <1>6
  <2>2. RelativeWindow(r, s) = w + WINDOWS - (Block(last) - Block(i))
    BY <1>1, <1>2, <1>4, <1>5, <1>6, <2>1, NumbersType
  <2>   QED BY <2>2 DEF r, s, w
<1>7. CASE p = q + 1 /\ s - r = last - i - Numbers
  <2>1. p * WINDOWS = q * WINDOWS + WINDOWS BY <1>1, <1>7, NumbersType
  <2>2. ~(r < s) BY <1>1, <1>2, <1>7, NumbersType
  <2>3. RelativeWindow(r, s) = w + WINDOWS - (Block(last) - Block(i))
    BY <1>1, <1>2, <1>4, <1>5, <2>1, <2>2, NumbersType
  <2>   QED BY <2>3 DEF r, s, w
<1> QED BY <1>3, <1>6, <1>7

---------------------------------------------------------------------------
(***************************************************************************)
(* Sequences: an element taken out, and the elements at some positions.    *)
(***************************************************************************)

\* No element comes twice.
Distinct(s) == \A k, l \in 1 .. Len(s) : s[k] = s[l] => k = l

LEMMA ElementsOf ==
  ASSUME NEW A, NEW s \in Seq(A)
  PROVE  /\ DOMAIN s = 1 .. Len(s) /\ Len(s) \in Nat
         /\ ToSet(s) = {s[k] : k \in 1 .. Len(s)}
         /\ ToSet(s) \subseteq A
         /\ \A k \in 1 .. Len(s) : s[k] \in A /\ s[k] \in ToSet(s)
  BY DEF ToSet

LEMMA IntervalCount ==
  ASSUME NEW n \in Nat
  PROVE  /\ IsFiniteSet(1 .. n) /\ Cardinality(1 .. n) = n
         /\ IsFiniteSet(0 .. n - 1) /\ Cardinality(0 .. n - 1) = n
<1>1. 0 \in Int /\ 1 \in Int /\ n \in Int /\ n - 1 \in Int OBVIOUS
<1>2. /\ IsFiniteSet(1 .. n)
      /\ Cardinality(1 .. n) = IF 1 > n THEN 0 ELSE n - 1 + 1
  BY <1>1, FS_Interval, Zenon
<1>3. /\ IsFiniteSet(0 .. n - 1)
      /\ Cardinality(0 .. n - 1) = IF 0 > n - 1 THEN 0 ELSE n - 1 - 0 + 1
  BY <1>1, FS_Interval, Zenon
<1> QED BY <1>2, <1>3

LEMMA DistinctCount ==
  ASSUME NEW A, NEW s \in Seq(A), Distinct(s)
  PROVE  Len(s) = Cardinality(ToSet(s))
<1>1. Len(s) \in Nat /\ s \in [1 .. Len(s) -> ToSet(s)] /\ ToSet(s) = {s[k] : k \in 1 .. Len(s)}
  BY ElementsOf
<1>2. s \in Surjection(1 .. Len(s), ToSet(s)) BY <1>1 DEF Surjection
<1>3. s \in Injection(1 .. Len(s), ToSet(s)) BY <1>1 DEF Injection, IsInjective, Distinct
<1>4. IsFiniteSet(1 .. Len(s)) /\ Cardinality(1 .. Len(s)) = Len(s) BY <1>1, IntervalCount
<1> QED BY <1>2, <1>3, <1>4, FS_Surjection

LEMMA Concatenated ==
  ASSUME NEW A, NEW s \in Seq(A), NEW t \in Seq(A)
  PROVE  /\ s \o t \in Seq(A) /\ Len(s \o t) = Len(s) + Len(t)
         /\ Len(s) \in Nat /\ Len(t) \in Nat
         /\ \A k \in 1 .. Len(s) : (s \o t)[k] = s[k]
         /\ \A k \in 1 .. Len(t) : (s \o t)[Len(s) + k] = t[k]
         /\ ToSet(s \o t) = ToSet(s) \cup ToSet(t)
         /\ Distinct(s) /\ Distinct(t) /\ ToSet(s) \cap ToSet(t) = {} => Distinct(s \o t)
<1> DEFINE u == s \o t
<1>1. /\ u \in Seq(A) /\ Len(u) = Len(s) + Len(t)
      /\ \A k \in 1 .. Len(s) + Len(t) : u[k] = IF k <= Len(s) THEN s[k] ELSE t[k - Len(s)]
  BY ConcatProperties
<1>2. Len(s) \in Nat /\ Len(t) \in Nat OBVIOUS
<1>3. /\ ToSet(s) = {s[k] : k \in 1 .. Len(s)} /\ ToSet(t) = {t[k] : k \in 1 .. Len(t)}
      /\ ToSet(u) = {u[k] : k \in 1 .. Len(u)}
  BY <1>1, ElementsOf
<1> HIDE DEF u
<1>4. /\ \A k \in 1 .. Len(s) : k \in 1 .. Len(u) /\ u[k] = s[k]
      /\ \A k \in 1 .. Len(t) : Len(s) + k \in 1 .. Len(u) /\ u[Len(s) + k] = t[k]
  <2>1. \A k \in 1 .. Len(s) : k \in 1 .. Len(u) /\ u[k] = s[k] BY <1>1, <1>2
  <2>2. ASSUME NEW k \in 1 .. Len(t)
        PROVE  Len(s) + k \in 1 .. Len(u) /\ u[Len(s) + k] = t[k]
    <3>1. Len(s) + k \in 1 .. Len(u) /\ ~(Len(s) + k <= Len(s)) BY <1>1, <1>2
    <3>2. (Len(s) + k) - Len(s) = k BY <1>2
    <3>   QED BY <1>1, <3>1, <3>2
  <2>   QED BY <2>1, <2>2
<1>5. \A k \in 1 .. Len(u) : \/ k \in 1 .. Len(s)
                             \/ k - Len(s) \in 1 .. Len(t) /\ Len(s) + (k - Len(s)) = k
  BY <1>1, <1>2
<1>6. ToSet(u) \subseteq ToSet(s) \cup ToSet(t)
  <2>1. SUFFICES ASSUME NEW k \in 1 .. Len(u) PROVE u[k] \in ToSet(s) \cup ToSet(t) BY <1>3
  <2>2. CASE k \in 1 .. Len(s) BY <1>3, <1>4, <2>2
  <2>3. CASE k - Len(s) \in 1 .. Len(t) /\ Len(s) + (k - Len(s)) = k
    <3>1. u[k] = t[k - Len(s)] BY <1>4, <2>3
    <3>   QED BY <1>3, <2>3, <3>1
  <2>   QED BY <1>5, <2>2, <2>3
<1>7. ToSet(s) \subseteq ToSet(u) /\ ToSet(t) \subseteq ToSet(u) BY <1>3, <1>4
<1>8. ASSUME Distinct(s), Distinct(t), ToSet(s) \cap ToSet(t) = {} PROVE Distinct(u)
  <2>1. SUFFICES ASSUME NEW k \in 1 .. Len(u), NEW l \in 1 .. Len(u), u[k] = u[l]
                 PROVE  k = l
    BY DEF Distinct
  <2>2. CASE k \in 1 .. Len(s) /\ l \in 1 .. Len(s) BY <1>4, <1>8, <2>1, <2>2 DEF Distinct
  <2>3. CASE k \in 1 .. Len(s) /\ l \notin 1 .. Len(s)
    <3>1. u[k] \in ToSet(s) BY <1>3, <1>4, <2>3
    <3>2. u[l] \in ToSet(t) BY <1>3, <1>4, <1>5, <2>3
    <3>   QED BY <1>8, <2>1, <3>1, <3>2
  <2>4. CASE k \notin 1 .. Len(s) /\ l \in 1 .. Len(s)
    <3>1. u[l] \in ToSet(s) BY <1>3, <1>4, <2>4
    <3>2. u[k] \in ToSet(t) BY <1>3, <1>4, <1>5, <2>4
    <3>   QED BY <1>8, <2>1, <3>1, <3>2
  <2>5. CASE k \notin 1 .. Len(s) /\ l \notin 1 .. Len(s)
    <3>1. /\ k - Len(s) \in 1 .. Len(t) /\ Len(s) + (k - Len(s)) = k
          /\ l - Len(s) \in 1 .. Len(t) /\ Len(s) + (l - Len(s)) = l
      BY <1>5, <2>5
    <3>2. u[k] = t[k - Len(s)] /\ u[l] = t[l - Len(s)] BY <1>4, <3>1
    <3>3. k - Len(s) = l - Len(s) BY <1>8, <2>1, <3>1, <3>2 DEF Distinct
    <3>   QED BY <1>2, <3>3
  <2>   QED BY <2>2, <2>3, <2>4, <2>5
<1> QED BY <1>1, <1>2, <1>4, <1>6, <1>7, <1>8 DEF u

LEMMA Appended ==
  ASSUME NEW A, NEW s \in Seq(A), NEW x \in A
  PROVE  /\ Append(s, x) \in Seq(A) /\ Len(Append(s, x)) = Len(s) + 1
         /\ \A k \in 1 .. Len(s) : Append(s, x)[k] = s[k]
         /\ Append(s, x)[Len(s) + 1] = x
         /\ ToSet(Append(s, x)) = ToSet(s) \cup {x}
         /\ Distinct(s) /\ x \notin ToSet(s) => Distinct(Append(s, x))
<1>1. <<x>> \in Seq(A) /\ Len(<<x>>) = 1 /\ <<x>>[1] = x OBVIOUS
<1>2. ToSet(<<x>>) = {x} BY <1>1 DEF ToSet
<1>3. Distinct(<<x>>) BY <1>1 DEF Distinct
<1>4. Append(s, x) = s \o <<x>> BY AppendIsConcat
<1> DEFINE t == <<x>>
<1>8. t \in Seq(A) BY <1>1
<1> HIDE DEF t
<1>5. /\ s \o t \in Seq(A) /\ Len(s \o t) = Len(s) + Len(t)
      /\ \A k \in 1 .. Len(s) : (s \o t)[k] = s[k]
      /\ \A k \in 1 .. Len(t) : (s \o t)[Len(s) + k] = t[k]
      /\ ToSet(s \o t) = ToSet(s) \cup ToSet(t)
      /\ Distinct(s) /\ Distinct(t) /\ ToSet(s) \cap ToSet(t) = {} => Distinct(s \o t)
  BY <1>8, Concatenated
<1>6. Len(t) = 1 /\ t[1] = x /\ ToSet(t) = {x} /\ Distinct(t) /\ Append(s, x) = s \o t
  BY <1>1, <1>2, <1>3, <1>4 DEF t
<1>7. (s \o t)[Len(s) + 1] = x BY <1>5, <1>6
<1> QED BY <1>5, <1>6, <1>7

LEMMA TailElements ==
  ASSUME NEW A, NEW s \in Seq(A), s # <<>>, Distinct(s)
  PROVE  /\ Tail(s) \in Seq(A) /\ Len(Tail(s)) = Len(s) - 1 /\ Len(s) \in Nat \ {0}
         /\ \A k \in 1 .. Len(s) - 1 : Tail(s)[k] = s[k + 1]
         /\ Distinct(Tail(s))
         /\ Head(s) = s[1] /\ s[1] \in A
         /\ s[1] \notin ToSet(Tail(s)) /\ ToSet(s) = ToSet(Tail(s)) \cup {s[1]}
<1>1. /\ Tail(s) \in Seq(A) /\ Len(Tail(s)) = Len(s) - 1 /\ Len(s) \in Nat \ {0}
      /\ \A k \in 1 .. Len(s) - 1 : Tail(s)[k] = s[k + 1]
      /\ Head(s) = s[1]
  BY HeadTailProperties
<1> DEFINE t == Tail(s)
<1>2. /\ t \in Seq(A) /\ Len(t) = Len(s) - 1
      /\ \A k \in 1 .. Len(s) - 1 : t[k] = s[k + 1]
  BY <1>1
<1> HIDE DEF t
<1>3. /\ \A k \in 1 .. Len(s) : s[k] \in A
      /\ ToSet(s) = {s[k] : k \in 1 .. Len(s)} /\ ToSet(t) = {t[k] : k \in 1 .. Len(t)}
  BY <1>2, ElementsOf
<1>4. Distinct(t) BY <1>1, <1>2 DEF Distinct
<1>5. s[1] \notin ToSet(t)
  <2>1. ASSUME NEW k \in 1 .. Len(t) PROVE t[k] # s[1]
    <3>1. t[k] = s[k + 1] /\ k + 1 \in 1 .. Len(s) /\ k + 1 # 1 /\ 1 \in 1 .. Len(s)
      BY <1>1, <1>2
    <3>   QED BY <3>1 DEF Distinct
  <2>   QED BY <1>3, <2>1
<1>6. ToSet(t) \subseteq ToSet(s)
  <2>1. \A k \in 1 .. Len(t) : k + 1 \in 1 .. Len(s) /\ t[k] = s[k + 1] BY <1>1, <1>2
  <2>   QED BY <1>3, <2>1
<1>7. s[1] \in ToSet(s) BY <1>1, <1>3
<1>8. \A k \in 1 .. Len(s) : k = 1 \/ (k - 1 \in 1 .. Len(t) /\ t[k - 1] = s[k])
  <2>1. ASSUME NEW k \in 1 .. Len(s), k # 1 PROVE k - 1 \in 1 .. Len(t) /\ t[k - 1] = s[k]
    <3>1. k - 1 \in 1 .. Len(s) - 1 /\ (k - 1) + 1 = k BY <1>1, <2>1
    <3>   QED BY <1>2, <3>1
  <2>   QED BY <2>1
<1>9. ToSet(s) \subseteq ToSet(t) \cup {s[1]} BY <1>3, <1>8
<1> QED BY <1>1, <1>3, <1>4, <1>5, <1>6, <1>7, <1>9 DEF t

LEMMA Removed ==
  ASSUME NEW A, NEW s \in Seq(A), NEW k \in 1 .. Len(s)
  PROVE  /\ RemoveAt(s, k) \in Seq(A)
         /\ Len(RemoveAt(s, k)) = Len(s) - 1
         /\ \A m \in 1 .. Len(s) - 1 : RemoveAt(s, k)[m] = IF m < k THEN s[m] ELSE s[m + 1]
<1> DEFINE a == SubSeq(s, 1, k - 1)
           b == SubSeq(s, k + 1, Len(s))
<1>1. a \in Seq(A) /\ Len(a) = k - 1 /\ \A m \in 1 .. k - 1 : a[m] = s[m]
  BY SubSeqProperties
<1>2. b \in Seq(A) /\ Len(b) = Len(s) - k /\ \A m \in 1 .. Len(s) - k : b[m] = s[m + k]
  BY SubSeqProperties
<1>3. RemoveAt(s, k) = a \o b BY DEF RemoveAt
<1> HIDE DEF a, b
<1>4. /\ a \o b \in Seq(A) /\ Len(a \o b) = Len(a) + Len(b)
      /\ \A m \in 1 .. Len(a) + Len(b) :
           (a \o b)[m] = IF m <= Len(a) THEN a[m] ELSE b[m - Len(a)]
  BY <1>1, <1>2, ConcatProperties
<1>5. Len(s) \in Nat OBVIOUS
<1>6. ASSUME NEW m \in 1 .. Len(s) - 1
      PROVE  (a \o b)[m] = IF m < k THEN s[m] ELSE s[m + 1]
  <2>1. CASE m < k BY <1>1, <1>2, <1>4, <1>5, <2>1
  <2>2. CASE ~(m < k)
    <3>1. m - (k - 1) \in 1 .. Len(s) - k BY <1>5, <2>2
    <3>2. (a \o b)[m] = b[m - (k - 1)] BY <1>1, <1>2, <1>4, <1>5, <2>2
    <3>3. b[m - (k - 1)] = s[(m - (k - 1)) + k] BY <1>2, <3>1
    <3>4. (m - (k - 1)) + k = m + 1 BY <1>5
    <3>   QED BY <2>2, <3>2, <3>3, <3>4
  <2>   QED BY <2>1, <2>2
<1> QED BY <1>1, <1>2, <1>3, <1>4, <1>5, <1>6

LEMMA RemovedElements ==
  ASSUME NEW A, NEW s \in Seq(A), Distinct(s), NEW k \in 1 .. Len(s)
  PROVE  /\ Distinct(RemoveAt(s, k))
         /\ ToSet(RemoveAt(s, k)) = ToSet(s) \ {s[k]}
<1> DEFINE t == RemoveAt(s, k)
<1>1. /\ t \in Seq(A) /\ Len(t) = Len(s) - 1
      /\ \A m \in 1 .. Len(s) - 1 : t[m] = IF m < k THEN s[m] ELSE s[m + 1]
  BY Removed
<1> HIDE DEF t
<1>2. Len(s) \in Nat OBVIOUS
<1>3. Distinct(t) BY <1>1, <1>2 DEF Distinct
<1>4. ASSUME NEW x \in ToSet(t) PROVE x \in ToSet(s) \ {s[k]}
  <2>1. PICK m \in 1 .. Len(t) : t[m] = x BY <1>1, ElementsOf
  <2>2. CASE m < k BY <1>1, <1>2, <2>1, <2>2, ElementsOf DEF Distinct
  <2>3. CASE ~(m < k)
    <3>1. m + 1 \in 1 .. Len(s) /\ m + 1 # k /\ s[m + 1] = x BY <1>1, <1>2, <2>1, <2>3
    <3>   QED BY <3>1, ElementsOf DEF Distinct
  <2>   QED BY <2>2, <2>3
<1>5. ASSUME NEW x \in ToSet(s), x # s[k] PROVE x \in ToSet(t)
  <2>1. PICK m \in 1 .. Len(s) : s[m] = x BY ElementsOf
  <2>2. m # k BY <1>5, <2>1
  <2>3. CASE m < k
    <3>1. m \in 1 .. Len(t) /\ t[m] = x BY <1>1, <1>2, <2>1, <2>3
    <3>   QED BY <1>1, <3>1, ElementsOf
  <2>4. CASE m > k
    <3>1. m - 1 \in 1 .. Len(t) /\ t[m - 1] = x BY <1>1, <1>2, <2>1, <2>4
    <3>   QED BY <1>1, <3>1, ElementsOf
  <2>   QED BY <1>2, <2>2, <2>3, <2>4
<1> QED BY <1>3, <1>4, <1>5 DEF t

\* The positions of K, numbered in their order.
Rank(K, k) == Cardinality({j \in K : j < k})

LEMMA RankOnto ==
  ASSUME NEW K, IsFiniteSet(K), K \subseteq Nat
  PROVE  /\ Cardinality(K) \in Nat
         /\ \A k \in K : Rank(K, k) \in 0 .. Cardinality(K) - 1
         /\ \A k, l \in K : Rank(K, k) = Rank(K, l) => k = l
         /\ \A n \in 0 .. Cardinality(K) - 1 : \E k \in K : Rank(K, k) = n
<1> DEFINE c == Cardinality(K)
           below(k) == {j \in K : j < k}
<1>1. c \in Nat BY FS_CardinalityType
<1>2. ASSUME NEW k \in K
      PROVE  IsFiniteSet(below(k)) /\ Rank(K, k) \in 0 .. c - 1
  <2>1. IsFiniteSet(below(k)) BY FS_Subset
  <2>2. Cardinality(below(k) \cup {k}) = Cardinality(below(k)) + 1
    BY <2>1, FS_AddElement
  <2>3. Cardinality(below(k) \cup {k}) <= c BY FS_Subset
  <2>4. Cardinality(below(k)) \in Nat BY <2>1, FS_CardinalityType
  <2>   QED BY <1>1, <2>1, <2>2, <2>3, <2>4 DEF Rank
<1>3. ASSUME NEW k \in K, NEW l \in K, k < l PROVE Rank(K, k) < Rank(K, l)
  <2>1. IsFiniteSet(below(k)) /\ IsFiniteSet(below(l)) BY <1>2
  <2>2. Cardinality(below(k) \cup {k}) = Cardinality(below(k)) + 1
    <3>1. k \notin below(k) OBVIOUS
    <3>   QED BY <2>1, <3>1, FS_AddElement
  <2>3. below(k) \cup {k} \in SUBSET below(l)
    <3>1. \A j \in K : j < k => j < l BY <1>3
    <3>   QED BY <1>3, <3>1
  <2>4. Cardinality(below(k) \cup {k}) <= Cardinality(below(l)) BY <2>1, <2>3, FS_Subset
  <2>5. Rank(K, k) = Cardinality(below(k)) /\ Rank(K, l) = Cardinality(below(l)) BY DEF Rank
  <2>6. Rank(K, k) \in 0 .. c - 1 /\ Rank(K, l) \in 0 .. c - 1 BY <1>2
  <2>   QED BY <1>1, <2>2, <2>4, <2>5, <2>6
<1>4. ASSUME NEW k \in K, NEW l \in K, Rank(K, k) = Rank(K, l) PROVE k = l
  <2>1. Rank(K, k) \in 0 .. c - 1 /\ Rank(K, l) \in 0 .. c - 1 BY <1>2
  <2>2. ~(Rank(K, k) < Rank(K, l)) /\ ~(Rank(K, l) < Rank(K, k)) BY <1>1, <1>4, <2>1
  <2>   QED BY <1>3, <2>2
<1> HIDE DEF below, c
<1> DEFINE f == [k \in K |-> Rank(K, k)]
<1>5. f \in Injection(K, 0 .. c - 1) BY <1>2, <1>4 DEF Injection, IsInjective
<1>6. IsFiniteSet(0 .. c - 1) /\ Cardinality(0 .. c - 1) = c BY <1>1, IntervalCount
<1>7. f \in Surjection(K, 0 .. c - 1)
  <2>1. Cardinality(K) = Cardinality(0 .. c - 1) BY <1>6 DEF c
  <2>   QED BY <1>5, <1>6, <2>1, FS_Injection
<1>8. \A n \in 0 .. c - 1 : \E k \in K : Rank(K, k) = n BY <1>7 DEF Surjection
<1> QED BY <1>1, <1>2, <1>4, <1>8 DEF c

LEMMA Picked ==
  ASSUME NEW A, NEW s \in Seq(A), NEW K \in SUBSET (1 .. Len(s))
  PROVE  /\ Pick(s, K) \in Seq(A)
         /\ ToSet(Pick(s, K)) = {s[k] : k \in K}
         /\ Distinct(s) => Distinct(Pick(s, K))
<1> DEFINE c == Cardinality(K)
           at(n) == CHOOSE k \in K : Rank(K, k) = n - 1
           t == Pick(s, K)
<1>1. IsFiniteSet(K) /\ K \subseteq Nat
  <2>1. Len(s) \in Nat OBVIOUS
  <2>2. IsFiniteSet(1 .. Len(s)) BY <2>1, IntervalCount
  <2>3. IsFiniteSet(K) BY <2>2, FS_Subset
  <2>   QED BY <2>1, <2>3
<1>2. c \in Nat BY <1>1, RankOnto
<1>3. ASSUME NEW n \in 1 .. c PROVE at(n) \in K /\ Rank(K, at(n)) = n - 1
  <2>1. n - 1 \in 0 .. c - 1 BY <1>2
  <2>2. \E k \in K : Rank(K, k) = n - 1 BY <1>1, <2>1, RankOnto
  <2>   QED BY <2>2
<1>4. t = [n \in 1 .. c |-> s[at(n)]] BY DEF Pick, Rank
<1>5. \A k \in K : s[k] \in A BY ElementsOf
<1> HIDE DEF c, at, t
<1>6. t \in Seq(A) /\ Len(t) = c
  <2>1. \A n \in 1 .. c : s[at(n)] \in A BY <1>3, <1>5
  <2>2. t \in [1 .. c -> A] BY <1>4, <2>1
  <2>   QED BY <1>2, <2>2
<1>7. ToSet(t) = {s[k] : k \in K}
  <2>1. ToSet(t) = {t[n] : n \in 1 .. c} BY <1>6, ElementsOf
  <2>2. ASSUME NEW k \in K PROVE \E n \in 1 .. c : at(n) = k
    <3>1. Rank(K, k) \in 0 .. c - 1 BY <1>1, RankOnto DEF c
    <3>2. Rank(K, k) + 1 \in 1 .. c BY <1>2, <3>1
    <3>3. Rank(K, at(Rank(K, k) + 1)) = Rank(K, k) /\ at(Rank(K, k) + 1) \in K
      BY <1>3, <3>1, <3>2
    <3>4. at(Rank(K, k) + 1) = k BY <1>1, <3>3, RankOnto
    <3>   QED BY <3>2, <3>4
  <2>   QED BY <1>3, <1>4, <2>1, <2>2
<1>8. ASSUME Distinct(s) PROVE Distinct(t)
  <2>1. SUFFICES ASSUME NEW m \in 1 .. c, NEW n \in 1 .. c, t[m] = t[n] PROVE m = n
    BY <1>6 DEF Distinct
  <2>2. s[at(m)] = s[at(n)] BY <1>4, <2>1
  <2>3. at(m) = at(n) BY <1>3, <1>8, <2>2 DEF Distinct
  <2>4. m - 1 = n - 1 BY <1>3, <2>3
  <2>   QED BY <1>2, <2>4
<1> QED BY <1>6, <1>7, <1>8 DEF t

---------------------------------------------------------------------------
(***************************************************************************)
(* The invariant, where h packets have been sent at least once: all that   *)
(* is unacknowledged lies within FREE_WINDOWS - 1 windows, and so does     *)
(* what the receiver has to tell apart.                                    *)
(***************************************************************************)

\* How many packets wait to be sent again.
Again(h) == Len(outgoing) - (sent - h)

\* Packets to be sent again come first, then those never sent, in order.
NewComeLast(h) ==
  /\ Again(h) \in Nat
  /\ \A m \in 1 .. Len(outgoing) :
       IF m <= Again(h) THEN outgoing[m] \in tried
                        ELSE outgoing[m] = h + (m - Again(h))

ListsInv(h) ==
  /\ Distinct(outgoing) /\ Distinct(inTransit)
  /\ ToSet(outgoing) \cap ToSet(inTransit) = {}
  /\ ToSet(inTransit) \subseteq tried
  /\ tried \subseteq ToSet(outgoing) \cup ToSet(inTransit)
  /\ tried \subseteq 1 .. h
  /\ NewComeLast(h)

InWindow(w) == {i \in tried : Window(SequenceNumber(i)) = w}

WindowsInv(h) ==
  /\ \A w \in 0 .. WINDOWS - 1 : reliableWindows[w] = Cardinality(InWindow(w))
  /\ \A i \in tried : Block(h) <= Block(i) + (FREE_WINDOWS - 2)

\* What the receiver has.
Arrived == (1 .. Len(delivered)) \cup queue

\* No datagram is too late, and the receiver has what it has acknowledged.
NetworkInv(h) ==
  /\ \A i \in net \cup acks : i <= h /\ h <= i + Late
  /\ acks \subseteq Arrived

\* Whatever was sent has arrived or is still unacknowledged.
ReceiverInv(h) ==
  /\ Len(delivered) <= h
  /\ \A k \in 1 .. Len(delivered) : delivered[k] = k
  /\ incoming = SequenceNumber(Len(delivered))
  /\ \A i \in queue : Len(delivered) + 1 < i /\ i <= h
  /\ 1 .. h \subseteq Arrived \cup tried

ChannelInv(h) ==
  /\ h \in 0 .. sent
  /\ ListsInv(h) /\ WindowsInv(h) /\ NetworkInv(h) /\ ReceiverInv(h)

IInv == TypeOK /\ \E h \in 0 .. sent : ChannelInv(h)

LEMMA InvInit == Init => IInv
<1> SUFFICES ASSUME Init PROVE IInv OBVIOUS
<1> USE WindowsAssumption, BoundsAssumption DEF Init
<1>1. TypeOK
  <2>1. 0 \in 0 .. WINDOWS * WINDOW_SIZE - 1 BY NumbersType DEF Numbers
  <2>   QED BY <2>1 DEF TypeOK, Packets
<1>2. ListsInv(0) BY DEF ListsInv, NewComeLast, Again, Distinct, ToSet
<1>3. WindowsInv(0)
  <2>1. \A w : InWindow(w) = {} BY DEF InWindow
  <2>   QED BY <2>1, FS_EmptySet DEF WindowsInv
<1>4. NetworkInv(0) BY DEF NetworkInv
<1>5. ReceiverInv(0)
  <2>1. SequenceNumber(0) = 0 BY NumbersType, DivUnique DEF SequenceNumber, Numbers
  <2>   QED BY <2>1 DEF ReceiverInv
<1> QED BY <1>1, <1>2, <1>3, <1>4, <1>5 DEF IInv, ChannelInv

\* Types that follow from the bounds.
LEMMA Bounded ==
  ASSUME TypeOK, NEW h \in 0 .. sent, ListsInv(h)
  PROVE  /\ sent \in Nat /\ h \in Nat
         /\ \A m \in 1 .. Len(outgoing) : outgoing[m] \in 1 .. sent
         /\ ToSet(outgoing) \subseteq 1 .. sent /\ ToSet(inTransit) \subseteq 1 .. sent
         /\ Len(outgoing) \in Nat /\ Len(inTransit) \in Nat
         /\ Again(h) \in Nat /\ Len(outgoing) = Again(h) + (sent - h)
<1> USE DEF TypeOK
<1>1. sent \in Nat /\ h \in Nat BY BoundsAssumption
<1>2. Len(outgoing) \in Nat /\ Len(inTransit) \in Nat OBVIOUS
<1>3. Again(h) \in Nat /\ Len(outgoing) = Again(h) + (sent - h)
  BY <1>1, <1>2 DEF ListsInv, NewComeLast, Again
<1>4. ASSUME NEW m \in 1 .. Len(outgoing) PROVE outgoing[m] \in 1 .. sent
  <2>1. CASE m <= Again(h)
    <3>1. outgoing[m] \in 1 .. h BY <2>1 DEF ListsInv, NewComeLast
    <3>   QED BY <1>1, <3>1
  <2>2. CASE ~(m <= Again(h))
    <3>1. outgoing[m] = h + (m - Again(h)) BY <2>2 DEF ListsInv, NewComeLast
    <3>   QED BY <1>1, <1>2, <1>3, <2>2, <3>1
  <2>   QED BY <2>1, <2>2
<1>5. ToSet(outgoing) \subseteq 1 .. sent BY <1>4, ElementsOf
<1>6. ToSet(inTransit) \subseteq 1 .. sent
  <2>1. ToSet(inTransit) \subseteq 1 .. h BY DEF ListsInv
  <2>   QED BY <1>1, <2>1
<1> QED BY <1>1, <1>2, <1>3, <1>4, <1>5, <1>6

LEMMA SendInv ==
  ASSUME TypeOK, NEW h \in 0 .. sent, ChannelInv(h), Send
  PROVE  TypeOK' /\ h \in 0 .. sent' /\ ChannelInv(h)'
<1> USE BoundsAssumption DEF Send, senderVars, receiverVars
<1>1. ListsInv(h) BY DEF ChannelInv
<1>2. /\ sent \in Nat /\ h \in Nat /\ sent' = sent + 1 /\ sent + 1 \in Packets
      /\ outgoing \in Seq(Packets) /\ inTransit' = inTransit /\ tried' = tried
  BY <1>1, Bounded DEF TypeOK, Packets
<1>3. /\ outgoing' \in Seq(Packets) /\ Len(outgoing') = Len(outgoing) + 1
      /\ \A m \in 1 .. Len(outgoing) : outgoing'[m] = outgoing[m]
      /\ outgoing'[Len(outgoing) + 1] = sent + 1
  BY <1>2, Appended
<1>4. /\ Len(outgoing) \in Nat /\ Again(h) \in Nat /\ Len(outgoing) = Again(h) + (sent - h)
      /\ \A m \in 1 .. Len(outgoing) : outgoing[m] \in 1 .. sent
      /\ ToSet(outgoing) \subseteq 1 .. sent /\ ToSet(inTransit) \subseteq 1 .. sent
  BY <1>1, Bounded
<1>5. TypeOK' BY <1>2, <1>3 DEF TypeOK
<1>6. ToSet(outgoing') = ToSet(outgoing) \cup {sent + 1} BY <1>2, Appended
<1>7. Distinct(outgoing')
  <2>1. Distinct(outgoing) /\ sent + 1 \notin ToSet(outgoing) BY <1>1, <1>2, <1>4 DEF ListsInv
  <2>   QED BY <1>2, <2>1, Appended
<1>8. NewComeLast(h)'
  <2>1. Again(h)' = Again(h) BY <1>2, <1>3, <1>4 DEF Again
  <2>2. ASSUME NEW m \in 1 .. Len(outgoing')
        PROVE  IF m <= Again(h) THEN outgoing'[m] \in tried
                                ELSE outgoing'[m] = h + (m - Again(h))
    <3>1. CASE m \in 1 .. Len(outgoing)
      BY <1>1, <1>3, <3>1 DEF ListsInv, NewComeLast
    <3>2. CASE m = Len(outgoing) + 1 BY <1>2, <1>3, <1>4, <3>2
    <3>   QED BY <1>3, <1>4, <3>1, <3>2
  <2>   QED BY <1>2, <1>4, <2>1, <2>2 DEF NewComeLast
<1>9. ListsInv(h)'
  <2>1. sent + 1 \notin ToSet(inTransit) BY <1>2, <1>4
  <2>   QED BY <1>1, <1>2, <1>6, <1>7, <1>8, <2>1 DEF ListsInv
<1>10. WindowsInv(h)' BY DEF ChannelInv, WindowsInv, InWindow
<1>11. NetworkInv(h)' BY DEF ChannelInv, NetworkInv, Arrived
<1>12. ReceiverInv(h)' BY DEF ChannelInv, ReceiverInv, Arrived
<1>13. h \in 0 .. sent' BY <1>2
<1> QED BY <1>5, <1>9, <1>10, <1>11, <1>12, <1>13 DEF ChannelInv

\* What goes back to be sent again stays in the lists, and stays before the packets
\* that were never sent.
LEMMA CheckTimeoutsInv ==
  ASSUME TypeOK, NEW h \in 0 .. sent, ChannelInv(h),
         NEW expired \in SUBSET DOMAIN inTransit, CheckTimeouts(expired)
  PROVE  TypeOK' /\ h \in 0 .. sent' /\ ChannelInv(h)'
<1> USE DEF CheckTimeouts, receiverVars
<1> DEFINE back == Pick(inTransit, expired)
           stay == Pick(inTransit, DOMAIN inTransit \ expired)
<1>1. ListsInv(h) BY DEF ChannelInv
<1>2. /\ outgoing \in Seq(Packets) /\ inTransit \in Seq(Packets)
      /\ DOMAIN inTransit = 1 .. Len(inTransit)
      /\ sent \in Nat /\ h \in Nat /\ sent' = sent /\ tried' = tried
  BY <1>1, Bounded, ElementsOf DEF TypeOK
<1>3. Distinct(inTransit) /\ Distinct(outgoing) BY <1>1 DEF ListsInv
<1>4. /\ back \in Seq(Packets) /\ Distinct(back)
      /\ ToSet(back) = {inTransit[k] : k \in expired}
  BY <1>2, <1>3, Picked
<1>5. /\ stay \in Seq(Packets) /\ Distinct(stay)
      /\ ToSet(stay) = {inTransit[k] : k \in (1 .. Len(inTransit)) \ expired}
  BY <1>2, <1>3, Picked
<1>6. ToSet(inTransit) = {inTransit[k] : k \in 1 .. Len(inTransit)} BY <1>2, ElementsOf
<1>7. outgoing' = back \o outgoing /\ inTransit' = stay OBVIOUS
<1> HIDE DEF back, stay
<1>8. ToSet(back) \cup ToSet(stay) = ToSet(inTransit) BY <1>2, <1>4, <1>5, <1>6
<1>9. ToSet(back) \cap ToSet(stay) = {}
  <2>1. SUFFICES ASSUME NEW k \in expired, NEW l \in (1 .. Len(inTransit)) \ expired,
                        inTransit[k] = inTransit[l]
                 PROVE  FALSE
    BY <1>4, <1>5
  <2>2. k = l BY <1>2, <1>3, <2>1 DEF Distinct
  <2>   QED BY <2>1, <2>2
<1>10. /\ outgoing' \in Seq(Packets) /\ Len(outgoing') = Len(back) + Len(outgoing)
       /\ \A m \in 1 .. Len(back) : outgoing'[m] = back[m]
       /\ \A m \in 1 .. Len(outgoing) : outgoing'[Len(back) + m] = outgoing[m]
       /\ Len(back) \in Nat /\ Len(outgoing) \in Nat
       /\ ToSet(outgoing') = ToSet(back) \cup ToSet(outgoing)
  BY <1>2, <1>4, <1>7, Concatenated
<1>11. TypeOK' BY <1>5, <1>7, <1>10 DEF TypeOK
<1>14. ToSet(back) \cap ToSet(outgoing) = {} BY <1>1, <1>8 DEF ListsInv
<1>15. Distinct(outgoing') BY <1>2, <1>3, <1>4, <1>7, <1>14, Concatenated
<1>16. NewComeLast(h)'
  <2>1. Again(h) \in Nat /\ Len(outgoing) = Again(h) + (sent - h) BY <1>1, Bounded
  <2>2. Again(h)' = Len(back) + Again(h) BY <1>2, <1>10, <2>1 DEF Again
  <2>3. ASSUME NEW m \in 1 .. Len(outgoing')
        PROVE  IF m <= Len(back) + Again(h)
               THEN outgoing'[m] \in tried
               ELSE outgoing'[m] = h + (m - (Len(back) + Again(h)))
    <3>1. CASE m <= Len(back)
      <4>1. outgoing'[m] = back[m] /\ m \in 1 .. Len(back) BY <1>10, <3>1
      <4>2. \A k \in 1 .. Len(back) : back[k] \in ToSet(back) BY <1>4, ElementsOf
      <4>   QED BY <1>1, <1>8, <1>10, <2>1, <3>1, <4>1, <4>2 DEF ListsInv
    <3>2. CASE ~(m <= Len(back))
      <4>1. m - Len(back) \in 1 .. Len(outgoing) /\ outgoing'[m] = outgoing[m - Len(back)]
        <5>1. m - Len(back) \in 1 .. Len(outgoing) /\ Len(back) + (m - Len(back)) = m
          BY <1>10, <3>2
        <5>   QED BY <1>10, <5>1
      <4>2. IF m - Len(back) <= Again(h)
            THEN outgoing[m - Len(back)] \in tried
            ELSE outgoing[m - Len(back)] = h + ((m - Len(back)) - Again(h))
        BY <1>1, <4>1 DEF ListsInv, NewComeLast
      <4>   QED BY <1>2, <1>10, <2>1, <4>1, <4>2
    <3>   QED BY <3>1, <3>2
  <2>4. Again(h)' \in Nat BY <1>10, <2>1, <2>2
  <2>   QED BY <1>2, <2>2, <2>3, <2>4 DEF NewComeLast
<1>17. ListsInv(h)'
  <2>1. ToSet(inTransit') = ToSet(stay) /\ Distinct(inTransit') BY <1>5, <1>7
  <2>   QED BY <1>1, <1>2, <1>8, <1>9, <1>10, <1>15, <1>16, <2>1 DEF ListsInv
<1>18. WindowsInv(h)' BY DEF ChannelInv, WindowsInv, InWindow
<1>19. NetworkInv(h)' BY DEF ChannelInv, NetworkInv, Arrived
<1>20. ReceiverInv(h)' BY DEF ChannelInv, ReceiverInv, Arrived
<1> QED BY <1>2, <1>11, <1>17, <1>18, <1>19, <1>20 DEF ChannelInv

---------------------------------------------------------------------------
(***************************************************************************)
(* Transmission.                                                           *)
(***************************************************************************)

\* The windows WindowWrap looks at: the last one of them is the one that is about to
\* fall too far behind.
LEMMA SpreadKept ==
  ASSUME TypeOK, NEW h \in 0 .. sent, ListsInv(h), WindowsInv(h),
         h + 1 \notin tried, ~WindowWrap(h + 1)
  PROVE  \A j \in tried : Block(h + 1) <= Block(j) + (FREE_WINDOWS - 2)
<1>0. \A k \in Nat : /\ Window(SequenceNumber(k)) \in 0 .. WINDOWS - 1 /\ k \div Numbers \in Nat
                    /\ Block(k) = (k \div Numbers) * WINDOWS + Window(SequenceNumber(k))
  BY Parts
<1> USE NumbersType, WindowsAssumption
<1> DEFINE i == h + 1
<1>1. h \in Nat /\ i \in Nat /\ i = h + 1 /\ tried \subseteq 1 .. h
  BY Bounded DEF ListsInv
<1> HIDE DEF i
<1>2. SUFFICES ASSUME NEW j \in tried, ~(Block(i) <= Block(j) + (FREE_WINDOWS - 2))
               PROVE  FALSE
  BY DEF i
<1>3. j \in Nat /\ Block(i) \in Nat /\ Block(h) \in Nat /\ Block(j) \in Nat BY <1>1, Parts
<1>4. Block(h) <= Block(j) + (FREE_WINDOWS - 2) BY DEF WindowsInv
<1>5. Block(i) <= Block(h) + 1
  <2>1. i <= h + 1 * WINDOW_SIZE BY <1>1
  <2>   QED BY <1>1, <2>1, BlockDistance
<1>6. Block(i) = Block(h) + 1 /\ Block(j) = Block(i) - FREE_WINDOWS + 1
  BY <1>2, <1>3, <1>4, <1>5
<1>7. SequenceNumber(i) % WINDOW_SIZE = 0
  <2>1. /\ h = Block(h) * WINDOW_SIZE + (h % WINDOW_SIZE)
        /\ h % WINDOW_SIZE \in 0 .. WINDOW_SIZE - 1
    BY <1>1, DivMod DEF Block
  <2>2. /\ i = Block(i) * WINDOW_SIZE + (i % WINDOW_SIZE)
        /\ i % WINDOW_SIZE \in 0 .. WINDOW_SIZE - 1
    BY <1>1, DivMod DEF Block
  <2>3. Block(i) * WINDOW_SIZE = Block(h) * WINDOW_SIZE + WINDOW_SIZE BY <1>3, <1>6
  <2>4. Block(h) * WINDOW_SIZE \in Int BY <1>3, Times
  <2>5. i % WINDOW_SIZE = 0 BY <1>1, <2>1, <2>2, <2>3, <2>4
  <2>   QED BY <1>1, <2>5, Parts
<1>a. /\ Window(SequenceNumber(i)) \in 0 .. WINDOWS - 1 /\ i \div Numbers \in Nat
      /\ Block(i) = (i \div Numbers) * WINDOWS + Window(SequenceNumber(i))
  BY <1>0, <1>1
<1>b. /\ Window(SequenceNumber(j)) \in 0 .. WINDOWS - 1 /\ j \div Numbers \in Nat
      /\ Block(j) = (j \div Numbers) * WINDOWS + Window(SequenceNumber(j))
  BY <1>0, <1>3
<1> DEFINE v == Window(SequenceNumber(i))
           w == Window(SequenceNumber(j))
           q == i \div Numbers
           p == j \div Numbers
           x == (v + (FREE_WINDOWS + 1)) % WINDOWS
<1>8. ~(reliableWindows[x] > 0)
  <2>1. \A k \in 0 .. FREE_WINDOWS + 1 : ~(reliableWindows[(v + k) % WINDOWS] > 0)
    BY <1>1, <1>7 DEF WindowWrap, i
  <2>2. FREE_WINDOWS + 1 \in 0 .. FREE_WINDOWS + 1 OBVIOUS
  <2>   QED BY <2>1, <2>2
<1>9. v \in Nat /\ q \in Nat /\ Block(i) = q * WINDOWS + v BY <1>a DEF q, v
<1>10. w \in 0 .. WINDOWS - 1 /\ p \in Nat /\ Block(j) = p * WINDOWS + w BY <1>b DEF p, w
<1> HIDE DEF v, q, p, w
<1>11. x = w
  <2>1. q * WINDOWS \in Int /\ p * WINDOWS \in Int BY <1>9, <1>10, Times
  <2>2. (p + 1 - q) * WINDOWS = p * WINDOWS + WINDOWS - q * WINDOWS BY <1>9, <1>10
  <2>3. v + (FREE_WINDOWS + 1) = (p + 1 - q) * WINDOWS + w
    BY <1>3, <1>6, <1>9, <1>10, <2>1, <2>2
  <2>4. v + (FREE_WINDOWS + 1) \in Nat /\ p + 1 - q \in Int BY <1>9, <1>10
  <2>   QED BY <1>10, <2>3, <2>4, DivUnique
<1>12. j \in InWindow(w) BY DEF InWindow, w
<1>13. IsFiniteSet(InWindow(w)) /\ InWindow(w) # {}
  <2>1. IsFiniteSet(1 .. h) BY <1>1, IntervalCount
  <2>2. InWindow(w) \in SUBSET (1 .. h) BY <1>1 DEF InWindow
  <2>   QED BY <1>12, <2>1, <2>2, FS_Subset
<1>14. Cardinality(InWindow(w)) \in Nat /\ Cardinality(InWindow(w)) # 0
  BY <1>13, FS_CardinalityType, FS_EmptySet
<1>15. reliableWindows[w] = Cardinality(InWindow(w)) BY <1>10 DEF WindowsInv
<1> HIDE DEF x
<1> QED BY <1>8, <1>11, <1>14, <1>15

\* The packets in flight lie close together.
LEMMA Close ==
  ASSUME NEW h \in Nat, NEW i \in Nat, Block(h) <= Block(i) + (FREE_WINDOWS - 2)
  PROVE  h <= i + Late /\ h + 1 < i + Numbers
<1> USE NumbersType, WindowsAssumption
<1>1. FREE_WINDOWS - 2 \in Nat /\ (FREE_WINDOWS - 2) + 1 \in Int /\ FREE_WINDOWS + 1 \in Int
  OBVIOUS
<1>2. h < i + ((FREE_WINDOWS - 2) + 1) * WINDOW_SIZE BY <1>1, BlockDistance
<1>3. Late >= ((FREE_WINDOWS - 2) + 1) * WINDOW_SIZE + WINDOW_SIZE
  BY <1>1, TimesMonotonic DEF Late
<1>4. ((FREE_WINDOWS - 2) + 1) * WINDOW_SIZE \in Int BY <1>1, Times
<1> QED BY <1>2, <1>3, <1>4

\* Either the first packet of the queue is sent again, or it is the first of the new ones.
LEMMA TransmitInv ==
  ASSUME TypeOK, NEW h \in 0 .. sent, ChannelInv(h), Transmit
  PROVE  TypeOK' /\ \E n \in 0 .. sent' : ChannelInv(n)'
<1> DEFINE i == outgoing[1]
           w == Window(SequenceNumber(i))
<1>0. PICK n : n = IF i \in tried THEN h ELSE h + 1 OBVIOUS
<1>1. ListsInv(h) /\ WindowsInv(h) /\ NetworkInv(h) /\ ReceiverInv(h) BY DEF ChannelInv
<1>2. /\ sent \in Nat /\ h \in Nat /\ sent' = sent
      /\ outgoing \in Seq(Packets) /\ inTransit \in Seq(Packets) /\ tried \subseteq 1 .. h
      /\ Len(outgoing) \in Nat /\ Again(h) \in Nat /\ Len(outgoing) = Again(h) + (sent - h)
      /\ \A m \in 1 .. Len(outgoing) : outgoing[m] \in 1 .. sent
  BY <1>1, Bounded DEF Transmit, TypeOK, ListsInv
<1>3. /\ outgoing # <<>> /\ Distinct(outgoing) /\ Distinct(inTransit)
  BY <1>1 DEF Transmit, ListsInv
<1>4. /\ Tail(outgoing) \in Seq(Packets) /\ Len(Tail(outgoing)) = Len(outgoing) - 1
      /\ Len(outgoing) \in Nat \ {0} /\ i \in Packets
      /\ \A m \in 1 .. Len(outgoing) - 1 : Tail(outgoing)[m] = outgoing[m + 1]
      /\ Distinct(Tail(outgoing)) /\ Head(outgoing) = i
      /\ i \notin ToSet(Tail(outgoing)) /\ ToSet(outgoing) = ToSet(Tail(outgoing)) \cup {i}
  BY <1>2, <1>3, TailElements
<1>5. i \in 1 .. sent BY <1>2, <1>4
<1> HIDE DEF i
<1>6. /\ ~WindowWrap(i) /\ outgoing' = Tail(outgoing) /\ inTransit' = Append(inTransit, i)
      /\ tried' = tried \cup {i}
      /\ reliableWindows' = [reliableWindows EXCEPT ![w] = IF i \in tried THEN @ ELSE @ + 1]
      /\ net' = Fresh(net, i) \cup {i} /\ acks' = Fresh(acks, i)
      /\ UNCHANGED receiverVars
  BY <1>4 DEF Transmit
<1>7. /\ inTransit' \in Seq(Packets) /\ ToSet(inTransit') = ToSet(inTransit) \cup {i}
      /\ i \notin ToSet(inTransit) => Distinct(inTransit')
  BY <1>2, <1>3, <1>4, <1>6, Appended
<1>8. w \in 0 .. WINDOWS - 1 BY <1>5, Parts
<1> HIDE DEF w
<1>9. TypeOK'
  <2>1. reliableWindows \in [0 .. WINDOWS - 1 -> Nat] BY DEF TypeOK
  <2>2. reliableWindows' \in [0 .. WINDOWS - 1 -> Nat] BY <1>6, <1>8, <2>1
  <2>   QED BY <1>4, <1>6, <1>7, <2>2 DEF TypeOK, Fresh, receiverVars, Transmit
<1>10. \/ /\ i \in tried /\ n = h /\ i <= h /\ Again(h) >= 1
       \/ /\ i \notin tried /\ n = h + 1 /\ i = h + 1 /\ Again(h) = 0
  <2>1. 1 \in 1 .. Len(outgoing) BY <1>4
  <2>2. IF 1 <= Again(h) THEN i \in tried ELSE i = h + (1 - Again(h))
    BY <1>1, <2>1 DEF ListsInv, NewComeLast, i
  <2>3. CASE i \in tried
    <3>1. i <= h BY <1>2, <2>3
    <3>   QED BY <1>0, <1>2, <2>2, <2>3, <3>1
  <2>4. CASE i \notin tried BY <1>0, <1>2, <2>2, <2>4
  <2>   QED BY <2>3, <2>4
<1>11. n \in Nat /\ h <= n /\ n <= h + 1 /\ n \in 0 .. sent' BY <1>2, <1>5, <1>10
<1>12. NewComeLast(n)'
  <2>1. ASSUME NEW m \in 1 .. Len(outgoing) - 1
        PROVE  IF m + 1 <= Again(h) THEN outgoing'[m] \in tried
                                    ELSE outgoing'[m] = h + ((m + 1) - Again(h))
    <3>1. m + 1 \in 1 .. Len(outgoing) /\ outgoing'[m] = outgoing[m + 1] BY <1>4, <1>6
    <3>   QED BY <1>1, <3>1 DEF ListsInv, NewComeLast
  <2>2. Again(n)' = (Len(outgoing) - 1) - (sent - n) BY <1>2, <1>4, <1>6 DEF Again
  <2>3. Len(outgoing') = Len(outgoing) - 1 BY <1>4, <1>6
  <2>4. Again(n)' \in Nat BY <1>2, <1>4, <1>10, <2>2
  <2>5. ASSUME NEW m \in 1 .. Len(outgoing) - 1
        PROVE  IF m <= Again(n)' THEN outgoing'[m] \in tried'
                                 ELSE outgoing'[m] = n + (m - Again(n)')
    <3>1. CASE i \in tried
      <4>1. Again(n)' = Again(h) - 1 BY <1>2, <1>4, <1>10, <2>2, <3>1
      <4>   QED BY <1>2, <1>4, <1>6, <1>10, <2>1, <3>1, <4>1
    <3>2. CASE i \notin tried
      <4>1. Again(n)' = 0 BY <1>2, <1>4, <1>10, <2>2, <3>2
      <4>2. ~(m <= Again(n)') BY <1>4, <4>1
      <4>3. outgoing'[m] = h + ((m + 1) - Again(h)) BY <1>4, <1>10, <2>1, <3>2
      <4>4. h + ((m + 1) - Again(h)) = n + (m - Again(n)')
        BY <1>2, <1>4, <1>10, <3>2, <4>1
      <4>   QED BY <4>2, <4>3, <4>4
    <3>   QED BY <3>1, <3>2
  <2>   QED BY <2>3, <2>4, <2>5 DEF NewComeLast
<1>13. ListsInv(n)'
  <2>1. i \notin ToSet(inTransit) BY <1>1, <1>4 DEF ListsInv
  <2>2. tried' \subseteq 1 .. n BY <1>2, <1>6, <1>10, <1>11
  <2>   QED BY <1>1, <1>4, <1>6, <1>7, <1>12, <2>1, <2>2 DEF ListsInv
<1>14. \A j \in tried' : Block(n) <= Block(j) + (FREE_WINDOWS - 2)
  <2>1. CASE i \in tried
    <3>1. tried' = tried BY <1>6, <2>1
    <3>   QED BY <1>1, <1>10, <2>1, <3>1 DEF WindowsInv
  <2>2. CASE i \notin tried
    <3>1. \A j \in tried : Block(h + 1) <= Block(j) + (FREE_WINDOWS - 2)
      BY <1>1, <1>6, <1>10, <2>2, SpreadKept
    <3>2. Block(i) <= Block(i) + (FREE_WINDOWS - 2)
      <4>1. Block(i) \in Nat BY <1>5, Parts
      <4>   QED BY <4>1, WindowsAssumption
    <3>   QED BY <1>6, <1>10, <2>2, <3>1, <3>2
  <2>   QED BY <2>1, <2>2
<1>15. ASSUME NEW v \in 0 .. WINDOWS - 1
       PROVE  reliableWindows'[v] = Cardinality(InWindow(v)')
  <2>1. reliableWindows[v] = Cardinality(InWindow(v)) BY <1>1 DEF WindowsInv
  <2>2. reliableWindows \in [0 .. WINDOWS - 1 -> Nat] BY DEF TypeOK
  <2>3. CASE i \in tried \/ v # w
    <3>1. InWindow(v)' = InWindow(v) BY <1>6, <2>3 DEF InWindow, w
    <3>2. reliableWindows'[v] = reliableWindows[v] BY <1>6, <2>2, <2>3
    <3>   QED BY <2>1, <3>1, <3>2
  <2>4. CASE i \notin tried /\ v = w
    <3>1. InWindow(v)' = InWindow(v) \cup {i} /\ i \notin InWindow(v)
      BY <1>6, <2>4 DEF InWindow, w
    <3>2. IsFiniteSet(InWindow(v))
      <4>1. IsFiniteSet(1 .. h) BY <1>2, IntervalCount
      <4>2. InWindow(v) \in SUBSET (1 .. h) BY <1>2 DEF InWindow
      <4>   QED BY <4>1, <4>2, FS_Subset
    <3>3. Cardinality(InWindow(v) \cup {i}) = Cardinality(InWindow(v)) + 1
      BY <3>1, <3>2, FS_AddElement
    <3>4. reliableWindows'[v] = reliableWindows[v] + 1 BY <1>6, <2>2, <2>4
    <3>   QED BY <2>1, <3>1, <3>3, <3>4
  <2>   QED BY <2>3, <2>4
<1>16. WindowsInv(n)' BY <1>14, <1>15 DEF WindowsInv
<1>17. NetworkInv(n)'
  <2>1. ASSUME NEW j \in net \cup acks, j + MaxLag >= i PROVE j <= n /\ n <= j + Late
    <3>1. j <= h /\ h <= j + Late BY <1>1 DEF NetworkInv
    <3>2. j \in Nat BY DEF TypeOK, Packets
    <3>3. MaxLag \in Nat /\ MaxLag <= Late BY LagAssumption DEF Late
    <3>   QED BY <1>2, <1>5, <1>10, <2>1, <3>1, <3>2, <3>3, NumbersType
  <2>2. i <= n /\ n <= i + Late
    <3>1. CASE i \in tried
      <4>1. Block(h) <= Block(i) + (FREE_WINDOWS - 2) BY <1>1, <3>1 DEF WindowsInv
      <4>   QED BY <1>2, <1>5, <1>10, <3>1, <4>1, Close
    <3>2. CASE i \notin tried BY <1>5, <1>10, <3>2, NumbersType
    <3>   QED BY <3>1, <3>2
  <2>3. acks' \subseteq Arrived' BY <1>1, <1>6 DEF NetworkInv, Arrived, Fresh, receiverVars
  <2>   QED BY <1>6, <2>1, <2>2, <2>3 DEF NetworkInv, Fresh
<1>18. ReceiverInv(n)'
  <2>1. delivered' = delivered /\ queue' = queue /\ incoming' = incoming
    BY <1>6 DEF receiverVars
  <2>2. Len(delivered) \in Nat BY DEF TypeOK
  <2>3. \A j \in queue : j \in Nat BY DEF TypeOK, Packets
  <2>4. 1 .. n \subseteq Arrived \cup tried'
    <3>1. \A j \in 1 .. n : j \in 1 .. h \/ j = i BY <1>2, <1>10, <1>11
    <3>   QED BY <1>1, <1>6, <3>1 DEF ReceiverInv
  <2>5. Arrived' = Arrived BY <2>1 DEF Arrived
  <2>   QED BY <1>1, <1>2, <1>11, <2>1, <2>2, <2>3, <2>4, <2>5 DEF ReceiverInv
<1>19. ChannelInv(n)' BY <1>11, <1>13, <1>16, <1>17, <1>18 DEF ChannelInv
<1> QED BY <1>9, <1>11, <1>19

---------------------------------------------------------------------------
(***************************************************************************)
(* Acknowledgements.                                                       *)
(***************************************************************************)

\* A late acknowledgement is never taken for one of another packet.
LEMMA AcknowledgesOne ==
  ASSUME TypeOK, NEW h \in 0 .. sent, ChannelInv(h), NEW i \in acks, NEW j \in tried,
         SequenceNumber(j) = SequenceNumber(i)
  PROVE  j = i
<1>1. h \in Nat /\ tried \subseteq 1 .. h BY Bounded DEF ChannelInv, ListsInv
<1>2. i \in Nat /\ j \in Nat /\ j <= h BY <1>1 DEF TypeOK, Packets
<1>3. i <= h /\ h <= i + Late BY DEF ChannelInv, NetworkInv
<1>4. h < j + Numbers
  <2>1. Block(h) <= Block(j) + (FREE_WINDOWS - 2) BY DEF ChannelInv, WindowsInv
  <2>   QED BY <1>1, <1>2, <2>1, Close, NumbersType
<1>5. i < j + Numbers /\ j < i + Numbers BY <1>1, <1>2, <1>3, <1>4, NumbersType
<1> QED BY <1>2, <1>5, NumbersDistinct

\* The count of the window goes down with the packet.
LEMMA SettleInv ==
  ASSUME TypeOK, NEW h \in 0 .. sent, ListsInv(h), WindowsInv(h), NEW i \in tried, Settle(i)
  PROVE  reliableWindows' \in [0 .. WINDOWS - 1 -> Nat] /\ WindowsInv(h)'
<1> DEFINE w == Window(SequenceNumber(i))
<1>1. h \in Nat /\ tried \subseteq 1 .. h BY Bounded DEF ListsInv
<1>2. i \in Nat BY <1>1
<1>3. w \in 0 .. WINDOWS - 1 BY <1>2, Parts
<1>4. i \in InWindow(w) BY DEF InWindow
<1>5. /\ tried' = tried \ {i}
      /\ reliableWindows' = [reliableWindows EXCEPT ![w] = IF @ > 0 THEN @ - 1 ELSE @]
  BY DEF Settle
<1>6. reliableWindows \in [0 .. WINDOWS - 1 -> Nat] BY DEF TypeOK
<1>7. \A v \in 0 .. WINDOWS - 1 : reliableWindows[v] = Cardinality(InWindow(v))
  BY DEF WindowsInv
<1> HIDE DEF w
<1>8. /\ IsFiniteSet(InWindow(w)) /\ Cardinality(InWindow(w)) \in Nat
      /\ Cardinality(InWindow(w) \ {i}) = Cardinality(InWindow(w)) - 1
      /\ Cardinality(InWindow(w)) # 0
  <2>1. IsFiniteSet(1 .. h) BY <1>1, IntervalCount
  <2>2. InWindow(w) \in SUBSET (1 .. h) BY <1>1 DEF InWindow
  <2>3. IsFiniteSet(InWindow(w)) BY <2>1, <2>2, FS_Subset
  <2>   QED BY <1>4, <2>3, FS_CardinalityType, FS_EmptySet, FS_RemoveElement
<1>9. reliableWindows' \in [0 .. WINDOWS - 1 -> Nat]
  <2>1. reliableWindows[w] > 0 BY <1>3, <1>7, <1>8
  <2>2. reliableWindows[w] - 1 \in Nat BY <1>3, <1>6, <2>1
  <2>   QED BY <1>3, <1>5, <1>6, <2>1, <2>2
<1>10. ASSUME NEW v \in 0 .. WINDOWS - 1
       PROVE  reliableWindows'[v] = Cardinality(InWindow(v)')
  <2>1. CASE v # w
    <3>1. InWindow(v)' = InWindow(v) BY <1>5, <2>1 DEF InWindow, w
    <3>2. reliableWindows'[v] = reliableWindows[v] BY <1>5, <1>6, <2>1
    <3>   QED BY <1>7, <3>1, <3>2
  <2>2. CASE v = w
    <3>1. InWindow(w)' = InWindow(w) \ {i}
      <4>1. InWindow(w)' = {j \in tried' : Window(SequenceNumber(j)) = w} BY DEF InWindow, w
      <4>   QED BY <1>5, <4>1 DEF InWindow
    <3>2. reliableWindows'[w] = reliableWindows[w] - 1
      BY <1>3, <1>5, <1>6, <1>7, <1>8
    <3>   QED BY <1>3, <1>7, <1>8, <2>2, <3>1, <3>2
  <2>   QED BY <2>1, <2>2
<1> QED BY <1>5, <1>9, <1>10 DEF WindowsInv

LEMMA ReceiveAcknowledgementInv ==
  ASSUME TypeOK, NEW h \in 0 .. sent, ChannelInv(h), NEW i \in acks, ReceiveAcknowledgement(i)
  PROVE  TypeOK' /\ h \in 0 .. sent' /\ ChannelInv(h)'
<1>1. ListsInv(h) /\ WindowsInv(h) /\ NetworkInv(h) /\ ReceiverInv(h) BY DEF ChannelInv
<1>2. /\ sent \in Nat /\ h \in Nat /\ sent' = sent
      /\ outgoing \in Seq(Packets) /\ inTransit \in Seq(Packets) /\ tried \subseteq 1 .. h
      /\ Len(outgoing) \in Nat /\ Again(h) \in Nat /\ Len(outgoing) = Again(h) + (sent - h)
  BY <1>1, Bounded DEF ReceiveAcknowledgement, TypeOK, ListsInv
<1>3. /\ net' = net /\ acks' = acks /\ incoming' = incoming /\ queue' = queue
      /\ delivered' = delivered /\ Arrived' = Arrived
  BY DEF ReceiveAcknowledgement, receiverVars, Arrived
<1>4. NetworkInv(h)' BY <1>1, <1>3 DEF NetworkInv
<1>5. i \in Arrived BY <1>1 DEF NetworkInv
<1>6. Distinct(outgoing) /\ Distinct(inTransit) BY <1>1 DEF ListsInv
<1>7. ASSUME NEW s \in Seq(Packets), NEW k \in Matches(s, SequenceNumber(i)), Settle(s[k])
      PROVE  /\ k \in 1 .. Len(s) /\ s[k] = i /\ i \in tried /\ tried' = tried \ {i}
             /\ reliableWindows' \in [0 .. WINDOWS - 1 -> Nat]
             /\ WindowsInv(h)' /\ ReceiverInv(h)'
  <2>1. k \in 1 .. Len(s) /\ s[k] \in tried /\ SequenceNumber(s[k]) = SequenceNumber(i)
    BY <1>7 DEF Matches
  <2>2. s[k] = i BY <2>1, AcknowledgesOne
  <2>3. tried' = tried \ {i} BY <1>7, <2>2 DEF Settle
  <2>4. ReceiverInv(h)' BY <1>1, <1>3, <1>5, <2>3 DEF ReceiverInv
  <2>5. reliableWindows' \in [0 .. WINDOWS - 1 -> Nat] /\ WindowsInv(h)'
    BY <1>1, <1>7, <2>1, SettleInv
  <2>   QED BY <2>1, <2>2, <2>3, <2>4, <2>5
<1>8. ASSUME NEW k \in Matches(inTransit, SequenceNumber(i)),
             inTransit' = RemoveAt(inTransit, k), Settle(inTransit[k]), UNCHANGED outgoing
      PROVE  TypeOK' /\ ChannelInv(h)'
  <2>1. /\ k \in 1 .. Len(inTransit) /\ inTransit[k] = i /\ i \in tried
        /\ tried' = tried \ {i} /\ reliableWindows' \in [0 .. WINDOWS - 1 -> Nat]
        /\ WindowsInv(h)' /\ ReceiverInv(h)'
    BY <1>2, <1>7, <1>8
  <2>2. /\ inTransit' \in Seq(Packets) /\ Distinct(inTransit')
        /\ ToSet(inTransit') = ToSet(inTransit) \ {i}
    BY <1>2, <1>6, <1>8, <2>1, Removed, RemovedElements
  <2>3. i \in ToSet(inTransit) BY <1>2, <2>1, ElementsOf
  <2>4. i \notin ToSet(outgoing) BY <1>1, <2>3 DEF ListsInv
  <2>5. NewComeLast(h)'
    <3>1. Again(h)' = Again(h) BY <1>2, <1>8 DEF Again
    <3>2. \A m \in 1 .. Len(outgoing) : outgoing[m] # i BY <1>2, <2>4, ElementsOf
    <3>   QED BY <1>1, <1>8, <2>1, <3>1, <3>2 DEF ListsInv, NewComeLast
  <2>6. ListsInv(h)' BY <1>1, <1>2, <1>8, <2>1, <2>2, <2>4, <2>5 DEF ListsInv
  <2>7. TypeOK' BY <1>2, <1>3, <1>8, <2>1, <2>2 DEF TypeOK
  <2>   QED BY <1>2, <1>4, <2>1, <2>6, <2>7 DEF ChannelInv
<1>9. ASSUME NEW k \in Matches(outgoing, SequenceNumber(i)),
             outgoing' = RemoveAt(outgoing, k), Settle(outgoing[k]), UNCHANGED inTransit
      PROVE  TypeOK' /\ ChannelInv(h)'
  <2>1. /\ k \in 1 .. Len(outgoing) /\ outgoing[k] = i /\ i \in tried
        /\ tried' = tried \ {i} /\ reliableWindows' \in [0 .. WINDOWS - 1 -> Nat]
        /\ WindowsInv(h)' /\ ReceiverInv(h)'
    BY <1>2, <1>7, <1>9
  <2>2. /\ outgoing' \in Seq(Packets) /\ Distinct(outgoing')
        /\ Len(outgoing') = Len(outgoing) - 1
        /\ \A m \in 1 .. Len(outgoing) - 1 :
             outgoing'[m] = IF m < k THEN outgoing[m] ELSE outgoing[m + 1]
        /\ ToSet(outgoing') = ToSet(outgoing) \ {i}
    BY <1>2, <1>6, <1>9, <2>1, Removed, RemovedElements
  <2>3. i \in ToSet(outgoing) BY <1>2, <2>1, ElementsOf
  <2>4. i \notin ToSet(inTransit) BY <1>1, <2>3 DEF ListsInv
  <2>5. \A m \in 1 .. Len(outgoing) :
          IF m <= Again(h) THEN outgoing[m] \in tried ELSE outgoing[m] = h + (m - Again(h))
    BY <1>1 DEF ListsInv, NewComeLast
  <2>6. k <= Again(h)
    <3>1. i <= h BY <1>2, <2>1
    <3>   QED BY <1>2, <2>1, <2>5, <3>1
  <2>7. Again(h)' = Again(h) - 1 /\ Again(h) - 1 \in Nat BY <1>2, <2>1, <2>2, <2>6 DEF Again
  <2>8. ASSUME NEW m \in 1 .. Len(outgoing) - 1
        PROVE  IF m <= Again(h) - 1 THEN outgoing'[m] \in tried'
                                    ELSE outgoing'[m] = h + (m - (Again(h) - 1))
    <3>1. m \in 1 .. Len(outgoing) /\ m + 1 \in 1 .. Len(outgoing) BY <1>2
    <3>2. CASE m < k
      <4>1. outgoing'[m] = outgoing[m] /\ m <= Again(h) - 1 /\ m <= Again(h) /\ m # k
        BY <1>2, <2>1, <2>2, <2>6, <3>2
      <4>2. outgoing[m] # i BY <1>6, <2>1, <3>1, <4>1 DEF Distinct
      <4>   QED BY <2>1, <2>5, <3>1, <4>1, <4>2
    <3>3. CASE ~(m < k)
      <4>1. outgoing'[m] = outgoing[m + 1] /\ m + 1 # k BY <2>1, <2>2, <3>3
      <4>2. outgoing[m + 1] # i BY <1>6, <2>1, <3>1, <4>1 DEF Distinct
      <4>3. CASE m <= Again(h) - 1
        <5>1. m + 1 <= Again(h) BY <1>2, <4>3
        <5>   QED BY <2>1, <2>5, <3>1, <4>1, <4>2, <4>3, <5>1
      <4>4. CASE ~(m <= Again(h) - 1)
        <5>1. ~(m + 1 <= Again(h)) /\ h + ((m + 1) - Again(h)) = h + (m - (Again(h) - 1))
          BY <1>2, <4>4
        <5>   QED BY <2>5, <3>1, <4>1, <4>4, <5>1
      <4>   QED BY <4>3, <4>4
    <3>   QED BY <3>2, <3>3
  <2>9. NewComeLast(h)' BY <2>2, <2>7, <2>8 DEF NewComeLast
  <2>10. ListsInv(h)' BY <1>1, <1>2, <1>6, <1>9, <2>1, <2>2, <2>4, <2>9 DEF ListsInv
  <2>11. TypeOK' BY <1>2, <1>3, <1>9, <2>1, <2>2 DEF TypeOK
  <2>   QED BY <1>2, <1>4, <2>1, <2>10, <2>11 DEF ChannelInv
<1>10. ASSUME UNCHANGED senderVars PROVE TypeOK' /\ ChannelInv(h)'
  <2> USE <1>10 DEF senderVars
  <2>1. TypeOK' BY <1>3 DEF TypeOK
  <2>2. ListsInv(h)' BY <1>1 DEF ListsInv, NewComeLast, Again
  <2>3. WindowsInv(h)' BY <1>1 DEF WindowsInv, InWindow
  <2>4. ReceiverInv(h)' BY <1>1, <1>3 DEF ReceiverInv
  <2>   QED BY <1>2, <1>4, <2>1, <2>2, <2>3, <2>4 DEF ChannelInv
<1> QED BY <1>2, <1>8, <1>9, <1>10 DEF ReceiveAcknowledgement

---------------------------------------------------------------------------
(***************************************************************************)
(* The receiver.                                                           *)
(***************************************************************************)

\* A sequence number counted on is that of the packet counted on.
LEMMA CountsOn ==
  ASSUME NEW d \in Nat, NEW k \in Nat
  PROVE  SequenceNumber(SequenceNumber(d) + k) = SequenceNumber(d + k)
<1> USE NumbersType
<1> DEFINE p == d \div Numbers
           r == SequenceNumber(d)
           q == (r + k) \div Numbers
           s == SequenceNumber(r + k)
<1>1. p \in Nat /\ r \in 0 .. Numbers - 1 /\ d = p * Numbers + r BY Parts
<1> HIDE DEF p, r
<1>2. q \in Nat /\ s \in 0 .. Numbers - 1 /\ r + k = q * Numbers + s
  <2>1. r + k \in Nat BY <1>1
  <2>   QED BY <2>1, Parts
<1> HIDE DEF q, s
<1>3. d + k = (p + q) * Numbers + s
  <2>1. (p + q) * Numbers = p * Numbers + q * Numbers BY <1>1, <1>2
  <2>2. p * Numbers \in Int /\ q * Numbers \in Int BY <1>1, <1>2, Times
  <2>   QED BY <1>1, <1>2, <2>1, <2>2
<1>4. (d + k) % Numbers = s
  <2>1. p + q \in Int /\ d + k \in Nat BY <1>1, <1>2
  <2>   QED BY <1>2, <1>3, <2>1, DivUnique
<1> QED BY <1>4 DEF r, s, SequenceNumber, Numbers

\* A set of numbers without gaps has as many as its size says.
LEMMA NoGaps ==
  ASSUME NEW c \in Nat, NEW A \in SUBSET (0 .. c),
         \A a \in A : \A b \in 0 .. c : b <= a => b \in A
  PROVE  Cardinality(A) \in Nat /\ \A k \in 0 .. c : k \in A <=> k < Cardinality(A)
<1> DEFINE m == Cardinality(A)
<1>1. IsFiniteSet(0 .. c)
  <2>1. 0 \in Int /\ c \in Int OBVIOUS
  <2>   QED BY <2>1, FS_Interval
<1>2. IsFiniteSet(A) /\ m \in Nat BY <1>1, FS_Subset, FS_CardinalityType
<1>3. ASSUME NEW k \in 0 .. c PROVE k \in A <=> k < m
  <2>1. CASE k \in A
    <3>1. (0 .. (k + 1) - 1) \in SUBSET A
      <4>1. \A b \in 0 .. (k + 1) - 1 : b \in 0 .. c /\ b <= k OBVIOUS
      <4>   QED BY <2>1, <4>1
    <3>2. k + 1 \in Nat OBVIOUS
    <3>3. Cardinality(0 .. (k + 1) - 1) = k + 1 BY <3>2, IntervalCount
    <3>4. Cardinality(0 .. (k + 1) - 1) <= m BY <1>2, <3>1, FS_Subset
    <3>   QED BY <1>2, <2>1, <3>3, <3>4
  <2>2. CASE k \notin A
    <3>1. A \in SUBSET (0 .. k - 1)
      <4>1. \A a \in A : a \in 0 .. c /\ ~(k <= a) BY <2>2
      <4>2. \A a \in A : a \in 0 .. k - 1 BY <4>1
      <4>   QED BY <4>2
    <3>2. k \in Nat OBVIOUS
    <3>3. IsFiniteSet(0 .. k - 1) /\ Cardinality(0 .. k - 1) = k BY <3>2, IntervalCount
    <3>4. Cardinality(A) <= Cardinality(0 .. k - 1) BY <3>1, <3>3, FS_Subset
    <3>   QED BY <1>2, <2>2, <3>3, <3>4
  <2>   QED BY <2>1, <2>2
<1> QED BY <1>2, <1>3 DEF m

\* What is delivered of a queue: the packets that follow the last one without a gap.
LEMMA ReadyIs ==
  ASSUME NEW d \in Nat, NEW h \in Nat, incoming = SequenceNumber(d),
         h < d + Numbers, NEW q \in SUBSET (d + 1 .. h)
  PROVE  \E n \in Nat : /\ Ready(q) = [k \in 1 .. n |-> d + k]
                        /\ \A k \in 1 .. n : d + k \in q
                        /\ d + n + 1 \notin q
<1> DEFINE at(k) == {i \in q : SequenceNumber(i) = SequenceNumber(incoming + k)}
           c == Cardinality(q)
           Gap(m) == (\A k \in 1 .. m : at(k) # {}) /\ at(m + 1) = {}
           n == CHOOSE m \in 0 .. c : Gap(m)
<1>1. IsFiniteSet(q) /\ c \in Nat /\ (q # {} => c <= h - d)
  <2>1. /\ IsFiniteSet(d + 1 .. h)
        /\ Cardinality(d + 1 .. h) = IF d + 1 > h THEN 0 ELSE h - (d + 1) + 1
    <3>1. d + 1 \in Int /\ h \in Int OBVIOUS
    <3>   QED BY <3>1, FS_Interval, Zenon
  <2>2. IsFiniteSet(q) /\ c <= Cardinality(d + 1 .. h) BY <2>1, FS_Subset
  <2>3. c \in Nat BY <2>2, FS_CardinalityType
  <2>4. q # {} => ~(d + 1 > h)
    <3>1. ASSUME NEW j \in q PROVE ~(d + 1 > h)
      <4>1. j \in d + 1 .. h OBVIOUS
      <4>   QED BY <4>1
    <3>   QED BY <3>1
  <2>   QED BY <2>1, <2>2, <2>3, <2>4
<1>2. ASSUME NEW k \in 1 .. c + 1 PROVE at(k) = {d + k} \cap q
  <2>1. SequenceNumber(incoming + k) = SequenceNumber(d + k) BY <1>1, CountsOn
  <2>2. ASSUME NEW j \in q, SequenceNumber(j) = SequenceNumber(d + k) PROVE j = d + k
    <3>1. j \in Nat /\ d + k \in Nat /\ j < (d + k) + Numbers /\ d + k < j + Numbers
      BY <1>1, NumbersType
    <3>   QED BY <2>2, <3>1, NumbersDistinct
  <2>   QED BY <2>1, <2>2
<1>3. Ready(q) = [k \in 1 .. n |-> CHOOSE i \in at(k) : TRUE] BY DEF Ready
<1> HIDE DEF c, at
<1>4. \E m \in 0 .. c : Gap(m)
  <2> DEFINE A == {m \in 0 .. c : \A k \in 1 .. m : at(k) # {}}
             a == Cardinality(A)
  <2>1. A \in SUBSET (0 .. c) /\ 0 \in A BY <1>1
  <2>2. \A x \in A : \A y \in 0 .. c : y <= x => y \in A BY <1>1
  <2>3. a \in Nat /\ \A k \in 0 .. c : k \in A <=> k < a BY <1>1, <2>1, <2>2, NoGaps
  <2>4. a - 1 \in 0 .. c /\ a - 1 \in A
    <3>1. 0 < a BY <1>1, <2>1, <2>3
    <3>2. ~(a > c + 1)
      <4>1. IsFiniteSet(0 .. (c + 1) - 1) /\ Cardinality(0 .. (c + 1) - 1) = c + 1
        <5>1. c + 1 \in Nat BY <1>1
        <5>   QED BY <5>1, IntervalCount
      <4>2. A \in SUBSET (0 .. (c + 1) - 1) BY <1>1, <2>1
      <4>3. Cardinality(A) <= Cardinality(0 .. (c + 1) - 1) BY <4>1, <4>2, FS_Subset
      <4>   QED BY <1>1, <2>3, <4>1, <4>3
    <3>3. a - 1 \in 0 .. c /\ a - 1 < a BY <1>1, <2>3, <3>1, <3>2
    <3>   QED BY <2>3, <3>3
  <2>5. CASE a <= c
    <3>1. a \in 0 .. c /\ ~(a < a) BY <1>1, <2>3, <2>5
    <3>2. a \notin A BY <2>3, <3>1, Zenon
    <3>3. \E k \in 1 .. a : at(k) = {} BY <3>1, <3>2
    <3>4. at(a) = {}
      <4>1. \A k \in 1 .. a : k \in 1 .. a - 1 \/ k = a BY <2>3
      <4>   QED BY <2>4, <3>3, <4>1
    <3>5. (a - 1) + 1 = a BY <2>3
    <3>   QED BY <2>4, <3>4, <3>5
  <2>6. CASE a = c + 1
    <3>1. a - 1 = c BY <1>1, <2>6
    <3>2. \A k \in 1 .. c : at(k) # {} BY <2>4, <3>1
    <3>3. at(c + 1) = {}
      <4>1. SUFFICES ASSUME at(c + 1) # {} PROVE FALSE OBVIOUS
      <4>2. \A k \in 1 .. c + 1 : d + k \in q
        <5>1. \A k \in 1 .. c + 1 : at(k) # {} BY <1>1, <3>2, <4>1
        <5>   QED BY <1>2, <5>1
      <4>3. (d + 1 .. d + (c + 1)) \in SUBSET q
        <5>1. ASSUME NEW j \in d + 1 .. d + (c + 1) PROVE j \in q
          <6>1. j - d \in 1 .. c + 1 /\ d + (j - d) = j BY <1>1
          <6>   QED BY <4>2, <6>1
        <5>   QED BY <5>1
      <4>4. Cardinality(d + 1 .. d + (c + 1))
              = IF d + 1 > d + (c + 1) THEN 0 ELSE (d + (c + 1)) - (d + 1) + 1
        <5>1. d + 1 \in Int /\ d + (c + 1) \in Int BY <1>1
        <5>   QED BY <5>1, FS_Interval, Zenon
      <4>5. Cardinality(d + 1 .. d + (c + 1)) <= c BY <1>1, <4>3, FS_Subset DEF c
      <4>   QED BY <1>1, <4>4, <4>5
    <3>4. c \in 0 .. c BY <1>1
    <3>   QED BY <3>2, <3>3, <3>4
  <2>   QED BY <1>1, <2>3, <2>4, <2>5, <2>6
<1>5. n \in 0 .. c /\ Gap(n) BY <1>4
<1> HIDE DEF n
<1>6. n \in Nat /\ n <= c BY <1>1, <1>5
<1>7. \A k \in 1 .. n : d + k \in q /\ at(k) = {d + k}
  <2>1. \A k \in 1 .. n : k \in 1 .. c + 1 BY <1>1, <1>6
  <2>   QED BY <1>2, <1>5, <2>1
<1>8. d + n + 1 \notin q
  <2>1. n + 1 \in 1 .. c + 1 /\ d + (n + 1) = d + n + 1 BY <1>1, <1>6
  <2>   QED BY <1>2, <1>5, <2>1
<1>9. Ready(q) = [k \in 1 .. n |-> d + k]
  <2>1. \A k \in 1 .. n : (CHOOSE i \in at(k) : TRUE) = d + k BY <1>7
  <2>   QED BY <1>3, <2>1
<1> QED BY <1>6, <1>7, <1>8, <1>9

\* As long as something is missing the sender is not far ahead of the receiver.
LEMMA Outstanding ==
  ASSUME TypeOK, NEW h \in 0 .. sent, ChannelInv(h)
  PROVE  /\ Len(delivered) \in Nat /\ h \in Nat /\ Len(delivered) <= h
         /\ h < Len(delivered) + Numbers
         /\ \A i \in Len(delivered) + 1 .. h : Block(i) - Block(Len(delivered)) \in 0 .. FREE_WINDOWS - 1
<1> DEFINE d == Len(delivered)
<1>1. h \in Nat /\ d \in Nat /\ d <= h
  <2>1. h \in Nat BY Bounded DEF ChannelInv
  <2>2. d \in Nat BY DEF TypeOK
  <2>   QED BY <2>1, <2>2 DEF ChannelInv, ReceiverInv
<1>2. queue \subseteq Nat /\ \A i \in queue : d + 1 < i BY DEF TypeOK, Packets, ChannelInv, ReceiverInv
<1>3. 1 .. h \subseteq (1 .. d) \cup queue \cup tried BY DEF ChannelInv, ReceiverInv, Arrived
<1>4. \A i \in tried : Block(h) <= Block(i) + (FREE_WINDOWS - 2) BY DEF ChannelInv, WindowsInv
<1> HIDE DEF d
<1>5. CASE d = h
  <2>1. \A i \in d + 1 .. h : FALSE BY <1>1, <1>5
  <2>   QED BY <1>1, <1>5, <2>1, NumbersType DEF d
<1>6. CASE d < h
  <2>1. d + 1 \in tried
    <3>1. d + 1 \in 1 .. h /\ d + 1 \notin 1 .. d BY <1>1, <1>6
    <3>2. d + 1 \notin queue BY <1>1, <1>2
    <3>   QED BY <1>3, <3>1, <3>2
  <2>2. Block(h) <= Block(d + 1) + (FREE_WINDOWS - 2) BY <1>4, <2>1
  <2>3. h + 1 < (d + 1) + Numbers
    <3>1. d + 1 \in Nat BY <1>1
    <3>   QED BY <1>1, <2>2, <3>1, Close
  <2>4. Block(d) \in Nat /\ Block(d + 1) \in Nat /\ Block(d + 1) <= Block(d) + 1
    <3>1. d + 1 \in Nat /\ d + 1 <= d + 1 * WINDOW_SIZE BY <1>1, NumbersType
    <3>   QED BY <1>1, <3>1, BlockDistance, Parts
  <2>5. ASSUME NEW i \in d + 1 .. h PROVE Block(i) - Block(d) \in 0 .. FREE_WINDOWS - 1
    <3>1. i \in Nat /\ d <= i /\ i <= h BY <1>1
    <3>2. Block(d) <= Block(i) /\ Block(i) <= Block(h) BY <1>1, <3>1, BlockDistance
    <3>3. Block(i) \in Nat /\ Block(h) \in Nat BY <1>1, <3>1, Parts
    <3>   QED BY <2>2, <2>4, <3>2, <3>3, WindowsAssumption
  <2>   QED BY <1>1, <1>6, <2>3, <2>5, NumbersType DEF d
<1> QED BY <1>1, <1>5, <1>6

\* What becomes of a packet that arrives: an old one is discarded, a new one is queued
\* unless it is too far ahead, and then it is not acknowledged either.
LEMMA Accepts ==
  ASSUME TypeOK, NEW h \in 0 .. sent, ChannelInv(h), NEW i \in 1 .. h, h <= i + Late
  PROVE  \E n \in Nat :
           /\ Ready(QueueWith(i)) = [k \in 1 .. n |-> Len(delivered) + k]
           /\ \A k \in 1 .. n : Len(delivered) + k \in QueueWith(i)
           /\ Len(delivered) + n + 1 \notin QueueWith(i)
           /\ QueueWith(i) \subseteq Len(delivered) + 1 .. h
           /\ IncomingAfter(i) = SequenceNumber(Len(delivered) + n)
           /\ \/ i <= Len(delivered) \/ i \in QueueWith(i)
              \/ i > Len(delivered) + 1
                 /\ ~Acknowledges(SequenceNumber(i), SequenceNumber(Len(delivered) + n))
<1> USE WindowsAssumption
<1> DEFINE d == Len(delivered)
           q == QueueWith(i)
           seq == SequenceNumber(i)
<1>1. /\ d \in Nat /\ h \in Nat /\ d <= h /\ h < d + Numbers
      /\ \A j \in d + 1 .. h : Block(j) - Block(d) \in 0 .. FREE_WINDOWS - 1
  BY Outstanding
<1>2. /\ incoming = SequenceNumber(d)
      /\ \A j \in queue : d + 1 < j /\ j <= h
      /\ queue \subseteq Nat
  BY DEF ChannelInv, ReceiverInv, TypeOK, Packets
<1>3. i \in Nat /\ i <= h BY <1>1
<1>4. queue \subseteq q /\ q \subseteq queue \cup {i} /\ (Discard(seq) => q = queue)
      /\ (~Discard(seq) => i \in q)
  BY DEF QueueWith
<1> HIDE DEF d, q
<1>5. ASSUME i <= d PROVE Discard(seq)
  <2>1. CASE i = d BY <1>2, <2>1 DEF Discard
  <2>2. CASE i < d
    <3>1. d < i + Numbers /\ d <= i + (FREE_WINDOWS + 1) * WINDOW_SIZE
      BY <1>1, <1>3, NumbersType DEF Late
    <3>2. RelativeWindow(seq, incoming) = Window(incoming) + WINDOWS - (Block(d) - Block(i))
      BY <1>1, <1>2, <1>3, <2>2, <3>1, Behind
    <3>3. Block(d) <= Block(i) + (FREE_WINDOWS + 1)
      <4>1. FREE_WINDOWS + 1 \in Nat OBVIOUS
      <4>   QED BY <1>1, <1>3, <3>1, <4>1, BlockDistance
    <3>4. Block(d) \in Nat /\ Block(i) \in Nat /\ Window(incoming) \in Nat BY <1>1, <1>2, <1>3, Parts
    <3>5. RelativeWindow(seq, incoming) >= Window(incoming) + FREE_WINDOWS - 1
      BY <3>2, <3>3, <3>4
    <3>   QED BY <3>5 DEF Discard
  <2>   QED BY <1>1, <1>3, <1>5, <2>1, <2>2
<1>6. q \subseteq d + 1 .. h BY <1>1, <1>2, <1>3, <1>4, <1>5
<1>7. PICK n \in Nat : /\ Ready(q) = [k \in 1 .. n |-> d + k]
                       /\ \A k \in 1 .. n : d + k \in q
                       /\ d + n + 1 \notin q
  BY <1>1, <1>2, <1>6, ReadyIs
<1>8. IncomingAfter(i) = SequenceNumber(d + n)
  <2>1. Len(Ready(q)) = n BY <1>7
  <2>2. IncomingAfter(i) = SequenceNumber(SequenceNumber(d) + n)
    BY <1>2, <2>1 DEF IncomingAfter, Advance, q
  <2>   QED BY <1>1, <2>2, CountsOn
<1>9. ASSUME i > d, i \notin q PROVE i > d + 1 /\ ~Acknowledges(seq, SequenceNumber(d + n))
  <2>1. q = queue /\ Discard(seq) BY <1>4, <1>9
  <2>2. n = 0
    <3>1. d + 1 \notin q BY <1>1, <1>2, <2>1
    <3>2. n \in Nat /\ ~(1 \in 1 .. n) BY <1>7, <3>1
    <3>   QED BY <3>2
  <2>3. i < d + Numbers /\ d < i + Numbers BY <1>1, <1>3, <1>9, NumbersType
  <2>4. seq # incoming
    <3>1. seq = incoming => i = d BY <1>1, <1>2, <1>3, <2>3, NumbersDistinct
    <3>   QED BY <1>1, <1>3, <1>9, <3>1
  <2>5. ~(\E j \in queue : SequenceNumber(j) = seq)
    <3>1. SUFFICES ASSUME NEW j \in queue, SequenceNumber(j) = seq PROVE FALSE OBVIOUS
    <3>2. j \in Nat /\ j < i + Numbers /\ i < j + Numbers BY <1>1, <1>2, <1>3, <1>9, NumbersType
    <3>3. j = i BY <1>3, <3>1, <3>2, NumbersDistinct
    <3>   QED BY <1>4, <1>9, <3>3
  <2>6. RelativeWindow(seq, incoming) >= Window(incoming) + FREE_WINDOWS - 1
    BY <2>1, <2>4, <2>5 DEF Discard
  <2>7. RelativeWindow(seq, incoming) = Window(incoming) + (Block(i) - Block(d))
    <3>1. d <= i BY <1>1, <1>3, <1>9
    <3>   QED BY <1>1, <1>2, <1>3, <2>3, <3>1, Ahead
  <2>8. Block(i) - Block(d) \in 0 .. FREE_WINDOWS - 1
    <3>1. i \in d + 1 .. h BY <1>1, <1>3, <1>9
    <3>   QED BY <1>1, <3>1
  <2>9. Window(incoming) \in Nat BY <1>1, <1>2, Parts
  <2>10. RelativeWindow(seq, incoming) - Window(incoming) = FREE_WINDOWS - 1
    BY <2>6, <2>7, <2>8, <2>9
  <2>11. ~Acknowledges(seq, incoming) BY <2>10 DEF Acknowledges
  <2>12. incoming = SequenceNumber(d + n) BY <1>1, <1>2, <2>2
  <2>13. i # d + 1
    <3>1. SUFFICES ASSUME i = d + 1 PROVE FALSE OBVIOUS
    <3>2. i <= d + 1 * WINDOW_SIZE BY <1>1, <3>1, NumbersType
    <3>3. Block(i) <= Block(d) + 1 BY <1>1, <1>3, <3>2, BlockDistance
    <3>4. Block(i) \in Nat /\ Block(d) \in Nat BY <1>1, <1>3, Parts
    <3>   QED BY <2>7, <2>9, <2>10, <3>3, <3>4
  <2>   QED BY <1>1, <1>3, <1>9, <2>11, <2>12, <2>13
<1>10. i <= d \/ i \in q \/ (i > d + 1 /\ ~Acknowledges(seq, SequenceNumber(d + n)))
  BY <1>1, <1>3, <1>9
<1> QED BY <1>6, <1>7, <1>8, <1>10 DEF d, q

\* What is delivered is always the next packets, in order.
LEMMA ReceiveInv ==
  ASSUME TypeOK, NEW h \in 0 .. sent, ChannelInv(h), NEW i \in net, Receive(i)
  PROVE  /\ TypeOK' /\ h \in 0 .. sent' /\ ChannelInv(h)'
         /\ \E n \in Nat :
              /\ Len(delivered) + n <= h
              /\ delivered' = delivered \o [k \in 1 .. n |-> Len(delivered) + k]
<1> DEFINE d == Len(delivered)
           q == QueueWith(i)
           ready == Ready(q)
<1>1. ListsInv(h) /\ WindowsInv(h) /\ NetworkInv(h) /\ ReceiverInv(h) BY DEF ChannelInv
<1>2. /\ h \in Nat /\ sent \in Nat /\ h <= sent /\ h <= MaxSent
      /\ UNCHANGED <<sent, outgoing, inTransit, tried, reliableWindows, net>>
  BY <1>1, Bounded, BoundsAssumption DEF TypeOK, Receive, senderVars
<1>3. d \in Nat /\ d <= h BY <1>2 DEF ReceiverInv, ChannelInv, TypeOK
<1>4. i \in 1 .. h /\ h <= i + Late BY <1>1 DEF NetworkInv, TypeOK, Packets
<1>5. PICK n \in Nat :
        /\ ready = [k \in 1 .. n |-> d + k]
        /\ \A k \in 1 .. n : d + k \in q
        /\ d + n + 1 \notin q
        /\ q \subseteq d + 1 .. h
        /\ IncomingAfter(i) = SequenceNumber(d + n)
        /\ \/ i <= d \/ i \in q
           \/ i > d + 1 /\ ~Acknowledges(SequenceNumber(i), SequenceNumber(d + n))
  BY <1>4, Accepts
<1>6. queue \subseteq q BY DEF QueueWith
<1>7. /\ delivered' = delivered \o ready /\ queue' = q \ ToSet(ready)
      /\ incoming' = SequenceNumber(d + n)
      /\ acks' = IF Acknowledges(SequenceNumber(i), incoming') THEN acks \cup {i} ELSE acks
  BY <1>5 DEF Receive
<1>8. d + n \in Nat /\ d + n <= h
  <2>1. CASE n = 0 BY <1>3, <2>1
  <2>2. CASE n # 0
    <3>1. n \in 1 .. n BY <2>2
    <3>2. d + n \in d + 1 .. h BY <1>5, <3>1
    <3>   QED BY <1>2, <1>3, <3>2
  <2>   QED BY <2>1, <2>2
<1> HIDE DEF q, ready
<1>9. ready \in Seq(Packets) /\ Len(ready) = n /\ ToSet(ready) = {d + k : k \in 1 .. n}
  <2>1. \A k \in 1 .. n : d + k \in Packets BY <1>2, <1>3, <1>8, BoundsAssumption DEF Packets
  <2>2. ready \in [1 .. n -> Packets] BY <1>5, <2>1
  <2>3. ready \in Seq(Packets) /\ Len(ready) = n BY <2>2
  <2>4. ToSet(ready) = {ready[k] : k \in 1 .. n} BY <2>3, ElementsOf
  <2>   QED BY <1>5, <2>3, <2>4
<1>10. /\ delivered' \in Seq(Packets) /\ Len(delivered') = d + n
       /\ \A k \in 1 .. d : delivered'[k] = delivered[k]
       /\ \A k \in 1 .. n : delivered'[d + k] = ready[k]
  <2>1. delivered \in Seq(Packets) /\ ready \in Seq(Packets) BY <1>9 DEF TypeOK
  <2>2. /\ delivered \o ready \in Seq(Packets)
        /\ Len(delivered \o ready) = Len(delivered) + Len(ready)
        /\ \A k \in 1 .. Len(delivered) : (delivered \o ready)[k] = delivered[k]
        /\ \A k \in 1 .. Len(ready) : (delivered \o ready)[Len(delivered) + k] = ready[k]
    BY <2>1, Concatenated
  <2>   QED BY <1>7, <1>9, <2>2, Zenon
<1>11. ASSUME NEW k \in 1 .. d + n PROVE delivered'[k] = k
  <2>1. CASE k <= d
    <3>1. k \in 1 .. d BY <1>3, <2>1
    <3>   QED BY <1>1, <1>10, <3>1 DEF ReceiverInv
  <2>2. CASE k > d
    <3>1. k - d \in 1 .. n /\ d + (k - d) = k BY <1>3, <2>2
    <3>2. delivered'[d + (k - d)] = d + (k - d) BY <1>5, <1>10, <3>1
    <3>   QED BY <3>1, <3>2
  <2>   QED BY <1>3, <2>1, <2>2
<1> HIDE DEF d
<1>12. ASSUME NEW j \in queue' PROVE d + n + 1 < j /\ j <= h
  <2>1. j \in q /\ j # d + n + 1 /\ j \in d + 1 .. h BY <1>5, <1>7
  <2>2. ~(j - d \in 1 .. n)
    <3>1. d + (j - d) = j BY <1>3, <2>1
    <3>   QED BY <1>7, <1>9, <3>1
  <2>   QED BY <1>2, <1>3, <2>1, <2>2
<1>13. \A j \in q : j \in Arrived'
  <2>1. SUFFICES ASSUME NEW j \in q, j \in ToSet(ready) PROVE j \in 1 .. d + n
    BY <1>7, <1>10 DEF Arrived
  <2>   QED BY <1>3, <1>9, <2>1
<1>14. Arrived \subseteq Arrived'
  <2>1. \A j \in 1 .. d : j \in 1 .. d + n BY <1>3
  <2>   QED BY <1>6, <1>10, <1>13, <2>1 DEF Arrived, d
<1>15. acks' \subseteq Arrived'
  <2>1. Acknowledges(SequenceNumber(i), incoming') => i \in Arrived'
    <3>1. CASE i <= d
      <4>1. i \in 1 .. d BY <1>3, <1>4, <3>1
      <4>2. i \in Arrived BY <4>1 DEF Arrived, d
      <4>   QED BY <1>14, <4>2
    <3>2. CASE i \in q BY <1>13, <3>2
    <3>   QED BY <1>5, <1>7, <3>1, <3>2
  <2>   QED BY <1>1, <1>7, <1>14, <2>1 DEF NetworkInv
<1>16. TypeOK'
  <2>1. queue' \subseteq Packets
    <3>1. \A j \in d + 1 .. h : j \in Packets BY <1>2, <1>3, BoundsAssumption DEF Packets
    <3>   QED BY <1>5, <1>7, <3>1
  <2>2. acks' \subseteq Packets BY <1>7 DEF TypeOK
  <2>3. incoming' \in 0 .. WINDOWS * WINDOW_SIZE - 1 BY <1>7, <1>8, Parts DEF Numbers
  <2>   QED BY <1>2, <1>10, <2>1, <2>2, <2>3 DEF TypeOK
<1>17. ListsInv(h)' BY <1>1, <1>2 DEF ListsInv, NewComeLast, Again
<1>18. WindowsInv(h)' BY <1>1, <1>2 DEF WindowsInv, InWindow
<1>19. NetworkInv(h)'
  <2>1. acks' \subseteq acks \cup {i} /\ net' = net /\ i \in net BY <1>2, <1>7
  <2>2. \A j \in net' \cup acks' : j \in net \cup acks BY <2>1
  <2>   QED BY <1>1, <1>15, <2>2 DEF NetworkInv
<1>20. ReceiverInv(h)'
  <2>1. tried' = tried BY <1>2
  <2>   QED BY <1>1, <1>7, <1>8, <1>10, <1>11, <1>12, <1>14, <2>1 DEF ReceiverInv
<1>21. delivered' = delivered \o [k \in 1 .. n |-> Len(delivered) + k] BY <1>5, <1>7 DEF d
<1> QED BY <1>2, <1>8, <1>16, <1>17, <1>18, <1>19, <1>20, <1>21 DEF ChannelInv, d

---------------------------------------------------------------------------
(***************************************************************************)
(* The theorems.                                                           *)
(***************************************************************************)

LEMMA InvNext == IInv /\ [Next]_vars => IInv'
<1> SUFFICES ASSUME IInv, [Next]_vars PROVE IInv' OBVIOUS
<1>1. TypeOK BY DEF IInv
<1>2. PICK h \in 0 .. sent : ChannelInv(h) BY DEF IInv
<1>3. CASE Send BY <1>1, <1>2, <1>3, SendInv DEF IInv
<1>4. CASE Transmit BY <1>1, <1>2, <1>4, TransmitInv DEF IInv
<1>5. CASE \E expired \in SUBSET DOMAIN inTransit : CheckTimeouts(expired)
  BY <1>1, <1>2, <1>5, CheckTimeoutsInv DEF IInv
<1>6. CASE \E i \in acks : ReceiveAcknowledgement(i)
  BY <1>1, <1>2, <1>6, ReceiveAcknowledgementInv DEF IInv
<1>7. CASE \E i \in net : Receive(i) BY <1>1, <1>2, <1>7, ReceiveInv DEF IInv
<1>8. CASE UNCHANGED vars
  <2> USE <1>8 DEF vars
  <2>1. TypeOK' BY <1>1 DEF TypeOK
  <2>2. ChannelInv(h)'
    BY <1>2 DEF ChannelInv, ListsInv, NewComeLast, Again, WindowsInv, InWindow, NetworkInv,
                ReceiverInv, Arrived
  <2>   QED BY <1>2, <2>1, <2>2 DEF IInv
<1> QED BY <1>3, <1>4, <1>5, <1>6, <1>7, <1>8 DEF Next

\* The invariant holds in every state.
THEOREM ReliableInductive == Spec => []IInv
<1>1. Init => IInv BY InvInit
<1>2. IInv /\ [Next]_vars => IInv' BY InvNext
<1> QED BY <1>1, <1>2, PTL DEF Spec

LEMMA InvBooksRight == IInv => BooksRight
<1> SUFFICES ASSUME IInv PROVE BooksRight OBVIOUS
<1>1. TypeOK BY DEF IInv
<1>2. PICK h \in 0 .. sent : ChannelInv(h) BY DEF IInv
<1>3. ListsInv(h) /\ WindowsInv(h) /\ ReceiverInv(h) BY <1>2 DEF ChannelInv
<1>4. EachOnce
  <2>1. outgoing \in Seq(Packets) /\ inTransit \in Seq(Packets) BY <1>1 DEF TypeOK
  <2>   QED BY <1>3, <2>1, DistinctCount DEF ListsInv, EachOnce
<1>5. WindowsCount BY <1>3 DEF ListsInv, WindowsInv, WindowsCount, InWindow
<1>6. ASSUME NEW i \in 1 .. sent
      PROVE  i \in ToSet(outgoing) \cup ToSet(inTransit) \cup ToSet(delivered) \cup queue
  <2>1. /\ h \in Nat /\ sent \in Nat /\ Again(h) \in Nat /\ Len(outgoing) \in Nat
        /\ Len(outgoing) = Again(h) + (sent - h)
    BY <1>1, <1>3, Bounded
  <2>2. CASE i <= h
    <3>1. i \in Arrived \cup tried
      <4>1. i \in 1 .. h BY <2>1, <2>2
      <4>   QED BY <1>3, <4>1 DEF ReceiverInv
    <3>2. ASSUME i \in 1 .. Len(delivered) PROVE i \in ToSet(delivered)
      <4>1. delivered[i] = i BY <1>3, <3>2 DEF ReceiverInv
      <4>2. delivered[i] \in ToSet(delivered) BY <1>1, <3>2, ElementsOf DEF TypeOK
      <4>   QED BY <4>1, <4>2
    <3>   QED BY <1>3, <3>1, <3>2 DEF ListsInv, Arrived
  <2>3. CASE ~(i <= h)
    <3> DEFINE m == Again(h) + (i - h)
    <3>1. m \in 1 .. Len(outgoing) /\ ~(m <= Again(h)) /\ h + (m - Again(h)) = i
      BY <2>1, <2>3
    <3> HIDE DEF m
    <3>2. outgoing[m] = i BY <1>3, <3>1 DEF ListsInv, NewComeLast
    <3>3. outgoing[m] \in ToSet(outgoing) BY <1>1, <3>1, ElementsOf DEF TypeOK
    <3>   QED BY <3>2, <3>3
  <2>   QED BY <2>2, <2>3
<1> QED BY <1>1, <1>4, <1>5, <1>6 DEF BooksRight

\* Through loss, repetition and reordering of packets and acknowledgements, the lists
\* and the counts of the sender agree, and it forgets only what the receiver has.
THEOREM ReliableBooksRight == Spec => []BooksRight
BY ReliableInductive, InvBooksRight, PTL

\* When nothing is in transit and the next packet is new, all windows are free.
LEMMA NothingWaits ==
  ASSUME TypeOK, NEW h \in 0 .. sent, ChannelInv(h), inTransit = <<>>, outgoing # <<>>
  PROVE  ~WindowWrap(Head(outgoing))
<1>1. ListsInv(h) /\ WindowsInv(h) BY DEF ChannelInv
<1>2. /\ h \in Nat /\ Again(h) \in Nat /\ Len(outgoing) \in Nat
      /\ \A m \in 1 .. Len(outgoing) : outgoing[m] \in 1 .. sent
  BY <1>1, Bounded
<1>3. /\ Head(outgoing) = outgoing[1] /\ 1 \in 1 .. Len(outgoing)
  <2>1. outgoing \in Seq(Packets) BY DEF TypeOK
  <2>   QED BY <2>1
<1>4. SUFFICES ASSUME outgoing[1] \notin tried, WindowWrap(outgoing[1]) PROVE FALSE
  BY <1>3 DEF WindowWrap
<1>5. \A m \in 1 .. Len(outgoing) :
        IF m <= Again(h) THEN outgoing[m] \in tried ELSE outgoing[m] = h + (m - Again(h))
  BY <1>1 DEF ListsInv, NewComeLast
<1>6. Again(h) = 0 BY <1>2, <1>3, <1>4, <1>5
<1>7. tried = {}
  <2>1. SUFFICES ASSUME NEW j \in tried PROVE FALSE OBVIOUS
  <2>2. ToSet(inTransit) = {} BY DEF ToSet
  <2>3. j \in ToSet(outgoing) /\ j \in 1 .. h BY <1>1, <2>2 DEF ListsInv
  <2>4. PICK m \in 1 .. Len(outgoing) : outgoing[m] = j BY <2>3, ElementsOf DEF TypeOK
  <2>5. outgoing[m] = h + (m - 0) BY <1>2, <1>5, <1>6
  <2>   QED BY <1>2, <2>3, <2>4, <2>5
<1>8. \A x \in 0 .. WINDOWS - 1 : reliableWindows[x] = 0
  <2>1. \A x : InWindow(x) = {} BY <1>7 DEF InWindow
  <2>   QED BY <1>1, <2>1, FS_EmptySet DEF WindowsInv
<1> DEFINE w == Window(SequenceNumber(outgoing[1]))
<1>9. w \in 0 .. WINDOWS - 1
  <2>1. outgoing[1] \in Nat BY <1>2, <1>3
  <2>   QED BY <2>1, Parts
<1>10. \A k \in Nat : reliableWindows[(w + k) % WINDOWS] = 0
  <2>1. SUFFICES ASSUME NEW k \in Nat PROVE (w + k) % WINDOWS \in 0 .. WINDOWS - 1 BY <1>8
  <2>2. w + k \in Nat BY <1>9
  <2>   QED BY <2>2, NumbersType, DivMod
<1>11. \/ reliableWindows[(w + WINDOWS - 1) % WINDOWS] >= WINDOW_SIZE
       \/ \E k \in 0 .. FREE_WINDOWS + 1 : reliableWindows[(w + k) % WINDOWS] > 0
  BY <1>4 DEF WindowWrap
<1> HIDE DEF w
<1>12. \A k \in 0 .. FREE_WINDOWS + 1 : ~(reliableWindows[(w + k) % WINDOWS] > 0)
  BY <1>10, WindowsAssumption
<1>13. reliableWindows[(w + WINDOWS - 1) % WINDOWS] = 0
  <2>1. WINDOWS - 1 \in Nat /\ w + WINDOWS - 1 = w + (WINDOWS - 1) BY <1>9, NumbersType
  <2>   QED BY <1>10, <2>1
<1> QED BY <1>11, <1>12, <1>13, NumbersType

LEMMA InvNeverStuck == IInv => NeverStuck
<1> SUFFICES ASSUME IInv PROVE NeverStuck OBVIOUS
<1>1. TypeOK BY DEF IInv
<1>2. PICK h \in 0 .. sent : ChannelInv(h) BY DEF IInv
<1>3. inTransit = <<>> /\ outgoing # <<>> => ~WindowWrap(Head(outgoing))
  BY <1>1, <1>2, NothingWaits
<1> DEFINE d == Len(delivered)
<1>4. ASSUME NEW i \in ToSet(inTransit), i <= d + 1
      PROVE  Acknowledges(SequenceNumber(i), IncomingAfter(i))
  <2>1. /\ h \in Nat /\ d \in Nat /\ d <= h /\ h < d + Numbers
    BY <1>1, <1>2, Outstanding
  <2>2. i \in tried /\ i \in 1 .. h BY <1>2 DEF ChannelInv, ListsInv
  <2>3. i \in Nat /\ i <= h BY <2>1, <2>2
  <2>4. Block(h) <= Block(i) + (FREE_WINDOWS - 2) BY <1>2, <2>2 DEF ChannelInv, WindowsInv
  <2>5. h <= i + Late /\ h < i + Numbers BY <2>1, <2>3, <2>4, Close, NumbersType
  <2>6. PICK n \in Nat :
          /\ \A k \in 1 .. n : d + k \in QueueWith(i)
          /\ d + n + 1 \notin QueueWith(i)
          /\ QueueWith(i) \subseteq d + 1 .. h
          /\ IncomingAfter(i) = SequenceNumber(d + n)
          /\ i <= d \/ i \in QueueWith(i) \/ i > d + 1
    BY <1>1, <1>2, <2>2, <2>5, Accepts
  <2> HIDE DEF d
  <2> DEFINE last == d + n
  <2>7. i <= last
    <3>1. CASE i <= d BY <2>1, <2>3, <2>6, <3>1
    <3>2. CASE i = d + 1
      <4>1. d + 1 \in QueueWith(i) BY <2>1, <2>3, <2>6, <3>2
      <4>2. n # 0 BY <2>1, <2>6, <4>1
      <4>   QED BY <2>1, <2>6, <3>2, <4>2
    <3>   QED BY <1>4, <2>1, <2>3, <3>1, <3>2
  <2>8. last \in Nat /\ last <= h
    <3>1. CASE n = 0 BY <2>1, <3>1
    <3>2. CASE n # 0
      <4>1. n \in 1 .. n BY <3>2
      <4>2. d + n \in d + 1 .. h BY <2>6, <4>1
      <4>   QED BY <2>1, <4>2
    <3>   QED BY <3>1, <3>2
  <2> HIDE DEF last
  <2>9. Window(SequenceNumber(last)) \in Nat /\ Block(i) \in Nat /\ Block(last) \in Nat
        /\ Block(h) \in Nat
    BY <2>1, <2>3, <2>8, Parts
  <2>10. RelativeWindow(SequenceNumber(i), SequenceNumber(last)) - Window(SequenceNumber(last))
           \notin FREE_WINDOWS - 1 .. FREE_WINDOWS
    <3>1. CASE i = last
      <4>1. RelativeWindow(SequenceNumber(i), SequenceNumber(last))
              = Window(SequenceNumber(last)) + (Block(i) - Block(last))
        BY <2>3, <2>8, <3>1, Ahead, NumbersType
      <4>   QED BY <2>9, <3>1, <4>1, WindowsAssumption
    <3>2. CASE i < last
      <4>1. RelativeWindow(SequenceNumber(i), SequenceNumber(last))
              = Window(SequenceNumber(last)) + WINDOWS - (Block(last) - Block(i))
        <5>1. last < i + Numbers BY <2>1, <2>3, <2>5, <2>8, NumbersType
        <5>   QED BY <2>3, <2>8, <3>2, <5>1, Behind
      <4>2. Block(last) <= Block(h) BY <2>1, <2>8, BlockDistance
      <4>   QED BY <2>4, <2>9, <4>1, <4>2, WindowsAssumption
    <3>   QED BY <2>3, <2>7, <2>8, <3>1, <3>2
  <2>   QED BY <2>6, <2>10 DEF Acknowledges, last
<1> QED BY <1>3, <1>4 DEF NeverStuck

\* No packet is stuck for good: the windows open when all is acknowledged, and what the
\* receiver waits for, or has delivered, is acknowledged when it comes.
THEOREM ReliableNeverStuck == Spec => []NeverStuck
BY ReliableInductive, InvNeverStuck, PTL

---------------------------------------------------------------------------
\* Every step is one of the abstract channel, or changes nothing that is seen there.
LEMMA StepIsFifoStep == IInv /\ [Next]_vars => [Fifo!Next]_(Fifo!vars)
<1> SUFFICES ASSUME IInv, [Next]_vars PROVE [Fifo!Next]_(Fifo!vars) OBVIOUS
<1>1. TypeOK BY DEF IInv
<1>2. PICK h \in 0 .. sent : ChannelInv(h) BY DEF IInv
<1>3. sent \in Nat /\ h \in Nat /\ h <= sent /\ sent <= MaxSent
  <2>1. ListsInv(h) BY <1>2 DEF ChannelInv
  <2>   QED BY <1>1, <2>1, Bounded, BoundsAssumption DEF TypeOK
<1>4. CASE Send
  <2>1. sent' = sent + 1 /\ delivered' = delivered /\ sent + 1 \in Packets
    BY <1>3, <1>4, BoundsAssumption DEF Send, receiverVars, Packets
  <2>2. [j \in 1 .. sent' |-> j] = Append([j \in 1 .. sent |-> j], sent + 1)
    <3> DEFINE s == [j \in 1 .. sent |-> j]
    <3>1. s \in Seq(Nat) /\ Len(s) = sent BY <1>3
    <3>2. Append(s, sent + 1) = [j \in 1 .. sent + 1 |-> IF j <= sent THEN s[j] ELSE sent + 1]
      BY <1>3, <3>1
    <3>3. \A j \in 1 .. sent + 1 : (IF j <= sent THEN s[j] ELSE sent + 1) = j BY <1>3
    <3>   QED BY <2>1, <3>2, <3>3
  <2>3. PICK p \in Packets : p = sent + 1 BY <2>1
  <2>4. Fifo!Send(p) BY <2>1, <2>2, <2>3 DEF Fifo!Send
  <2>   QED BY <2>4 DEF Fifo!Next
<1>5. CASE \E i \in net : Receive(i)
  <2>1. PICK i \in net : Receive(i) BY <1>5
  <2>2. ChannelInv(h)' /\ TypeOK' BY <1>1, <1>2, <2>1, ReceiveInv
  <2>3. PICK n \in Nat : /\ Len(delivered) + n <= h
                         /\ delivered' = delivered \o [k \in 1 .. n |-> Len(delivered) + k]
    BY <1>1, <1>2, <2>1, ReceiveInv
  <2>4. sent' = sent BY <2>1 DEF Receive, senderVars
  <2> DEFINE d == Len(delivered)
  <2>5. delivered \in Seq(Packets) /\ d \in Nat BY <1>1 DEF TypeOK
  <2>6. Len(delivered') = d + n
    <3>1. \A k \in 1 .. n : d + k \in Packets BY <1>3, <2>3, <2>5, BoundsAssumption DEF Packets
    <3>2. [k \in 1 .. n |-> d + k] \in Seq(Packets) /\ Len([k \in 1 .. n |-> d + k]) = n
      BY <2>5, <3>1
    <3>   QED BY <2>3, <2>5, <3>2, ConcatProperties
  <2>7. delivered' = [k \in 1 .. d + n |-> k]
    <3>1. delivered' \in [1 .. d + n -> Packets] BY <2>2, <2>6 DEF TypeOK
    <3>2. \A k \in 1 .. d + n : delivered'[k] = k
      BY <2>2, <2>6 DEF ChannelInv, ReceiverInv
    <3>   QED BY <3>1, <3>2
  <2>8. delivered = [k \in 1 .. d |-> k]
    <3>1. delivered \in [1 .. d -> Packets] BY <2>5
    <3>2. \A k \in 1 .. d : delivered[k] = k BY <1>2 DEF ChannelInv, ReceiverInv
    <3>   QED BY <3>1, <3>2
  <2> HIDE DEF d
  <2>9. CASE n = 0
    <3>1. d + n = d BY <2>5, <2>9
    <3>2. delivered' = delivered BY <2>7, <2>8, <3>1
    <3>   QED BY <2>4, <3>2 DEF Fifo!vars
  <2>10. CASE n # 0
    <3> DEFINE s == [j \in 1 .. sent |-> j]
    <3>1. s \in Seq(Nat) /\ Len(s) = sent BY <1>3
    <3>2. d + n \in d + 1 .. sent BY <1>3, <2>3, <2>5, <2>10 DEF d
    <3>3. SubSeq(s, 1, d + n) = [k \in 1 .. d + n |-> s[k]]
      <4>1. SubSeq(s, 1, d + n) = [k \in 1 .. (1 + (d + n)) - 1 |-> s[(k + 1) - 1]]
        BY <1>3, <2>5, <3>1, <3>2
      <4>2. (1 + (d + n)) - 1 = d + n /\ \A k \in 1 .. d + n : (k + 1) - 1 = k BY <2>5
      <4>   QED BY <4>1, <4>2
    <3>4. \A k \in 1 .. d + n : s[k] = k BY <1>3, <2>5, <3>2
    <3>5. delivered' = SubSeq(s, 1, d + n) BY <2>7, <3>3, <3>4
    <3>6. Fifo!Deliver BY <2>4, <3>1, <3>2, <3>5 DEF Fifo!Deliver, d
    <3>   QED BY <3>6 DEF Fifo!Next
  <2>   QED BY <2>9, <2>10
<1>6. CASE \/ Transmit \/ UNCHANGED vars
           \/ \E expired \in SUBSET DOMAIN inTransit : CheckTimeouts(expired)
           \/ \E i \in acks : ReceiveAcknowledgement(i)
  <2>1. sent' = sent /\ delivered' = delivered
    BY <1>6 DEF vars, Transmit, CheckTimeouts, ReceiveAcknowledgement, receiverVars
  <2>   QED BY <2>1 DEF Fifo!vars
<1> QED BY <1>4, <1>5, <1>6 DEF Next

\* Across the wrap of the sequence numbers, each packet is delivered once and in order.
THEOREM ReliableImplementsFifo == Spec => FifoSpec
<1>1. Init => Fifo!Init
  <2>1. Init => [i \in 1 .. sent |-> i] = <<>> BY DEF Init
  <2>   QED BY <2>1 DEF Init, Fifo!Init
<1>2. IInv /\ [Next]_vars => [Fifo!Next]_(Fifo!vars) BY StepIsFifoStep
<1> QED BY <1>1, <1>2, ReliableInductive, PTL DEF Spec, FifoSpec, Fifo!Spec
=============================================================================
