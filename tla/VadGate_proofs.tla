---------------------------- MODULE VadGate_proofs ---------------------------
(***************************************************************************)
(* What is proved of the VAD gate for every frame length, hangover and     *)
(* preroll, and however the audio is cut into buffers.                     *)
(***************************************************************************)
EXTENDS VadGate, OrderLemmas, SequenceTheorems

Sample == [at : Nat, silent : BOOLEAN]
GateType == [preroll : Seq(Sample), pending : Seq(Sample), seen : Nat, run : Nat, open : BOOLEAN]

\* How many samples are in the frames the detector was asked about.
Classified == Len(voiced) * FrameLength

\* The frames of v that end a run of voice long enough, and the run v ends in
\* after n frames.
Opening(v) == {f \in Hangover .. Len(v) : \A k \in f - Hangover + 1 .. f : v[k]}
Trailing(r, v, n) ==
    /\ r \in 0 .. n
    /\ \A k \in n - r + 1 .. n : v[k]
    /\ r = n \/ ~v[n - r]

\* Types, and where each sample stands.
HeardOK ==
    /\ heard \in Seq(Sample) /\ voiced \in Seq(BOOLEAN)
    /\ start \in Nat /\ next = start + Len(heard)
    /\ \A i \in 1 .. Len(heard) : heard[i].at = start + i - 1
    /\ Classified <= Len(heard)
    /\ arms \in 1 .. MaxArms
GateOK ==
    /\ gate \in GateType
    /\ fed \in [audio : Seq(Sample), at : Int, skipped : Int]

\* Closed, the gate holds the end of the classified frames and the samples that
\* do not fill one, and no run was long enough yet.
ClosedInv ==
    ~gate.open =>
        /\ Len(heard) < Classified + FrameLength
        /\ gate.pending = SubSeq(heard, Classified + 1, Len(heard))
        /\ gate.preroll = Latest(Preroll, SubSeq(heard, 1, Classified))
        /\ gate.seen = Len(heard)
        /\ fed = NothingFed
        /\ Trailing(gate.run, voiced, Len(voiced)) /\ gate.run < Hangover
        /\ Opening(voiced) = {}

\* Open, it holds nothing, the last frame asked about was the first to end a run
\* long enough, and the model is fed everything from its preroll on.
OpenInv ==
    gate.open =>
        /\ gate.pending = <<>> /\ gate.preroll = <<>>
        /\ gate.seen <= Len(heard) /\ gate.run <= Hangover
        /\ Opening(voiced) = {Len(voiced)}
        /\ fed.audio = Trimmed(Latest(Preroll, SubSeq(heard, 1, Classified)))
                       \o SubSeq(heard, Classified + 1, Len(heard))
        /\ fed.skipped = Len(heard) - Len(fed.audio)
        /\ fed.at = start + fed.skipped

GateInv == HeardOK /\ GateOK /\ ClosedInv /\ OpenInv

-----------------------------------------------------------------------------
\* Parts of sequences.

\* What is behind a sequence does not change its front.
LEMMA FrontOfConcat ==
    ASSUME NEW S, NEW s \in Seq(S), NEW t \in Seq(S), NEW n \in 0 .. Len(s)
    PROVE  SubSeq(s \o t, 1, n) = SubSeq(s, 1, n)
<1>1. CASE n = 0
  <2>1. SubSeq(s \o t, 1, 0) = <<>> /\ SubSeq(s, 1, 0) = <<>>
    BY SubSeqEmpty
  <2> QED BY <1>1, <2>1
<1>2. CASE n # 0
  <2>1. 1 \in 1 .. Len(s) /\ n \in 1 .. Len(s)
    BY <1>2
  <2> QED BY <2>1, SubSeqOfConcat1
<1> QED BY <1>1, <1>2

\* What is behind the first n elements of a sequence.
LEMMA BackOf ==
    ASSUME NEW S, NEW s \in Seq(S), NEW n \in 0 .. Len(s)
    PROVE  /\ SubSeq(s, n + 1, Len(s)) \in Seq(S)
           /\ Len(SubSeq(s, n + 1, Len(s))) = Len(s) - n
           /\ \A i \in 1 .. Len(s) - n : SubSeq(s, n + 1, Len(s))[i] = s[n + i]
<1> DEFINE p == Len(s)
           a == SubSeq(s, n + 1, p)
<1>1. p \in Nat /\ n \in 0 .. p /\ \A i \in 1 .. p : s[i] \in S
  OBVIOUS
<1> HIDE DEF p
<1>2. \A i \in n + 1 .. p : s[i] \in S
  BY <1>1
<1>3. /\ a \in Seq(S)
      /\ Len(a) = IF n + 1 <= p THEN p - (n + 1) + 1 ELSE 0
      /\ \A i \in 1 .. p - (n + 1) + 1 : a[i] = s[n + 1 + i - 1]
  BY <1>1, <1>2, SubSeqProperties
<1>4. \A i \in 1 .. p - n : n + 1 + i - 1 = n + i
  BY <1>1
<1>5. p - (n + 1) + 1 = p - n /\ (n + 1 <= p \/ p - n = 0)
  BY <1>1
<1> HIDE DEF a
<1>6. Len(a) = p - n
  BY <1>3, <1>5
<1>7. \A i \in 1 .. p - n : a[i] = s[n + i]
  BY <1>3, <1>4, <1>5
<1> QED BY <1>3, <1>6, <1>7 DEF a, p

\* The back of a sequence grows with it.
LEMMA BackOfConcat ==
    ASSUME NEW S, NEW s \in Seq(S), NEW t \in Seq(S), NEW n \in 0 .. Len(s)
    PROVE  SubSeq(s, n + 1, Len(s)) \o t = SubSeq(s \o t, n + 1, Len(s \o t))
<1> DEFINE u == s \o t
           a == SubSeq(s, n + 1, Len(s))
           b == SubSeq(u, n + 1, Len(u))
           p == Len(s)
           q == Len(t)
<1>1. /\ p \in Nat /\ q \in Nat /\ n \in 0 .. p
      /\ u \in Seq(S) /\ Len(u) = p + q
      /\ \A i \in 1 .. p + q : u[i] = IF i <= p THEN s[i] ELSE t[i - p]
  BY ConcatProperties
<1>2. /\ a \in Seq(S) /\ Len(a) = p - n /\ \A i \in 1 .. p - n : a[i] = s[n + i]
  BY BackOf
<1>3. /\ b \in Seq(S) /\ Len(b) = p + q - n /\ \A i \in 1 .. p + q - n : b[i] = u[n + i]
  <2> HIDE DEF u, p, q
  <2>1. n \in 0 .. Len(u)
    BY <1>1
  <2>2. /\ b \in Seq(S) /\ Len(b) = Len(u) - n /\ \A i \in 1 .. Len(u) - n : b[i] = u[n + i]
    BY <1>1, <2>1, BackOf
  <2> HIDE DEF b
  <2> QED BY <1>1, <2>2
<1>4. /\ a \o t \in Seq(S) /\ Len(a \o t) = (p - n) + q
      /\ \A i \in 1 .. (p - n) + q : (a \o t)[i] = IF i <= p - n THEN a[i] ELSE t[i - (p - n)]
  <2> HIDE DEF a, p
  <2>1. /\ a \o t \in Seq(S) /\ Len(a \o t) = Len(a) + q
        /\ \A i \in 1 .. Len(a) + q : (a \o t)[i] = IF i <= Len(a) THEN a[i] ELSE t[i - Len(a)]
    BY <1>2, ConcatProperties
  <2> QED BY <1>2, <2>1
<1> HIDE DEF u, p, q, a, b
<1>5. (p - n) + q = p + q - n
  BY <1>1
<1>6. \A i \in 1 .. p + q - n : (a \o t)[i] = b[i]
  <2> SUFFICES ASSUME NEW i \in 1 .. p + q - n PROVE (a \o t)[i] = b[i]
    OBVIOUS
  <2>1. b[i] = u[n + i] /\ n + i \in 1 .. p + q
    BY <1>1, <1>3
  <2>2. CASE i <= p - n
    <3>1. i \in 1 .. p - n /\ n + i <= p
      BY <1>1, <2>2
    <3> QED BY <1>1, <1>2, <1>4, <1>5, <2>1, <2>2, <3>1
  <2>3. CASE ~(i <= p - n)
    <3>1. ~(n + i <= p) /\ i - (p - n) = n + i - p
      BY <1>1, <2>3
    <3>2. (a \o t)[i] = t[i - (p - n)]
      BY <1>4, <1>5, <2>3
    <3>3. u[n + i] = t[n + i - p]
      BY <1>1, <2>1, <3>1
    <3> QED BY <2>1, <3>1, <3>2, <3>3
  <2> QED BY <2>2, <2>3
<1>7. a \o t = b
  BY <1>3, <1>4, <1>5, <1>6, SeqEqual
<1> QED BY <1>7 DEF a, b, u, p

\* A part of the back of a sequence is a part of the sequence.
LEMMA PartOfBack ==
    ASSUME NEW S, NEW s \in Seq(S), NEW n \in Nat, NEW i \in Nat, NEW j \in Nat, n + j <= Len(s)
    PROVE  SubSeq(SubSeq(s, n + 1, Len(s)), i + 1, j) = SubSeq(s, n + i + 1, n + j)
<1>1. Len(s) \in Nat
  OBVIOUS
<1>2. CASE j <= i
  <2>1. SubSeq(SubSeq(s, n + 1, Len(s)), i + 1, j) = <<>>
    BY <1>2, SubSeqEmpty
  <2>2. SubSeq(s, n + i + 1, n + j) = <<>>
    <3>1. n + j < n + i + 1 /\ n + i + 1 \in Int /\ n + j \in Int
      BY <1>2
    <3> QED BY <3>1, SubSeqEmpty
  <2> QED BY <2>1, <2>2
<1>3. CASE i < j
  <2> DEFINE x == n + 1
             y == Len(s)
             v == i + 1
  <2>1. /\ x \in 1 .. Len(s) /\ y \in 1 .. Len(s)
        /\ v \in 1 .. y - x + 1 /\ j \in 1 .. y - x + 1
        /\ x + v - 1 = n + i + 1 /\ x + j - 1 = n + j
    BY <1>1, <1>3
  <2> HIDE DEF x, y, v
  <2>2. SubSeq(SubSeq(s, x, y), v, j) = SubSeq(s, x + v - 1, x + j - 1)
    BY <2>1, SubSeqOfSubSeq
  <2> QED BY <2>1, <2>2 DEF x, y, v
<1> QED BY <1>2, <1>3

\* The first n elements of a sequence.
LEMMA FrontOf ==
    ASSUME NEW S, NEW s \in Seq(S), NEW n \in 0 .. Len(s)
    PROVE  /\ SubSeq(s, 1, n) \in Seq(S) /\ Len(SubSeq(s, 1, n)) = n
           /\ \A i \in 1 .. n : SubSeq(s, 1, n)[i] = s[i]
<1> DEFINE p == Len(s)
<1>1. p \in Nat /\ n \in 0 .. p /\ \A i \in 1 .. p : s[i] \in S
  OBVIOUS
<1> HIDE DEF p
<1>2. n \in Int /\ \A i \in 1 .. n : s[i] \in S
  BY <1>1
<1>3. /\ SubSeq(s, 1, n) \in Seq(S)
      /\ Len(SubSeq(s, 1, n)) = IF 1 <= n THEN n - 1 + 1 ELSE 0
      /\ \A i \in 1 .. n - 1 + 1 : SubSeq(s, 1, n)[i] = s[1 + i - 1]
  BY <1>2, SubSeqProperties
<1>4. n - 1 + 1 = n /\ (1 <= n \/ n = 0) /\ \A i \in 1 .. n : 1 + i - 1 = i
  BY <1>1
<1> QED BY <1>3, <1>4

\* The latest elements are the back of a sequence, behind a number of elements.
Cut(n, l) == IF l > n THEN l - n ELSE 0

LEMMA LatestIsBack ==
    ASSUME NEW S, NEW s \in Seq(S), NEW n \in Nat
    PROVE  /\ Latest(n, s) = SubSeq(s, Cut(n, Len(s)) + 1, Len(s))
           /\ Cut(n, Len(s)) \in 0 .. Len(s)
           /\ Latest(n, s) \in Seq(S) /\ Len(Latest(n, s)) = Len(s) - Cut(n, Len(s))
           /\ Len(Latest(n, s)) <= n
<1> DEFINE l == Len(s)
           c == Cut(n, l)
<1>1. l \in Nat
  OBVIOUS
<1>2. c \in 0 .. l /\ l - c <= n /\ c + 1 = IF l > n THEN l - n + 1 ELSE 1
  <2> HIDE DEF l
  <2> QED BY <1>1 DEF Cut
<1>3. Latest(n, s) = SubSeq(s, c + 1, l)
  BY <1>2 DEF Latest
<1> HIDE DEF c
<1>4. Latest(n, s) \in Seq(S) /\ Len(Latest(n, s)) = l - c
  BY <1>2, <1>3, BackOf
<1> QED BY <1>2, <1>3, <1>4 DEF c

\* The ring may be cut before it grows or after.
LEMMA LatestConcat ==
    ASSUME NEW S, NEW s \in Seq(S), NEW t \in Seq(S), NEW n \in Nat
    PROVE  Latest(n, Latest(n, s) \o t) = Latest(n, s \o t)
<1> DEFINE u == s \o t
           c == Cut(n, Len(s))
           w == SubSeq(u, c + 1, Len(u))
           d == Cut(n, Len(w))
           p == Len(s)
           q == Len(t)
<1>1. u \in Seq(S) /\ p \in Nat /\ q \in Nat /\ Len(u) = p + q
  BY ConcatProperties
<1>2. c \in 0 .. p /\ Latest(n, s) = SubSeq(s, c + 1, Len(s))
  BY LatestIsBack
<1>3. Latest(n, s) \o t = w
  <2> HIDE DEF c
  <2> QED BY <1>2, BackOfConcat
<1>4. w \in Seq(S) /\ Len(w) = (p + q) - c
  <2> HIDE DEF c, u, p, q
  <2>1. c \in 0 .. Len(u)
    BY <1>1, <1>2
  <2> QED BY <1>1, <2>1, BackOf
<1>5. d \in 0 .. Len(w) /\ Latest(n, w) = SubSeq(w, d + 1, Len(w))
  <2> HIDE DEF w
  <2> QED BY <1>4, LatestIsBack
<1>6. c + d = Cut(n, p + q)
  <2>1. c = Cut(n, p) /\ d = Cut(n, (p + q) - c)
    BY <1>4
  <2> HIDE DEF c, d, p, q
  <2> QED BY <1>1, <1>2, <2>1 DEF Cut
<1>7. SubSeq(w, d + 1, Len(w)) = SubSeq(u, c + d + 1, Len(u))
  <2> DEFINE j == Len(w)
  <2>1. j \in Nat /\ c + j = Len(u) /\ c \in Nat /\ d \in Nat
    <3> HIDE DEF c, d, w, u, p, q
    <3> QED BY <1>1, <1>2, <1>4, <1>5
  <2> HIDE DEF c, d, j, u
  <2>2. SubSeq(SubSeq(u, c + 1, Len(u)), d + 1, j) = SubSeq(u, c + d + 1, c + j)
    BY <1>1, <2>1, PartOfBack
  <2> QED BY <2>1, <2>2 DEF j
<1>8. Latest(n, u) = SubSeq(u, Cut(n, Len(u)) + 1, Len(u))
  <2> HIDE DEF u
  <2> QED BY <1>1, LatestIsBack
<1> HIDE DEF c, d, w, u, p, q
<1> QED BY <1>1, <1>3, <1>5, <1>6, <1>7, <1>8 DEF u

\* open_on only trims the front.
LEMMA TrimmedIsBack ==
    ASSUME NEW s \in Seq(Sample)
    PROVE  \E m \in 0 .. Len(s) : Trimmed(s) = SubSeq(s, m + 1, Len(s))
<1> DEFINE sounds == {i \in DOMAIN s : ~s[i].silent}
<1>1. Len(s) \in Nat /\ DOMAIN s = 1 .. Len(s)
  OBVIOUS
<1>2. CASE sounds = {}
  <2>1. Trimmed(s) = <<>>
    BY <1>2 DEF Trimmed
  <2>2. SubSeq(s, Len(s) + 1, Len(s)) = <<>>
    BY <1>1, SubSeqEmpty
  <2>3. Len(s) \in 0 .. Len(s)
    BY <1>1
  <2> QED BY <2>1, <2>2, <2>3
<1>3. CASE sounds # {}
  <2>1. sounds \in SUBSET Nat /\ sounds \subseteq 1 .. Len(s)
    BY <1>1
  <2>2. Trimmed(s) = SubSeq(s, Min(sounds), Len(s))
    BY <1>3 DEF Trimmed
  <2> HIDE DEF sounds
  <2>3. \E x \in sounds : \A y \in sounds : x <= y
    BY <1>3, <2>1, LeastNat
  <2>4. Min(sounds) \in sounds
    BY <2>3 DEF Min
  <2> DEFINE m == Min(sounds) - 1
             l == Len(s)
  <2>5. Min(sounds) \in 1 .. l /\ l \in Nat
    BY <1>1, <2>1, <2>4
  <2>6. m \in 0 .. Len(s) /\ m + 1 = Min(sounds)
    <3> HIDE DEF l
    <3>1. m \in 0 .. l /\ m + 1 = Min(sounds)
      BY <2>5
    <3> QED BY <3>1 DEF l
  <2> HIDE DEF m
  <2> QED BY <2>2, <2>6
<1> QED BY <1>2, <1>3

-----------------------------------------------------------------------------
\* The run of voice, frame by frame.

\* A frame continues the run the verdicts end in, or ends it.
LEMMA RunStep ==
    ASSUME NEW v \in Seq(BOOLEAN), NEW n \in Nat, n + 1 <= Len(v), NEW r, Trailing(r, v, n)
    PROVE  Trailing(NextRun(r, v[n + 1]), v, n + 1)
<1>1. r \in 0 .. n /\ (\A k \in n - r + 1 .. n : v[k]) /\ (r = n \/ ~v[n - r])
  BY DEF Trailing
<1>2. CASE v[n + 1]
  <2>1. NextRun(r, v[n + 1]) = r + 1
    BY <1>2 DEF NextRun
  <2>2. r + 1 \in 0 .. n + 1
    BY <1>1
  <2>3. ASSUME NEW k \in (n + 1) - (r + 1) + 1 .. n + 1 PROVE v[k]
    <3>1. k = n + 1 \/ k \in n - r + 1 .. n
      BY <1>1
    <3> QED BY <1>1, <1>2, <3>1
  <2>4. r + 1 = n + 1 \/ ~v[(n + 1) - (r + 1)]
    <3>1. (n + 1) - (r + 1) = n - r
      BY <1>1
    <3> QED BY <1>1, <3>1
  <2> QED BY <2>1, <2>2, <2>3, <2>4 DEF Trailing
<1>3. CASE ~v[n + 1]
  <2>1. NextRun(r, v[n + 1]) = 0
    BY <1>3 DEF NextRun
  <2>2. 0 \in 0 .. n + 1 /\ (n + 1) - 0 + 1 .. n + 1 = {} /\ (n + 1) - 0 = n + 1
    OBVIOUS
  <2>3. ~v[(n + 1) - 0]
    BY <1>3, <2>2
  <2> QED BY <2>1, <2>2, <2>3 DEF Trailing
<1> QED BY <1>2, <1>3

\* A frame opens the gate exactly if the run it ends is long enough.
LEMMA OpensByRun ==
    ASSUME NEW v \in Seq(BOOLEAN), NEW n \in 0 .. Len(v), NEW r, Trailing(r, v, n)
    PROVE  n \in Opening(v) <=> r >= Hangover
<1>1. r \in 0 .. n /\ (\A k \in n - r + 1 .. n : v[k]) /\ (r = n \/ ~v[n - r])
  BY DEF Trailing
<1>2. Hangover \in Nat \ {0} /\ Len(v) \in Nat
  BY GateAssumption
<1>3. ASSUME r >= Hangover PROVE n \in Opening(v)
  <2>1. n \in Hangover .. Len(v)
    BY <1>1, <1>2, <1>3
  <2>2. ASSUME NEW k \in n - Hangover + 1 .. n PROVE v[k]
    <3>1. k \in n - r + 1 .. n
      BY <1>1, <1>2, <1>3
    <3> QED BY <1>1, <3>1
  <2> QED BY <2>1, <2>2 DEF Opening
<1>4. ASSUME n \in Opening(v), ~(r >= Hangover) PROVE FALSE
  <2>1. n \in Hangover .. Len(v) /\ \A k \in n - Hangover + 1 .. n : v[k]
    BY <1>4 DEF Opening
  <2>2. r # n /\ n - r \in n - Hangover + 1 .. n
    BY <1>1, <1>2, <1>4, <2>1
  <2> QED BY <1>1, <2>1, <2>2
<1> QED BY <1>3, <1>4

\* More verdicts do not change which of the earlier frames end a long run.
LEMMA OpeningOfFront ==
    ASSUME NEW v \in Seq(BOOLEAN), NEW w \in Seq(BOOLEAN), Len(v) <= Len(w),
           \A i \in 1 .. Len(v) : v[i] = w[i]
    PROVE  Opening(v) = {f \in Opening(w) : f <= Len(v)}
<1> DEFINE p == Len(v)
           q == Len(w)
<1>1. Hangover \in Nat \ {0} /\ p \in Nat /\ q \in Nat /\ p <= q /\ \A i \in 1 .. p : v[i] = w[i]
  BY GateAssumption
<1>2. /\ Opening(v) = {f \in Hangover .. p : \A k \in f - Hangover + 1 .. f : v[k]}
      /\ Opening(w) = {f \in Hangover .. q : \A k \in f - Hangover + 1 .. f : w[k]}
  BY DEF Opening
<1> HIDE DEF p, q
<1>3. ASSUME NEW f \in Hangover .. p, NEW k \in f - Hangover + 1 .. f PROVE v[k] = w[k]
  <2>1. k \in 1 .. p
    BY <1>1
  <2> QED BY <1>1, <2>1
<1>4. Hangover .. p = {f \in Hangover .. q : f <= p}
  BY <1>1
<1>5. ASSUME NEW f \in Opening(v) PROVE f \in Opening(w) /\ f <= p
  BY <1>1, <1>2, <1>3, <1>4
<1>6. ASSUME NEW f \in Opening(w), f <= p PROVE f \in Opening(v)
  <2>1. f \in Hangover .. p
    BY <1>2, <1>4, <1>6
  <2> QED BY <1>2, <1>3, <2>1
<1> QED BY <1>5, <1>6 DEF p

\* The run after each of the first n scores.
Runs(run, r, scores, n) ==
    run = [k \in 0 .. n |-> IF k = 0 THEN r ELSE NextRun(run[k - 1], scores[k])]

LEMMA RunsDefined ==
    ASSUME NEW r, NEW scores, NEW n \in Nat
    PROVE  \E run : Runs(run, r, scores, n)
<1> DEFINE T == {m \in Nat : \E run : Runs(run, r, scores, m)}
<1>1. 0 \in T
  <2> DEFINE f == [k \in 0 .. 0 |-> r]
  <2>1. Runs(f, r, scores, 0)
    BY DEF Runs
  <2> QED BY <2>1
<1>2. ASSUME NEW m \in T PROVE m + 1 \in T
  <2>1. PICK f : Runs(f, r, scores, m)
    OBVIOUS
  <2> DEFINE g == [k \in 0 .. m + 1 |-> IF k <= m THEN f[k] ELSE NextRun(f[m], scores[m + 1])]
  <2>2. ASSUME NEW k \in 0 .. m + 1
        PROVE  g[k] = IF k = 0 THEN r ELSE NextRun(g[k - 1], scores[k])
    <3>1. CASE k = m + 1
      BY <3>1
    <3>2. CASE k # m + 1
      <4>1. k \in 0 .. m /\ (k # 0 => k - 1 \in 0 .. m)
        BY <3>2
      <4>2. f[k] = IF k = 0 THEN r ELSE NextRun(f[k - 1], scores[k])
        BY <2>1, <4>1 DEF Runs
      <4> QED BY <4>1, <4>2
    <3> QED BY <3>1, <3>2
  <2>3. Runs(g, r, scores, m + 1)
    BY <2>2 DEF Runs
  <2> HIDE DEF g
  <2>4. m + 1 \in Nat
    OBVIOUS
  <2> QED BY <2>3, <2>4
<1>3. T = Nat
  BY <1>1, <1>2, NatInductionSet
<1> QED BY <1>3

\* It is the run the verdicts end in, at every frame of the buffer.
LEMMA RunsTrail ==
    ASSUME NEW v \in Seq(BOOLEAN), NEW scores \in Seq(BOOLEAN), NEW r, NEW run,
           Runs(run, r, scores, Len(scores)), Trailing(r, v, Len(v))
    PROVE  \A k \in 0 .. Len(scores) : Trailing(run[k], v \o scores, Len(v) + k)
<1> DEFINE p == Len(v)
           q == Len(scores)
           w == v \o scores
           T == {m \in Nat : m <= q => Trailing(run[m], w, p + m)}
<1>1. /\ p \in Nat /\ q \in Nat /\ w \in Seq(BOOLEAN) /\ Len(w) = p + q
      /\ \A i \in 1 .. p + q : w[i] = IF i <= p THEN v[i] ELSE scores[i - p]
  BY ConcatProperties
<1>2. \A k \in 0 .. q : run[k] = IF k = 0 THEN r ELSE NextRun(run[k - 1], scores[k])
  BY DEF Runs
<1>3. r \in 0 .. p /\ (\A k \in p - r + 1 .. p : v[k]) /\ (r = p \/ ~v[p - r])
  BY DEF Trailing
<1> HIDE DEF p, q, w
<1>4. 0 \in T
  <2>1. run[0] = r /\ p + 0 = p
    BY <1>1, <1>2
  <2>2. \A k \in p - r + 1 .. p : w[k]
    <3>1. \A k \in p - r + 1 .. p : k \in 1 .. p + q /\ k <= p
      BY <1>1, <1>3
    <3> QED BY <1>1, <1>3, <3>1
  <2>3. r = p \/ ~w[p - r]
    <3>1. r # p => p - r \in 1 .. p + q /\ p - r <= p
      BY <1>1, <1>3
    <3> QED BY <1>1, <1>3, <3>1
  <2>4. Trailing(r, w, p)
    BY <1>3, <2>2, <2>3 DEF Trailing
  <2> QED BY <2>1, <2>4
<1>5. ASSUME NEW m \in T PROVE m + 1 \in T
  <2> SUFFICES ASSUME m + 1 <= q PROVE Trailing(run[m + 1], w, p + (m + 1))
    OBVIOUS
  <2>1. m \in Nat /\ m <= q /\ Trailing(run[m], w, p + m)
    BY <1>1
  <2>2. /\ p + m \in Nat /\ (p + m) + 1 = p + (m + 1) /\ p + (m + 1) <= p + q
        /\ p + (m + 1) \in 1 .. p + q /\ ~(p + (m + 1) <= p) /\ p + (m + 1) - p = m + 1
        /\ m + 1 \in 0 .. q /\ m + 1 # 0 /\ (m + 1) - 1 = m
    BY <1>1, <2>1
  <2>3. w[p + (m + 1)] = scores[m + 1] /\ run[m + 1] = NextRun(run[m], scores[m + 1])
    <3>1. w[p + (m + 1)] = scores[m + 1]
      BY <1>1, <2>2
    <3>2. run[m + 1] = NextRun(run[(m + 1) - 1], scores[m + 1])
      BY <1>2, <2>2
    <3> QED BY <2>2, <3>1, <3>2
  <2>4. Trailing(NextRun(run[m], w[(p + m) + 1]), w, (p + m) + 1)
    BY <1>1, <2>1, <2>2, RunStep
  <2> QED BY <2>2, <2>3, <2>4
<1>6. T = Nat
  <2> HIDE DEF T
  <2>1. T \in SUBSET Nat
    BY DEF T
  <2> QED BY <1>4, <1>5, <2>1, NatInductionSet
<1>7. ASSUME NEW k \in 0 .. q PROVE Trailing(run[k], w, p + k)
  <2>1. k \in Nat /\ k <= q
    BY <1>1
  <2>2. k \in T
    <3> HIDE DEF T
    <3> QED BY <1>6, <2>1
  <2> QED BY <2>1, <2>2
<1> QED BY <1>7 DEF p, q, w

\* What a buffer's scores make of the run.
LEMMA OpeningByRun ==
    ASSUME NEW v \in Seq(BOOLEAN), NEW scores \in Seq(BOOLEAN), NEW r, NEW run,
           Runs(run, r, scores, Len(scores)), Trailing(r, v, Len(v)), Opening(v) = {}
    PROVE  /\ \A k \in 0 .. Len(scores) : run[k] \in Nat
           /\ \A k \in 1 .. Len(scores) : run[k] >= Hangover => Len(v) + k \in Opening(v \o scores)
           /\ \A f \in Opening(v \o scores) :
                  f - Len(v) \in 1 .. Len(scores) /\ run[f - Len(v)] >= Hangover
<1> DEFINE p == Len(v)
           q == Len(scores)
           w == v \o scores
<1>1. /\ p \in Nat /\ q \in Nat /\ w \in Seq(BOOLEAN) /\ Len(w) = p + q
      /\ \A i \in 1 .. p + q : w[i] = IF i <= p THEN v[i] ELSE scores[i - p]
      /\ Hangover \in Nat \ {0}
  BY ConcatProperties, GateAssumption
<1>2. \A k \in 0 .. q : Trailing(run[k], w, p + k)
  BY RunsTrail
<1>3. {f \in Opening(w) : f <= p} = {}
  <2>1. Len(v) <= Len(w) /\ \A i \in 1 .. Len(v) : v[i] = w[i]
    <3>1. \A i \in 1 .. p : i \in 1 .. p + q /\ i <= p
      <4> HIDE DEF p, q
      <4> QED BY <1>1
    <3>2. p <= Len(w) /\ \A i \in 1 .. p : v[i] = w[i]
      <4> HIDE DEF p, q, w
      <4> QED BY <1>1, <3>1
    <3> QED BY <3>2 DEF p
  <2> HIDE DEF w
  <2> QED BY <1>1, <2>1, OpeningOfFront
<1>4. Opening(w) \subseteq 0 .. p + q
  <2> HIDE DEF p, q, w
  <2> QED BY <1>1 DEF Opening
<1> HIDE DEF p, q, w
<1>5. \A k \in 0 .. q : run[k] \in Nat
  BY <1>1, <1>2 DEF Trailing
<1>6. ASSUME NEW k \in 1 .. q PROVE p + k \in Opening(w) <=> run[k] >= Hangover
  <2>1. Trailing(run[k], w, p + k) /\ p + k \in 0 .. Len(w)
    BY <1>1, <1>2
  <2> QED BY <1>1, <2>1, OpensByRun
<1>7. ASSUME NEW f \in Opening(w) PROVE f - p \in 1 .. q /\ run[f - p] >= Hangover
  <2>1. f \in 0 .. p + q /\ ~(f <= p)
    BY <1>3, <1>4
  <2>2. f - p \in 1 .. q /\ p + (f - p) = f
    BY <1>1, <2>1
  <2> QED BY <1>6, <2>2
<1> QED BY <1>5, <1>6, <1>7 DEF p, q, w

\* A buffer none of whose frames ends a run long enough.
LEMMA StaysClosed ==
    ASSUME NEW v \in Seq(BOOLEAN), NEW scores \in Seq(BOOLEAN), NEW r, NEW run,
           Runs(run, r, scores, Len(scores)), Trailing(r, v, Len(v)), Opening(v) = {},
           r < Hangover, \A k \in 1 .. Len(scores) : ~(run[k] >= Hangover)
    PROVE  /\ run[Len(scores)] \in Nat /\ run[Len(scores)] < Hangover
           /\ Trailing(run[Len(scores)], v \o scores, Len(v \o scores))
           /\ Opening(v \o scores) = {}
<1> DEFINE p == Len(v)
           q == Len(scores)
           w == v \o scores
<1>1. p \in Nat /\ q \in Nat /\ Len(w) = p + q /\ Hangover \in Nat
  BY ConcatProperties, GateAssumption
<1>2. /\ \A k \in 0 .. q : run[k] \in Nat
      /\ \A f \in Opening(w) : f - p \in 1 .. q /\ run[f - p] >= Hangover
  BY OpeningByRun
<1>3. \A k \in 0 .. q : Trailing(run[k], w, p + k)
  BY RunsTrail
<1>4. run[0] = r
  BY <1>1 DEF Runs
<1>5. \A k \in 1 .. q : ~(run[k] >= Hangover)
  OBVIOUS
<1> HIDE DEF p, q, w
<1>6. Opening(w) = {}
  BY <1>2, <1>5
<1>7. Trailing(run[q], w, Len(w)) /\ run[q] \in Nat
  BY <1>1, <1>2, <1>3
<1>8. run[q] < Hangover
  <2>1. q = 0 \/ q \in 1 .. q
    BY <1>1
  <2> QED BY <1>1, <1>4, <1>5, <1>7, <2>1
<1> QED BY <1>6, <1>7, <1>8 DEF p, q, w

\* Frame k of the scores is the first of a stream to end a run long enough, and
\* z the verdicts up to it.
FirstToOpen(v, scores, run, k, z) ==
    /\ run[k] \in Nat /\ run[k] <= Hangover
    /\ z \in Seq(BOOLEAN) /\ Len(z) = Len(v) + k
    /\ Opening(z) = {Len(z)}

\* A buffer whose frame k is the first to end a run long enough.
LEMMA OpensFirst ==
    ASSUME NEW v \in Seq(BOOLEAN), NEW scores \in Seq(BOOLEAN), NEW r, NEW run,
           Runs(run, r, scores, Len(scores)), Trailing(r, v, Len(v)), Opening(v) = {},
           r < Hangover, NEW k \in 1 .. Len(scores), run[k] >= Hangover,
           \A j \in 1 .. Len(scores) : run[j] >= Hangover => k <= j,
           NEW z, z = v \o SubSeq(scores, 1, k)
    PROVE  FirstToOpen(v, scores, run, k, z)
<1> DEFINE p == Len(v)
           q == Len(scores)
           w == v \o scores
<1>1. /\ p \in Nat /\ q \in Nat /\ w \in Seq(BOOLEAN) /\ Len(w) = p + q
      /\ \A i \in 1 .. p + q : w[i] = IF i <= p THEN v[i] ELSE scores[i - p]
      /\ Hangover \in Nat \ {0} /\ k \in 1 .. q
  BY ConcatProperties, GateAssumption
<1>2. /\ \A j \in 0 .. q : run[j] \in Nat
      /\ \A j \in 1 .. q : run[j] >= Hangover => p + j \in Opening(w)
      /\ \A f \in Opening(w) : f - p \in 1 .. q /\ run[f - p] >= Hangover
  BY OpeningByRun
<1>3. \A j \in 0 .. q : run[j] = IF j = 0 THEN r ELSE NextRun(run[j - 1], scores[j])
  BY DEF Runs
<1>4. \A j \in 1 .. q : run[j] >= Hangover => k <= j
  OBVIOUS
<1> HIDE DEF p, q, w
<1>5. run[k] \in Nat
  BY <1>1, <1>2
<1>6. run[k] <= Hangover
  <2>1. run[k] = NextRun(run[k - 1], scores[k]) /\ k - 1 \in 0 .. q /\ run[k - 1] \in Nat
    <3>1. k \in 0 .. q /\ k # 0 /\ k - 1 \in 0 .. q
      BY <1>1
    <3> QED BY <1>2, <1>3, <3>1
  <2>2. run[k - 1] < Hangover
    <3>1. CASE k = 1
      <4>1. run[k - 1] = r
        BY <1>1, <1>3, <3>1
      <4> QED BY <4>1
    <3>2. CASE k # 1
      <4>1. k - 1 \in 1 .. q /\ ~(k <= k - 1)
        BY <1>1, <3>2
      <4>2. ~(run[k - 1] >= Hangover)
        BY <1>4, <4>1
      <4> QED BY <1>1, <2>1, <4>2
    <3> QED BY <3>1, <3>2
  <2> DEFINE x == run[k - 1]
  <2>3. x \in Nat /\ x < Hangover /\ run[k] = NextRun(x, scores[k])
    BY <2>1, <2>2
  <2> HIDE DEF x
  <2> QED BY <1>1, <2>3 DEF NextRun
<1> DEFINE s == SubSeq(scores, 1, k)
<1>7. s \in Seq(BOOLEAN) /\ Len(s) = k /\ \A i \in 1 .. k : s[i] = scores[i]
  <2>1. k \in 0 .. Len(scores)
    BY <1>1 DEF q
  <2> QED BY <2>1, FrontOf
<1>8. z = v \o s
  OBVIOUS
<1> HIDE DEF s
<1>9. /\ z \in Seq(BOOLEAN) /\ Len(z) = p + k
      /\ \A i \in 1 .. p + k : z[i] = IF i <= p THEN v[i] ELSE s[i - p]
  BY <1>7, <1>8, ConcatProperties DEF p
<1>10. \A i \in 1 .. p + k : z[i] = w[i]
  <2> SUFFICES ASSUME NEW i \in 1 .. p + k PROVE z[i] = w[i]
    OBVIOUS
  <2>1. i \in 1 .. p + q /\ (~(i <= p) => i - p \in 1 .. k)
    BY <1>1
  <2> QED BY <1>1, <1>7, <1>9, <2>1
<1>11. Opening(z) = {f \in Opening(w) : f <= p + k}
  <2>1. Len(z) <= Len(w) /\ \A i \in 1 .. Len(z) : z[i] = w[i]
    BY <1>1, <1>9, <1>10
  <2>2. z \in Seq(BOOLEAN) /\ w \in Seq(BOOLEAN)
    BY <1>1, <1>9
  <2>3. Opening(z) = {f \in Opening(w) : f <= Len(z)}
    BY <2>1, <2>2, OpeningOfFront
  <2> QED BY <1>9, <2>3
<1>12. p + k \in Opening(z)
  <2>1. p + k \in Opening(w) /\ p + k <= p + k
    BY <1>1, <1>2
  <2> QED BY <1>11, <2>1
<1>13. ASSUME NEW f \in Opening(z) PROVE f = p + k
  <2>1. f \in Opening(w) /\ f <= p + k
    BY <1>11
  <2>2. f - p \in 1 .. q /\ run[f - p] >= Hangover
    BY <1>2, <2>1
  <2>3. k <= f - p
    BY <1>4, <2>2
  <2>4. f \in Int
    <3> HIDE DEF q
    <3>1. f \in Hangover .. Len(z)
      BY DEF Opening
    <3> QED BY <1>1, <1>9, <3>1
  <2> QED BY <1>1, <2>1, <2>3, <2>4
<1>14. Opening(z) = {Len(z)}
  BY <1>9, <1>12, <1>13
<1> QED BY <1>5, <1>6, <1>9, <1>14 DEF FirstToOpen, p

\* Where a buffer's scores open the gate, and how many of its frames are asked about.
Opens(run, scores) == {k \in DOMAIN scores : run[k] >= Hangover}
Asked(run, scores) == IF Opens(run, scores) = {} THEN Len(scores) ELSE Min(Opens(run, scores))

\* push's two answers, over the frames asked about.
Withheld(run, samples, frames) ==
    [gate |-> [gate EXCEPT !.preroll = Retained(gate.preroll, gate.pending \o samples, frames),
                           !.pending = Remainder(gate.pending \o samples, frames),
                           !.seen = gate.seen + Len(samples), !.run = run[frames]],
     asked |-> frames, released |-> <<>>, skipped |-> 0]
Opened(run, samples, frames) ==
    LET kept == Retained(gate.preroll, gate.pending \o samples, frames)
        tail == Remainder(gate.pending \o samples, frames)
    IN  [gate |-> [gate EXCEPT !.preroll = <<>>, !.pending = <<>>, !.seen = gate.seen + Len(samples),
                               !.run = run[frames], !.open = TRUE],
         asked |-> frames, released |-> Trimmed(kept) \o tail,
         skipped |-> SkippedSamples(gate.seen + Len(samples), Len(kept) + Len(tail), Trimmed(kept) \o tail)]

LEMMA ClassifyMade ==
    ASSUME NEW samples, NEW scores \in Seq(BOOLEAN)
    PROVE  \E run :
               /\ Runs(run, gate.run, scores, Len(scores))
               /\ Classify(samples, scores) =
                      IF Opens(run, scores) = {} THEN Withheld(run, samples, Asked(run, scores))
                      ELSE Opened(run, samples, Asked(run, scores))
<1> DEFINE run[k \in 0 .. Len(scores)] == IF k = 0 THEN gate.run ELSE NextRun(run[k - 1], scores[k])
<1>1. Runs(run, gate.run, scores, Len(scores))
  <2>1. \E f : Runs(f, gate.run, scores, Len(scores))
    <3>1. Len(scores) \in Nat
      OBVIOUS
    <3> QED BY <3>1, RunsDefined
  <2>2. run = CHOOSE f : Runs(f, gate.run, scores, Len(scores))
    BY DEF run, Runs
  <2> HIDE DEF run
  <2> QED BY <2>1, <2>2
<1>2. ASSUME Opens(run, scores) = {}
      PROVE  Classify(samples, scores) = Withheld(run, samples, Asked(run, scores))
  BY <1>2 DEF Classify, Opens, Asked, Withheld
<1>3. ASSUME Opens(run, scores) # {}
      PROVE  Classify(samples, scores) = Opened(run, samples, Asked(run, scores))
  BY <1>3 DEF Classify, Opens, Asked, Opened, Remainder
<1> HIDE DEF run
<1> QED BY <1>1, <1>2, <1>3

\* Only the gate's own fields are set.
LEMMA WithheldFields ==
    ASSUME NEW run, NEW samples, NEW frames, gate \in GateType,
           NEW g, g = Withheld(run, samples, frames).gate
    PROVE  /\ g.preroll = Retained(gate.preroll, gate.pending \o samples, frames)
           /\ g.pending = Remainder(gate.pending \o samples, frames)
           /\ g.seen = gate.seen + Len(samples)
           /\ g.run = run[frames] /\ g.open = gate.open
           /\ g.preroll \in Seq(Sample) /\ g.pending \in Seq(Sample) /\ g.seen \in Nat /\ g.run \in Nat
              => g \in GateType
<1> DEFINE kept == Retained(gate.preroll, gate.pending \o samples, frames)
           tail == Remainder(gate.pending \o samples, frames)
           seen == gate.seen + Len(samples)
           r == run[frames]
           h == [gate EXCEPT !.preroll = kept, !.pending = tail, !.seen = seen, !.run = r]
<1>1. Withheld(run, samples, frames).gate = h
  BY DEF Withheld
<1> HIDE DEF kept, tail, seen, r
<1>2. h.preroll = kept /\ h.pending = tail /\ h.seen = seen /\ h.run = r /\ h.open = gate.open
  BY DEF GateType
<1>3. kept \in Seq(Sample) /\ tail \in Seq(Sample) /\ seen \in Nat /\ r \in Nat => h \in GateType
  BY DEF GateType
<1> HIDE DEF h
<1> QED BY <1>1, <1>2, <1>3 DEF kept, tail, seen, r

LEMMA OpenedFields ==
    ASSUME NEW run, NEW samples, NEW frames, gate \in GateType,
           NEW o, o = Opened(run, samples, frames)
    PROVE  /\ o.gate.preroll = <<>> /\ o.gate.pending = <<>> /\ o.gate.seen = gate.seen + Len(samples)
           /\ o.gate.run = run[frames] /\ o.gate.open
           /\ o.gate.seen \in Nat /\ o.gate.run \in Nat => o.gate \in GateType
           /\ o.asked = frames
           /\ o.skipped = (gate.seen + Len(samples)) - Len(o.released)
<1> DEFINE seen == gate.seen + Len(samples)
           r == run[frames]
           h == [gate EXCEPT !.preroll = <<>>, !.pending = <<>>, !.seen = seen, !.run = r, !.open = TRUE]
           out == Trimmed(Retained(gate.preroll, gate.pending \o samples, frames))
                  \o Remainder(gate.pending \o samples, frames)
           skip == SkippedSamples(seen, Len(Retained(gate.preroll, gate.pending \o samples, frames))
                                            + Len(Remainder(gate.pending \o samples, frames)), out)
<1>1. o = [gate |-> h, asked |-> frames, released |-> out, skipped |-> skip]
  BY DEF Opened
<1>2. skip = seen - Len(out)
  BY DEF SkippedSamples
<1>3. <<>> \in Seq(Sample) /\ TRUE \in BOOLEAN
  BY EmptySeq
<1> HIDE DEF seen, r, out, skip
<1>4. h.preroll = <<>> /\ h.pending = <<>> /\ h.seen = seen /\ h.run = r /\ h.open
  BY DEF GateType
<1>5. seen \in Nat /\ r \in Nat => h \in GateType
  BY <1>3 DEF GateType
<1> HIDE DEF h
<1>6. o.gate = h /\ o.asked = frames /\ o.released = out /\ o.skipped = skip
  BY <1>1
<1>7. o.skipped = (gate.seen + Len(samples)) - Len(o.released)
  <2>1. o.skipped = seen - Len(o.released)
    BY <1>2, <1>6
  <2> QED BY <2>1 DEF seen
<1>8. /\ o.gate.preroll = <<>> /\ o.gate.pending = <<>> /\ o.gate.seen = gate.seen + Len(samples)
      /\ o.gate.run = run[frames] /\ o.gate.open
  BY <1>4, <1>6 DEF seen, r
<1>9. o.gate.seen \in Nat /\ o.gate.run \in Nat => o.gate \in GateType
  BY <1>4, <1>5, <1>6
<1> QED BY <1>6, <1>7, <1>8, <1>9

-----------------------------------------------------------------------------
\* The samples of whole frames.

LEMMA FrameSums ==
    ASSUME NEW n \in Nat, NEW k \in Nat
    PROVE  n * FrameLength \in Nat /\ (n + k) * FrameLength = n * FrameLength + k * FrameLength
<1> DEFINE F == FrameLength
<1>1. F \in Nat
  BY GateAssumption
<1> HIDE DEF F
<1>2. n * F \in Nat /\ (n + k) * F = n * F + k * F
  BY <1>1
<1> QED BY <1>2 DEF F

LEMMA WholeFrames ==
    ASSUME NEW x \in Nat
    PROVE  /\ x \div FrameLength \in Nat
           /\ (x \div FrameLength) * FrameLength <= x
           /\ x < (x \div FrameLength) * FrameLength + FrameLength
           /\ \A k \in 0 .. x \div FrameLength : k * FrameLength <= x
<1> DEFINE F == FrameLength
           n == x \div F
<1>1. F \in Nat \ {0}
  BY GateAssumption
<1>2. n \in Nat /\ n * F <= x /\ x < n * F + F
  <2> HIDE DEF F
  <2>1. n \in Int /\ x = F * n + (x % F) /\ x % F \in 0 .. F - 1
    BY <1>1
  <2>2. n >= 0
    BY <1>1
  <2> HIDE DEF n
  <2>3. n * F = F * n /\ F * n \in Int /\ x % F \in Int
    BY <1>1, <2>1
  <2> QED BY <1>1, <2>1, <2>2, <2>3
<1> HIDE DEF n
<1>3. ASSUME NEW k \in 0 .. n PROVE k * F <= x
  <2> DEFINE m == n - k
  <2>1. k \in Nat /\ m \in Nat /\ k + m = n
    BY <1>2
  <2> HIDE DEF m
  <2>2. (k + m) * F = k * F + m * F /\ k * F \in Nat /\ m * F \in Nat
    BY <2>1, FrameSums
  <2> HIDE DEF F
  <2> QED BY <1>2, <2>1, <2>2
<1> QED BY <1>2, <1>3 DEF n

\* What Push takes from a buffer's silences.
LEMMA BufferMade ==
    ASSUME HeardOK, NEW n \in Nat, NEW silent \in [1 .. n -> BOOLEAN]
    PROVE  /\ Buffer(silent) \in Seq(Sample) /\ Len(Buffer(silent)) = n
           /\ \A i \in 1 .. n : Buffer(silent)[i].at = next + i - 1
<1>1. next \in Nat
  <2>1. heard \in Seq(Sample) /\ start \in Nat /\ next = start + Len(heard)
    BY DEF HeardOK
  <2> QED BY <2>1
<1>2. Buffer(silent) = [i \in 1 .. n |-> [at |-> next + i - 1, silent |-> silent[i]]]
  BY DEF Buffer
<1>3. \A i \in 1 .. n : [at |-> next + i - 1, silent |-> silent[i]] \in Sample
  <2>1. \A i \in 1 .. n : next + i - 1 \in Nat /\ silent[i] \in BOOLEAN
    BY <1>1
  <2> QED BY <2>1 DEF Sample
<1> QED BY <1>2, <1>3

\* What a buffer adds to the history.
LEMMA HeardGrows ==
    ASSUME HeardOK, NEW samples \in Seq(Sample),
           \A i \in 1 .. Len(samples) : samples[i].at = next + i - 1,
           heard' = heard \o samples, next' = next + Len(samples), UNCHANGED <<start, arms>>,
           voiced' \in Seq(BOOLEAN), Classified' <= Len(heard')
    PROVE  HeardOK' /\ Len(heard') = Len(heard) + Len(samples)
<1> DEFINE p == Len(heard)
           q == Len(samples)
<1>1. /\ heard \in Seq(Sample) /\ start \in Nat /\ next = start + p /\ arms \in 1 .. MaxArms
      /\ \A i \in 1 .. p : heard[i].at = start + i - 1
  BY DEF HeardOK
<1>2. /\ heard' \in Seq(Sample) /\ Len(heard') = p + q /\ p \in Nat /\ q \in Nat
      /\ \A i \in 1 .. p + q : heard'[i] = IF i <= p THEN heard[i] ELSE samples[i - p]
  BY <1>1, ConcatProperties
<1>3. \A i \in 1 .. q : samples[i].at = next + i - 1
  OBVIOUS
<1> HIDE DEF p, q
<1>4. ASSUME NEW i \in 1 .. p + q PROVE heard'[i].at = start + i - 1
  <2>1. CASE i <= p
    <3>1. i \in 1 .. p
      BY <1>2, <2>1
    <3> QED BY <1>1, <1>2, <2>1, <3>1
  <2>2. CASE ~(i <= p)
    <3>1. i - p \in 1 .. q /\ next + (i - p) - 1 = start + i - 1
      BY <1>1, <1>2, <2>2
    <3>2. heard'[i] = samples[i - p] /\ samples[i - p].at = next + (i - p) - 1
      BY <1>2, <1>3, <2>2, <3>1
    <3> QED BY <3>1, <3>2
  <2> QED BY <2>1, <2>2
<1>5. next' = start + (p + q)
  <2>1. next' = next + q
    BY DEF q
  <2>2. start \in Nat /\ next = start + p /\ p \in Nat /\ q \in Nat
    BY <1>1, <1>2
  <2> QED BY <2>1, <2>2
<1>6. HeardOK'
  <2>1. \A i \in 1 .. Len(heard') : heard'[i].at = start + i - 1
    BY <1>2, <1>4
  <2> QED BY <1>1, <1>2, <1>5, <2>1 DEF HeardOK
<1> QED BY <1>2, <1>6 DEF p, q

\* Closed, the gate's audio is what was heard behind the classified frames, and
\* k frames more leave the ring of the whole stream.
LEMMA ClosedAudio ==
    ASSUME GateInv, ~gate.open, NEW samples \in Seq(Sample)
    PROVE  /\ gate.pending \o samples \in Seq(Sample)
           /\ Len(gate.pending) + Len(samples) \in Nat
           /\ Len(gate.pending) + Len(samples) = Len(heard \o samples) - Classified
           /\ \A k \in Nat : k * FrameLength <= Len(gate.pending) + Len(samples) =>
                  /\ Classified + k * FrameLength \in 0 .. Len(heard \o samples)
                  /\ Retained(gate.preroll, gate.pending \o samples, k)
                         = Latest(Preroll, SubSeq(heard \o samples, 1, Classified + k * FrameLength))
                  /\ Remainder(gate.pending \o samples, k)
                         = SubSeq(heard \o samples, Classified + k * FrameLength + 1, Len(heard \o samples))
<1> DEFINE c == Classified
           u == heard \o samples
           a == gate.pending \o samples
<1>1. /\ heard \in Seq(Sample) /\ c <= Len(heard) /\ Len(heard) \in Nat
      /\ gate.pending = SubSeq(heard, c + 1, Len(heard))
      /\ gate.preroll = Latest(Preroll, SubSeq(heard, 1, c))
      /\ Preroll \in Nat
  BY GateAssumption DEF GateInv, HeardOK, ClosedInv
<1>2. c \in Nat
  <2>1. Len(voiced) \in Nat
    BY DEF GateInv, HeardOK
  <2> QED BY <2>1, FrameSums DEF Classified
<1> HIDE DEF c
<1>3. c \in 0 .. Len(heard)
  BY <1>1, <1>2
<1>4. Len(gate.pending) = Len(heard) - c /\ gate.pending \in Seq(Sample)
  BY <1>1, <1>3, BackOf
<1>5. u \in Seq(Sample) /\ Len(u) = Len(heard) + Len(samples) /\ Len(samples) \in Nat
  BY <1>1, ConcatProperties
<1>6. Len(gate.pending) + Len(samples) \in Nat /\ Len(gate.pending) + Len(samples) = Len(u) - c
  BY <1>1, <1>3, <1>4, <1>5
<1>7. a \in Seq(Sample)
  BY <1>4, ConcatProperties
<1>8. ASSUME NEW k \in Nat, k * FrameLength <= Len(gate.pending) + Len(samples)
      PROVE  /\ c + k * FrameLength \in 0 .. Len(u)
             /\ Retained(gate.preroll, a, k) = Latest(Preroll, SubSeq(u, 1, c + k * FrameLength))
             /\ Remainder(a, k) = SubSeq(u, c + k * FrameLength + 1, Len(u))
  <2> DEFINE d == k * FrameLength
  <2>1. d \in Nat
    BY FrameSums
  <2>2. d <= Len(gate.pending) + Len(samples)
    BY <1>8
  <2> HIDE DEF d
  <2>3. c + d \in 0 .. Len(u) /\ c + d <= Len(u)
    <3> HIDE DEF u
    <3> QED BY <1>2, <1>5, <1>6, <2>1, <2>2
  <2>4. a = SubSeq(heard, c + 1, Len(heard)) \o samples
    BY <1>1
  <2> DEFINE x == SubSeq(heard, 1, c)
             y == SubSeq(a, 1, d)
             z == SubSeq(a, d + 1, Len(a))
  <2>5. /\ x \in Seq(Sample) /\ y \in Seq(Sample) /\ x \o y = SubSeq(u, 1, c + d)
        /\ z = SubSeq(u, c + d + 1, Len(u))
    <3>1. a = SubSeq(u, c + 1, Len(u))
      BY <1>1, <1>3, <2>4, BackOfConcat
    <3>2. x = SubSeq(u, 1, c)
      BY <1>1, <1>3, FrontOfConcat
    <3> DEFINE l == Len(u)
    <3>3. l \in Nat /\ c + d <= l /\ Len(a) \in Nat /\ c + Len(a) = l
      <4>1. c \in 0 .. l /\ l \in Nat
        <5>1. Len(heard) \in Nat /\ Len(samples) \in Nat /\ l = Len(heard) + Len(samples)
          BY <1>1, <1>5
        <5> HIDE DEF l
        <5> QED BY <1>3, <5>1
      <4> HIDE DEF u
      <4>2. Len(a) = l - c
        BY <1>5, <3>1, <4>1, BackOf
      <4> HIDE DEF a, l
      <4> QED BY <1>2, <2>1, <2>3, <4>1, <4>2 DEF l
    <3> HIDE DEF u, a, x, l
    <3>4. y = SubSeq(u, c + 1, c + d)
      <4>1. SubSeq(SubSeq(u, c + 1, Len(u)), 0 + 1, d) = SubSeq(u, c + 0 + 1, c + d)
        BY <1>2, <1>5, <2>1, <2>3, PartOfBack
      <4>2. 0 + 1 = 1 /\ c + 0 + 1 = c + 1
        BY <1>2
      <4> QED BY <3>1, <4>1, <4>2 DEF y
    <3>5. z = SubSeq(u, c + d + 1, Len(u))
      <4>1. SubSeq(SubSeq(u, c + 1, Len(u)), d + 1, Len(a)) = SubSeq(u, c + d + 1, c + Len(a))
        BY <1>2, <1>5, <2>1, <3>3, PartOfBack DEF l
      <4> QED BY <3>1, <3>3, <4>1 DEF z, l
    <3>6. x \in Seq(Sample) /\ y \in Seq(Sample)
      <4>1. \A i \in 1 .. l : u[i] \in Sample
        BY <1>5 DEF l
      <4>2. (\A i \in 1 .. c : u[i] \in Sample) /\ (\A i \in c + 1 .. c + d : u[i] \in Sample)
        BY <1>2, <2>1, <3>3, <4>1
      <4>3. c \in Int /\ c + 1 \in Int /\ c + d \in Int
        BY <1>2, <2>1
      <4>4. x \in Seq(Sample)
        BY <3>2, <4>2, <4>3, SubSeqProperties
      <4>5. y \in Seq(Sample)
        <5> DEFINE e == c + 1
                   f == c + d
        <5>1. e \in Int /\ f \in Int /\ (\A i \in e .. f : u[i] \in Sample) /\ y = SubSeq(u, e, f)
          BY <3>4, <4>2, <4>3
        <5> HIDE DEF e, f
        <5> QED BY <5>1, SubSeqProperties
      <4> QED BY <4>4, <4>5
    <3>7. x \o y = SubSeq(u, 1, c + d)
      <4>1. 1 \in 1 .. Len(u) + 1 /\ c \in 1 - 1 .. Len(u) /\ c + d \in c .. Len(u)
        BY <1>2, <2>1, <3>3 DEF l
      <4>2. SubSeq(u, 1, c) \o SubSeq(u, c + 1, c + d) = SubSeq(u, 1, c + d)
        BY <1>5, <4>1, ConcatAdjacentSubSeq
      <4> QED BY <3>2, <3>4, <4>2
    <3> QED BY <3>5, <3>6, <3>7
  <2>6. Retained(gate.preroll, a, k) = Latest(Preroll, gate.preroll \o y)
    BY DEF Retained, d
  <2>7. Remainder(a, k) = z
    BY DEF Remainder, d
  <2>8. gate.preroll = Latest(Preroll, x)
    BY <1>1
  <2> HIDE DEF x, y, z
  <2>9. Latest(Preroll, Latest(Preroll, x) \o y) = Latest(Preroll, x \o y)
    BY <1>1, <2>5, LatestConcat
  <2>10. Retained(gate.preroll, a, k) = Latest(Preroll, SubSeq(u, 1, c + d))
    BY <2>5, <2>6, <2>8, <2>9
  <2> QED BY <2>3, <2>5, <2>7, <2>10 DEF d
<1> QED BY <1>6, <1>7, <1>8 DEF c

\* What a closed gate makes of a buffer and its scores, Withhold or Open: the
\* frames asked about are whole frames of the audio in hand.
LEMMA ClosedStart ==
    ASSUME GateInv, ~gate.open
    PROVE  /\ heard \in Seq(Sample) /\ voiced \in Seq(BOOLEAN) /\ Len(heard) \in Nat /\ Len(voiced) \in Nat
           /\ gate \in GateType /\ gate.seen = Len(heard) /\ fed = NothingFed /\ start \in Nat
           /\ next = start + Len(heard)
           /\ Trailing(gate.run, voiced, Len(voiced)) /\ gate.run < Hangover /\ Opening(voiced) = {}
<1>1. heard \in Seq(Sample) /\ voiced \in Seq(BOOLEAN) /\ start \in Nat /\ next = start + Len(heard)
  BY DEF GateInv, HeardOK
<1>2. /\ gate.seen = Len(heard) /\ fed = NothingFed
      /\ Trailing(gate.run, voiced, Len(voiced)) /\ gate.run < Hangover /\ Opening(voiced) = {}
  BY DEF GateInv, ClosedInv
<1>3. gate \in GateType
  BY DEF GateInv, GateOK
<1> QED BY <1>1, <1>2, <1>3

\* A buffer that is withheld: every frame in it was asked about.
LEMMA WithholdKeeps ==
    ASSUME GateInv, NEW samples \in Seq(Sample), NEW scores \in Seq(BOOLEAN),
           Len(scores) = (Len(gate.pending) + Len(samples)) \div FrameLength,
           \A i \in 1 .. Len(samples) : samples[i].at = next + i - 1,
           heard' = heard \o samples, next' = next + Len(samples), UNCHANGED <<start, arms>>,
           Withhold(samples, scores)
    PROVE  GateInv'
<1> DEFINE decided == Classify(samples, scores)
           N == Len(scores)
           x == Len(gate.pending) + Len(samples)
           audio == gate.pending \o samples
           kept == Retained(gate.preroll, audio, N)
           tail == Remainder(audio, N)
           c == Classified
           d == N * FrameLength
           L == Len(heard')
<1>1. /\ ~gate.open /\ ~decided.gate.open /\ gate' = decided.gate
      /\ voiced' = voiced \o scores /\ fed' = fed
  BY DEF Withhold
<1>2. /\ heard \in Seq(Sample) /\ voiced \in Seq(BOOLEAN) /\ Len(heard) \in Nat /\ Len(voiced) \in Nat
      /\ gate \in GateType /\ gate.seen = Len(heard) /\ fed = NothingFed /\ start \in Nat
      /\ next = start + Len(heard)
      /\ Trailing(gate.run, voiced, Len(voiced)) /\ gate.run < Hangover /\ Opening(voiced) = {}
  BY <1>1, ClosedStart
<1>3. x \in Nat /\ x = L - c
  BY <1>1, ClosedAudio
<1>4. N \in Nat /\ d \in Nat /\ d <= x /\ x < d + FrameLength
  <2>1. N = x \div FrameLength /\ N \in Nat
    OBVIOUS
  <2> HIDE DEF x, N
  <2>2. N * FrameLength <= x /\ x < N * FrameLength + FrameLength /\ N * FrameLength \in Nat
    BY <1>3, <2>1, WholeFrames, FrameSums
  <2> QED BY <2>1, <2>2
<1>5. /\ c + d \in 0 .. L
      /\ kept = Latest(Preroll, SubSeq(heard', 1, c + d))
      /\ tail = SubSeq(heard', c + d + 1, L)
  BY <1>1, <1>4, ClosedAudio
<1>6. kept \in Seq(Sample) /\ tail \in Seq(Sample) /\ heard' \in Seq(Sample) /\ L \in Nat
  <2> DEFINE s == SubSeq(heard', 1, c + d)
  <2>1. heard' \in Seq(Sample) /\ L \in Nat
    BY <1>2, ConcatProperties
  <2>2. s \in Seq(Sample)
    BY <1>5, <2>1, FrontOf
  <2>3. SubSeq(heard', c + d + 1, L) \in Seq(Sample)
    <3> DEFINE m == c + d
    <3> HIDE DEF c, d
    <3>1. m \in 0 .. L
      BY <1>5
    <3> HIDE DEF m
    <3>2. SubSeq(heard', m + 1, L) \in Seq(Sample)
      BY <2>1, <3>1, BackOf
    <3> QED BY <3>2 DEF m
  <2> HIDE DEF s
  <2>4. Latest(Preroll, s) \in Seq(Sample)
    BY <2>2, LatestIsBack, GateAssumption
  <2> QED BY <1>5, <2>1, <2>3, <2>4 DEF s
<1>7. PICK run :
          /\ Runs(run, gate.run, scores, Len(scores))
          /\ decided = IF Opens(run, scores) = {} THEN Withheld(run, samples, Asked(run, scores))
                       ELSE Opened(run, samples, Asked(run, scores))
  BY ClassifyMade, Zenon
<1>8. Opens(run, scores) = {}
  <2>1. Opens(run, scores) # {} => decided.gate.open
    <3>1. Opened(run, samples, Asked(run, scores)).gate.open
      BY <1>2, OpenedFields
    <3> HIDE DEF decided
    <3> QED BY <1>7, <3>1
  <2> HIDE DEF decided
  <2> QED BY <1>1, <2>1
<1>9. Asked(run, scores) = N /\ \A k \in 1 .. N : ~(run[k] >= Hangover)
  <2>1. DOMAIN scores = 1 .. N
    OBVIOUS
  <2> QED BY <1>8, <2>1 DEF Asked, Opens
<1>10. /\ run[N] \in Nat /\ run[N] < Hangover
       /\ Trailing(run[N], voiced \o scores, Len(voiced \o scores)) /\ Opening(voiced \o scores) = {}
  <2>1. Runs(run, gate.run, scores, Len(scores))
    BY <1>7
  <2> QED BY <1>2, <1>9, <2>1, StaysClosed
<1>11. L = Len(heard) + Len(samples) /\ gate.seen + Len(samples) = L
  BY <1>2, ConcatProperties
<1>12. /\ gate' \in GateType /\ gate'.preroll = kept /\ gate'.pending = tail
       /\ gate'.seen = L /\ gate'.run = run[N] /\ gate'.open = gate.open
  <2>1. gate' = Withheld(run, samples, N).gate
    BY <1>1, <1>7, <1>8, <1>9
  <2> DEFINE g == Withheld(run, samples, N).gate
  <2>2. g = Withheld(run, samples, N).gate
    OBVIOUS
  <2> HIDE DEF g, N
  <2>3. /\ g.preroll = Retained(gate.preroll, gate.pending \o samples, N)
        /\ g.pending = Remainder(gate.pending \o samples, N)
        /\ g.seen = gate.seen + Len(samples)
        /\ g.run = run[N] /\ g.open = gate.open
        /\ g.preroll \in Seq(Sample) /\ g.pending \in Seq(Sample) /\ g.seen \in Nat /\ g.run \in Nat
           => g \in GateType
    <3>1. gate \in GateType
      BY <1>2
    <3> QED BY <2>2, <3>1, WithheldFields
  <2>4. g.preroll = kept /\ g.pending = tail
    BY <2>3
  <2> HIDE DEF L, kept, tail
  <2> QED BY <1>6, <1>10, <1>11, <2>1, <2>2, <2>3, <2>4
<1>13. voiced' \in Seq(BOOLEAN) /\ Classified' = c + d
  <2>1. voiced' \in Seq(BOOLEAN) /\ Len(voiced') = Len(voiced) + N
    BY <1>1, <1>2, ConcatProperties
  <2>2. (Len(voiced) + N) * FrameLength = c + d
    BY <1>2, <1>4, FrameSums DEF Classified
  <2>3. Classified' = Len(voiced') * FrameLength
    BY DEF Classified
  <2> QED BY <2>1, <2>2, <2>3
<1>14. HeardOK'
  <2>1. Classified' <= L
    BY <1>5, <1>13
  <2> QED BY <1>13, <2>1, HeardGrows DEF GateInv
<1>15. ~gate'.open /\ fed' = NothingFed /\ NothingFed \in [audio : Seq(Sample), at : Int, skipped : Int]
  <2>1. <<>> \in Seq(Sample)
    BY EmptySeq
  <2>2. NothingFed \in [audio : Seq(Sample), at : Int, skipped : Int]
    BY <2>1 DEF NothingFed
  <2> QED BY <1>1, <1>2, <1>12, <2>2
<1>16. GateOK'
  BY <1>12, <1>15 DEF GateOK
<1>17. Trailing(gate'.run, voiced', Len(voiced')) /\ gate'.run < Hangover /\ Opening(voiced') = {}
  BY <1>1, <1>10, <1>12
<1>18. L < Classified' + FrameLength
  <2>1. c \in Nat /\ FrameLength \in Nat
    BY <1>2, FrameSums, GateAssumption DEF Classified
  <2> HIDE DEF c, d, x, L
  <2> QED BY <1>3, <1>4, <1>6, <1>13, <2>1
<1> HIDE DEF c, d, x, L, kept, tail, N
<1>19. ClosedInv'
  <2>1. /\ gate'.pending = SubSeq(heard', Classified' + 1, Len(heard'))
        /\ gate'.preroll = Latest(Preroll, SubSeq(heard', 1, Classified'))
        /\ gate'.seen = Len(heard') /\ Len(heard') < Classified' + FrameLength
    BY <1>5, <1>12, <1>13, <1>18 DEF L
  <2> QED BY <1>15, <1>17, <2>1 DEF ClosedInv
<1>20. OpenInv'
  BY <1>15 DEF OpenInv
<1> QED BY <1>14, <1>16, <1>19, <1>20 DEF GateInv

LEMMA TrimmedType ==
    ASSUME NEW s \in Seq(Sample)
    PROVE  Trimmed(s) \in Seq(Sample)
<1>1. PICK m \in 0 .. Len(s) : Trimmed(s) = SubSeq(s, m + 1, Len(s))
  BY TrimmedIsBack
<1> QED BY <1>1, BackOf

\* A buffer that opens the gate, at the first frame to end a run long enough.
LEMMA OpenKeeps ==
    ASSUME GateInv, NEW samples \in Seq(Sample), NEW scores \in Seq(BOOLEAN),
           Len(scores) = (Len(gate.pending) + Len(samples)) \div FrameLength,
           \A i \in 1 .. Len(samples) : samples[i].at = next + i - 1,
           heard' = heard \o samples, next' = next + Len(samples), UNCHANGED <<start, arms>>,
           Open(samples, scores)
    PROVE  GateInv'
<1> DEFINE decided == Classify(samples, scores)
           N == Len(scores)
           x == Len(gate.pending) + Len(samples)
           audio == gate.pending \o samples
           c == Classified
           L == Len(heard')
<1>1. /\ ~gate.open /\ decided.gate.open /\ gate' = decided.gate
      /\ voiced' = voiced \o SubSeq(scores, 1, decided.asked)
      /\ fed' = [audio |-> decided.released,
                 at |-> next + Len(samples) - (decided.skipped + Len(decided.released)) + decided.skipped,
                 skipped |-> decided.skipped]
  BY DEF Open
<1>2. /\ heard \in Seq(Sample) /\ voiced \in Seq(BOOLEAN) /\ Len(heard) \in Nat /\ Len(voiced) \in Nat
      /\ gate \in GateType /\ gate.seen = Len(heard) /\ fed = NothingFed /\ start \in Nat
      /\ next = start + Len(heard)
      /\ Trailing(gate.run, voiced, Len(voiced)) /\ gate.run < Hangover /\ Opening(voiced) = {}
  BY <1>1, ClosedStart
<1>3. x \in Nat /\ x = L - c
  BY <1>1, ClosedAudio
<1>4. PICK run :
          /\ Runs(run, gate.run, scores, Len(scores))
          /\ decided = IF Opens(run, scores) = {} THEN Withheld(run, samples, Asked(run, scores))
                       ELSE Opened(run, samples, Asked(run, scores))
  BY ClassifyMade, Zenon
<1>5. Opens(run, scores) # {}
  <2>1. Withheld(run, samples, Asked(run, scores)).gate.open = gate.open
    BY <1>2, WithheldFields
  <2> HIDE DEF decided
  <2> QED BY <1>1, <1>4, <2>1
<1> DEFINE k == Asked(run, scores)
           kept == Retained(gate.preroll, audio, k)
           tail == Remainder(audio, k)
           out == Trimmed(kept) \o tail
           d == k * FrameLength
<1>6. /\ N \in Nat /\ k \in 1 .. N /\ run[k] >= Hangover
      /\ \A j \in 1 .. N : run[j] >= Hangover => k <= j
  <2> DEFINE O == Opens(run, scores)
  <2>1. O = {j \in 1 .. N : run[j] >= Hangover} /\ N \in Nat
    BY DEF Opens
  <2>2. k = Min(O) /\ O # {}
    BY <1>5 DEF Asked
  <2> HIDE DEF O, k, N
  <2>3. O \in SUBSET Nat
    BY <2>1
  <2>4. \E y \in O : \A j \in O : y <= j
    BY <2>2, <2>3, LeastNat
  <2>5. Min(O) \in O /\ \A j \in O : Min(O) <= j
    BY <2>4 DEF Min
  <2> QED BY <2>1, <2>2, <2>5
<1>7. d \in Nat /\ d <= x
  <2>1. N = x \div FrameLength
    OBVIOUS
  <2> HIDE DEF x, N, k
  <2>2. k \in 0 .. x \div FrameLength /\ k \in Nat
    BY <1>6, <2>1
  <2> QED BY <1>3, <2>2, WholeFrames, FrameSums
<1>8. /\ c + d \in 0 .. L
      /\ kept = Latest(Preroll, SubSeq(heard', 1, c + d))
      /\ tail = SubSeq(heard', c + d + 1, L)
  <2>1. k \in Nat
    BY <1>6
  <2> HIDE DEF k
  <2> QED BY <1>1, <1>7, <2>1, ClosedAudio
<1>9. kept \in Seq(Sample) /\ tail \in Seq(Sample) /\ heard' \in Seq(Sample) /\ L \in Nat
  <2> DEFINE s == SubSeq(heard', 1, c + d)
  <2>1. heard' \in Seq(Sample) /\ L \in Nat
    BY <1>2, ConcatProperties
  <2>2. s \in Seq(Sample)
    BY <1>8, <2>1, FrontOf
  <2>3. SubSeq(heard', c + d + 1, L) \in Seq(Sample)
    <3> DEFINE m == c + d
    <3> HIDE DEF c, d
    <3>1. m \in 0 .. L
      BY <1>8
    <3> HIDE DEF m
    <3>2. SubSeq(heard', m + 1, L) \in Seq(Sample)
      BY <2>1, <3>1, BackOf
    <3> QED BY <3>2 DEF m
  <2> HIDE DEF s
  <2>4. Latest(Preroll, s) \in Seq(Sample)
    BY <2>2, LatestIsBack, GateAssumption
  <2> QED BY <1>8, <2>1, <2>3, <2>4 DEF s
<1>10. out \in Seq(Sample) /\ Len(out) \in Nat
  <2> HIDE DEF kept, tail
  <2>1. Trimmed(kept) \in Seq(Sample)
    BY <1>9, TrimmedType
  <2>2. out \in Seq(Sample)
    BY <1>9, <2>1, ConcatProperties
  <2> QED BY <2>2
<1>11. L = Len(heard) + Len(samples) /\ gate.seen + Len(samples) = L /\ Len(samples) \in Nat
  BY <1>2, ConcatProperties
<1> DEFINE z == voiced \o SubSeq(scores, 1, k)
<1>12. FirstToOpen(voiced, scores, run, k, z)
  <2> DEFINE r == gate.run
  <2>1. Runs(run, r, scores, Len(scores))
    BY <1>4
  <2>2. z = voiced \o SubSeq(scores, 1, k)
    OBVIOUS
  <2> HIDE DEF k, z, N
  <2>3. /\ voiced \in Seq(BOOLEAN) /\ Trailing(r, voiced, Len(voiced)) /\ Opening(voiced) = {}
        /\ r < Hangover
    BY <1>2
  <2>4. /\ k \in 1 .. Len(scores) /\ run[k] >= Hangover
        /\ \A j \in 1 .. Len(scores) : run[j] >= Hangover => k <= j
    BY <1>6 DEF N
  <2> HIDE DEF r
  <2> QED BY <2>1, <2>2, <2>3, <2>4, OpensFirst
<1>13. /\ decided.gate.preroll = <<>> /\ decided.gate.pending = <<>>
       /\ decided.gate.seen = L /\ decided.gate.run = run[k] /\ decided.gate.open
       /\ decided.gate \in GateType /\ decided.asked = k
       /\ decided.released = out /\ decided.skipped = L - Len(out)
  <2>1. decided = Opened(run, samples, k)
    BY <1>4, <1>5
  <2>2. gate \in GateType
    BY <1>2
  <2> HIDE DEF decided, k, z
  <2>3. /\ decided.gate.preroll = <<>> /\ decided.gate.pending = <<>>
        /\ decided.gate.seen = gate.seen + Len(samples)
        /\ decided.gate.run = run[k] /\ decided.gate.open
        /\ decided.gate.seen \in Nat /\ decided.gate.run \in Nat => decided.gate \in GateType
        /\ decided.asked = k
        /\ decided.skipped = (gate.seen + Len(samples)) - Len(decided.released)
    BY <2>1, <2>2, OpenedFields
  <2>4. decided.released = out
    <3>1. Opened(run, samples, k).released = out
      BY DEF Opened
    <3> HIDE DEF out
    <3> QED BY <2>1, <3>1
  <2> HIDE DEF out, L
  <2>5. run[k] \in Nat
    BY <1>12 DEF FirstToOpen
  <2> QED BY <1>9, <1>11, <2>3, <2>4, <2>5
<1>14. /\ voiced' = z /\ z \in Seq(BOOLEAN) /\ Len(z) = Len(voiced) + k
       /\ Opening(z) = {Len(z)} /\ run[k] <= Hangover
  <2>1. voiced' = z
    BY <1>1, <1>13
  <2> HIDE DEF z, k
  <2> QED BY <1>12, <2>1 DEF FirstToOpen
<1>15. Classified' = c + d
  <2>1. k \in Nat
    BY <1>6
  <2> HIDE DEF z, k
  <2>2. (Len(voiced) + k) * FrameLength = c + k * FrameLength
    BY <1>2, <2>1, FrameSums DEF Classified
  <2>3. Classified' = Len(voiced') * FrameLength
    BY DEF Classified
  <2> QED BY <1>14, <2>2, <2>3
<1>16. HeardOK'
  <2>1. voiced' \in Seq(BOOLEAN)
    BY <1>14
  <2>2. Classified' <= L
    BY <1>8, <1>15
  <2> QED BY <2>1, <2>2, HeardGrows DEF GateInv
<1> HIDE DEF c, d, x, L, kept, tail, out, N, z, k
<1>17. /\ fed'.audio = out /\ fed'.skipped = L - Len(out) /\ fed'.at = start + (L - Len(out))
       /\ fed' \in [audio : Seq(Sample), at : Int, skipped : Int]
  <2> DEFINE o == Len(out)
             s == L - o
             b == Len(samples)
             h == Len(heard)
  <2>1. fed' = [audio |-> out, at |-> next + b - (s + o) + s, skipped |-> s]
    BY <1>1, <1>13
  <2>2. next + b - (s + o) + s = start + s /\ start + s \in Int /\ s \in Int
    <3>1. next = start + h /\ L = h + b /\ h \in Nat /\ b \in Nat /\ start \in Nat /\ o \in Nat
      BY <1>2, <1>10, <1>11
    <3> HIDE DEF o, h, b
    <3> QED BY <3>1
  <2> HIDE DEF s, b, o
  <2>3. fed' = [audio |-> out, at |-> start + s, skipped |-> s]
    BY <2>1, <2>2
  <2>4. fed'.audio = out /\ fed'.at = start + s /\ fed'.skipped = s
    BY <2>3
  <2>5. fed' \in [audio : Seq(Sample), at : Int, skipped : Int]
    BY <1>10, <2>2, <2>3
  <2> QED BY <2>4, <2>5 DEF s, o
<1>18. gate'.open /\ gate' \in GateType
  BY <1>1, <1>13
<1>19. GateOK'
  BY <1>17, <1>18 DEF GateOK
<1>20. ClosedInv'
  BY <1>18 DEF ClosedInv
<1>21. OpenInv'
  <2>1. gate'.pending = <<>> /\ gate'.preroll = <<>> /\ gate'.seen = L /\ gate'.run <= Hangover
    BY <1>1, <1>13, <1>14
  <2>2. gate'.seen <= Len(heard')
    BY <1>9, <2>1 DEF L
  <2>3. Opening(voiced') = {Len(voiced')}
    BY <1>14
  <2>4. fed'.audio = Trimmed(Latest(Preroll, SubSeq(heard', 1, Classified')))
                     \o SubSeq(heard', Classified' + 1, Len(heard'))
    BY <1>8, <1>15, <1>17 DEF out, L
  <2>5. fed'.skipped = Len(heard') - Len(fed'.audio) /\ fed'.at = start' + fed'.skipped
    BY <1>17 DEF L
  <2> QED BY <2>1, <2>2, <2>3, <2>4, <2>5 DEF OpenInv
<1> QED BY <1>16, <1>19, <1>20, <1>21 DEF GateInv

\* Open, the samples of every buffer are fed behind the rest.
LEMMA PassThroughKeeps ==
    ASSUME GateInv, NEW samples \in Seq(Sample),
           \A i \in 1 .. Len(samples) : samples[i].at = next + i - 1,
           heard' = heard \o samples, next' = next + Len(samples), UNCHANGED <<start, arms>>,
           PassThrough(samples)
    PROVE  GateInv'
<1> DEFINE c == Classified
           front == Trimmed(Latest(Preroll, SubSeq(heard, 1, c)))
           rest == SubSeq(heard, c + 1, Len(heard))
<1>1. gate.open /\ fed' = [fed EXCEPT !.audio = @ \o samples] /\ gate' = gate /\ voiced' = voiced
  BY DEF PassThrough
<1>2. /\ heard \in Seq(Sample) /\ voiced \in Seq(BOOLEAN) /\ Len(heard) \in Nat /\ start \in Nat
      /\ c \in Nat /\ c <= Len(heard) /\ Preroll \in Nat /\ Len(samples) \in Nat
  <2>1. heard \in Seq(Sample) /\ voiced \in Seq(BOOLEAN) /\ start \in Nat /\ c <= Len(heard)
    BY DEF GateInv, HeardOK
  <2>2. c \in Nat
    <3>1. Len(voiced) \in Nat
      BY <2>1
    <3> QED BY <3>1, FrameSums DEF Classified
  <2>3. Len(heard) \in Nat /\ Len(samples) \in Nat
    BY <2>1
  <2> QED BY <2>1, <2>2, <2>3, GateAssumption
<1>3. gate \in GateType /\ fed \in [audio : Seq(Sample), at : Int, skipped : Int]
  BY DEF GateInv, GateOK
<1>4. /\ gate.pending = <<>> /\ gate.preroll = <<>>
      /\ gate.seen <= Len(heard) /\ gate.run <= Hangover
      /\ Opening(voiced) = {Len(voiced)}
      /\ fed.audio = front \o rest
      /\ fed.skipped = Len(heard) - Len(fed.audio)
      /\ fed.at = start + fed.skipped
  BY <1>1 DEF GateInv, OpenInv
<1>5. Classified' = c
  BY <1>1 DEF Classified
<1> HIDE DEF c
<1>6. heard' \in Seq(Sample) /\ Len(heard') = Len(heard) + Len(samples)
  BY <1>2, ConcatProperties
<1>7. HeardOK'
  <2>1. voiced' \in Seq(BOOLEAN)
    BY <1>1, <1>2
  <2>2. Classified' <= Len(heard')
    BY <1>2, <1>5, <1>6
  <2> QED BY <2>1, <2>2, HeardGrows DEF GateInv
<1>8. front \in Seq(Sample) /\ rest \in Seq(Sample)
  <2>1. c \in 0 .. Len(heard)
    BY <1>2
  <2>2. SubSeq(heard, 1, c) \in Seq(Sample) /\ rest \in Seq(Sample)
    BY <1>2, <2>1, FrontOf, BackOf
  <2> DEFINE s == SubSeq(heard, 1, c)
  <2> HIDE DEF s
  <2>3. Latest(Preroll, s) \in Seq(Sample)
    BY <1>2, <2>2, LatestIsBack DEF s
  <2>4. Trimmed(Latest(Preroll, s)) \in Seq(Sample)
    <3> DEFINE w == Latest(Preroll, s)
    <3> HIDE DEF w
    <3>1. Trimmed(w) \in Seq(Sample)
      BY <2>3, TrimmedType DEF w
    <3> QED BY <3>1 DEF w
  <2> QED BY <2>2, <2>4 DEF s
<1>9. SubSeq(heard', 1, c) = SubSeq(heard, 1, c) /\ rest \o samples = SubSeq(heard', c + 1, Len(heard'))
  <2>1. c \in 0 .. Len(heard)
    BY <1>2
  <2> QED BY <1>2, <2>1, FrontOfConcat, BackOfConcat
<1> DEFINE out == fed.audio \o samples
<1>10. out = Trimmed(Latest(Preroll, SubSeq(heard', 1, c))) \o SubSeq(heard', c + 1, Len(heard'))
  <2> DEFINE r2 == SubSeq(heard', c + 1, Len(heard'))
  <2>1. front = Trimmed(Latest(Preroll, SubSeq(heard', 1, c)))
    BY <1>9
  <2>2. rest \o samples = r2
    BY <1>9
  <2> HIDE DEF front, rest, r2
  <2>3. (front \o rest) \o samples = front \o (rest \o samples)
    BY <1>8, ConcatAssociative
  <2>4. out = front \o r2
    BY <1>4, <2>2, <2>3
  <2> QED BY <2>1, <2>4 DEF r2
<1> HIDE DEF front, rest
<1>11. /\ out \in Seq(Sample) /\ Len(out) = Len(fed.audio) + Len(samples)
       /\ fed.audio \in Seq(Sample) /\ Len(fed.audio) \in Nat
  <2> DEFINE a == fed.audio
  <2>1. a \in Seq(Sample)
    BY <1>3
  <2> HIDE DEF a
  <2>2. a \o samples \in Seq(Sample) /\ Len(a \o samples) = Len(a) + Len(samples) /\ Len(a) \in Nat
    BY <2>1, ConcatProperties
  <2> QED BY <2>1, <2>2 DEF a
<1>12. /\ fed'.audio = out /\ fed'.at = fed.at /\ fed'.skipped = fed.skipped
       /\ fed' \in [audio : Seq(Sample), at : Int, skipped : Int]
  <2>1. fed' = [fed EXCEPT !.audio = out]
    BY <1>1
  <2> HIDE DEF out
  <2> QED BY <1>3, <1>11, <2>1
<1>13. GateOK'
  BY <1>1, <1>3, <1>12 DEF GateOK
<1>14. ClosedInv'
  BY <1>1 DEF ClosedInv
<1>15. OpenInv'
  <2>1. fed'.skipped = Len(heard') - Len(fed'.audio)
    <3> DEFINE h == Len(heard)
               b == Len(samples)
               o == Len(fed.audio)
    <3>1. /\ h \in Nat /\ b \in Nat /\ o \in Nat /\ Len(heard') = h + b /\ Len(fed'.audio) = o + b
          /\ fed'.skipped = h - o
      BY <1>2, <1>4, <1>6, <1>11, <1>12
    <3> HIDE DEF h, b, o
    <3> QED BY <3>1
  <2>2. gate'.seen <= Len(heard')
    <3>1. gate.seen \in Nat
      BY <1>3 DEF GateType
    <3> QED BY <1>1, <1>2, <1>4, <1>6, <3>1
  <2>3. fed'.audio = Trimmed(Latest(Preroll, SubSeq(heard', 1, Classified')))
                     \o SubSeq(heard', Classified' + 1, Len(heard'))
    BY <1>5, <1>10, <1>12
  <2>4. fed'.at = start' + fed'.skipped
    BY <1>4, <1>12
  <2> HIDE DEF out
  <2> QED BY <1>1, <1>4, <2>1, <2>2, <2>3, <2>4 DEF OpenInv
<1> QED BY <1>7, <1>13, <1>14, <1>15 DEF GateInv

\* An armed gate, wherever the audio goes on.
JustArmed ==
    /\ gate = Armed /\ fed = NothingFed /\ heard = <<>> /\ voiced = <<>>
    /\ start \in Nat /\ next = start /\ arms \in 1 .. MaxArms

LEMMA ArmedHolds == JustArmed => GateInv
<1> SUFFICES ASSUME JustArmed PROVE GateInv
  OBVIOUS
<1>0. /\ gate = Armed /\ fed = NothingFed /\ heard = <<>> /\ voiced = <<>>
      /\ start \in Nat /\ next = start /\ arms \in 1 .. MaxArms
  BY DEF JustArmed
<1>1. /\ <<>> \in Seq(Sample) /\ <<>> \in Seq(BOOLEAN) /\ Len(<<>>) = 0
  BY EmptySeq
<1>2. Hangover \in Nat \ {0} /\ FrameLength \in Nat \ {0} /\ Preroll \in Nat
  BY GateAssumption
<1>3. Len(heard) = 0 /\ Len(voiced) = 0 /\ Classified = 0
  BY <1>0, <1>1, <1>2 DEF Classified
<1>4. HeardOK
  <2>1. \A i \in 1 .. Len(heard) : heard[i].at = start + i - 1
    BY <1>3
  <2>2. heard \in Seq(Sample) /\ voiced \in Seq(BOOLEAN)
    BY <1>0, <1>1
  <2> QED BY <1>0, <1>2, <1>3, <2>1, <2>2 DEF HeardOK
<1>5. GateOK
  <2>1. gate \in GateType
    BY <1>0, <1>1 DEF Armed, GateType
  <2>2. fed \in [audio : Seq(Sample), at : Int, skipped : Int]
    BY <1>0, <1>1 DEF NothingFed
  <2> QED BY <2>1, <2>2 DEF GateOK
<1>6. ClosedInv
  <2>1. gate.pending = <<>> /\ gate.preroll = <<>> /\ gate.seen = 0 /\ gate.run = 0
    BY <1>0 DEF Armed
  <2>2. SubSeq(heard, Classified + 1, Len(heard)) = <<>> /\ SubSeq(heard, 1, Classified) = <<>>
    BY <1>3, SubSeqEmpty
  <2>3. Latest(Preroll, <<>>) = <<>>
    <3>1. Latest(Preroll, <<>>) = SubSeq(<<>>, 1, 0)
      BY <1>2 DEF Latest
    <3> QED BY <3>1, SubSeqEmpty
  <2>4. Opening(voiced) = {}
    BY <1>2, <1>3 DEF Opening
  <2>5. Trailing(0, voiced, 0)
    BY DEF Trailing
  <2>6. 0 < Classified + FrameLength /\ 0 < Hangover
    BY <1>2, <1>3
  <2> QED BY <1>3, <2>1, <2>2, <2>3, <2>4, <2>5, <2>6, <1>0 DEF ClosedInv
<1>7. OpenInv
  BY <1>0 DEF OpenInv, Armed
<1> QED BY <1>4, <1>5, <1>6, <1>7 DEF GateInv

-----------------------------------------------------------------------------
LEMMA GateInitially == Init => GateInv
<1> SUFFICES ASSUME Init PROVE GateInv
  OBVIOUS
<1>1. JustArmed
  BY GateAssumption DEF Init, JustArmed
<1> QED BY <1>1, ArmedHolds

LEMMA PushKeeps ==
    ASSUME GateInv, NEW n \in 1 .. MaxBuffer, NEW silent \in [1 .. n -> BOOLEAN], Push(silent)
    PROVE  GateInv'
<1> DEFINE samples == Buffer(silent)
           frames == IF gate.open THEN 0 ELSE (Len(gate.pending) + Len(samples)) \div FrameLength
<1>1. /\ samples \in Seq(Sample) /\ Len(samples) = n
      /\ \A i \in 1 .. Len(samples) : samples[i].at = next + i - 1
  <2>1. n \in Nat
    BY GateAssumption
  <2> QED BY <2>1, BufferMade DEF GateInv
<1>2. /\ heard' = heard \o samples /\ next' = next + Len(samples) /\ UNCHANGED <<start, arms>>
      /\ \/ \E scores \in [1 .. frames -> BOOLEAN] : Withhold(samples, scores) \/ Open(samples, scores)
         \/ PassThrough(samples)
  BY DEF Push
<1> HIDE DEF samples
<1>3. CASE PassThrough(samples)
  BY <1>1, <1>2, <1>3, PassThroughKeeps
<1>4. CASE \E scores \in [1 .. frames -> BOOLEAN] : Withhold(samples, scores) \/ Open(samples, scores)
  <2>1. PICK scores \in [1 .. frames -> BOOLEAN] : Withhold(samples, scores) \/ Open(samples, scores)
    BY <1>4
  <2>2. ~gate.open
    BY <2>1 DEF Withhold, Open
  <2>3. frames = (Len(gate.pending) + Len(samples)) \div FrameLength
    BY <2>2
  <2>4. Len(gate.pending) + Len(samples) \in Nat
    BY <1>1, <2>2, ClosedAudio
  <2>5. frames \in Nat
    <3> DEFINE x == Len(gate.pending) + Len(samples)
    <3>1. x \in Nat /\ frames = x \div FrameLength
      BY <2>3, <2>4
    <3> HIDE DEF x, frames
    <3> QED BY <3>1, WholeFrames
  <2> HIDE DEF frames
  <2>6. scores \in Seq(BOOLEAN) /\ Len(scores) = frames
    BY <2>1, <2>5
  <2>7. CASE Withhold(samples, scores)
    BY <1>1, <1>2, <2>3, <2>6, <2>7, WithholdKeeps
  <2>8. CASE Open(samples, scores)
    BY <1>1, <1>2, <2>3, <2>6, <2>8, OpenKeeps
  <2> QED BY <2>1, <2>7, <2>8
<1> QED BY <1>2, <1>3, <1>4

LEMMA GateStep == GateInv /\ [Next]_vars => GateInv'
<1> SUFFICES ASSUME GateInv, [Next]_vars PROVE GateInv'
  OBVIOUS
<1>1. ASSUME NEW n \in 1 .. MaxBuffer, NEW silent \in [1 .. n -> BOOLEAN], Push(silent)
      PROVE  GateInv'
  BY <1>1, PushKeeps
<1>2. ASSUME NEW jump \in {0, 1}, Rearm(jump) PROVE GateInv'
  <2>1. /\ gate' = Armed /\ fed' = NothingFed /\ heard' = <<>> /\ voiced' = <<>>
        /\ next' = next + jump /\ start' = next + jump /\ arms < MaxArms /\ arms' = arms + 1
    BY <1>2 DEF Rearm
  <2>2. heard \in Seq(Sample) /\ start \in Nat /\ next = start + Len(heard) /\ arms \in 1 .. MaxArms
    BY DEF GateInv, HeardOK
  <2>3. start' \in Nat /\ next' = start'
    <3>1. Len(heard) \in Nat
      BY <2>2
    <3> QED BY <2>1, <2>2, <3>1
  <2>4. arms' \in 1 .. MaxArms
    BY <2>1, <2>2, GateAssumption
  <2>5. JustArmed'
    BY <2>1, <2>3, <2>4 DEF JustArmed
  <2> QED BY <2>5, ArmedHolds, PTL
<1>3. CASE UNCHANGED vars
  BY <1>3 DEF vars, GateInv, HeardOK, GateOK, ClosedInv, OpenInv, Classified
<1> QED BY <1>1, <1>2, <1>3 DEF Next

\* The pending samples are less than a frame, the ring is no longer than the
\* preroll and the run no longer than the hangover, after any buffers.
THEOREM TypeCorrect == Spec => []TypeOK
<1>1. GateInv => TypeOK
  <2> SUFFICES ASSUME GateInv PROVE TypeOK
    OBVIOUS
  <2>1. /\ heard \in Seq(Sample) /\ Len(heard) \in Nat /\ Classified <= Len(heard) /\ Len(voiced) \in Nat
        /\ next = start + Len(heard) /\ arms \in 1 .. MaxArms
    BY DEF GateInv, HeardOK
  <2>2. gate \in GateType
    BY DEF GateInv, GateOK
  <2>3. /\ gate.seen \in Nat /\ gate.run \in Nat /\ gate.open \in BOOLEAN
        /\ Hangover \in Nat /\ FrameLength \in Nat \ {0} /\ Preroll \in Nat /\ Classified \in Nat
    BY <2>1, <2>2, GateAssumption, FrameSums DEF GateType, Classified
  <2>4. CASE gate.open
    <3>1. /\ gate.pending = <<>> /\ gate.preroll = <<>> /\ gate.seen <= Len(heard) /\ gate.run <= Hangover
      BY <2>4 DEF GateInv, OpenInv
    <3>2. Len(gate.pending) = 0 /\ Len(gate.preroll) = 0
      BY <3>1
    <3> QED BY <2>1, <2>3, <3>1, <3>2 DEF TypeOK
  <2>5. CASE ~gate.open
    <3>1. /\ Len(heard) < Classified + FrameLength
          /\ gate.pending = SubSeq(heard, Classified + 1, Len(heard))
          /\ gate.preroll = Latest(Preroll, SubSeq(heard, 1, Classified))
          /\ gate.seen = Len(heard) /\ gate.run < Hangover
      BY <2>5 DEF GateInv, ClosedInv
    <3> DEFINE c == Classified
               s == SubSeq(heard, 1, c)
    <3>2. c \in 0 .. Len(heard) /\ Len(heard) < c + FrameLength
      BY <2>1, <2>3, <3>1
    <3> HIDE DEF c
    <3>3. Len(gate.pending) = Len(heard) - c /\ s \in Seq(Sample)
      BY <2>1, <3>1, <3>2, BackOf, FrontOf DEF c
    <3> HIDE DEF s
    <3>4. Len(gate.preroll) <= Preroll
      BY <2>3, <3>1, <3>3, LatestIsBack DEF s, c
    <3>5. Len(gate.pending) < FrameLength
      BY <2>1, <2>3, <3>2, <3>3
    <3>6. gate.seen \in 0 .. Len(heard) /\ gate.run \in 0 .. Hangover
      BY <2>1, <2>3, <3>1
    <3> QED BY <2>1, <2>3, <3>4, <3>5, <3>6 DEF TypeOK
  <2> QED BY <2>4, <2>5
<1> QED BY GateInitially, GateStep, <1>1, PTL DEF Spec

\* What is fed is the end of the stream.
LEMMA FedIsBack ==
    ASSUME GateInv, gate.open
    PROVE  \E m \in 0 .. Len(heard) : fed.audio = SubSeq(heard, m + 1, Len(heard))
<1> DEFINE c == Classified
           L == Len(heard)
           s == SubSeq(heard, 1, c)
           w == Latest(Preroll, s)
           e == Cut(Preroll, Len(s))
           l == Len(w)
<1>1. heard \in Seq(Sample) /\ L \in Nat /\ c \in 0 .. L /\ Preroll \in Nat
  <2>1. heard \in Seq(Sample) /\ L \in Nat /\ c <= L /\ Len(voiced) \in Nat
    BY DEF GateInv, HeardOK
  <2>2. c \in Nat
    BY <2>1, FrameSums DEF Classified
  <2> QED BY <2>1, <2>2, GateAssumption
<1>2. fed.audio = Trimmed(w) \o SubSeq(heard, c + 1, L)
  BY DEF GateInv, OpenInv
<1> HIDE DEF c
<1>3. s \in Seq(Sample) /\ Len(s) = c
  BY <1>1, FrontOf
<1>4. w = SubSeq(s, e + 1, Len(s)) /\ e \in 0 .. Len(s) /\ w \in Seq(Sample) /\ l = Len(s) - e
  <2> HIDE DEF s
  <2> QED BY <1>1, <1>3, LatestIsBack
<1> HIDE DEF s, w, e
<1>5. PICK g \in 0 .. l : Trimmed(w) = SubSeq(w, g + 1, l)
  BY <1>4, TrimmedIsBack
<1>6. Trimmed(w) = SubSeq(s, e + g + 1, c)
  <2>1. e \in Nat /\ g \in Nat /\ l \in Nat /\ e + l = c /\ e + l <= Len(s)
    <3> HIDE DEF l
    <3> QED BY <1>1, <1>3, <1>4, <1>5
  <2> HIDE DEF l
  <2>2. SubSeq(SubSeq(s, e + 1, Len(s)), g + 1, l) = SubSeq(s, e + g + 1, e + l)
    BY <1>3, <2>1, PartOfBack
  <2> QED BY <1>4, <1>5, <2>1, <2>2
<1> DEFINE m == e + g
<1>7. m \in 0 .. c
  <2> HIDE DEF l
  <2> QED BY <1>1, <1>3, <1>4, <1>5
<1>8. Trimmed(w) = SubSeq(s, m + 1, c)
  BY <1>6
<1> HIDE DEF m, L, l
<1>9. Trimmed(w) = SubSeq(heard, m + 1, c)
  <2>1. CASE m = c
    <3>1. SubSeq(s, m + 1, c) = <<>> /\ SubSeq(heard, m + 1, c) = <<>>
      BY <1>1, <1>7, <2>1, SubSeqEmpty
    <3> QED BY <1>8, <3>1
  <2>2. CASE m # c
    <3>1. /\ 1 \in 1 .. Len(heard) /\ c \in 1 .. Len(heard)
          /\ m + 1 \in 1 .. c - 1 + 1 /\ c \in 1 .. c - 1 + 1
          /\ 1 + (m + 1) - 1 = m + 1 /\ 1 + c - 1 = c
      BY <1>1, <1>7, <2>2 DEF L
    <3> DEFINE n == m + 1
    <3>2. n \in 1 .. c - 1 + 1 /\ 1 + n - 1 = n
      BY <3>1
    <3> HIDE DEF n
    <3>3. SubSeq(SubSeq(heard, 1, c), n, c) = SubSeq(heard, 1 + n - 1, 1 + c - 1)
      BY <1>1, <3>1, <3>2, SubSeqOfSubSeq
    <3> QED BY <1>8, <3>1, <3>2, <3>3 DEF s, n
  <2> QED BY <2>1, <2>2
<1>10. SubSeq(heard, m + 1, c) \o SubSeq(heard, c + 1, L) = SubSeq(heard, m + 1, L)
  <2> DEFINE n == m + 1
  <2>1. n \in 1 .. Len(heard) + 1 /\ c \in n - 1 .. Len(heard) /\ L \in c .. Len(heard)
    BY <1>1, <1>7 DEF L
  <2> HIDE DEF n
  <2>2. SubSeq(heard, n, c) \o SubSeq(heard, c + 1, L) = SubSeq(heard, n, L)
    BY <1>1, <2>1, ConcatAdjacentSubSeq
  <2> QED BY <2>2 DEF n
<1>11. m \in 0 .. L
  BY <1>1, <1>7
<1>12. fed.audio = SubSeq(heard, m + 1, L)
  BY <1>2, <1>9, <1>10
<1> QED BY <1>11, <1>12 DEF L

\* What the model is fed stands at its own time, skipped_samples behind the
\* arm, however long the preroll and whatever was trimmed: the element takes the
\* instant of the arm back from the end of the buffer.
THEOREM TimelineHolds == Spec => []StandsAtItsTime
<1>1. GateInv => StandsAtItsTime
  <2> SUFFICES ASSUME GateInv, fed.audio # <<>>
               PROVE  /\ \A i \in DOMAIN fed.audio : fed.audio[i].at = fed.at + i - 1
                      /\ fed.at = start + fed.skipped
    BY DEF StandsAtItsTime
  <2>1. gate.open
    BY DEF GateInv, ClosedInv, NothingFed
  <2> DEFINE L == Len(heard)
             a == fed.audio
  <2>2. /\ heard \in Seq(Sample) /\ L \in Nat /\ start \in Nat
        /\ \A i \in 1 .. L : heard[i].at = start + i - 1
        /\ fed.skipped = L - Len(a) /\ fed.at = start + fed.skipped
    BY <2>1 DEF GateInv, HeardOK, OpenInv
  <2>3. PICK m \in 0 .. L : a = SubSeq(heard, m + 1, L)
    BY <2>1, FedIsBack
  <2>4. a \in Seq(Sample) /\ Len(a) = L - m /\ \A i \in 1 .. L - m : a[i] = heard[m + i]
    BY <2>2, <2>3, BackOf
  <2>5. DOMAIN a = 1 .. Len(a)
    BY <2>4
  <2> HIDE DEF a, L
  <2>6. fed.at = start + m
    BY <2>2, <2>3, <2>4
  <2>7. ASSUME NEW i \in DOMAIN a PROVE a[i].at = fed.at + i - 1
    <3>1. i \in 1 .. L - m /\ m + i \in 1 .. L
      BY <2>2, <2>3, <2>4, <2>5
    <3>2. a[i].at = start + (m + i) - 1
      BY <2>2, <2>4, <3>1
    <3> QED BY <2>2, <2>3, <2>6, <3>1, <3>2
  <2> QED BY <2>2, <2>7 DEF a
<1> QED BY GateInitially, GateStep, <1>1, PTL DEF Spec

\* However the audio is cut into buffers, the gate is open exactly if a run of
\* frames of the whole stream was voice, and feeds all the stream from the
\* preroll of the first such run on, without the silence in front.
THEOREM FirstOnly == Spec => []OnlyChoosesTheFirst
<1>1. GateInv => OnlyChoosesTheFirst
  <2> SUFFICES ASSUME GateInv PROVE OnlyChoosesTheFirst
    OBVIOUS
  <2>1. OpeningFrames = Opening(voiced)
    BY DEF OpeningFrames, Opening
  <2>2. CASE ~gate.open
    <3>1. Opening(voiced) = {} /\ fed.audio = <<>>
      BY <2>2 DEF GateInv, ClosedInv, NothingFed
    <3> QED BY <2>1, <2>2, <3>1 DEF OnlyChoosesTheFirst
  <2>3. CASE gate.open
    <3> DEFINE n == Len(voiced)
               c == Classified
               first == IF c > Preroll THEN c - Preroll + 1 ELSE 1
    <3>1. /\ Opening(voiced) = {n} /\ n \in Nat /\ c = n * FrameLength
          /\ fed.audio = Trimmed(Latest(Preroll, SubSeq(heard, 1, c))) \o SubSeq(heard, c + 1, Len(heard))
      <4>1. voiced \in Seq(BOOLEAN)
        BY DEF GateInv, HeardOK
      <4>2. /\ Opening(voiced) = {n}
            /\ fed.audio = Trimmed(Latest(Preroll, SubSeq(heard, 1, c))) \o SubSeq(heard, c + 1, Len(heard))
        BY <2>3, Zenon DEF GateInv, OpenInv
      <4>3. c = n * FrameLength /\ n \in Nat
        BY <4>1 DEF Classified
      <4> HIDE DEF n, c
      <4> QED BY <4>2, <4>3
    <3>2. heard \in Seq(Sample) /\ c \in 0 .. Len(heard) /\ Preroll \in Nat
      <4>1. heard \in Seq(Sample) /\ c <= Len(heard) /\ Len(heard) \in Nat
        BY DEF GateInv, HeardOK
      <4>2. c \in Nat
        BY <3>1, FrameSums
      <4> QED BY <4>1, <4>2, GateAssumption
    <3> HIDE DEF n, c
    <3>3. Min(OpeningFrames) = n
      BY <2>1, <3>1 DEF Min
    <3>4. Latest(Preroll, SubSeq(heard, 1, c)) = SubSeq(heard, first, c)
      <4> DEFINE s == SubSeq(heard, 1, c)
      <4>1. Len(s) = c
        BY <3>2, FrontOf
      <4>2. Latest(Preroll, s) = SubSeq(s, first, c)
        <5> HIDE DEF s
        <5> QED BY <4>1 DEF Latest
      <4>3. CASE first > c
        <5>1. first \in Int /\ c \in Int
          BY <3>2
        <5>2. SubSeq(s, first, c) = <<>> /\ SubSeq(heard, first, c) = <<>>
          <6> HIDE DEF first, s
          <6> QED BY <4>3, <5>1, SubSeqEmpty
        <5> QED BY <4>2, <5>2
      <4>4. CASE ~(first > c)
        <5>1. first \in Int /\ first >= 1 /\ c \in Nat
          BY <3>2
        <5> HIDE DEF first
        <5>2. /\ 1 \in 1 .. Len(heard) /\ c \in 1 .. Len(heard)
              /\ first \in 1 .. c - 1 + 1 /\ c \in 1 .. c - 1 + 1
              /\ 1 + first - 1 = first /\ 1 + c - 1 = c
          BY <3>2, <4>4, <5>1
        <5>3. SubSeq(SubSeq(heard, 1, c), first, c) = SubSeq(heard, 1 + first - 1, 1 + c - 1)
          BY <3>2, <5>2, SubSeqOfSubSeq
        <5> QED BY <4>2, <5>2, <5>3
      <4> QED BY <4>3, <4>4
    <3>5. OpeningFrames # {}
      BY <2>1, <3>1
    <3>6. fed.audio = Trimmed(SubSeq(heard, first, c)) \o SubSeq(heard, c + 1, Len(heard))
      BY <3>1, <3>4
    <3> QED BY <2>3, <3>1, <3>3, <3>5, <3>6 DEF OnlyChoosesTheFirst
  <2> QED BY <2>2, <2>3
<1> QED BY GateInitially, GateStep, <1>1, PTL DEF Spec
=============================================================================
