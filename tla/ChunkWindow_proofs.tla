------------------------- MODULE ChunkWindow_proofs -------------------------
(***************************************************************************)
(* What is proved of the sliding window of the chunked mode, for every     *)
(* speech, chunk, live edge and window length: the rows of successive runs *)
(* over overlapping audio are new, nothing is lost at their seams, and     *)
(* nothing is published behind a Progress sent before it.                  *)
(*                                                                         *)
(* After each run the window starts where the published text ends, so a    *)
(* run can only hear what is not yet published.  The rows of a run follow  *)
(* each other, so those that end before the live edge come first, and the  *)
(* first one withheld holds the frontier for all that come behind it.      *)
(***************************************************************************)
EXTENDS ChunkWindow, OrderLemmas, SequenceTheorems

-----------------------------------------------------------------------------
\* Minima, maxima and enumerations.

LEMMA MaxTwo ==
    ASSUME NEW a \in Int, NEW b \in Int
    PROVE  Max({a, b}) = IF a >= b THEN a ELSE b
BY DEF Max

LEMMA MinTwo ==
    ASSUME NEW a \in Int, NEW b \in Int
    PROVE  Min({a, b}) = IF a <= b THEN a ELSE b
BY DEF Min

\* The function that Ascending defines.
Members(f, S, n) ==
    f = [k \in 0 .. n |-> IF k = 0 THEN <<>>
                          ELSE IF k \in S THEN Append(f[k - 1], k) ELSE f[k - 1]]

LEMMA MembersExist ==
    ASSUME NEW S, NEW n \in Nat
    PROVE  \E f : Members(f, S, n)
<1> DEFINE T == {m \in Nat : \E f : Members(f, S, m)}
<1>1. 0 \in T
  <2> DEFINE f == [k \in 0 .. 0 |-> <<>>]
  <2>1. Members(f, S, 0)
    BY DEF Members
  <2> QED BY <2>1
<1>2. ASSUME NEW m \in T PROVE m + 1 \in T
  <2>1. PICK f : Members(f, S, m)
    OBVIOUS
  <2> DEFINE g == [k \in 0 .. m + 1 |->
                      IF k <= m THEN f[k]
                      ELSE IF m + 1 \in S THEN Append(f[m], m + 1) ELSE f[m]]
  <2>2. ASSUME NEW k \in 0 .. m + 1
        PROVE  g[k] = IF k = 0 THEN <<>>
                      ELSE IF k \in S THEN Append(g[k - 1], k) ELSE g[k - 1]
    <3>1. CASE k = m + 1
      BY <3>1
    <3>2. CASE k # m + 1
      <4>1. k \in 0 .. m /\ (k # 0 => k - 1 \in 0 .. m)
        BY <3>2
      <4>2. f[k] = IF k = 0 THEN <<>>
                   ELSE IF k \in S THEN Append(f[k - 1], k) ELSE f[k - 1]
        BY <2>1, <4>1 DEF Members
      <4> QED BY <4>1, <4>2
    <3> QED BY <3>1, <3>2
  <2>3. Members(g, S, m + 1)
    BY <2>2 DEF Members
  <2> HIDE DEF g
  <2>4. m + 1 \in Nat
    OBVIOUS
  <2> QED BY <2>3, <2>4
<1>3. T = Nat
  BY <1>1, <1>2, NatInductionSet
<1> QED BY <1>3

\* q lists the members of S from 1 to n in order.
Lists(q, S, n) ==
    /\ q \in Seq(Nat)
    /\ \A i \in 1 .. Len(q) : q[i] \in S /\ q[i] \in 1 .. n
    /\ \A i, j \in 1 .. Len(q) : i < j => q[i] < q[j]
    /\ \A x \in 1 .. n : x \in S => \E i \in 1 .. Len(q) : q[i] = x

LEMMA AscendingLists ==
    ASSUME NEW S, NEW n \in Nat
    PROVE  Lists(Ascending(S, n), S, n)
<1> DEFINE f == CHOOSE f : Members(f, S, n)
           T == {m \in Nat : m <= n => Lists(f[m], S, m)}
<1>1. Members(f, S, n)
  BY MembersExist
<1>2. Ascending(S, n) = f[n]
  BY DEF Ascending, Members
<1> HIDE DEF f
<1>3. 0 \in T
  <2>1. f[0] = <<>>
    BY <1>1 DEF Members
  <2>2. <<>> \in Seq(Nat) /\ 1 .. Len(<<>>) = {} /\ 1 .. 0 = {}
    OBVIOUS
  <2> HIDE DEF f
  <2>3. Lists(f[0], S, 0)
    BY <2>1, <2>2 DEF Lists
  <2> QED BY <2>3
<1>4. ASSUME NEW m \in T PROVE m + 1 \in T
  <2>1. SUFFICES ASSUME m + 1 <= n PROVE Lists(f[m + 1], S, m + 1)
    OBVIOUS
  <2>2. Lists(f[m], S, m)
    BY <2>1
  <2>3. f[m + 1] = IF m + 1 \in S THEN Append(f[m], m + 1) ELSE f[m]
    <3>1. m + 1 \in 0 .. n /\ m + 1 # 0 /\ (m + 1) - 1 = m
      BY <2>1
    <3> QED BY <3>1, <1>1 DEF Members
  <2> DEFINE q == f[m]
  <2> HIDE DEF q
  <2>4. Lists(q, S, m) /\ f[m + 1] = IF m + 1 \in S THEN Append(q, m + 1) ELSE q
    BY <2>2, <2>3 DEF q
  <2>5. CASE m + 1 \in S
    <3> DEFINE p == Append(q, m + 1)
    <3>1. q \in Seq(Nat) /\ Len(q) \in Nat
      BY <2>4 DEF Lists
    <3>2. /\ p \in Seq(Nat) /\ Len(p) = Len(q) + 1 /\ p[Len(p)] = m + 1
          /\ \A i \in 1 .. Len(p) : i = Len(p) \/ (i \in 1 .. Len(q) /\ p[i] = q[i])
          /\ 1 .. Len(q) \subseteq 1 .. Len(p) /\ Len(p) \in 1 .. Len(p)
      BY <3>1
    <3> HIDE DEF p
    <3>3. \A i \in 1 .. Len(q) : q[i] \in S /\ q[i] \in 1 .. m
      BY <2>4 DEF Lists
    <3>4. \A i \in 1 .. Len(p) : p[i] \in S /\ p[i] \in 1 .. m + 1
      BY <3>2, <3>3, <2>5
    <3>6. \A i, j \in 1 .. Len(p) : i < j => p[i] < p[j]
      <4>1. \A i, j \in 1 .. Len(q) : i < j => q[i] < q[j]
        BY <2>4 DEF Lists
      <4>2. \A i, j \in 1 .. Len(p) : i < j => i \in 1 .. Len(q)
        BY <3>2, <3>1
      <4>3. ASSUME NEW i \in 1 .. Len(p), NEW j \in 1 .. Len(p), i < j PROVE p[i] < p[j]
        <5>1. i \in 1 .. Len(q) /\ p[i] = q[i] /\ q[i] \in 1 .. m
          BY <4>2, <4>3, <3>2, <3>3
        <5>2. CASE j = Len(p)
          BY <5>1, <5>2, <3>2
        <5>3. CASE j \in 1 .. Len(q) /\ p[j] = q[j]
          BY <5>1, <5>3, <4>1, <4>3
        <5> QED BY <5>2, <5>3, <3>2
      <4> QED BY <4>3
    <3>7. \A x \in 1 .. m + 1 : x \in S => \E i \in 1 .. Len(p) : p[i] = x
      <4>1. \A x \in 1 .. m : x \in S => \E i \in 1 .. Len(q) : q[i] = x
        BY <2>4 DEF Lists
      <4>2. \A i \in 1 .. Len(q) : p[i] = q[i]
        BY <3>1, <3>2
      <4>3. \A x \in 1 .. m + 1 : x = m + 1 \/ x \in 1 .. m
        OBVIOUS
      <4> QED BY <3>2, <4>1, <4>2, <4>3
    <3>5. f[m + 1] = p
      BY <2>4, <2>5 DEF p
    <3> QED BY <3>2, <3>4, <3>5, <3>6, <3>7 DEF Lists
  <2>6. CASE m + 1 \notin S
    <3>1. f[m + 1] = q
      BY <2>4, <2>6
    <3> QED BY <3>1, <2>4, <2>6 DEF Lists
  <2> QED BY <2>5, <2>6
<1>5. T = Nat
  BY <1>3, <1>4, NatInductionSet
<1>6. Lists(f[n], S, n)
  BY <1>5
<1> QED BY <1>2, <1>6

-----------------------------------------------------------------------------
\* What a run hears, and how it cuts it into rows.

Windows == [start : Nat, length : Nat, upTo : Nat, frontier : Nat, pending : Nat]
Span == [from : Nat, to : Nat]
Speech == IsScript(stream.script)

\* The part of word k that w holds.
PartOf(k, w) == Part(stream.script[k], w)

LEMMA PartWithin ==
    ASSUME Speech, NEW w \in Windows, w.length > 0, NEW k \in Audible(w)
    PROVE  /\ k \in 1 .. Len(stream.script)
           /\ stream.script[k][1] \in Nat /\ stream.script[k][2] \in Nat
           /\ PartOf(k, w) \in Span
           /\ PartOf(k, w).from = IF stream.script[k][1] >= w.start THEN stream.script[k][1] ELSE w.start
           /\ PartOf(k, w).to = IF stream.script[k][2] <= w.start + w.length
                                THEN stream.script[k][2] ELSE w.start + w.length
           /\ PartOf(k, w).from < PartOf(k, w).to
           /\ w.start <= PartOf(k, w).from /\ PartOf(k, w).to <= w.start + w.length
           /\ stream.script[k][1] <= PartOf(k, w).from /\ PartOf(k, w).to <= stream.script[k][2]
           /\ stream.script[k][1] < w.start + w.length /\ stream.script[k][2] > w.start
<1>1. /\ k \in 1 .. Len(stream.script)
      /\ stream.script[k][1] \in Nat /\ stream.script[k][2] \in Nat
      /\ stream.script[k][1] < stream.script[k][2]
      /\ stream.script[k][1] < w.start + w.length /\ stream.script[k][2] > w.start
  <2>1. stream.script \in Seq(Nat \X Nat) /\ k \in DOMAIN stream.script
    BY DEF Speech, IsScript, Audible
  <2>2. stream.script[k] \in Nat \X Nat
    BY <2>1
  <2> QED BY <2>1, <2>2 DEF Speech, IsScript, Audible, End
<1>2. w.start \in Nat /\ w.length \in Nat
  BY DEF Windows
<1> DEFINE f == stream.script[k][1]
           t == stream.script[k][2]
           s == w.start
           e == w.start + w.length
           from == Max({f, s})
           to == Min({t, e})
<1>3. PartOf(k, w) = [from |-> from, to |-> to]
  BY DEF PartOf, Part, End
<1>4. f \in Nat /\ t \in Nat /\ f < t /\ f < e /\ t > s /\ s \in Nat /\ e \in Nat /\ s <= e
  BY <1>1, <1>2
<1>5. /\ from = IF f >= s THEN f ELSE s
      /\ to = IF t <= e THEN t ELSE e
  <2> HIDE DEF f, t, s, e
  <2> QED BY <1>4, MaxTwo, MinTwo
<1>6. s < e
  BY <1>1, <1>2
<1> HIDE DEF f, t, s, e, from, to
<1>7. from \in Nat /\ to \in Nat /\ from < to /\ s <= from /\ to <= e /\ f <= from /\ to <= t
  BY <1>4, <1>5, <1>6
<1>8. PartOf(k, w) \in Span /\ PartOf(k, w).from = from /\ PartOf(k, w).to = to
  BY <1>3, <1>7 DEF Span
<1> QED BY <1>1, <1>4, <1>5, <1>7, <1>8 DEF f, t, s, e

\* The words certain to be heard.
Certain(w, drain) ==
    {k \in Audible(w) : drain \/ stream.script[k][1] < End(w) - LiveEdgeMs}

\* What a run hears: parts of words, in order, and none of the certain missing.
HeardWell(parts, w, drain) ==
    /\ parts \in Seq(Span)
    /\ \A a \in 1 .. Len(parts) : \E k \in Audible(w) : parts[a] = PartOf(k, w)
    /\ \A a, b \in 1 .. Len(parts) : a < b => parts[a].to <= parts[b].from
    /\ \A k \in Certain(w, drain) : \E a \in 1 .. Len(parts) : parts[a] = PartOf(k, w)

LEMMA HeardIsSpeech ==
    ASSUME Speech, NEW w \in Windows, w.length > 0, NEW drain \in BOOLEAN, NEW parts \in Heard(w, drain)
    PROVE  HeardWell(parts, w, drain)
<1> DEFINE n == Len(stream.script)
<1>1. PICK ks : /\ Certain(w, drain) \subseteq ks /\ ks \subseteq Audible(w)
                /\ LET order == Ascending(ks, n)
                   IN  parts = [i \in DOMAIN order |-> PartOf(order[i], w)]
  <2>1. PICK more \in SUBSET (Audible(w) \ Certain(w, drain)) :
             LET order == Ascending(Certain(w, drain) \cup more, n)
             IN  parts = [i \in DOMAIN order |-> PartOf(order[i], w)]
    BY DEF Heard, Certain, PartOf
  <2>2. Certain(w, drain) \subseteq Audible(w)
    BY DEF Certain
  <2> QED BY <2>1, <2>2
<1> DEFINE order == Ascending(ks, n)
<1>2. Lists(order, ks, n) /\ parts = [i \in DOMAIN order |-> PartOf(order[i], w)] /\ n \in Nat
  <2>1. n \in Nat
    BY DEF Speech, IsScript
  <2> HIDE DEF n
  <2> QED BY <1>1, <2>1, AscendingLists
<1> HIDE DEF order, n
<1>3. order \in Seq(Nat) /\ Len(order) \in Nat /\ DOMAIN order = 1 .. Len(order)
  BY <1>2 DEF Lists
<1>4. \A i \in 1 .. Len(order) : order[i] \in Audible(w)
  BY <1>1, <1>2, <1>3 DEF Lists
<1>5. \A i \in 1 .. Len(order) : PartOf(order[i], w) \in Span
  BY <1>4, PartWithin
<1>6. parts \in Seq(Span) /\ Len(parts) = Len(order)
      /\ \A i \in 1 .. Len(order) : parts[i] = PartOf(order[i], w)
  BY <1>2, <1>3, <1>5
<1>7. ASSUME NEW a \in 1 .. Len(parts), NEW b \in 1 .. Len(parts), a < b
      PROVE  parts[a].to <= parts[b].from
  <2> DEFINE j == order[a]
             k == order[b]
  <2>1. j \in Audible(w) /\ k \in Audible(w) /\ j < k /\ parts[a] = PartOf(j, w) /\ parts[b] = PartOf(k, w)
    BY <1>2, <1>4, <1>6, <1>7 DEF Lists
  <2> HIDE DEF j, k
  <2>2. stream.script[j][2] <= stream.script[k][1]
    BY <2>1 DEF Speech, IsScript, Audible
  <2>3. /\ stream.script[j][2] \in Nat /\ PartOf(j, w) \in Span
        /\ PartOf(j, w).to <= stream.script[j][2]
    BY <2>1, PartWithin
  <2>4. /\ stream.script[k][1] \in Nat /\ PartOf(k, w) \in Span
        /\ stream.script[k][1] <= PartOf(k, w).from
    BY <2>1, PartWithin
  <2>5. PartOf(j, w).to \in Nat /\ PartOf(k, w).from \in Nat
    BY <2>3, <2>4 DEF Span
  <2> QED BY <2>1, <2>2, <2>3, <2>4, <2>5
<1>8. ASSUME NEW k \in Certain(w, drain) PROVE \E a \in 1 .. Len(parts) : parts[a] = PartOf(k, w)
  <2>1. k \in ks /\ k \in 1 .. n
    <3>1. k \in ks /\ k \in Audible(w)
      BY <1>1
    <3> QED BY <3>1, PartWithin DEF n
  <2>2. PICK i \in 1 .. Len(order) : order[i] = k
    BY <2>1, <1>2 DEF Lists
  <2> QED BY <2>2, <1>6
<1> QED BY <1>4, <1>6, <1>7, <1>8 DEF HeardWell

\* A row, timed from the start of the window or of the stream.
Row == [parts : Seq(Span), t0 : Nat, t1 : Nat]

\* A row stands where its parts are, of which each ends before the next.
RowFits(row, start) ==
    /\ row.parts # <<>>
    /\ start + row.t0 = row.parts[1].from
    /\ row.parts[Len(row.parts)].to <= start + row.t1
    /\ row.t0 <= row.t1
    /\ \A a, b \in 1 .. Len(row.parts) : a < b => row.parts[a].to <= row.parts[b].from

\* Rows one after the other, that hold all parts and nothing else.
RowsWell(rows, parts, w) ==
    /\ rows \in Seq(Row)
    /\ \A i \in 1 .. Len(rows) : RowFits(rows[i], w.start) /\ w.start + rows[i].t1 <= End(w)
    /\ \A i, j \in 1 .. Len(rows) : i < j => rows[i].t1 <= rows[j].t0
    /\ \A i \in 1 .. Len(rows) : \A a \in 1 .. Len(rows[i].parts) :
           \E b \in 1 .. Len(parts) : rows[i].parts[a] = parts[b]
    /\ \A b \in 1 .. Len(parts) :
           \E i \in 1 .. Len(rows) : \E a \in 1 .. Len(rows[i].parts) : rows[i].parts[a] = parts[b]

\* Parts within a window, in order.
PartsWithin(parts, w) ==
    /\ parts \in Seq(Span)
    /\ \A a \in 1 .. Len(parts) :
           /\ w.start <= parts[a].from /\ parts[a].from < parts[a].to
           /\ parts[a].to <= w.start + w.length
    /\ \A a, b \in 1 .. Len(parts) : a < b => parts[a].to <= parts[b].from

LEMMA HeardWithin ==
    ASSUME Speech, NEW w \in Windows, w.length > 0, NEW drain \in BOOLEAN, NEW parts,
           HeardWell(parts, w, drain)
    PROVE  PartsWithin(parts, w)
<1>1. ASSUME NEW a \in 1 .. Len(parts)
      PROVE  /\ w.start <= parts[a].from /\ parts[a].from < parts[a].to
             /\ parts[a].to <= w.start + w.length
  <2>1. PICK k \in Audible(w) : parts[a] = PartOf(k, w)
    BY DEF HeardWell
  <2>2. /\ w.start <= PartOf(k, w).from /\ PartOf(k, w).from < PartOf(k, w).to
        /\ PartOf(k, w).to <= w.start + w.length
    BY PartWithin
  <2> QED BY <2>1, <2>2
<1> QED BY <1>1 DEF HeardWell, PartsWithin

\* Where the rows end.
LEMMA EndsOfRows ==
    ASSUME NEW n \in Nat \ {0}, NEW cuts \in SUBSET (1 .. n - 1)
    PROVE  LET ends == Ascending(cuts \cup {n}, n)
           IN  /\ ends \in Seq(Nat) /\ Len(ends) \in Nat \ {0} /\ ends[Len(ends)] = n
               /\ \A i \in 1 .. Len(ends) : ends[i] \in 1 .. n /\ (ends[i] = n => i = Len(ends))
               /\ \A i, j \in 1 .. Len(ends) : i < j => ends[i] < ends[j]
<1> DEFINE ends == Ascending(cuts \cup {n}, n)
<1>1. Lists(ends, cuts \cup {n}, n)
  BY AscendingLists
<1> HIDE DEF ends
<1>2. /\ ends \in Seq(Nat) /\ Len(ends) \in Nat
      /\ \A i \in 1 .. Len(ends) : ends[i] \in 1 .. n
      /\ \A i, j \in 1 .. Len(ends) : i < j => ends[i] < ends[j]
  BY <1>1 DEF Lists
<1>3. PICK last \in 1 .. Len(ends) : ends[last] = n
  BY <1>1 DEF Lists
<1>4. last = Len(ends)
  <2>1. SUFFICES ASSUME last < Len(ends) PROVE FALSE
    BY <1>2
  <2>2. Len(ends) \in 1 .. Len(ends)
    BY <1>2, <2>1
  <2> QED BY <1>2, <1>3, <2>1, <2>2
<1>5. ASSUME NEW i \in 1 .. Len(ends), ends[i] = n PROVE i = Len(ends)
  <2>1. SUFFICES ASSUME i < last PROVE FALSE
    BY <1>4
  <2> QED BY <1>2, <1>3, <1>5, <2>1
<1>6. ends[Len(ends)] = n /\ Len(ends) \in Nat \ {0}
  BY <1>2, <1>3, <1>4
<1>7. \A i \in 1 .. Len(ends) : ends[i] \in 1 .. n /\ (ends[i] = n => i = Len(ends))
  BY <1>2, <1>5
<1>8. /\ ends \in Seq(Nat) /\ Len(ends) \in Nat \ {0} /\ ends[Len(ends)] = n
      /\ \A i \in 1 .. Len(ends) : ends[i] \in 1 .. n /\ (ends[i] = n => i = Len(ends))
      /\ \A i, j \in 1 .. Len(ends) : i < j => ends[i] < ends[j]
  BY <1>2, <1>6, <1>7
<1> QED BY <1>8 DEF ends

LEMMA RowsAreWell ==
    ASSUME NEW w \in Windows, NEW parts, parts # <<>>, PartsWithin(parts, w),
           NEW cuts \in SUBSET (1 .. Len(parts) - 1), NEW lasting \in BOOLEAN
    PROVE  RowsWell(Rows(parts, cuts, lasting, w), parts, w) /\ Rows(parts, cuts, lasting, w) # <<>>
<1> DEFINE n == Len(parts)
           ends == Ascending(cuts \cup {n}, n)
           first(i) == IF i = 1 THEN 1 ELSE ends[i - 1] + 1
           next(i) == IF ends[i] = n THEN End(w) ELSE parts[ends[i] + 1].from
           upTo(i) == IF lasting THEN next(i) ELSE parts[ends[i]].to
           piece(i) == SubSeq(parts, first(i), ends[i])
           row(i) == [parts |-> piece(i), t0 |-> parts[first(i)].from - w.start,
                      t1 |-> upTo(i) - w.start]
           rows == Rows(parts, cuts, lasting, w)
<1>1. n \in Nat \ {0}
  BY DEF PartsWithin
<1>2. /\ ends \in Seq(Nat) /\ Len(ends) \in Nat \ {0} /\ ends[Len(ends)] = n
      /\ \A i \in 1 .. Len(ends) : ends[i] \in 1 .. n /\ (ends[i] = n => i = Len(ends))
      /\ \A i, j \in 1 .. Len(ends) : i < j => ends[i] < ends[j]
  <2>1. cuts \in SUBSET (1 .. n - 1)
    OBVIOUS
  <2> HIDE DEF n
  <2> QED BY <1>1, <2>1, EndsOfRows
<1>3. rows = [i \in DOMAIN ends |-> row(i)]
  BY DEF Rows
<1> HIDE DEF ends, rows, row
<1>4. Len(rows) = Len(ends) /\ DOMAIN rows = 1 .. Len(ends) /\ \A i \in 1 .. Len(ends) : rows[i] = row(i)
  BY <1>2, <1>3
<1>5. ASSUME NEW i \in 1 .. Len(ends)
      PROVE  first(i) \in 1 .. ends[i] /\ ends[i] \in 1 .. n /\ first(i) \in 1 .. n
             /\ (\A j \in 1 .. Len(ends) : j < i => ends[j] < first(i))
  <2>1. CASE i = 1
    BY <2>1, <1>1, <1>2
  <2>2. CASE i # 1
    <3>1. i - 1 \in 1 .. Len(ends)
      BY <2>2, <1>2
    <3>2. ends[i - 1] < ends[i] /\ ends[i - 1] \in 1 .. n /\ ends[i] \in 1 .. n
      BY <3>1, <1>2
    <3>3. \A j \in 1 .. Len(ends) : j < i => ends[j] <= ends[i - 1]
      <4>1. ASSUME NEW j \in 1 .. Len(ends), j < i PROVE ends[j] <= ends[i - 1]
        <5>1. j = i - 1 \/ j < i - 1
          BY <4>1
        <5>2. CASE j = i - 1
          BY <5>2, <3>2
        <5>3. CASE j < i - 1
          <6>1. ends[j] < ends[i - 1] /\ ends[j] \in 1 .. n
            BY <5>3, <3>1, <1>2
          <6> QED BY <6>1, <3>2
        <5> QED BY <5>1, <5>2, <5>3
      <4> QED BY <4>1
    <3> QED BY <2>2, <3>2, <3>3, <1>1, <1>2
  <2> QED BY <2>1, <2>2
<1> HIDE DEF first
<1>6. \A a \in 1 .. n : /\ parts[a] \in Span /\ parts[a].from \in Nat /\ parts[a].to \in Nat
                        /\ w.start <= parts[a].from /\ parts[a].from < parts[a].to
                        /\ parts[a].to <= End(w)
  <2>1. \A a \in 1 .. n : parts[a] \in Span
    BY DEF PartsWithin
  <2>2. \A a \in 1 .. n : parts[a].from \in Nat /\ parts[a].to \in Nat
    BY <2>1 DEF Span
  <2> QED BY <2>1, <2>2 DEF PartsWithin, End
<1>7. \A a, b \in 1 .. n : a < b => parts[a].to <= parts[b].from
  BY DEF PartsWithin
<1>8. \A a, b \in 1 .. n : a <= b => parts[a].from <= parts[b].from
  <2>1. ASSUME NEW a \in 1 .. n, NEW b \in 1 .. n, a <= b PROVE parts[a].from <= parts[b].from
    <3>1. CASE a = b
      BY <3>1, <1>6
    <3>2. CASE a < b
      BY <3>2, <1>6, <1>7
    <3> QED BY <2>1, <3>1, <3>2
  <2> QED BY <2>1
<1> HIDE DEF n
<1>9. w.start \in Nat /\ End(w) \in Nat
  BY DEF Windows, End
\* The end of a row lies between its last part and the first of the next.
<1>10. ASSUME NEW i \in 1 .. Len(ends)
       PROVE  /\ upTo(i) \in Nat /\ parts[ends[i]].to <= upTo(i) /\ upTo(i) <= End(w)
              /\ \A b \in 1 .. n : ends[i] < b => upTo(i) <= parts[b].from
  <2>1. ends[i] \in 1 .. n
    BY <1>2
  <2>2. /\ next(i) \in Nat /\ parts[ends[i]].to <= next(i) /\ next(i) <= End(w)
        /\ \A b \in 1 .. n : ends[i] < b => next(i) <= parts[b].from
    <3>1. CASE ends[i] = n
      BY <3>1, <2>1, <1>1, <1>6, <1>9
    <3>2. CASE ends[i] # n
      <4>1. ends[i] + 1 \in 1 .. n /\ ends[i] < ends[i] + 1
        BY <3>2, <2>1, <1>1
      <4>2. next(i) = parts[ends[i] + 1].from
        BY <3>2
      <4>3. next(i) \in Nat /\ parts[ends[i]].to <= next(i)
        BY <4>1, <4>2, <2>1, <1>6, <1>7
      <4>4. parts[ends[i] + 1].from < parts[ends[i] + 1].to /\ parts[ends[i] + 1].to <= End(w)
            /\ parts[ends[i] + 1].to \in Nat
        BY <4>1, <1>6
      <4>5. \A b \in 1 .. n : ends[i] < b => next(i) <= parts[b].from
        BY <4>1, <4>2, <2>1, <1>8
      <4> QED BY <4>2, <4>3, <4>4, <4>5, <1>9
    <3> QED BY <3>1, <3>2
  <2> HIDE DEF next
  <2>3. CASE lasting
    BY <2>2, <2>3
  <2>4. CASE ~lasting
    BY <2>1, <2>4, <1>6, <1>7
  <2> QED BY <2>3, <2>4
<1> HIDE DEF next, upTo
<1>11. ASSUME NEW i \in 1 .. Len(ends)
       PROVE  /\ piece(i) \in Seq(Span) /\ Len(piece(i)) = ends[i] - first(i) + 1
              /\ \A a \in 1 .. Len(piece(i)) : (first(i) + a) - 1 \in first(i) .. ends[i]
                                               /\ piece(i)[a] = parts[(first(i) + a) - 1]
  <2>1. first(i) \in Nat /\ ends[i] \in Nat /\ first(i) <= ends[i]
        /\ (\A a \in first(i) .. ends[i] : a \in 1 .. n)
    BY <1>5, <1>1
  <2>2. \A a \in first(i) .. ends[i] : parts[a] \in Span
    BY <2>1, <1>6
  <2>3. /\ piece(i) \in Seq(Span)
        /\ Len(piece(i)) = IF first(i) <= ends[i] THEN ends[i] - first(i) + 1 ELSE 0
        /\ \A a \in 1 .. ends[i] - first(i) + 1 : piece(i)[a] = parts[first(i) + a - 1]
    BY <2>1, <2>2, SubSeqProperties
  <2> HIDE DEF piece
  <2>4. Len(piece(i)) = ends[i] - first(i) + 1
    BY <2>1, <2>3
  <2>5. \A a \in 1 .. ends[i] - first(i) + 1 : first(i) + a - 1 = (first(i) + a) - 1
                                                /\ (first(i) + a) - 1 \in first(i) .. ends[i]
    BY <2>1
  <2> QED BY <2>1, <2>3, <2>4, <2>5
<1> HIDE DEF piece
<1>12. ASSUME NEW i \in 1 .. Len(ends)
       PROVE  row(i) \in Row /\ RowFits(row(i), w.start) /\ w.start + row(i).t1 <= End(w)
  <2> DEFINE f == parts[first(i)].from
             l == parts[ends[i]].to
             t == upTo(i)
  <2>1. f \in Nat /\ l \in Nat /\ w.start <= f /\ f < l
    <3>1. parts[first(i)].from <= parts[ends[i]].from
      BY <1>5, <1>8
    <3> QED BY <3>1, <1>5, <1>6, <1>9
  <2>2. t \in Nat /\ l <= t /\ t <= End(w)
    BY <1>10
  <2>3. Len(piece(i)) \in Nat \ {0} /\ piece(i)[1].from = f /\ piece(i)[Len(piece(i))].to = l
        /\ piece(i) # <<>>
    <3>1. Len(piece(i)) = ends[i] - first(i) + 1 /\ first(i) \in Nat /\ ends[i] \in Nat /\ first(i) <= ends[i]
      BY <1>5, <1>11
    <3>2. Len(piece(i)) \in Nat \ {0} /\ (first(i) + 1) - 1 = first(i)
          /\ (first(i) + Len(piece(i))) - 1 = ends[i]
          /\ 1 \in 1 .. Len(piece(i)) /\ Len(piece(i)) \in 1 .. Len(piece(i))
      BY <3>1
    <3>3. piece(i)[1] = parts[first(i)] /\ piece(i)[Len(piece(i))] = parts[ends[i]]
      BY <3>2, <1>11
    <3>4. piece(i) # <<>>
      BY <3>2
    <3> QED BY <3>2, <3>3, <3>4
  <2>4. ASSUME NEW a \in 1 .. Len(piece(i)), NEW b \in 1 .. Len(piece(i)), a < b
        PROVE  piece(i)[a].to <= piece(i)[b].from
    <3> DEFINE x == (first(i) + a) - 1
               y == (first(i) + b) - 1
    <3>1. /\ x \in 1 .. n /\ y \in 1 .. n /\ x < y
          /\ piece(i)[a] = parts[x] /\ piece(i)[b] = parts[y]
      <4>1. \A z \in first(i) .. ends[i] : z \in 1 .. n
        BY <1>1, <1>5
      <4>2. /\ x \in first(i) .. ends[i] /\ y \in first(i) .. ends[i]
            /\ piece(i)[a] = parts[x] /\ piece(i)[b] = parts[y]
        BY <1>11
      <4>3. x < y
        <5>1. first(i) \in Nat /\ a \in Nat /\ b \in Nat
          BY <1>5, <2>3
        <5> QED BY <5>1, <2>4
      <4> QED BY <4>1, <4>2, <4>3
    <3> HIDE DEF x, y
    <3> QED BY <3>1, <1>7
  <2>5. /\ row(i).parts = piece(i) /\ row(i).t0 = f - w.start /\ row(i).t1 = t - w.start
        /\ row(i) = [parts |-> piece(i), t0 |-> f - w.start, t1 |-> t - w.start]
    BY DEF row
  <2> HIDE DEF f, l, t
  <2>6. f - w.start \in Nat /\ t - w.start \in Nat /\ w.start + (f - w.start) = f
        /\ w.start + (t - w.start) = t /\ f - w.start <= t - w.start
    BY <2>1, <2>2, <1>9
  <2>7. row(i) \in Row
    BY <2>5, <2>6, <1>11 DEF Row
  <2>8. RowFits(row(i), w.start)
    BY <2>2, <2>3, <2>4, <2>5, <2>6 DEF RowFits
  <2> QED BY <2>2, <2>5, <2>6, <2>7, <2>8
<1>13. rows \in Seq(Row) /\ rows # <<>>
  <2>1. rows = [i \in 1 .. Len(ends) |-> row(i)]
    BY <1>2, <1>3
  <2>2. rows \in Seq(Row)
    BY <2>1, <1>2, <1>12
  <2> QED BY <2>2, <1>2, <1>4
<1>14. ASSUME NEW i \in 1 .. Len(rows), NEW j \in 1 .. Len(rows), i < j
       PROVE  rows[i].t1 <= rows[j].t0
  <2>1. first(j) \in 1 .. n /\ ends[i] < first(j)
    BY <1>4, <1>5, <1>14
  <2>2. upTo(i) <= parts[first(j)].from /\ upTo(i) \in Nat /\ parts[first(j)].from \in Nat
    BY <2>1, <1>4, <1>6, <1>10
  <2>3. rows[i].t1 = upTo(i) - w.start /\ rows[j].t0 = parts[first(j)].from - w.start
    BY <1>4 DEF row
  <2> QED BY <2>2, <2>3, <1>9
<1>15. ASSUME NEW i \in 1 .. Len(rows), NEW a \in 1 .. Len(rows[i].parts)
       PROVE  \E b \in 1 .. n : rows[i].parts[a] = parts[b]
  <2>1. rows[i].parts = piece(i)
    BY <1>4 DEF row
  <2>2. (first(i) + a) - 1 \in 1 .. n /\ piece(i)[a] = parts[(first(i) + a) - 1]
    BY <2>1, <1>1, <1>4, <1>5, <1>11
  <2> QED BY <2>1, <2>2
<1>16. ASSUME NEW b \in 1 .. n
       PROVE  \E i \in 1 .. Len(rows) : \E a \in 1 .. Len(rows[i].parts) : rows[i].parts[a] = parts[b]
  <2> DEFINE T == {i \in 1 .. Len(ends) : b <= ends[i]}
  <2>1. PICK i \in T : \A j \in T : i <= j
    <3>1. T \in SUBSET Nat /\ Len(ends) \in T
      BY <1>1, <1>2
    <3> HIDE DEF T
    <3> QED BY <3>1, LeastNat
  <2>2. first(i) <= b /\ b <= ends[i]
    <3>1. CASE i = 1
      BY <3>1, <2>1, <1>1 DEF first
    <3>2. CASE i # 1
      <4>1. i - 1 \in 1 .. Len(ends) /\ i - 1 \notin T
        BY <3>2, <2>1, <1>2
      <4>2. ends[i - 1] < b
        BY <4>1, <1>1, <1>2
      <4> QED BY <3>2, <4>1, <4>2, <2>1, <1>1, <1>2 DEF first
    <3> QED BY <3>1, <3>2
  <2> DEFINE a == (b - first(i)) + 1
  <2>3. a \in 1 .. Len(piece(i)) /\ (first(i) + a) - 1 = b
    BY <2>1, <2>2, <1>1, <1>5, <1>11
  <2>4. piece(i)[a] = parts[b]
    BY <2>1, <2>3, <1>11
  <2>5. rows[i].parts = piece(i) /\ i \in 1 .. Len(rows)
    BY <2>1, <1>4 DEF row
  <2> HIDE DEF a
  <2> QED BY <2>3, <2>4, <2>5
<1>17. \A i \in 1 .. Len(rows) : RowFits(rows[i], w.start) /\ w.start + rows[i].t1 <= End(w)
  BY <1>4, <1>12
<1>18. RowsWell(rows, parts, w)
  BY <1>13, <1>14, <1>15, <1>16, <1>17 DEF RowsWell, n
<1> QED BY <1>13, <1>18 DEF rows

-----------------------------------------------------------------------------
\* Which rows a run publishes.

Absolute(row, w) == [parts |-> row.parts, t0 |-> w.start + row.t0, t1 |-> w.start + row.t1]

\* Rows one after the other, within the window.
RowsFit(rows, w) ==
    /\ rows \in Seq(Row)
    /\ \A i \in 1 .. Len(rows) : RowFits(rows[i], w.start) /\ w.start + rows[i].t1 <= End(w)
    /\ \A i, j \in 1 .. Len(rows) : i < j => rows[i].t1 <= rows[j].t0

\* Of the first n rows those up to m are published, and the rest withheld.
SeenUpTo(seen, w, rows, cutoff, n, m) ==
    /\ seen = [upTo |-> IF m = 0 THEN w.start ELSE w.start + rows[m].t1,
               words |-> [i \in 1 .. m |-> Absolute(rows[i], w)],
               withheld |-> IF m < n THEN w.start + rows[m + 1].t0 ELSE Never]
    /\ \A i \in 1 .. m : w.start + rows[i].t1 <= cutoff
    /\ m < n => w.start + rows[m + 1].t1 > cutoff

Considers(f, w, rows, cutoff, n) ==
    f = [k \in 0 .. n |-> IF k = 0 THEN [upTo |-> w.upTo, words |-> <<>>, withheld |-> Never]
                          ELSE Consider(f[k - 1], rows[k], w, cutoff)]

LEMMA ConsidersExist ==
    ASSUME NEW w, NEW rows, NEW cutoff, NEW n \in Nat
    PROVE  \E f : Considers(f, w, rows, cutoff, n)
<1> DEFINE start == [upTo |-> w.upTo, words |-> <<>>, withheld |-> Never]
           T == {m \in Nat : \E f : Considers(f, w, rows, cutoff, m)}
<1>1. 0 \in T
  <2> DEFINE f == [k \in 0 .. 0 |-> start]
  <2>1. Considers(f, w, rows, cutoff, 0)
    BY DEF Considers
  <2> QED BY <2>1
<1>2. ASSUME NEW m \in T PROVE m + 1 \in T
  <2>1. PICK f : Considers(f, w, rows, cutoff, m)
    OBVIOUS
  <2> DEFINE g == [k \in 0 .. m + 1 |->
                      IF k <= m THEN f[k] ELSE Consider(f[m], rows[m + 1], w, cutoff)]
  <2>2. ASSUME NEW k \in 0 .. m + 1
        PROVE  g[k] = IF k = 0 THEN start ELSE Consider(g[k - 1], rows[k], w, cutoff)
    <3>1. CASE k = m + 1
      BY <3>1
    <3>2. CASE k # m + 1
      <4>1. k \in 0 .. m /\ (k # 0 => k - 1 \in 0 .. m)
        BY <3>2
      <4>2. f[k] = IF k = 0 THEN start ELSE Consider(f[k - 1], rows[k], w, cutoff)
        BY <2>1, <4>1 DEF Considers
      <4> QED BY <4>1, <4>2
    <3> QED BY <3>1, <3>2
  <2>3. Considers(g, w, rows, cutoff, m + 1)
    BY <2>2 DEF Considers
  <2> HIDE DEF g
  <2>4. m + 1 \in Nat
    OBVIOUS
  <2> QED BY <2>3, <2>4
<1>3. T = Nat
  BY <1>1, <1>2, NatInductionSet
<1> QED BY <1>3

\* One more row: as the rows follow each other, none is published behind one
\* that is withheld, and the first of these holds the frontier.
LEMMA ConsiderStep ==
    ASSUME NEW w \in Windows, End(w) <= MaxEnd, NEW rows, RowsFit(rows, w),
           NEW cutoff \in Int, NEW n \in Nat, n < Len(rows), NEW m \in 0 .. n,
           NEW seen, SeenUpTo(seen, w, rows, cutoff, n, m)
    PROVE  \E k \in 0 .. n + 1 :
               SeenUpTo(Consider(seen, rows[n + 1], w, cutoff), w, rows, cutoff, n + 1, k)
<1> DEFINE row == rows[n + 1]
           t0 == w.start + row.t0
           t1 == w.start + row.t1
           upTo == IF m = 0 THEN w.start ELSE w.start + rows[m].t1
           words == [i \in 1 .. m |-> Absolute(rows[i], w)]
           withheld == IF m < n THEN w.start + rows[m + 1].t0 ELSE Never
<1>1. n + 1 \in 1 .. Len(rows) /\ Len(rows) \in Nat
  BY DEF RowsFit
<1>2. /\ row.t0 \in Nat /\ row.t1 \in Nat /\ row.t0 <= row.t1 /\ row.parts # <<>> /\ w.start \in Nat
      /\ t1 <= End(w)
  <2>1. row \in Row /\ RowFits(row, w.start)
    BY <1>1 DEF RowsFit
  <2>2. w.start + rows[n + 1].t1 <= End(w)
    BY <1>1 DEF RowsFit
  <2> QED BY <2>1, <2>2 DEF Row, RowFits, Windows
<1>3. \A i \in 1 .. n : /\ rows[i].t0 \in Nat /\ rows[i].t1 \in Nat
                        /\ rows[i].t1 <= row.t0 /\ rows[i].t0 <= rows[i].t1
  <2>1. \A i \in 1 .. n : i \in 1 .. Len(rows) /\ i < n + 1
    BY <1>1
  <2>2. \A i \in 1 .. n : rows[i] \in Row /\ RowFits(rows[i], w.start) /\ rows[i].t1 <= row.t0
    BY <2>1, <1>1 DEF RowsFit
  <2> QED BY <2>2 DEF Row, RowFits
<1>4. MaxEnd \in Nat /\ End(w) \in Nat
  BY WindowAssumption DEF Windows, End
<1>5. t0 \in Nat /\ t1 \in Nat /\ t0 <= t1 /\ t0 < Never
  BY <1>2, <1>4 DEF Never
<1>6. seen = [upTo |-> upTo, words |-> words, withheld |-> withheld]
  BY DEF SeenUpTo
<1>7. Consider(seen, row, w, cutoff) =
        IF t1 > cutoff THEN [seen EXCEPT !.withheld = Min({@, t0})]
        ELSE IF t0 < seen.upTo THEN seen
        ELSE [seen EXCEPT !.upTo = t1, !.words = Append(@, Absolute(row, w))]
  <2>1. Max({t1, t0}) = t1
    <3> HIDE DEF t0, t1
    <3> QED BY <1>5, MaxTwo
  <2> QED BY <1>2, <2>1 DEF Consider, Absolute
<1>8. upTo \in Nat /\ upTo <= t0
  <2>1. CASE m = 0
    BY <2>1, <1>2
  <2>2. CASE m # 0
    BY <2>2, <1>2, <1>3
  <2> QED BY <2>1, <2>2
<1> HIDE DEF upTo, words
<1>9. CASE t1 > cutoff
  <2>1. Consider(seen, row, w, cutoff) = [upTo |-> upTo, words |-> words, withheld |-> Min({withheld, t0})]
    BY <1>6, <1>7, <1>9
  <2>2. Min({withheld, t0}) = IF m < n THEN w.start + rows[m + 1].t0 ELSE t0
    <3>1. CASE m < n
      <4>1. m + 1 \in 1 .. n
        BY <3>1
      <4>2. withheld = w.start + rows[m + 1].t0 /\ withheld \in Nat /\ withheld <= t0
        <5>1. withheld = w.start + rows[m + 1].t0
          BY <3>1
        <5> DEFINE x == rows[m + 1]
        <5>2. x.t0 \in Nat /\ x.t1 \in Nat /\ x.t1 <= row.t0 /\ x.t0 <= x.t1
          BY <4>1, <1>3
        <5> HIDE DEF withheld, x
        <5>3. w.start + x.t0 \in Nat /\ w.start + x.t0 <= t0
          BY <5>2, <1>2
        <5> QED BY <5>1, <5>3 DEF x
      <4> HIDE DEF withheld, t0
      <4> QED BY <3>1, <4>2, <1>5, MinTwo
    <3>2. CASE ~ (m < n)
      <4>1. withheld = Never /\ Never \in Int
        BY <3>2, <1>4 DEF Never
      <4>2. withheld \in Int /\ t0 \in Int /\ t0 < withheld
        BY <4>1, <1>5
      <4>3. Min({withheld, t0}) = t0
        <5> HIDE DEF withheld, t0
        <5> QED BY <4>2, MinTwo
      <4> QED BY <3>2, <4>3
    <3> QED BY <3>1, <3>2
  <2>3. Min({withheld, t0}) = w.start + rows[m + 1].t0
    BY <2>2
  <2>4. m < n + 1 /\ m \in 0 .. n + 1
    OBVIOUS
  <2>5. w.start + rows[m + 1].t1 > cutoff
    <3>1. CASE m < n
      BY <3>1 DEF SeenUpTo
    <3>2. CASE m = n
      BY <3>2, <1>9
    <3> QED BY <3>1, <3>2
  <2>6. SeenUpTo(Consider(seen, row, w, cutoff), w, rows, cutoff, n + 1, m)
    BY <2>1, <2>3, <2>4, <2>5 DEF SeenUpTo, upTo, words
  <2> QED BY <2>4, <2>6
<1>10. CASE ~ (t1 > cutoff)
  <2>1. m = n
    <3>1. SUFFICES ASSUME m < n PROVE FALSE
      OBVIOUS
    <3>2. m + 1 \in 1 .. n /\ w.start + rows[m + 1].t1 > cutoff
      BY <3>1 DEF SeenUpTo
    <3> QED BY <3>2, <1>2, <1>3, <1>5, <1>10
  <2>2. Consider(seen, row, w, cutoff) =
           [upTo |-> t1, words |-> Append(words, Absolute(row, w)), withheld |-> Never]
    <3>1. withheld = Never
      BY <2>1
    <3>2. ~ (t0 < seen.upTo)
      BY <1>6, <1>8, <1>5
    <3> QED BY <3>1, <3>2, <1>6, <1>7, <1>10
  <2>3. Append(words, Absolute(row, w)) = [i \in 1 .. n + 1 |-> Absolute(rows[i], w)]
    <3>1. words = [i \in 1 .. n |-> Absolute(rows[i], w)]
      BY <2>1 DEF words
    <3>2. Len(words) = n
      BY <3>1
    <3>3. Append(words, Absolute(row, w)) =
             [i \in 1 .. n + 1 |-> IF i = n + 1 THEN Absolute(row, w) ELSE words[i]]
      BY <3>1, <3>2
    <3> HIDE DEF row
    <3>4. row = rows[n + 1]
      BY DEF row
    <3> QED BY <3>1, <3>3, <3>4
  <2>4. \A i \in 1 .. n + 1 : w.start + rows[i].t1 <= cutoff
    <3>1. \A i \in 1 .. n : w.start + rows[i].t1 <= cutoff
      BY <2>1 DEF SeenUpTo
    <3> QED BY <3>1, <1>5, <1>10
  <2>5. n + 1 # 0 /\ ~ (n + 1 < n + 1) /\ n + 1 \in 0 .. n + 1
    OBVIOUS
  <2>6. SeenUpTo(Consider(seen, row, w, cutoff), w, rows, cutoff, n + 1, n + 1)
    BY <2>2, <2>3, <2>4, <2>5 DEF SeenUpTo
  <2> QED BY <2>5, <2>6
<1> QED BY <1>9, <1>10

LEMMA ConsideredRows ==
    ASSUME NEW w \in Windows, w.upTo = w.start, End(w) <= MaxEnd, NEW rows, RowsFit(rows, w),
           NEW cutoff \in Int
    PROVE  \E m \in 0 .. Len(rows) :
               SeenUpTo(Considered(w, rows, cutoff), w, rows, cutoff, Len(rows), m)
<1> DEFINE f == CHOOSE f : Considers(f, w, rows, cutoff, Len(rows))
           T == {n \in Nat : n <= Len(rows) =>
                     \E m \in 0 .. n : SeenUpTo(f[n], w, rows, cutoff, n, m)}
<1>1. Len(rows) \in Nat
  BY DEF RowsFit
<1>2. Considers(f, w, rows, cutoff, Len(rows))
  BY <1>1, ConsidersExist
<1>3. Considered(w, rows, cutoff) = f[Len(rows)]
  BY DEF Considered, Considers
<1> HIDE DEF f
<1>4. 0 \in T
  <2>1. f[0] = [upTo |-> w.start, words |-> <<>>, withheld |-> Never]
    BY <1>1, <1>2 DEF Considers
  <2>2. [i \in 1 .. 0 |-> Absolute(rows[i], w)] = <<>>
    OBVIOUS
  <2>3. SeenUpTo(f[0], w, rows, cutoff, 0, 0)
    BY <2>1, <2>2 DEF SeenUpTo
  <2> QED BY <2>3
<1>5. ASSUME NEW n \in T PROVE n + 1 \in T
  <2>1. SUFFICES ASSUME n + 1 <= Len(rows)
                 PROVE  \E m \in 0 .. n + 1 : SeenUpTo(f[n + 1], w, rows, cutoff, n + 1, m)
    OBVIOUS
  <2>2. PICK m \in 0 .. n : SeenUpTo(f[n], w, rows, cutoff, n, m)
    BY <2>1, <1>1
  <2>3. f[n + 1] = Consider(f[n], rows[n + 1], w, cutoff)
    <3>1. n + 1 \in 0 .. Len(rows) /\ n + 1 # 0 /\ (n + 1) - 1 = n
      BY <2>1, <1>1
    <3> QED BY <3>1, <1>2 DEF Considers
  <2>4. n < Len(rows) /\ n \in Nat
    BY <2>1, <1>1
  <2> HIDE DEF T
  <2> QED BY <2>2, <2>3, <2>4, ConsiderStep
<1>6. T = Nat
  BY <1>4, <1>5, NatInductionSet
<1> QED BY <1>1, <1>3, <1>6

-----------------------------------------------------------------------------
\* What a run publishes.

Says(script, k, ms) == script[k][1] <= ms /\ ms < script[k][2]
Voiced(words, ms) ==
    \E i \in 1 .. Len(words) : \E a \in 1 .. Len(words[i].parts) :
        words[i].parts[a].from <= ms /\ ms < words[i].parts[a].to

\* A published row: it spans its parts, and if the model times its rows it
\* begins with the first.
WordFits(word, timed) ==
    /\ word.parts # <<>>
    /\ word.t0 <= word.parts[1].from /\ word.parts[Len(word.parts)].to <= word.t1
    /\ word.t0 <= word.t1
    /\ timed => word.t0 = word.parts[1].from
    /\ \A a \in 1 .. Len(word.parts) : word.parts[a].from < word.parts[a].to
    /\ \A a, b \in 1 .. Len(word.parts) : a < b => word.parts[a].to <= word.parts[b].from

\* The words lie in the window in front of u, in order.
WordsWell(words, w, u) ==
    /\ words \in Seq(Row)
    /\ \A i \in 1 .. Len(words) : /\ WordFits(words[i], stream.timed)
                                  /\ w.start <= words[i].t0 /\ words[i].t1 <= u
    /\ \A i, j \in 1 .. Len(words) : i < j => words[i].t1 <= words[j].t0
    /\ stream.timed => \A i \in 1 .. Len(words) :
                           \E k \in Audible(w) : words[i].t0 = PartOf(k, w).from

\* A run publishes words up to u and takes the frontier to f: nothing said in
\* front of u is missing, and what is left of any word begins behind f.
Publishes(w, drain, words, u, f) ==
    /\ u \in Nat /\ w.start <= u /\ u <= End(w)
    /\ WordsWell(words, w, u)
    /\ \A k \in DOMAIN stream.script : \A ms \in Nat :
           (/\ Says(stream.script, k, ms) /\ w.start <= ms
            /\ ms < IF drain THEN End(w) ELSE u) => Voiced(words, ms)
    /\ f \in Nat /\ (f <= w.frontier \/ f <= End(w))
    /\ drain => f = w.frontier
    /\ stream.timed =>
           \A k \in DOMAIN stream.script :
               stream.script[k][2] > u => f <= w.frontier \/ f <= stream.script[k][1] \/ f <= u

\* A window that is run: before the end it is longer than the live edge.
Runnable(w, drain) ==
    /\ Speech /\ w \in Windows /\ w.upTo = w.start
    /\ w.length > 0 /\ End(w) <= MaxEnd
    /\ ~drain => w.length > LiveEdgeMs

Cutoff(w, drain) == IF drain THEN Never ELSE End(w) - LiveEdgeMs
Advanced(w, drain, to) == IF drain THEN w.frontier ELSE Max({w.frontier, to})

LEMMA CutoffWithin ==
    ASSUME NEW w, NEW drain \in BOOLEAN, Runnable(w, drain)
    PROVE  /\ w.start \in Nat /\ w.length \in Nat /\ w.frontier \in Nat /\ LiveEdgeMs \in Nat
           /\ End(w) \in Nat /\ w.start < End(w) /\ End(w) = w.start + w.length
           /\ Cutoff(w, drain) \in Nat /\ w.start < Cutoff(w, drain)
           /\ ~drain => Cutoff(w, drain) <= End(w) /\ Cutoff(w, drain) = End(w) - LiveEdgeMs
           /\ drain => Cutoff(w, drain) > End(w)
           /\ End(w) < Never /\ Never \in Nat
<1>1. w.start \in Nat /\ w.length \in Nat /\ w.frontier \in Nat
  BY DEF Runnable, Windows
<1>2. LiveEdgeMs \in Nat /\ MaxEnd \in Nat
  BY WindowAssumption
<1>3. w.length > 0 /\ End(w) <= MaxEnd /\ (~drain => w.length > LiveEdgeMs)
  BY DEF Runnable
<1> QED BY <1>1, <1>2, <1>3 DEF Cutoff, Never, End

\* Words of the script, as SMT wants them.
LEMMA ScriptType ==
    ASSUME Speech
    PROVE  \A k \in DOMAIN stream.script :
               /\ stream.script[k][1] \in Nat /\ stream.script[k][2] \in Nat
               /\ stream.script[k][1] < stream.script[k][2]
<1>1. \A k \in DOMAIN stream.script : stream.script[k] \in Nat \X Nat
  BY DEF Speech, IsScript
<1> QED BY <1>1 DEF Speech, IsScript

\* What is said in the window and heard by a run that is silent.
LEMMA SilenceCertain ==
    ASSUME NEW w, NEW drain \in BOOLEAN, Runnable(w, drain), HeardWell(<<>>, w, drain),
           NEW k \in DOMAIN stream.script
    PROVE  /\ stream.script[k][2] > w.start =>
                  stream.script[k][1] >= IF drain THEN End(w) ELSE Cutoff(w, drain)
<1>1. Certain(w, drain) = {}
  BY DEF HeardWell
<1>2. stream.script[k][1] \in Nat /\ stream.script[k][2] \in Nat
  BY ScriptType DEF Runnable
<1> QED BY <1>1, <1>2, CutoffWithin DEF Certain, Audible, Cutoff

\* A silent run publishes nothing, and takes all before the cutoff as done or
\* leaves it.
LEMMA SilencePublishes ==
    ASSUME NEW w, NEW drain \in BOOLEAN, Runnable(w, drain), HeardWell(<<>>, w, drain),
           NEW u \in Nat, w.start <= u, u <= IF drain THEN w.start ELSE Cutoff(w, drain)
    PROVE  Publishes(w, drain, <<>>, u, Advanced(w, drain, Cutoff(w, drain)))
<1> DEFINE c == Cutoff(w, drain)
           f == Advanced(w, drain, c)
<1>1. /\ w.start \in Nat /\ w.frontier \in Nat /\ End(w) \in Nat /\ c \in Nat /\ w.start < End(w)
      /\ ~drain => c <= End(w)
  BY CutoffWithin
<1>2. f = IF drain \/ w.frontier >= c THEN w.frontier ELSE c
  <2>1. Max({w.frontier, c}) = IF w.frontier >= c THEN w.frontier ELSE c
    <3> HIDE DEF c
    <3> QED BY <1>1, MaxTwo
  <2> QED BY <2>1 DEF Advanced
<1>3. ASSUME NEW k \in DOMAIN stream.script
      PROVE  /\ stream.script[k][1] \in Nat /\ stream.script[k][2] \in Nat
             /\ stream.script[k][2] > w.start => stream.script[k][1] >= IF drain THEN End(w) ELSE c
  BY <1>3, SilenceCertain, ScriptType DEF Runnable
<1> HIDE DEF c, f
<1>4. u \in Nat /\ w.start <= u /\ u <= End(w) /\ (~drain => u <= c) /\ (drain => u = w.start)
  BY <1>1 DEF c
<1>5. WordsWell(<<>>, w, u)
  BY DEF WordsWell
<1>6. ASSUME NEW k \in DOMAIN stream.script, NEW ms \in Nat, Says(stream.script, k, ms), w.start <= ms,
             ms < IF drain THEN End(w) ELSE u
      PROVE  FALSE
  <2>1. stream.script[k][1] <= ms /\ ms < stream.script[k][2]
    BY <1>6 DEF Says
  <2>2. stream.script[k][1] >= IF drain THEN End(w) ELSE c
    BY <2>1, <1>1, <1>3, <1>6
  <2> QED BY <2>1, <2>2, <1>1, <1>3, <1>4, <1>6
<1>7. f \in Nat /\ (f <= w.frontier \/ f <= End(w)) /\ (drain => f = w.frontier)
  BY <1>1, <1>2
<1>8. ASSUME NEW k \in DOMAIN stream.script, stream.script[k][2] > u
      PROVE  f <= w.frontier \/ f <= stream.script[k][1] \/ f <= u
  BY <1>1, <1>2, <1>3, <1>4, <1>8
<1>9. Publishes(w, drain, <<>>, u, f)
  BY <1>4, <1>5, <1>6, <1>7, <1>8 DEF Publishes
<1> QED BY <1>9 DEF f, c

\* Rows that are published in front of the cutoff.
LEMMA RowsPublish ==
    ASSUME NEW w, NEW drain \in BOOLEAN, Runnable(w, drain), stream.timed,
           NEW parts, HeardWell(parts, w, drain), NEW rows, RowsWell(rows, parts, w), rows # <<>>,
           NEW m \in 0 .. Len(rows), NEW seen,
           SeenUpTo(seen, w, rows, Cutoff(w, drain), Len(rows), m)
    PROVE  Publishes(w, drain, seen.words, seen.upTo,
                     Advanced(w, drain, Limit(Cutoff(w, drain), seen.withheld)))
<1> DEFINE c == Cutoff(w, drain)
           s == w.start
           e == End(w)
           n == Len(rows)
           u == IF m = 0 THEN s ELSE s + rows[m].t1
           words == [i \in 1 .. m |-> Absolute(rows[i], w)]
           held == IF m < n THEN s + rows[m + 1].t0 ELSE Never
           limit == Limit(c, held)
           f == Advanced(w, drain, limit)
<1>1. seen.words = words /\ seen.upTo = u /\ seen.withheld = held
  BY DEF SeenUpTo
<1>2. /\ s \in Nat /\ w.frontier \in Nat /\ e \in Nat /\ s < e /\ c \in Nat /\ s < c
      /\ (~drain => c <= e) /\ (drain => c > e) /\ e < Never /\ Never \in Nat
  BY CutoffWithin
<1>3. n \in Nat
  BY DEF RowsWell
<1>4. ASSUME NEW i \in 1 .. n
      PROVE  /\ rows[i] \in Row /\ rows[i].parts \in Seq(Span) /\ rows[i].parts # <<>>
             /\ Len(rows[i].parts) \in Nat \ {0}
             /\ rows[i].t0 \in Nat /\ rows[i].t1 \in Nat /\ rows[i].t0 <= rows[i].t1
             /\ s + rows[i].t1 <= e
             /\ s + rows[i].t0 = rows[i].parts[1].from
             /\ rows[i].parts[Len(rows[i].parts)].to <= s + rows[i].t1
             /\ \A a, b \in 1 .. Len(rows[i].parts) : a < b => rows[i].parts[a].to <= rows[i].parts[b].from
  <2>1. rows[i] \in Row /\ RowFits(rows[i], s) /\ s + rows[i].t1 <= e
    BY DEF RowsWell
  <2> QED BY <2>1 DEF RowFits, Row
<1>5. ASSUME NEW i \in 1 .. n, NEW a \in 1 .. Len(rows[i].parts)
      PROVE  /\ rows[i].parts[a].from \in Nat /\ rows[i].parts[a].to \in Nat
             /\ rows[i].parts[a].from < rows[i].parts[a].to
             /\ rows[i].parts[1].from <= rows[i].parts[a].from
             /\ rows[i].parts[a].to <= rows[i].parts[Len(rows[i].parts)].to
  <2>1. PartsWithin(parts, w)
    BY HeardWithin DEF Runnable
  <2>2. \A x \in 1 .. Len(rows[i].parts) :
            /\ rows[i].parts[x].from \in Nat /\ rows[i].parts[x].to \in Nat
            /\ rows[i].parts[x].from < rows[i].parts[x].to
    <3>1. ASSUME NEW x \in 1 .. Len(rows[i].parts)
          PROVE  /\ rows[i].parts[x].from \in Nat /\ rows[i].parts[x].to \in Nat
                 /\ rows[i].parts[x].from < rows[i].parts[x].to
      <4>1. PICK b \in 1 .. Len(parts) : rows[i].parts[x] = parts[b]
        BY DEF RowsWell
      <4>2. parts[b] \in Span /\ parts[b].from < parts[b].to
        BY <2>1 DEF PartsWithin
      <4> QED BY <4>1, <4>2 DEF Span
    <3> QED BY <3>1
  <2> DEFINE p == rows[i].parts
             l == Len(p)
  <2>3. /\ l \in Nat \ {0} /\ a \in 1 .. l /\ 1 \in 1 .. l /\ l \in 1 .. l
        /\ \A x, y \in 1 .. l : x < y => p[x].to <= p[y].from
        /\ \A x \in 1 .. l : p[x].from \in Nat /\ p[x].to \in Nat /\ p[x].from < p[x].to
    BY <1>4, <2>2
  <2> HIDE DEF p, l
  <2>4. p[1].from <= p[a].from
    <3>1. CASE a = 1
      BY <3>1, <2>3
    <3>2. CASE a # 1
      BY <3>2, <2>3
    <3> QED BY <3>1, <3>2
  <2>5. p[a].to <= p[l].to
    <3>1. CASE a = l
      BY <3>1, <2>3
    <3>2. CASE a # l
      BY <3>2, <2>3
    <3> QED BY <3>1, <3>2
  <2> QED BY <2>3, <2>4, <2>5 DEF p, l
<1>6. \A i, j \in 1 .. n : i < j => rows[i].t1 <= rows[j].t0
  BY DEF RowsWell
<1>7. /\ \A i \in 1 .. m : s + rows[i].t1 <= c
      /\ m < n => s + rows[m + 1].t1 > c
  BY DEF SeenUpTo
<1>8. \A i \in 1 .. m : i \in 1 .. n
  BY <1>3
<1>9. u \in Nat /\ s <= u /\ u <= e /\ u <= c
  <2>1. CASE m = 0
    BY <2>1, <1>2
  <2>2. CASE m # 0
    <3>1. m \in 1 .. m /\ m \in 1 .. n
      BY <2>2, <1>3
    <3> QED BY <3>1, <2>2, <1>2, <1>4, <1>7
  <2> QED BY <2>1, <2>2
<1>10. \A i \in 1 .. m : rows[i].t1 + s <= u
  <2>1. ASSUME NEW i \in 1 .. m PROVE rows[i].t1 + s <= u
    <3>1. m \in 1 .. n /\ i \in 1 .. n /\ m # 0
      BY <1>3
    <3>2. u = s + rows[m].t1
      BY <3>1
    <3>3. i = m \/ i < m
      OBVIOUS
    <3>4. rows[i].t1 \in Nat /\ rows[m].t1 \in Nat /\ rows[m].t0 \in Nat /\ rows[m].t0 <= rows[m].t1
      BY <3>1, <1>4
    <3>5. i < m => rows[i].t1 <= rows[m].t0
      BY <3>1, <1>6
    <3> HIDE DEF u
    <3> QED BY <3>2, <3>3, <3>4, <3>5, <1>2
  <2> QED BY <2>1
<1>11. ASSUME NEW i \in 1 .. n, i > m, NEW a \in 1 .. Len(rows[i].parts)
       PROVE  u <= rows[i].parts[a].from /\ m < n /\ held <= rows[i].parts[a].from
  <2>1. m < n /\ m + 1 \in 1 .. n
    BY <1>3, <1>11
  <2>2. s + rows[i].t0 <= rows[i].parts[a].from
    BY <1>4, <1>5
  <2>3. rows[m + 1].t0 <= rows[i].t0
    <3>1. CASE i = m + 1
      BY <3>1, <1>4
    <3>2. CASE i # m + 1
      <4>1. rows[m + 1].t1 <= rows[i].t0
        BY <2>1, <3>2, <1>6, <1>11
      <4> QED BY <4>1, <2>1, <1>4
    <3> QED BY <3>1, <3>2
  <2>4. u <= s + rows[m + 1].t0
    <3>1. CASE m = 0
      BY <3>1, <2>1, <1>2, <1>4
    <3>2. CASE m # 0
      <4>1. m \in 1 .. n /\ rows[m].t1 <= rows[m + 1].t0
        BY <3>2, <2>1, <1>3, <1>6
      <4> QED BY <4>1, <3>2, <2>1, <1>2, <1>4
    <3> QED BY <3>1, <3>2
  <2>5. held = s + rows[m + 1].t0
    BY <2>1
  <2>6. rows[i].t0 \in Nat /\ rows[m + 1].t0 \in Nat /\ rows[i].parts[a].from \in Nat
    BY <2>1, <1>4, <1>5
  <2> DEFINE x == rows[i].t0
             y == rows[m + 1].t0
             z == rows[i].parts[a].from
  <2>7. x \in Nat /\ y \in Nat /\ z \in Nat /\ s + x <= z /\ y <= x /\ u <= s + y /\ held = s + y
    BY <2>2, <2>3, <2>4, <2>5, <2>6
  <2> HIDE DEF u, held, x, y, z
  <2>8. u <= z /\ held <= z
    BY <2>7, <1>2, <1>9
  <2> QED BY <2>1, <2>8 DEF z
\* What is certain to be heard has a place in a row.
<1>12. ASSUME NEW k \in Certain(w, drain)
       PROVE  \E i \in 1 .. n : \E a \in 1 .. Len(rows[i].parts) : rows[i].parts[a] = PartOf(k, w)
  <2>1. PICK b \in 1 .. Len(parts) : parts[b] = PartOf(k, w)
    BY DEF HeardWell
  <2>2. PICK i \in 1 .. n : \E a \in 1 .. Len(rows[i].parts) : rows[i].parts[a] = parts[b]
    BY DEF RowsWell
  <2> QED BY <2>1, <2>2
<1>13. Len(words) = m /\ words \in Seq(Row)
       /\ \A i \in 1 .. m : words[i] = Absolute(rows[i], w)
  <2>1. \A i \in 1 .. m : Absolute(rows[i], w) \in Row
    BY <1>2, <1>4, <1>8 DEF Absolute, Row
  <2> QED BY <2>1
<1>14. WordsWell(words, w, u)
  <2>1. ASSUME NEW i \in 1 .. m
        PROVE  /\ WordFits(words[i], stream.timed) /\ s <= words[i].t0 /\ words[i].t1 <= u
               /\ words[i].parts = rows[i].parts
               /\ words[i].t0 = s + rows[i].t0 /\ words[i].t1 = s + rows[i].t1
    <3>1. /\ words[i].parts = rows[i].parts
          /\ words[i].t0 = s + rows[i].t0 /\ words[i].t1 = s + rows[i].t1
      BY <1>13 DEF Absolute
    <3> HIDE DEF words, u
    <3>2. WordFits(words[i], stream.timed)
      <4>1. i \in 1 .. n
        BY <1>8
      <4>2. \A a \in 1 .. Len(words[i].parts) : words[i].parts[a].from < words[i].parts[a].to
        BY <3>1, <4>1, <1>5
      <4>3. words[i].t0 <= words[i].t1 /\ words[i].t0 <= words[i].parts[1].from
            /\ words[i].t0 = words[i].parts[1].from
        BY <3>1, <4>1, <1>2, <1>4
      <4> QED BY <3>1, <4>1, <4>2, <4>3, <1>4 DEF WordFits
    <3>3. s <= words[i].t0 /\ words[i].t1 <= u
      BY <3>1, <1>2, <1>4, <1>8, <1>10
    <3> QED BY <3>1, <3>2, <3>3
  <2>2. ASSUME NEW i \in 1 .. m, NEW j \in 1 .. m, i < j PROVE words[i].t1 <= words[j].t0
    <3>1. rows[i].t1 <= rows[j].t0 /\ rows[i].t1 \in Nat /\ rows[j].t0 \in Nat
      BY <2>2, <1>4, <1>6, <1>8
    <3>2. words[i].t1 = s + rows[i].t1 /\ words[j].t0 = s + rows[j].t0
      BY <2>1
    <3> HIDE DEF words, s
    <3> QED BY <3>1, <3>2, <1>2
  <2>3. ASSUME NEW i \in 1 .. m PROVE \E k \in Audible(w) : words[i].t0 = PartOf(k, w).from
    <3>1. i \in 1 .. n /\ 1 \in 1 .. Len(rows[i].parts)
      BY <1>4, <1>8
    <3>2. PICK b \in 1 .. Len(parts) : rows[i].parts[1] = parts[b]
      BY <3>1 DEF RowsWell
    <3>3. PICK k \in Audible(w) : parts[b] = PartOf(k, w)
      BY DEF HeardWell
    <3> QED BY <3>1, <3>2, <3>3, <2>1, <1>4
  <2> HIDE DEF words, u
  <2> QED BY <2>1, <2>2, <2>3, <1>13 DEF WordsWell
<1>15. ASSUME NEW k \in DOMAIN stream.script, NEW ms \in Nat, Says(stream.script, k, ms), s <= ms,
              ms < IF drain THEN e ELSE u
       PROVE  Voiced(words, ms)
  <2>1. stream.script[k][1] \in Nat /\ stream.script[k][2] \in Nat
        /\ stream.script[k][1] <= ms /\ ms < stream.script[k][2] /\ ms < e /\ ms < c
    BY <1>15, <1>2, <1>9, ScriptType DEF Says, Runnable
  <2>2. k \in Certain(w, drain) /\ k \in Audible(w)
    <3>1. k \in Audible(w)
      BY <2>1, <1>2, <1>15 DEF Audible
    <3>2. drain \/ stream.script[k][1] < End(w) - LiveEdgeMs
      BY <2>1, <1>2, CutoffWithin
    <3> QED BY <3>1, <3>2 DEF Certain
  <2>3. PartOf(k, w).from <= ms /\ ms < PartOf(k, w).to
    <3>1. /\ PartOf(k, w).from = IF stream.script[k][1] >= w.start THEN stream.script[k][1] ELSE w.start
          /\ PartOf(k, w).to = IF stream.script[k][2] <= w.start + w.length
                               THEN stream.script[k][2] ELSE w.start + w.length
      BY <2>2, PartWithin DEF Runnable
    <3> QED BY <3>1, <2>1, <1>2, <1>15, CutoffWithin
  <2>4. PICK i \in 1 .. n : \E a \in 1 .. Len(rows[i].parts) : rows[i].parts[a] = PartOf(k, w)
    BY <2>2, <1>12
  <2>5. PICK a \in 1 .. Len(rows[i].parts) : rows[i].parts[a] = PartOf(k, w)
    BY <2>4
  <2>6. i <= m
    <3>1. SUFFICES ASSUME i > m PROVE FALSE
      BY <1>3
    <3>2. u <= PartOf(k, w).from /\ m < n /\ PartOf(k, w).from \in Nat
      BY <3>1, <2>5, <1>5, <1>11
    <3>3. CASE ~drain
      BY <3>2, <3>3, <2>3, <1>9, <1>15
    <3>4. CASE drain
      <4>1. m + 1 \in 1 .. n /\ s + rows[m + 1].t1 > c
        BY <3>2, <1>3, <1>7
      <4> DEFINE t1 == rows[m + 1].t1
      <4>2. s + t1 > c /\ s + t1 <= e /\ t1 \in Nat
        BY <4>1, <1>4
      <4> HIDE DEF t1, c, e
      <4> QED BY <4>2, <3>4, <1>2
    <3> QED BY <3>3, <3>4
  <2>7. i \in 1 .. m
    BY <2>6, <1>3
  <2>8. words[i].parts = rows[i].parts
    BY <2>7, <1>13 DEF Absolute
  <2> HIDE DEF words
  <2> QED BY <2>3, <2>5, <2>7, <2>8, <1>13 DEF Voiced
<1>16. /\ limit = IF c <= held THEN c ELSE held
       /\ held \in Nat
       /\ f = IF drain \/ w.frontier >= limit THEN w.frontier ELSE limit
  <2>1. held \in Nat
    <3>1. CASE m < n
      BY <3>1, <1>2, <1>3, <1>4
    <3>2. CASE ~(m < n)
      BY <3>2, <1>2
    <3> QED BY <3>1, <3>2
  <2>2. limit = IF c <= held THEN c ELSE held
    <3> HIDE DEF c, held
    <3> QED BY <2>1, <1>2, MinTwo DEF Limit
  <2> HIDE DEF held
  <2>3. limit \in Nat
    BY <2>1, <2>2, <1>2
  <2> HIDE DEF limit
  <2>4. f = IF drain \/ w.frontier >= limit THEN w.frontier ELSE limit
    BY <2>3, <1>2, MaxTwo DEF Advanced
  <2> QED BY <2>1, <2>2, <2>4 DEF limit
<1> HIDE DEF limit, f
<1>17. f \in Nat /\ (f <= w.frontier \/ f <= e) /\ (drain => f = w.frontier)
       /\ f \in {w.frontier, limit} /\ (~drain /\ f # w.frontier => limit <= c /\ limit <= held)
       /\ limit \in Nat /\ limit <= c /\ limit <= held
  <2> HIDE DEF c, held, e
  <2> QED BY <1>2, <1>16
<1>18. ASSUME NEW k \in DOMAIN stream.script, stream.script[k][2] > u
       PROVE  f <= w.frontier \/ f <= stream.script[k][1] \/ f <= u
  <2> DEFINE from == stream.script[k][1]
             to == stream.script[k][2]
  <2>1. from \in Nat /\ to \in Nat /\ to > u
    BY <1>18, ScriptType DEF Runnable
  <2>2. SUFFICES ASSUME ~drain PROVE limit <= from \/ limit <= u
    BY <1>17, <1>2
  <2>3. CASE k \notin Audible(w)
    <3>1. from >= e
      BY <2>1, <2>3, <1>2, <1>9 DEF Audible
    <3> HIDE DEF c, held, u, e, from
    <3> QED BY <3>1, <2>1, <2>2, <1>2, <1>17
  <2>4. CASE k \in Audible(w) /\ k \notin Certain(w, drain)
    <3>1. from >= c
      BY <2>1, <2>2, <2>4, CutoffWithin DEF Certain
    <3> HIDE DEF c, held, u, e, from
    <3> QED BY <3>1, <2>1, <2>2, <1>2, <1>17
  <2>5. CASE k \in Certain(w, drain)
    <3>1. PICK i \in 1 .. n : \E a \in 1 .. Len(rows[i].parts) : rows[i].parts[a] = PartOf(k, w)
      BY <2>5, <1>12
    <3>2. PICK a \in 1 .. Len(rows[i].parts) : rows[i].parts[a] = PartOf(k, w)
      BY <3>1
    <3>3. /\ PartOf(k, w).from = IF from >= s THEN from ELSE s
          /\ PartOf(k, w).to = IF to <= e THEN to ELSE e
      <4>1. k \in Audible(w)
        BY <2>5 DEF Certain
      <4>2. /\ PartOf(k, w).from = IF from >= s THEN from ELSE s
            /\ PartOf(k, w).to = IF to <= s + w.length THEN to ELSE s + w.length
        BY <4>1, PartWithin DEF Runnable
      <4> QED BY <4>2, CutoffWithin
    <3>4. CASE i > m
      <4>1. held <= PartOf(k, w).from
        BY <3>2, <3>4, <1>11
      <4> HIDE DEF c, held, u, e, from, s, to
      <4> QED BY <4>1, <3>3, <2>1, <1>2, <1>9, <1>16, <1>17
    <3>5. CASE ~ (i > m)
      <4>1. i \in 1 .. m
        BY <3>5, <1>3
      <4>2. PartOf(k, w).to <= s + rows[i].t1 /\ s + rows[i].t1 <= u /\ PartOf(k, w).to \in Nat
            /\ rows[i].t1 \in Nat
        <5>1. rows[i].parts[a].to <= rows[i].parts[Len(rows[i].parts)].to
              /\ rows[i].parts[a].to \in Nat
          BY <3>2, <1>5
        <5>2. Len(rows[i].parts) \in 1 .. Len(rows[i].parts)
          BY <1>4
        <5>3. rows[i].parts[Len(rows[i].parts)].to \in Nat
          BY <5>2, <1>5
        <5>4. s + rows[i].t1 <= u
          BY <4>1, <1>2, <1>4, <1>10
        <5> DEFINE p == rows[i].parts[a].to
                   l == rows[i].parts[Len(rows[i].parts)].to
                   t1 == rows[i].t1
        <5>5. p \in Nat /\ l \in Nat /\ t1 \in Nat /\ p <= l /\ l <= s + t1
          BY <5>1, <5>3, <4>1, <1>4, <1>8
        <5> HIDE DEF p, l, t1, u
        <5>6. p <= s + t1
          BY <5>5, <1>2
        <5> QED BY <5>4, <5>5, <5>6, <3>2 DEF p, t1
      <4> HIDE DEF c, held, u, e, from, s, to
      <4>3. PartOf(k, w).to = e /\ e <= u
        BY <4>2, <3>3, <2>1, <1>2, <1>9
      <4> QED BY <4>3, <2>2, <1>2, <1>9, <1>17
    <3> QED BY <3>4, <3>5
  <2>6. Certain(w, drain) \subseteq Audible(w)
    BY DEF Certain
  <2> QED BY <2>3, <2>4, <2>5, <2>6
<1>19. Publishes(w, drain, words, u, f)
  <2> HIDE DEF words, u
  <2> QED BY <1>9, <1>14, <1>15, <1>17, <1>18 DEF Publishes
<1>20. Advanced(w, drain, Limit(Cutoff(w, drain), seen.withheld)) = f
  BY <1>1 DEF f, limit
<1> QED BY <1>1, <1>19, <1>20

\* The text of a model that aligns nothing is published as one row at the end.
LEMMA TextPublishes ==
    ASSUME NEW w, Runnable(w, TRUE), ~stream.timed,
           NEW parts, HeardWell(parts, w, TRUE), parts # <<>>
    PROVE  Publishes(w, TRUE, <<[parts |-> parts, t0 |-> w.start, t1 |-> End(w)]>>, End(w), w.frontier)
<1> DEFINE word == [parts |-> parts, t0 |-> w.start, t1 |-> End(w)]
           words == <<word>>
           n == Len(parts)
<1>1. w.start \in Nat /\ w.frontier \in Nat /\ End(w) \in Nat /\ w.start < End(w)
      /\ End(w) = w.start + w.length
  BY CutoffWithin
<1>2. PartsWithin(parts, w)
  BY HeardWithin DEF Runnable
<1>3. n \in Nat \ {0} /\ 1 \in 1 .. n /\ n \in 1 .. n
  BY <1>2 DEF PartsWithin
<1>4. /\ w.start <= parts[1].from /\ parts[n].to <= End(w)
      /\ \A a \in 1 .. n : parts[a].from < parts[a].to
      /\ \A a, b \in 1 .. n : a < b => parts[a].to <= parts[b].from
  BY <1>1, <1>2, <1>3 DEF PartsWithin
<1>5. word \in Row /\ words \in Seq(Row) /\ Len(words) = 1 /\ words[1] = word
  <2>1. word \in Row
    BY <1>1, <1>2 DEF Row, PartsWithin
  <2> QED BY <2>1
<1>6. WordFits(word, stream.timed)
  BY <1>1, <1>4 DEF WordFits
<1>7. WordsWell(words, w, End(w))
  <2>1. word.t0 = w.start /\ word.t1 = End(w)
    OBVIOUS
  <2> HIDE DEF words, word
  <2> QED BY <1>1, <1>5, <1>6, <2>1 DEF WordsWell
<1>8. ASSUME NEW k \in DOMAIN stream.script, NEW ms \in Nat, Says(stream.script, k, ms), w.start <= ms, ms < End(w)
      PROVE  Voiced(words, ms)
  <2>1. stream.script[k][1] \in Nat /\ stream.script[k][2] \in Nat
        /\ stream.script[k][1] <= ms /\ ms < stream.script[k][2]
    BY <1>8, ScriptType DEF Says, Runnable
  <2>2. k \in Certain(w, TRUE) /\ k \in Audible(w)
    BY <2>1, <1>1, <1>8 DEF Audible, Certain
  <2>3. PICK a \in 1 .. n : parts[a] = PartOf(k, w)
    BY <2>2 DEF HeardWell
  <2>4. PartOf(k, w).from <= ms /\ ms < PartOf(k, w).to
    <3>1. /\ PartOf(k, w).from = IF stream.script[k][1] >= w.start THEN stream.script[k][1] ELSE w.start
          /\ PartOf(k, w).to = IF stream.script[k][2] <= w.start + w.length
                               THEN stream.script[k][2] ELSE w.start + w.length
      BY <2>2, PartWithin DEF Runnable
    <3> QED BY <3>1, <2>1, <1>1, <1>8
  <2>5. words[1].parts = parts
    OBVIOUS
  <2> HIDE DEF words, word
  <2> QED BY <2>3, <2>4, <2>5, <1>5 DEF Voiced
<1> HIDE DEF words, word
<1>9. Publishes(w, TRUE, words, End(w), w.frontier)
  BY <1>1, <1>7, <1>8 DEF Publishes
<1> QED BY <1>9 DEF words, word

\* The row that stands for silence.
Silent(w) == [parts |-> <<>>, t0 |-> 0, t1 |-> w.length]

LEMMA TranscriptCases ==
    ASSUME NEW w, NEW drain \in BOOLEAN, Runnable(w, drain),
           NEW transcript \in Transcripts(w, drain)
    PROVE  \E parts :
               /\ HeardWell(parts, w, drain)
               /\ \/ /\ parts = <<>> /\ transcript.text = <<>>
                     /\ transcript.rows \in {<<>>, <<Silent(w)>>}
                  \/ /\ parts # <<>> /\ ~stream.timed
                     /\ transcript.text = parts /\ transcript.rows = <<>>
                  \/ /\ parts # <<>> /\ stream.timed
                     /\ RowsWell(transcript.rows, parts, w) /\ transcript.rows # <<>>
<1> DEFINE Of(parts) ==
             IF parts = <<>>
             THEN {[text |-> <<>>, rows |-> rows] :
                       rows \in IF stream.timed THEN {<<>>, <<Silent(w)>>} ELSE {<<>>}}
             ELSE IF ~stream.timed THEN {[text |-> parts, rows |-> <<>>]}
             ELSE {[text |-> parts, rows |-> Rows(parts, cuts, lasting, w)] :
                       cuts \in SUBSET (1 .. Len(parts) - 1), lasting \in BOOLEAN}
<1>1. PICK parts \in Heard(w, drain) : transcript \in Of(parts)
  BY DEF Transcripts, Silent
<1>2. HeardWell(parts, w, drain)
  BY HeardIsSpeech DEF Runnable
<1>3. CASE parts = <<>>
  <2>1. PICK rows \in IF stream.timed THEN {<<>>, <<Silent(w)>>} ELSE {<<>>} :
            transcript = [text |-> <<>>, rows |-> rows]
    BY <1>1, <1>3
  <2>2. transcript.text = <<>> /\ transcript.rows = rows /\ rows \in {<<>>, <<Silent(w)>>}
    BY <2>1
  <2> QED BY <2>2, <1>2, <1>3
<1>4. CASE parts # <<>> /\ ~stream.timed
  BY <1>1, <1>2, <1>4
<1>5. CASE parts # <<>> /\ stream.timed
  <2>1. PICK cuts \in SUBSET (1 .. Len(parts) - 1), lasting \in BOOLEAN :
            transcript = [text |-> parts, rows |-> Rows(parts, cuts, lasting, w)]
    BY <1>1, <1>5
  <2>2. PartsWithin(parts, w) /\ w \in Windows
    BY <1>2, HeardWithin DEF Runnable
  <2>3. RowsWell(Rows(parts, cuts, lasting, w), parts, w) /\ Rows(parts, cuts, lasting, w) # <<>>
    BY <1>5, <2>2, RowsAreWell
  <2>4. transcript.rows = Rows(parts, cuts, lasting, w)
    BY <2>1
  <2> QED BY <1>2, <1>5, <2>3, <2>4
<1> QED BY <1>3, <1>4, <1>5

\* Of a row without text a run takes no notice.
LEMMA SilentRow ==
    ASSUME NEW w, NEW cutoff
    PROVE  Considered(w, <<Silent(w)>>, cutoff) = [upTo |-> w.upTo, words |-> <<>>, withheld |-> Never]
<1> DEFINE rows == <<Silent(w)>>
           f == CHOOSE f : Considers(f, w, rows, cutoff, Len(rows))
<1>1. Len(rows) = 1 /\ rows[1].parts = <<>> /\ rows[1] = Silent(w)
  BY DEF Silent
<1>2. Considers(f, w, rows, cutoff, Len(rows))
  <2>1. Len(rows) \in Nat
    BY <1>1
  <2> HIDE DEF rows
  <2> QED BY <2>1, ConsidersExist
<1>3. Considered(w, rows, cutoff) = f[Len(rows)]
  BY DEF Considered, Considers
<1> HIDE DEF f, rows
<1>4. f[0] = [upTo |-> w.upTo, words |-> <<>>, withheld |-> Never]
  BY <1>1, <1>2 DEF Considers
<1>5. f[1] = Consider(f[0], rows[1], w, cutoff)
  <2>1. 1 \in 0 .. Len(rows) /\ 1 # 0 /\ 1 - 1 = 0
    BY <1>1
  <2> QED BY <2>1, <1>2 DEF Considers
<1>6. f[1] = f[0]
  BY <1>1, <1>5 DEF Consider
<1> QED BY <1>1, <1>3, <1>4, <1>6 DEF rows

\* The window with its text published up to u, and closed up to g.
Moved(w, u, g) == [w EXCEPT !.upTo = u, !.frontier = g]

LEMMA MovedFields ==
    ASSUME NEW w \in Windows, NEW u, NEW g
    PROVE  /\ Moved(w, u, g).upTo = u /\ Moved(w, u, g).frontier = g
           /\ Moved(w, u, g).start = w.start /\ Moved(w, u, g).length = w.length
           /\ Moved(w, u, g).pending = w.pending
           /\ u \in Nat /\ g \in Nat => Moved(w, u, g) \in Windows
BY DEF Moved, Windows

\* What a harvest publishes, and the window it leaves.
LEMMA HarvestPublishes ==
    ASSUME NEW w, NEW drain \in BOOLEAN, Runnable(w, drain),
           NEW transcript \in Transcripts(w, drain)
    PROVE  LET found == Harvest(w, transcript, drain)
           IN  /\ Publishes(w, drain, found.words, found.window.upTo, found.window.frontier)
               /\ found.window = Moved(w, found.window.upTo, found.window.frontier)
<1> DEFINE rows == transcript.rows
           found == Harvest(w, transcript, drain)
           c == Cutoff(w, drain)
           f(to) == Advanced(w, drain, to)
           seen == Considered(w, rows, c)
           t0 == Max({w.upTo, w.start})
           t1 == Max({End(w), t0})
<1>1. /\ w.start \in Nat /\ w.frontier \in Nat /\ End(w) \in Nat /\ w.start < End(w)
      /\ c \in Nat /\ w.start < c /\ (~drain => c <= End(w)) /\ (drain => c > End(w))
      /\ End(w) < Never /\ Never \in Nat
      /\ w \in Windows /\ w.upTo = w.start /\ End(w) <= MaxEnd
  BY CutoffWithin DEF Runnable
<1>2. found = IF rows # <<>>
              THEN [words |-> seen.words,
                    window |-> Moved(w, seen.upTo, f(Limit(c, seen.withheld)))]
              ELSE IF transcript.text = <<>>
              THEN [words |-> <<>>,
                    window |-> Moved(w, IF drain THEN w.upTo ELSE Max({w.upTo, c}), f(c))]
              ELSE IF ~drain THEN [words |-> <<>>, window |-> w]
              ELSE [words |-> <<[parts |-> transcript.text, t0 |-> t0, t1 |-> t1]>>,
                    window |-> [w EXCEPT !.upTo = t1]]
  BY DEF Harvest, Cutoff, Advanced, Moved
<1>3. w = [start |-> w.start, length |-> w.length, upTo |-> w.upTo,
           frontier |-> w.frontier, pending |-> w.pending]
  BY <1>1 DEF Windows
<1>5. PICK parts :
         /\ HeardWell(parts, w, drain)
         /\ \/ /\ parts = <<>> /\ transcript.text = <<>>
               /\ rows \in {<<>>, <<Silent(w)>>}
            \/ /\ parts # <<>> /\ ~stream.timed
               /\ transcript.text = parts /\ rows = <<>>
            \/ /\ parts # <<>> /\ stream.timed
               /\ RowsWell(rows, parts, w) /\ rows # <<>>
  BY TranscriptCases
<1>6. SUFFICES \E words, u, g : /\ Publishes(w, drain, words, u, g)
                                       /\ found = [words |-> words,
                                                   window |-> Moved(w, u, g)]
  <2>1. ASSUME NEW words, NEW u, NEW g, Publishes(w, drain, words, u, g),
               found = [words |-> words, window |-> Moved(w, u, g)]
        PROVE  /\ Publishes(w, drain, found.words, found.window.upTo, found.window.frontier)
               /\ found.window = Moved(w, found.window.upTo, found.window.frontier)
    <3> HIDE DEF found
    <3>1. found.words = words /\ found.window = Moved(w, u, g)
      BY <2>1
    <3>2. found.window.upTo = u /\ found.window.frontier = g
      BY <3>1, <1>1, MovedFields
    <3> QED BY <2>1, <3>1, <3>2
  <2> HIDE DEF found
  <2>2. PICK words, u, g : /\ Publishes(w, drain, words, u, g)
                           /\ found = [words |-> words,
                                       window |-> Moved(w, u, g)]
    BY <1>6
  <2> QED BY <2>1, <2>2 DEF found
<1> HIDE DEF found, c, f, rows
<1>7. CASE parts = <<>> /\ transcript.text = <<>> /\ rows = <<>>
  <2> DEFINE u == IF drain THEN w.start ELSE c
  <2>1. Max({w.upTo, c}) = c
    BY <1>1, MaxTwo
  <2>2. found = [words |-> <<>>, window |-> Moved(w, u, f(c))]
    BY <1>1, <1>2, <1>3, <1>7, <2>1
  <2>3. u \in Nat /\ w.start <= u /\ u <= IF drain THEN w.start ELSE Cutoff(w, drain)
    BY <1>1 DEF c
  <2> HIDE DEF u
  <2>4. Publishes(w, drain, <<>>, u, f(c))
    BY <1>5, <1>7, <2>3, SilencePublishes DEF f, c
  <2> QED BY <2>2, <2>4
<1>8. CASE parts = <<>> /\ rows = <<Silent(w)>>
  <2>1. seen.upTo = w.start /\ seen.words = <<>> /\ seen.withheld = Never
    <3>1. Considered(w, <<Silent(w)>>, c) = [upTo |-> w.upTo, words |-> <<>>, withheld |-> Never]
      BY SilentRow
    <3>2. Considered(w, rows, c) = Considered(w, <<Silent(w)>>, c)
      BY <1>8
    <3> QED BY <3>1, <3>2, <1>1
  <2>0. rows # <<>>
    BY <1>8
  <2>2. Limit(c, Never) = c
    <3>1. c <= Never \/ drain
      BY <1>1
    <3> QED BY <3>1, <1>1, MinTwo DEF Limit, c, Cutoff
  <2>3. found = [words |-> <<>>, window |-> Moved(w, w.start, f(c))]
    <3> HIDE DEF seen
    <3> QED BY <1>2, <2>0, <2>1, <2>2 DEF seen
  <2>4. w.start \in Nat /\ w.start <= w.start /\ w.start <= IF drain THEN w.start ELSE Cutoff(w, drain)
    BY <1>1 DEF c
  <2>5. Publishes(w, drain, <<>>, w.start, f(c))
    BY <1>5, <1>8, <2>4, SilencePublishes DEF f, c
  <2> QED BY <2>3, <2>5
<1>9. CASE parts # <<>> /\ ~stream.timed /\ transcript.text = parts /\ rows = <<>> /\ ~drain
  <2>1. found = [words |-> <<>>, window |-> Moved(w, w.start, w.frontier)]
    <3>1. w = Moved(w, w.start, w.frontier)
      BY <1>1 DEF Moved, Windows
    <3> QED BY <3>1, <1>2, <1>9
  <2>2. Publishes(w, drain, <<>>, w.start, w.frontier)
    BY <1>1, <1>9 DEF Publishes, WordsWell
  <2> QED BY <2>1, <2>2
<1>10. CASE parts # <<>> /\ ~stream.timed /\ transcript.text = parts /\ rows = <<>> /\ drain
  <2>1. t0 = w.start /\ t1 = End(w)
    BY <1>1, MaxTwo
  <2>2. found = [words |-> <<[parts |-> parts, t0 |-> w.start, t1 |-> End(w)]>>,
                 window |-> Moved(w, End(w), w.frontier)]
    <3>1. [w EXCEPT !.upTo = t1] = Moved(w, t1, w.frontier)
      BY <1>1 DEF Moved, Windows
    <3>2. transcript.text # <<>> /\ transcript.text = parts
      BY <1>10
    <3> HIDE DEF t0, t1
    <3>3. found = [words |-> <<[parts |-> parts, t0 |-> t0, t1 |-> t1]>>,
                   window |-> Moved(w, t1, w.frontier)]
      BY <3>1, <3>2, <1>2, <1>10
    <3> QED BY <3>3, <2>1
  <2>3. Publishes(w, drain, <<[parts |-> parts, t0 |-> w.start, t1 |-> End(w)]>>, End(w), w.frontier)
    BY <1>5, <1>10, TextPublishes
  <2> QED BY <2>2, <2>3
<1>11. CASE parts # <<>> /\ stream.timed /\ RowsWell(rows, parts, w) /\ rows # <<>>
  <2>1. RowsFit(rows, w)
    BY <1>11 DEF RowsWell, RowsFit
  <2>2. PICK m \in 0 .. Len(rows) :
            SeenUpTo(seen, w, rows, c, Len(rows), m)
    BY <2>1, <1>1, ConsideredRows
  <2> HIDE DEF seen
  <2>3. found = [words |-> seen.words,
                 window |-> Moved(w, seen.upTo, f(Limit(c, seen.withheld)))]
    BY <1>2, <1>11 DEF seen
  <2>4. Publishes(w, drain, seen.words, seen.upTo, f(Limit(c, seen.withheld)))
    BY <1>5, <1>11, <2>2, RowsPublish DEF f, c
  <2> QED BY <2>3, <2>4
<1> QED BY <1>5, <1>7, <1>8, <1>9, <1>10, <1>11

-----------------------------------------------------------------------------
\* The window after a run, and what has been published.

LEMMA TrimEffect ==
    ASSUME NEW w \in Windows, w.start <= w.upTo, w.upTo <= End(w)
    PROVE  /\ Trim(w) \in Windows /\ Trim(w).upTo = Trim(w).start
           /\ w.upTo <= Trim(w).start /\ Trim(w).start <= End(w)
           /\ End(Trim(w)) = End(w)
           /\ Trim(w).pending = w.pending /\ Trim(w).frontier = w.frontier
           /\ Forced(w) \in Nat /\ (Forced(w) = 0 => Trim(w).start = w.upTo)
<1> DEFINE s == w.start
           l == w.length
           u == w.upTo
           p == u - s
           g == Forced(w)
           drop == Min({p + g, l})
<1>1. s \in Nat /\ l \in Nat /\ u \in Nat /\ s <= u /\ u <= s + l /\ MaxMs \in Nat
      /\ w.frontier \in Nat /\ w.pending \in Nat
  BY WindowAssumption DEF Windows, End
<1>2. Published(w) = p
  <2>1. u - s \in Int /\ u - s >= 0
    BY <1>1
  <2> QED BY <2>1, MaxTwo DEF Published
<1>3. g \in Nat
  <2>1. (l - p) - MaxMs \in Int
    BY <1>1
  <2>2. g = Max({(l - p) - MaxMs, 0})
    BY <1>2 DEF Forced
  <2> HIDE DEF p, l, g
  <2> QED BY <2>1, <2>2, MaxTwo
<1> HIDE DEF g
<1>4. drop = IF p + g <= l THEN p + g ELSE l
  <2>1. p + g \in Int /\ l \in Int
    BY <1>1, <1>3
  <2> HIDE DEF p, l
  <2> QED BY <2>1, MinTwo
<1>5. p <= drop /\ drop <= l /\ drop \in Nat /\ p \in Nat /\ (g = 0 => drop = p)
  BY <1>1, <1>3, <1>4
<1> DEFINE cut == s + drop
<1>6. u <= cut /\ cut <= s + l /\ cut \in Nat /\ (g = 0 => cut = u) /\ l - drop \in Nat
      /\ cut + (l - drop) = s + l /\ (drop = 0 => cut = s /\ u = s)
  <2>1. s \in Nat /\ l \in Nat /\ u \in Nat /\ p = u - s
    BY <1>1
  <2> HIDE DEF drop, l, s, u, p
  <2>2. drop \in Nat /\ p \in Nat /\ p <= drop /\ drop <= l /\ (g = 0 => drop = p)
    BY <1>5
  <2>3. l - drop \in Nat /\ s + p = u
    BY <2>1, <2>2
  <2> QED BY <2>1, <2>2, <2>3
<1>7. Trim(w) = IF drop = 0 THEN w
                ELSE [w EXCEPT !.length = @ - drop, !.start = @ + drop, !.upTo = Max({@, cut})]
  BY <1>2 DEF Trim, g
<1>8. Max({u, cut}) = cut
  <2> HIDE DEF u, cut
  <2> QED BY <1>1, <1>6, MaxTwo DEF u
<1> HIDE DEF drop, p
<1>9. CASE drop = 0
  BY <1>1, <1>3, <1>6, <1>7, <1>9 DEF g, End
<1>10. CASE drop # 0
  <2>1. Trim(w) = [start |-> cut, length |-> l - drop, upTo |-> cut, frontier |-> w.frontier,
                   pending |-> w.pending]
    BY <1>7, <1>8, <1>10 DEF Windows
  <2> HIDE DEF cut, u, l
  <2>2. Trim(w) \in Windows /\ Trim(w).upTo = Trim(w).start /\ Trim(w).start = cut
        /\ Trim(w).length = l - drop
        /\ Trim(w).pending = w.pending /\ Trim(w).frontier = w.frontier
    BY <2>1, <1>1, <1>6 DEF Windows
  <2> QED BY <2>2, <1>3, <1>6 DEF End, g, l, u
<1> QED BY <1>9, <1>10

\* The words published so far, of which all end in front of f.
OutWell(words, timed, f) ==
    /\ words \in Seq(Row)
    /\ \A i \in 1 .. Len(words) : WordFits(words[i], timed) /\ words[i].t1 <= f
    /\ \A i, j \in 1 .. Len(words) : i < j => words[i].t1 <= words[j].t0

\* New words from f on come behind those in front of it.
LEMMA OutGrows ==
    ASSUME NEW words, NEW more, NEW timed, NEW f \in Nat, NEW g \in Nat, f <= g,
           OutWell(words, timed, f), OutWell(more, timed, g),
           \A i \in 1 .. Len(more) : f <= more[i].t0
    PROVE  /\ OutWell(words \o more, timed, g)
           /\ Len(words \o more) = Len(words) + Len(more)
           /\ \A i \in 1 .. Len(words \o more) :
                  \/ i \in 1 .. Len(words) /\ (words \o more)[i] = words[i]
                  \/ /\ i - Len(words) \in 1 .. Len(more) /\ i > Len(words)
                     /\ (words \o more)[i] = more[i - Len(words)]
           /\ \A ms : Voiced(words, ms) \/ Voiced(more, ms) => Voiced(words \o more, ms)
<1> DEFINE n == Len(words)
           all == words \o more
<1>1. words \in Seq(Row) /\ more \in Seq(Row) /\ n \in Nat /\ Len(more) \in Nat
  BY DEF OutWell
<1>2. /\ all \in Seq(Row) /\ Len(all) = n + Len(more)
      /\ \A i \in 1 .. n + Len(more) : all[i] = IF i <= n THEN words[i] ELSE more[i - n]
  BY <1>1, ConcatProperties
<1> HIDE DEF all
<1>3. \A i \in 1 .. Len(all) :
          \/ i \in 1 .. n /\ all[i] = words[i]
          \/ i - n \in 1 .. Len(more) /\ i > n /\ all[i] = more[i - n]
  BY <1>1, <1>2
<1>4. /\ \A i \in 1 .. n : i \in 1 .. Len(all) /\ all[i] = words[i]
      /\ \A i \in 1 .. Len(more) : i + n \in 1 .. Len(all) /\ all[i + n] = more[i]
  <2>1. \A i \in 1 .. n : i \in 1 .. Len(all) /\ all[i] = words[i]
    BY <1>1, <1>2
  <2>2. ASSUME NEW i \in 1 .. Len(more) PROVE i + n \in 1 .. Len(all) /\ all[i + n] = more[i]
    <3>1. i + n \in 1 .. n + Len(more) /\ ~(i + n <= n) /\ (i + n) - n = i
      BY <1>1
    <3> QED BY <3>1, <1>2
  <2> QED BY <2>1, <2>2
<1>5. \A i \in 1 .. n : words[i].t1 \in Nat /\ words[i].t1 <= f
  <2>1. \A i \in 1 .. n : words[i] \in Row
    BY <1>1
  <2> QED BY <2>1 DEF OutWell, Row
<1>6. \A i \in 1 .. Len(more) : more[i].t0 \in Nat /\ f <= more[i].t0
  <2>1. \A i \in 1 .. Len(more) : more[i] \in Row
    BY <1>1
  <2> QED BY <2>1 DEF Row
<1>7. ASSUME NEW i \in 1 .. Len(all) PROVE WordFits(all[i], timed) /\ all[i].t1 <= g
  <2>1. CASE i \in 1 .. n /\ all[i] = words[i]
    <3>1. WordFits(words[i], timed) /\ words[i].t1 <= f /\ words[i].t1 \in Nat
      BY <2>1, <1>5 DEF OutWell
    <3> QED BY <2>1, <3>1
  <2>2. CASE i - n \in 1 .. Len(more) /\ all[i] = more[i - n]
    <3> DEFINE x == i - n
    <3>1. x \in 1 .. Len(more) /\ all[i] = more[x]
      BY <2>2
    <3> HIDE DEF x
    <3> QED BY <3>1 DEF OutWell
  <2> QED BY <2>1, <2>2, <1>3
<1>8. ASSUME NEW i \in 1 .. Len(all), NEW j \in 1 .. Len(all), i < j PROVE all[i].t1 <= all[j].t0
  <2> DEFINE x == i - n
             y == j - n
  <2>1. CASE i \in 1 .. n /\ all[i] = words[i] /\ j \in 1 .. n /\ all[j] = words[j]
    BY <2>1, <1>8 DEF OutWell
  <2>2. CASE i \in 1 .. n /\ all[i] = words[i] /\ y \in 1 .. Len(more) /\ all[j] = more[y]
    <3>1. words[i].t1 \in Nat /\ words[i].t1 <= f
      BY <2>2, <1>5
    <3>2. more[y].t0 \in Nat /\ f <= more[y].t0
      <4> HIDE DEF y
      <4> QED BY <2>2, <1>6
    <3> HIDE DEF y
    <3> QED BY <2>2, <3>1, <3>2
  <2>3. CASE x \in 1 .. Len(more) /\ all[i] = more[x] /\ y \in 1 .. Len(more) /\ all[j] = more[y]
    <3>1. x < y
      BY <1>1, <1>8
    <3> HIDE DEF x, y
    <3> QED BY <2>3, <3>1 DEF OutWell
  <2>4. i > n => j > n
    BY <1>1, <1>8
  <2> QED BY <2>1, <2>2, <2>3, <2>4, <1>1, <1>3
<1>9. OutWell(all, timed, g)
  BY <1>2, <1>7, <1>8 DEF OutWell
<1>10. ASSUME NEW ms, Voiced(words, ms) PROVE Voiced(all, ms)
  BY <1>4, <1>10 DEF Voiced
<1>11. ASSUME NEW ms, Voiced(more, ms) PROVE Voiced(all, ms)
  <2>1. PICK i \in 1 .. Len(more) : \E a \in 1 .. Len(more[i].parts) :
            more[i].parts[a].from <= ms /\ ms < more[i].parts[a].to
    BY <1>11 DEF Voiced
  <2>2. i + n \in 1 .. Len(all) /\ all[i + n] = more[i]
    BY <1>4
  <2> QED BY <2>1, <2>2 DEF Voiced
<1> QED BY <1>2, <1>3, <1>9, <1>10, <1>11 DEF all

-----------------------------------------------------------------------------
\* The inductive invariant.

\* Between commands the window starts where the published text ends.
WindowInv ==
    /\ window \in Windows /\ window.upTo = window.start
    /\ End(window) <= MaxEnd /\ window.pending <= window.length /\ window.pending < ChunkMs
    /\ window.frontier <= MaxEnd
    /\ reported \in 0 .. MaxEnd /\ waived \in 0 .. window.start /\ streams \in 1 .. MaxStreams
    /\ streams = 1 => window.frontier <= reported /\ reported <= End(window)

OutInv == OutWell(out, stream.timed, window.start)

\* What was said in front of the window is published, or was given up.
CoveredInv ==
    \A k \in DOMAIN stream.script : \A ms \in Nat :
        Says(stream.script, k, ms) /\ waived <= ms /\ ms < window.start => Voiced(out, ms)

\* What is left of a word to publish begins behind the Progress sent.
BehindInv ==
    streams = 1 /\ stream.timed =>
        \A k \in DOMAIN stream.script :
            stream.script[k][2] > window.start =>
                stream.script[k][1] >= reported \/ window.start >= reported

IInv == stream \in Streams /\ WindowInv /\ OutInv /\ CoveredInv /\ BehindInv

\* What NothingBehindFrontier asks of a step.
StepInv ==
    \A i \in DOMAIN out' :
        (streams' = streams /\ i > Len(out)) =>
            /\ streams = 1 /\ stream.timed => out'[i].t0 >= reported
            /\ i > 1 => out'[i].t0 >= out'[i - 1].t1

LEMMA StreamsSpeak ==
    ASSUME stream \in Streams
    PROVE  Speech
<1>1. stream.script \in Scripts
  BY DEF Streams
<1> QED BY <1>1, WindowAssumption DEF Speech

LEMMA WindowFacts ==
    ASSUME IInv
    PROVE  /\ window.start \in Nat /\ window.length \in Nat /\ window.upTo = window.start
           /\ window.frontier \in Nat /\ window.pending \in Nat
           /\ window.pending <= window.length /\ window.pending < ChunkMs
           /\ End(window) \in Nat /\ End(window) = window.start + window.length /\ End(window) <= MaxEnd
           /\ window.frontier <= MaxEnd
           /\ reported \in Nat /\ reported <= MaxEnd
           /\ waived \in Nat /\ waived <= window.start
           /\ streams \in 1 .. MaxStreams /\ streams \in Nat /\ MaxStreams \in Nat
           /\ streams = 1 => window.frontier <= reported /\ reported <= End(window)
           /\ ChunkMs \in Nat /\ LiveEdgeMs \in Nat /\ LiveEdgeMs < ChunkMs /\ MaxEnd \in Nat
           /\ window = [start |-> window.start, length |-> window.length, upTo |-> window.upTo,
                        frontier |-> window.frontier, pending |-> window.pending]
<1>1. window \in Windows /\ WindowInv /\ reported \in 0 .. MaxEnd
  BY DEF IInv, WindowInv
<1>2. window = [start |-> window.start, length |-> window.length, upTo |-> window.upTo,
                frontier |-> window.frontier, pending |-> window.pending]
  BY <1>1 DEF Windows
<1>3. window.start \in Nat /\ window.length \in Nat /\ window.frontier \in Nat /\ window.pending \in Nat
  BY <1>1 DEF Windows
<1> QED BY <1>1, <1>2, <1>3, WindowAssumption DEF WindowInv, End

\* What a run comes to that publishes words up to u, closes the stream up to f
\* and moves the window to g.
Effect(w, drain, words, u, f, g) ==
    LET all == out \o words
    IN  /\ OutWell(all, stream.timed, g)
        /\ \A i \in 1 .. Len(all) :
               i > Len(out) =>
                   /\ streams = 1 /\ stream.timed => all[i].t0 >= reported
                   /\ i > 1 => all[i].t0 >= all[i - 1].t1
        /\ \A k \in DOMAIN stream.script : \A ms \in Nat :
               (/\ Says(stream.script, k, ms) /\ waived <= ms
                /\ ms < IF drain THEN End(w) ELSE u) => Voiced(all, ms)
        /\ streams = 1 /\ stream.timed =>
               \A k \in DOMAIN stream.script :
                   stream.script[k][2] > g =>
                       \A r \in {reported, f} : stream.script[k][1] >= r \/ g >= r \/ r <= reported

\* A run over the audio since the published text has that effect.
LEMMA RunEffect ==
    ASSUME IInv, NEW w, NEW drain \in BOOLEAN, Runnable(w, drain),
           w.start = window.start, w.frontier = window.frontier,
           NEW words, NEW u, NEW f, Publishes(w, drain, words, u, f),
           NEW g \in Nat, u <= g
    PROVE  Effect(w, drain, words, u, f, g)
<1> DEFINE s == window.start
           all == out \o words
<1>1. /\ s \in Nat /\ reported \in Nat /\ w.start = s /\ u \in Nat /\ s <= u /\ s <= g
      /\ window.frontier \in Nat
      /\ streams = 1 => window.frontier <= reported
  BY WindowFacts DEF Publishes
<1>2. OutWell(out, stream.timed, s)
  BY DEF IInv, OutInv
<1>3. WordsWell(words, w, u) /\ words \in Seq(Row)
  BY DEF Publishes, WordsWell
<1>4. Speech /\ w \in Windows /\ w.length > 0
  BY DEF Runnable
<1>5. /\ OutWell(words, stream.timed, g)
      /\ \A i \in 1 .. Len(words) : s <= words[i].t0
  <2>1. ASSUME NEW i \in 1 .. Len(words)
        PROVE  WordFits(words[i], stream.timed) /\ words[i].t1 <= g /\ s <= words[i].t0
    <3>1. words[i] \in Row /\ WordFits(words[i], stream.timed) /\ w.start <= words[i].t0 /\ words[i].t1 <= u
      BY <1>3 DEF WordsWell
    <3>2. words[i].t1 \in Nat
      BY <3>1 DEF Row
    <3> QED BY <3>1, <3>2, <1>1
  <2>2. \A i, j \in 1 .. Len(words) : i < j => words[i].t1 <= words[j].t0
    BY <1>3 DEF WordsWell
  <2> QED BY <1>3, <2>1, <2>2 DEF OutWell
<1>6. /\ OutWell(all, stream.timed, g)
      /\ Len(all) = Len(out) + Len(words)
      /\ \A i \in 1 .. Len(all) :
             \/ i \in 1 .. Len(out) /\ all[i] = out[i]
             \/ /\ i - Len(out) \in 1 .. Len(words) /\ i > Len(out)
                /\ all[i] = words[i - Len(out)]
      /\ \A ms : Voiced(out, ms) \/ Voiced(words, ms) => Voiced(all, ms)
  <2> HIDE DEF s
  <2> QED BY <1>1, <1>2, <1>5, OutGrows
<1>7. Len(out) \in Nat /\ Len(words) \in Nat
  BY <1>2, <1>3 DEF OutWell
<1> HIDE DEF all, s
<1>8. ASSUME NEW i \in 1 .. Len(all), i > Len(out), streams = 1, stream.timed
      PROVE  all[i].t0 >= reported
  <2> DEFINE x == i - Len(out)
  <2>1. x \in 1 .. Len(words) /\ all[i] = words[x]
    BY <1>6, <1>7, <1>8
  <2> HIDE DEF x
  <2>2. PICK k \in Audible(w) : words[x].t0 = PartOf(k, w).from
    BY <1>3, <1>8, <2>1 DEF WordsWell
  <2>3. /\ k \in DOMAIN stream.script /\ stream.script[k][2] > s
        /\ stream.script[k][1] \in Nat
        /\ PartOf(k, w).from = IF stream.script[k][1] >= s THEN stream.script[k][1] ELSE s
    <3>1. k \in DOMAIN stream.script
      BY DEF Audible
    <3> QED BY <3>1, <1>1, <1>4, PartWithin
  <2>4. stream.script[k][1] >= reported \/ s >= reported
    BY <2>3, <1>8 DEF IInv, BehindInv, s
  <2> QED BY <2>1, <2>2, <2>3, <2>4, <1>1
<1>9. ASSUME NEW i \in 1 .. Len(all), i > Len(out), i > 1 PROVE all[i].t0 >= all[i - 1].t1
  <2>1. i - 1 \in 1 .. Len(all) /\ i - 1 < i
    BY <1>6, <1>7, <1>9
  <2> DEFINE j == i - 1
  <2>2. all \in Seq(Row) /\ all[j].t1 <= all[i].t0
    BY <2>1, <1>6 DEF OutWell
  <2>3. all[j] \in Row /\ all[i] \in Row
    BY <2>1, <2>2
  <2> HIDE DEF j
  <2>4. all[j].t1 \in Nat /\ all[i].t0 \in Nat
    BY <2>3 DEF Row
  <2>5. all[i].t0 >= all[j].t1
    BY <2>2, <2>4
  <2> QED BY <2>5 DEF j
<1>10. ASSUME NEW k \in DOMAIN stream.script, NEW ms \in Nat, Says(stream.script, k, ms), waived <= ms,
              ms < IF drain THEN End(w) ELSE u
       PROVE  Voiced(all, ms)
  <2>1. CASE ms < s
    BY <2>1, <1>6, <1>10 DEF IInv, CoveredInv, s
  <2>2. CASE s <= ms
    BY <2>2, <1>1, <1>6, <1>10 DEF Publishes
  <2> QED BY <2>1, <2>2, <1>1
<1>11. ASSUME streams = 1, stream.timed, NEW k \in DOMAIN stream.script, stream.script[k][2] > g,
              NEW r \in {reported, f}
       PROVE  stream.script[k][1] >= r \/ g >= r \/ r <= reported
  <2>1. f \in Nat /\ (f <= window.frontier \/ f <= stream.script[k][1] \/ f <= u)
    <3>1. stream.script[k][2] \in Nat
      BY <1>4, ScriptType
    <3>2. stream.script[k][2] > u
      BY <3>1, <1>1, <1>11
    <3> QED BY <3>2, <1>11 DEF Publishes
  <2>2. stream.script[k][1] \in Nat
    BY <1>4, ScriptType
  <2> QED BY <2>1, <2>2, <1>1, <1>11
<1>12. OutWell(all, stream.timed, g)
  BY <1>6
<1> QED BY <1>8, <1>9, <1>10, <1>11, <1>12 DEF Effect, all

-----------------------------------------------------------------------------
\* Each command keeps the invariant.

LEMMA InitInv ==
    ASSUME Init
    PROVE  IInv
<1>1. window = [start |-> 0, length |-> 0, upTo |-> 0, frontier |-> 0, pending |-> 0]
      /\ out = <<>> /\ reported = 0 /\ waived = 0 /\ streams = 1 /\ stream \in Streams
  BY DEF Init, NewWindow
<1>2. ChunkMs \in Nat /\ LiveEdgeMs \in Nat /\ LiveEdgeMs < ChunkMs /\ MaxEnd \in Nat
      /\ MaxStreams \in Nat \ {0}
  BY WindowAssumption
<1>3. window \in Windows /\ window.start = 0 /\ window.upTo = 0 /\ End(window) = 0
      /\ window.frontier = 0 /\ window.pending = 0 /\ window.length = 0
  BY <1>1 DEF Windows, End
<1>4. WindowInv
  BY <1>1, <1>2, <1>3 DEF WindowInv
<1>5. OutInv
  BY <1>1 DEF OutInv, OutWell
<1>6. CoveredInv
  BY <1>3 DEF CoveredInv
<1>7. BehindInv
  BY <1>1, <1>3 DEF BehindInv
<1> QED BY <1>1, <1>4, <1>5, <1>6, <1>7 DEF IInv

LEMMA GatherKeeps ==
    ASSUME IInv, NEW ms \in 1 .. MaxBuffer, Gather(ms)
    PROVE  IInv' /\ StepInv
<1>1. /\ End(window) + ms <= MaxEnd /\ window.pending + ms < ChunkMs
      /\ window' = [window EXCEPT !.pending = @ + ms, !.length = @ + ms]
      /\ stream' = stream /\ out' = out /\ reported' = reported /\ waived' = waived
      /\ streams' = streams
  BY DEF Gather, Push
<1>2. ms \in Nat
  BY WindowAssumption
<1>3. window' = [start |-> window.start, length |-> window.length + ms, upTo |-> window.upTo,
                 frontier |-> window.frontier, pending |-> window.pending + ms]
  <2> DEFINE w == window
  <2>1. w \in Windows
    BY DEF IInv, WindowInv
  <2>2. window' = [w EXCEPT !.pending = @ + ms, !.length = @ + ms]
    BY <1>1
  <2>3. window' = [start |-> w.start, length |-> w.length + ms, upTo |-> w.upTo,
                   frontier |-> w.frontier, pending |-> w.pending + ms]
    <3> HIDE DEF w
    <3> QED BY <2>1, <2>2 DEF Windows
  <2> QED BY <2>3
<1>4. /\ window'.start = window.start /\ window'.length = window.length + ms
      /\ window'.upTo = window.upTo /\ window'.frontier = window.frontier
      /\ window'.pending = window.pending + ms
  BY <1>3
<1>5. window' \in Windows /\ End(window)' = End(window) + ms
  BY <1>2, <1>3, <1>4, WindowFacts DEF Windows, End
<1>6. WindowInv'
  BY <1>1, <1>2, <1>4, <1>5, WindowFacts DEF WindowInv
<1>7. OutInv' /\ CoveredInv' /\ BehindInv' /\ stream' \in Streams
  BY <1>1, <1>4 DEF IInv, OutInv, CoveredInv, BehindInv
<1>8. StepInv
  <2>1. DOMAIN out = 1 .. Len(out) /\ Len(out) \in Nat
    BY DEF IInv, OutInv, OutWell
  <2> QED BY <1>1, <2>1 DEF StepInv
<1> QED BY <1>6, <1>7, <1>8 DEF IInv

LEMMA InferAbortedKeeps ==
    ASSUME IInv, NEW ms \in 1 .. MaxBuffer, InferAborted(ms)
    PROVE  IInv' /\ StepInv
<1>1. /\ End(window) + ms <= MaxEnd
      /\ window' = [[window EXCEPT !.pending = @ + ms, !.length = @ + ms] EXCEPT !.pending = 0]
      /\ stream' = stream /\ out' = out /\ reported' = reported /\ waived' = waived
      /\ streams' = streams
  BY DEF InferAborted, Push
<1>2. ms \in Nat
  BY WindowAssumption
<1>3. window' = [start |-> window.start, length |-> window.length + ms, upTo |-> window.upTo,
                 frontier |-> window.frontier, pending |-> 0]
  <2> DEFINE w == window
  <2>1. w \in Windows
    BY DEF IInv, WindowInv
  <2>2. window' = [[w EXCEPT !.pending = @ + ms, !.length = @ + ms] EXCEPT !.pending = 0]
    BY <1>1
  <2>3. window' = [start |-> w.start, length |-> w.length + ms, upTo |-> w.upTo,
                   frontier |-> w.frontier, pending |-> 0]
    <3> HIDE DEF w
    <3> QED BY <2>1, <2>2 DEF Windows
  <2> QED BY <2>3
<1>4. /\ window'.start = window.start /\ window'.length = window.length + ms
      /\ window'.upTo = window.upTo /\ window'.frontier = window.frontier
      /\ window'.pending = 0
  BY <1>3
<1>5. window' \in Windows /\ End(window)' = End(window) + ms
  BY <1>2, <1>3, <1>4, WindowFacts DEF Windows, End
<1>6. WindowInv'
  BY <1>1, <1>2, <1>4, <1>5, WindowFacts DEF WindowInv
<1>7. OutInv' /\ CoveredInv' /\ BehindInv' /\ stream' \in Streams
  BY <1>1, <1>4 DEF IInv, OutInv, CoveredInv, BehindInv
<1>8. StepInv
  <2>1. DOMAIN out = 1 .. Len(out) /\ Len(out) \in Nat
    BY DEF IInv, OutInv, OutWell
  <2> QED BY <1>1, <2>1 DEF StepInv
<1> QED BY <1>6, <1>7, <1>8 DEF IInv

LEMMA InferKeeps ==
    ASSUME IInv, NEW ms \in 1 .. MaxBuffer, Infer(ms)
    PROVE  IInv' /\ StepInv
<1> DEFINE w == [Push(window, ms) EXCEPT !.pending = 0]
<1>1. PICK transcript \in Transcripts(w, FALSE) :
          LET found == Harvest(w, transcript, FALSE)
          IN  /\ window' = Trim(found.window)
              /\ out' = out \o found.words
              /\ reported' = Max({reported, found.window.frontier})
              /\ waived' = IF Forced(found.window) > 0 THEN window'.start ELSE waived
  BY DEF Infer, Report
<1>2. /\ End(window) + ms <= MaxEnd /\ window.pending + ms >= ChunkMs
      /\ stream' = stream /\ streams' = streams
  BY DEF Infer
<1>3. ms \in Nat /\ ms > 0
  BY WindowAssumption
<1>4. w = [start |-> window.start, length |-> window.length + ms, upTo |-> window.start,
           frontier |-> window.frontier, pending |-> 0]
  <2> DEFINE v == window
  <2>1. v \in Windows /\ v.upTo = v.start
    BY DEF IInv, WindowInv
  <2>2. w = [[v EXCEPT !.pending = @ + ms, !.length = @ + ms] EXCEPT !.pending = 0]
    BY DEF Push
  <2>3. w = [start |-> v.start, length |-> v.length + ms, upTo |-> v.start,
             frontier |-> v.frontier, pending |-> 0]
    <3> HIDE DEF v, w
    <3> QED BY <2>1, <2>2 DEF Windows
  <2> QED BY <2>3
<1> HIDE DEF w
<1>5. /\ w \in Windows /\ w.start = window.start /\ w.upTo = w.start /\ w.frontier = window.frontier
      /\ w.length = window.length + ms /\ w.pending = 0 /\ End(w) = End(window) + ms
  BY <1>3, <1>4, WindowFacts DEF Windows, End
<1>6. Runnable(w, FALSE)
  <2>1. Speech
    BY StreamsSpeak DEF IInv
  <2>2. w.length > 0 /\ End(w) <= MaxEnd /\ w.length > LiveEdgeMs
    BY <1>2, <1>3, <1>5, WindowFacts
  <2> QED BY <1>5, <2>1, <2>2 DEF Runnable
<1> DEFINE found == Harvest(w, transcript, FALSE)
           left == found.window
           u == left.upTo
           f == left.frontier
<1>7. Publishes(w, FALSE, found.words, u, f) /\ left = Moved(w, u, f)
  BY <1>6, HarvestPublishes
<1>8. /\ window' = Trim(left) /\ out' = out \o found.words /\ reported' = Max({reported, f})
      /\ waived' = IF Forced(left) > 0 THEN window'.start ELSE waived
  BY <1>1
<1> DEFINE words == found.words
<1> HIDE DEF found, left, u, f, words
<1>9. u \in Nat /\ w.start <= u /\ u <= End(w) /\ f \in Nat /\ (f <= w.frontier \/ f <= End(w))
  BY <1>7 DEF Publishes, words
<1>10. /\ left \in Windows /\ left.upTo = u /\ left.frontier = f /\ left.start = w.start
       /\ left.length = w.length /\ left.pending = 0 /\ End(left) = End(w)
  BY <1>5, <1>7, <1>9, MovedFields DEF End
<1> DEFINE g == window'.start
<1>11. /\ window' \in Windows /\ window'.upTo = g /\ u <= g /\ g <= End(w)
       /\ End(window)' = End(w) /\ window'.pending = 0 /\ window'.frontier = f
       /\ Forced(left) \in Nat /\ (Forced(left) = 0 => g = u)
  <2>1. left.start <= left.upTo /\ left.upTo <= End(left)
    BY <1>9, <1>10
  <2>2. /\ Trim(left) \in Windows /\ Trim(left).upTo = Trim(left).start
        /\ left.upTo <= Trim(left).start /\ Trim(left).start <= End(left)
        /\ End(Trim(left)) = End(left)
        /\ Trim(left).pending = left.pending /\ Trim(left).frontier = left.frontier
        /\ Forced(left) \in Nat /\ (Forced(left) = 0 => Trim(left).start = left.upTo)
    BY <1>10, <2>1, TrimEffect
  <2>3. End(window)' = End(Trim(left))
    BY <1>8 DEF End
  <2> QED BY <1>8, <1>10, <2>2, <2>3
<1>12. g \in Nat /\ window'.length \in Nat
  BY <1>11 DEF Windows
<1> HIDE DEF g
<1>13. reported' = IF reported >= f THEN reported ELSE f
  <2>1. reported \in Int /\ f \in Int
    BY <1>9, WindowFacts
  <2> QED BY <2>1, <1>8, MaxTwo
<1>14. /\ OutWell(out', stream.timed, g)
       /\ StepInv
       /\ \A k \in DOMAIN stream.script : \A x \in Nat :
              Says(stream.script, k, x) /\ waived <= x /\ x < u => Voiced(out', x)
       /\ streams = 1 /\ stream.timed =>
              \A k \in DOMAIN stream.script :
                  stream.script[k][2] > g =>
                      \A r \in {reported, f} : stream.script[k][1] >= r \/ g >= r \/ r <= reported
  <2>1. Effect(w, FALSE, words, u, f, g)
    <3>1. FALSE \in BOOLEAN /\ Publishes(w, FALSE, words, u, f)
      BY <1>7 DEF words
    <3> QED BY <1>5, <1>6, <1>11, <1>12, <3>1, RunEffect
  <2>2. out' = out \o words
    BY <1>8 DEF words
  <2>3. DOMAIN out' = 1 .. Len(out')
    BY <2>1, <2>2 DEF Effect, OutWell
  <2>4. StepInv
    BY <1>2, <2>1, <2>2, <2>3 DEF Effect, StepInv
  <2> QED BY <2>1, <2>2, <2>4 DEF Effect
<1>15. WindowInv'
  <2>1. window'.upTo = window'.start /\ End(window)' <= MaxEnd /\ window'.pending <= window'.length
        /\ window'.pending < ChunkMs /\ window'.frontier <= MaxEnd /\ streams' \in 1 .. MaxStreams
    BY <1>2, <1>5, <1>9, <1>11, <1>12, WindowFacts DEF g
  <2>2. reported' \in 0 .. MaxEnd /\ window'.frontier <= reported'
        /\ (streams' = 1 => reported' <= End(window)')
    BY <1>2, <1>3, <1>5, <1>9, <1>11, <1>13, WindowFacts
  <2>3. waived' \in 0 .. window'.start
    <3>1. waived \in Nat /\ waived <= window.start
      BY WindowFacts
    <3>2. window.start <= g
      BY <1>5, <1>9, <1>11, <1>12, WindowFacts
    <3>3. waived' = g \/ waived' = waived
      BY <1>8 DEF g
    <3>4. waived' \in 0 .. g
      BY <3>1, <3>2, <3>3, <1>12, WindowFacts
    <3> QED BY <3>4 DEF g
  <2> QED BY <1>11, <2>1, <2>2, <2>3 DEF WindowInv
<1>16. OutInv'
  BY <1>2, <1>14 DEF OutInv, g
<1>17. CoveredInv'
  <2>1. ASSUME NEW k \in DOMAIN stream.script, NEW x \in Nat,
               Says(stream.script, k, x), waived' <= x, x < g
        PROVE  Voiced(out', x)
    <3>1. Forced(left) = 0 /\ waived' = waived
      BY <1>8, <1>11, <1>12, <2>1 DEF g
    <3> QED BY <3>1, <1>11, <1>14, <2>1
  <2> QED BY <1>2, <2>1 DEF CoveredInv, g
<1>18. BehindInv'
  <2>1. ASSUME streams = 1, stream.timed, NEW k \in DOMAIN stream.script, stream.script[k][2] > g
        PROVE  stream.script[k][1] >= reported' \/ g >= reported'
    <3>1. stream.script[k][1] \in Nat /\ stream.script[k][2] \in Nat
      BY <1>6, ScriptType DEF Runnable
    <3>2. CASE reported >= f
      <4>1. stream.script[k][2] > window.start /\ window.start <= g /\ window.start \in Nat
        BY <2>1, <3>1, <1>5, <1>9, <1>11, <1>12, WindowFacts
      <4>2. stream.script[k][1] >= reported \/ window.start >= reported
        BY <2>1, <4>1 DEF IInv, BehindInv
      <4> QED BY <3>2, <4>1, <4>2, <1>12, <1>13, WindowFacts
    <3>3. CASE ~ (reported >= f)
      <4>1. stream.script[k][1] >= f \/ g >= f \/ f <= reported
        BY <2>1, <1>14
      <4> QED BY <3>3, <4>1, <1>9, <1>13, WindowFacts
    <3> QED BY <3>2, <3>3
  <2> QED BY <1>2, <2>1 DEF BehindInv, g
<1>19. stream' \in Streams
  BY <1>2 DEF IInv
<1> QED BY <1>14, <1>15, <1>16, <1>17, <1>18, <1>19 DEF IInv

\* A drained window starts anew where its audio ends; the frontier is kept.
Drained(at, g) == [start |-> at, length |-> 0, upTo |-> at, frontier |-> g, pending |-> 0]

LEMMA ClearDrains ==
    ASSUME NEW w \in Windows, NEW at \in Nat
    PROVE  Clear(w, at) = Drained(at, w.frontier)
<1> DEFINE a == [w EXCEPT !.length = 0]
           b == [a EXCEPT !.start = at]
           c == [b EXCEPT !.upTo = at]
           d == [c EXCEPT !.pending = 0]
<1>1. a = [start |-> w.start, length |-> 0, upTo |-> w.upTo, frontier |-> w.frontier,
           pending |-> w.pending]
  BY DEF Windows
<1>2. b = [start |-> at, length |-> 0, upTo |-> w.upTo, frontier |-> w.frontier,
           pending |-> w.pending]
  <2> HIDE DEF a
  <2> QED BY <1>1
<1>3. c = [start |-> at, length |-> 0, upTo |-> at, frontier |-> w.frontier,
           pending |-> w.pending]
  <2> HIDE DEF b
  <2> QED BY <1>2
<1>4. d = [start |-> at, length |-> 0, upTo |-> at, frontier |-> w.frontier, pending |-> 0]
  <2> HIDE DEF c
  <2> QED BY <1>3
<1>5. Clear(w, at) = d
  BY DEF Clear
<1> QED BY <1>4, <1>5 DEF Drained

LEMMA DrainedFields ==
    ASSUME NEW at, NEW g
    PROVE  /\ Drained(at, g).start = at /\ Drained(at, g).length = 0 /\ Drained(at, g).upTo = at
           /\ Drained(at, g).frontier = g /\ Drained(at, g).pending = 0
           /\ at \in Nat /\ g \in Nat => Drained(at, g) \in Windows
BY DEF Drained, Windows

\* The window behind a drain, whatever became of its text.
LEMMA DrainKeepsWindow ==
    ASSUME IInv, window' = Drained(End(window), window.frontier),
           reported' = Max({reported, End(window)}), waived' \in 0 .. End(window),
           UNCHANGED <<stream, streams>>
    PROVE  WindowInv' /\ BehindInv' /\ stream' \in Streams /\ window'.start = End(window)
<1>1. /\ End(window) \in Nat /\ End(window) <= MaxEnd /\ reported \in Nat /\ reported <= MaxEnd
      /\ window.frontier \in Nat /\ window.frontier <= MaxEnd
      /\ window.start <= End(window) /\ window.start \in Nat
      /\ streams \in 1 .. MaxStreams
      /\ streams = 1 => window.frontier <= reported /\ reported <= End(window)
      /\ ChunkMs \in Nat /\ LiveEdgeMs \in Nat /\ LiveEdgeMs < ChunkMs /\ MaxEnd \in Nat
  BY WindowFacts
<1>2. reported' = IF reported >= End(window) THEN reported ELSE End(window)
  <2>1. reported \in Int /\ End(window) \in Int
    BY <1>1
  <2> QED BY <2>1, MaxTwo
<1> DEFINE at == End(window)
           w == window'
<1>3. /\ w.start = at /\ w.length = 0 /\ w.upTo = at
      /\ w.frontier = window.frontier /\ w.pending = 0
      /\ w \in Windows
  <2>1. w = Drained(at, window.frontier) /\ at \in Nat /\ window.frontier \in Nat
    BY <1>1
  <2> HIDE DEF w, at
  <2> QED BY <2>1, DrainedFields
<1>4. End(window)' = at
  <2>1. End(w) = at
    <3> HIDE DEF w
    <3> QED BY <1>1, <1>3 DEF End
  <2> QED BY <2>1 DEF End
<1>5. WindowInv'
  <2>1. reported' \in 0 .. MaxEnd /\ (streams = 1 => w.frontier <= reported' /\ reported' <= at)
    BY <1>1, <1>2, <1>3
  <2>2. streams' = streams
    OBVIOUS
  <2> QED BY <2>1, <2>2, <1>1, <1>3, <1>4 DEF WindowInv
<1>6. BehindInv'
  <2>1. streams = 1 => window'.start >= reported'
    BY <1>1, <1>2, <1>3
  <2> QED BY <2>1 DEF BehindInv
<1>7. stream' \in Streams
  BY DEF IInv
<1> QED BY <1>3, <1>5, <1>6, <1>7

LEMMA FinalizeKeeps ==
    ASSUME IInv, Finalize
    PROVE  IInv' /\ StepInv
<1>1. PICK transcript \in IF window.length = 0 THEN {[text |-> <<>>, rows |-> <<>>]}
                          ELSE Transcripts(window, TRUE) :
          LET found == Harvest(window, transcript, TRUE)
          IN  /\ window' = Clear(found.window, End(window))
              /\ out' = out \o found.words
  BY DEF Finalize
<1>2. /\ reported' = Max({reported, End(window)})
      /\ stream' = stream /\ waived' = waived /\ streams' = streams
  BY DEF Finalize, Report
<1> DEFINE found == Harvest(window, transcript, TRUE)
           left == found.window
           words == found.words
           e == End(window)
<1>3. window' = Clear(left, e) /\ out' = out \o words
  BY <1>1
<1>4. /\ window \in Windows /\ e \in Nat /\ e <= MaxEnd /\ e = window.start + window.length
      /\ window.start \in Nat /\ window.length \in Nat /\ window.upTo = window.start
      /\ waived \in Nat /\ waived <= window.start /\ window.frontier \in Nat
  BY WindowFacts DEF IInv, WindowInv
<1>5. /\ out \in Seq(Row) /\ Len(out) \in Nat /\ DOMAIN out = 1 .. Len(out)
  BY DEF IInv, OutInv, OutWell
<1>6. CASE window.length = 0
  <2>1. transcript.text = <<>> /\ transcript.rows = <<>>
    BY <1>1, <1>6
  <2>2. words = <<>> /\ left = [window EXCEPT !.upTo = @, !.frontier = window.frontier]
    BY <2>1 DEF Harvest
  <2>3. left = window
    <3> DEFINE w == window
    <3>1. w \in Windows /\ left = [w EXCEPT !.upTo = w.upTo, !.frontier = w.frontier]
      BY <1>4, <2>2
    <3>2. left = w
      <4> HIDE DEF w, left
      <4> QED BY <3>1 DEF Windows
    <3> QED BY <3>2
  <2>4. out' = out
    <3> HIDE DEF words
    <3> QED BY <1>3, <1>5, <2>2, ConcatEmptySeq
  <2>5. e = window.start
    BY <1>4, <1>6
  <2>6. window' = Drained(e, window.frontier)
    BY <1>3, <1>4, <2>3, ClearDrains
  <2>7. WindowInv' /\ BehindInv' /\ stream' \in Streams /\ window'.start = e
    BY <1>2, <1>4, <2>6, DrainKeepsWindow
  <2>8. OutInv' /\ CoveredInv'
    <3>1. window'.start = window.start
      BY <2>5, <2>7
    <3> QED BY <1>2, <2>4, <3>1 DEF IInv, OutInv, CoveredInv
  <2>9. StepInv
    BY <1>5, <2>4 DEF StepInv
  <2> QED BY <2>7, <2>8, <2>9 DEF IInv
<1>7. CASE window.length # 0
  <2>1. transcript \in Transcripts(window, TRUE)
    BY <1>1, <1>7
  <2>2. Runnable(window, TRUE)
    <3>1. Speech
      BY StreamsSpeak DEF IInv
    <3> QED BY <3>1, <1>4, <1>7 DEF Runnable
  <2> DEFINE u == left.upTo
             f == left.frontier
  <2>3. Publishes(window, TRUE, words, u, f) /\ left = Moved(window, u, f)
    BY <2>1, <2>2, HarvestPublishes
  <2> HIDE DEF u, f, left, words, found
  <2>4. u \in Nat /\ u <= e /\ f = window.frontier
    BY <2>3 DEF Publishes
  <2>5. left \in Windows /\ left.frontier = f
    BY <1>4, <2>3, <2>4, MovedFields
  <2>6. window' = Drained(e, window.frontier)
    BY <1>3, <1>4, <2>4, <2>5, ClearDrains
  <2>7. WindowInv' /\ BehindInv' /\ stream' \in Streams /\ window'.start = e
    BY <1>2, <1>4, <2>6, DrainKeepsWindow
  <2>8. Effect(window, TRUE, words, u, f, e)
    BY <1>4, <2>2, <2>3, <2>4, RunEffect
  <2> HIDE DEF e
  <2>9. DOMAIN out' = 1 .. Len(out')
    BY <1>3, <2>8 DEF Effect, OutWell
  <2>10. OutInv'
    BY <1>2, <1>3, <2>7, <2>8 DEF Effect, OutInv
  <2>11. CoveredInv'
    BY <1>2, <1>3, <2>7, <2>8 DEF Effect, CoveredInv, e
  <2>12. StepInv
    BY <1>2, <1>3, <2>8, <2>9 DEF Effect, StepInv
  <2> QED BY <2>7, <2>10, <2>11, <2>12 DEF IInv
<1> QED BY <1>6, <1>7

LEMMA FinalizeAbortedKeeps ==
    ASSUME IInv, FinalizeAborted
    PROVE  IInv' /\ StepInv
<1> DEFINE e == End(window)
<1>1. /\ window' = Clear(window, e) /\ reported' = Max({reported, e}) /\ waived' = e
      /\ stream' = stream /\ out' = out /\ streams' = streams
  BY DEF FinalizeAborted, Report
<1>2. /\ window \in Windows /\ e \in Nat /\ window.start \in Nat /\ window.start <= e
  BY WindowFacts DEF IInv, WindowInv
<1>3. window' = Drained(e, window.frontier)
  BY <1>1, <1>2, ClearDrains
<1>4. WindowInv' /\ BehindInv' /\ stream' \in Streams /\ window'.start = e
  BY <1>1, <1>2, <1>3, DrainKeepsWindow
<1> HIDE DEF e
<1>5. OutInv'
  <2>1. out \in Seq(Row) /\ \A i \in 1 .. Len(out) : out[i] \in Row
    BY DEF IInv, OutInv, OutWell
  <2>2. \A i \in 1 .. Len(out) : out[i].t1 <= e
    <3>1. \A i \in 1 .. Len(out) : out[i].t1 \in Nat /\ out[i].t1 <= window.start
      BY <2>1 DEF IInv, OutInv, OutWell, Row
    <3> QED BY <3>1, <1>2
  <2> QED BY <1>1, <1>4, <2>2 DEF IInv, OutInv, OutWell
<1>6. CoveredInv'
  BY <1>1, <1>2, <1>4 DEF CoveredInv
<1>7. StepInv
  <2>1. DOMAIN out = 1 .. Len(out) /\ Len(out) \in Nat
    BY DEF IInv, OutInv, OutWell
  <2> QED BY <1>1, <2>1 DEF StepInv
<1> QED BY <1>4, <1>5, <1>6, <1>7 DEF IInv

LEMMA RestartKeeps ==
    ASSUME IInv, Restart
    PROVE  IInv' /\ StepInv
<1>1. /\ streams < MaxStreams /\ stream' \in Streams /\ window' = Clear(window, 0)
      /\ out' = <<>> /\ reported' = 0 /\ waived' = 0 /\ streams' = streams + 1
  BY DEF Restart
<1>2. /\ window \in Windows /\ window.frontier \in Nat /\ window.frontier <= MaxEnd /\ MaxEnd \in Nat
      /\ ChunkMs \in Nat /\ LiveEdgeMs \in Nat /\ LiveEdgeMs < ChunkMs
      /\ streams \in 1 .. MaxStreams /\ MaxStreams \in Nat
  BY WindowFacts DEF IInv, WindowInv
<1> DEFINE w == window'
<1>3. /\ w.start = 0 /\ w.length = 0 /\ w.upTo = 0 /\ w.frontier = window.frontier /\ w.pending = 0
      /\ w \in Windows
  <2>1. w = Drained(0, window.frontier)
    BY <1>1, <1>2, ClearDrains
  <2> HIDE DEF w
  <2> QED BY <2>1, <1>2, DrainedFields
<1>4. End(window)' = 0
  <2>1. End(w) = 0
    <3> HIDE DEF w
    <3> QED BY <1>3 DEF End
  <2> QED BY <2>1 DEF End
<1>5. WindowInv'
  BY <1>1, <1>2, <1>3, <1>4 DEF WindowInv
<1>6. OutInv'
  BY <1>1 DEF OutInv, OutWell
<1>7. CoveredInv'
  <2>1. window'.start = 0
    BY <1>3
  <2> QED BY <2>1 DEF CoveredInv
<1>8. BehindInv'
  BY <1>1, <1>3 DEF BehindInv
<1>9. StepInv
  BY <1>1, <1>2 DEF StepInv
<1> QED BY <1>1, <1>5, <1>6, <1>7, <1>8, <1>9 DEF IInv

LEMMA Inductive ==
    ASSUME IInv, [Next]_vars
    PROVE  IInv' /\ (StepInv \/ UNCHANGED vars)
<1>1. CASE UNCHANGED vars
  BY <1>1 DEF vars, IInv, WindowInv, OutInv, CoveredInv, BehindInv, End
<1>2. ASSUME NEW ms \in 1 .. MaxBuffer, Gather(ms) PROVE IInv' /\ StepInv
  BY <1>2, GatherKeeps
<1>3. ASSUME NEW ms \in 1 .. MaxBuffer, Infer(ms) PROVE IInv' /\ StepInv
  BY <1>3, InferKeeps
<1>4. ASSUME NEW ms \in 1 .. MaxBuffer, InferAborted(ms) PROVE IInv' /\ StepInv
  BY <1>4, InferAbortedKeeps
<1> QED BY <1>1, <1>2, <1>3, <1>4, FinalizeKeeps, FinalizeAbortedKeeps, RestartKeeps DEF Next

LEMMA InvariantHolds == Spec => []IInv
<1>1. Init => IInv
  BY InitInv
<1>2. IInv /\ [Next]_vars => IInv'
  BY Inductive
<1> QED BY <1>1, <1>2, PTL DEF Spec

\* Whatever is said and however the runs cut it, the text that was published
\* ends within the window, which stays within its audio.
THEOREM WindowTypeOK == Spec => []TypeOK
<1>1. IInv => TypeOK
  <2> SUFFICES ASSUME IInv PROVE TypeOK
    OBVIOUS
  <2>1. window.upTo \in window.start .. End(window) /\ window.start \in 0 .. MaxEnd
    BY WindowFacts
  <2>2. window.frontier \in 0 .. MaxEnd /\ window.pending \in 0 .. ChunkMs - 1
        /\ reported \in 0 .. MaxEnd /\ waived \in 0 .. MaxEnd
    BY WindowFacts
  <2> QED BY <2>1, <2>2, WindowFacts DEF TypeOK
<1> QED BY <1>1, InvariantHolds, PTL

\* The Progress that infer reports bounds the rows of all later runs: none begins
\* before it in the first stream of a model that times its rows, and no row
\* overlaps the one published before it.
THEOREM ProgressBounds == Spec => NothingBehindFrontier
<1> DEFINE Step == \A i \in DOMAIN out' :
               (streams' = streams /\ i > Len(out)) =>
                   /\ streams = 1 /\ stream.timed => out'[i].t0 >= reported
                   /\ i > 1 => out'[i].t0 >= out'[i - 1].t1
<1>1. IInv /\ [Next]_vars => [Step]_vars
  BY Inductive DEF StepInv
<1>2. Spec => [][Step]_vars
  <2> HIDE DEF Step
  <2> QED BY <1>1, InvariantHolds, PTL DEF Spec
<1> QED BY <1>2 DEF NothingBehindFrontier

-----------------------------------------------------------------------------
\* All that was published, one part after the other.

\* The function that FlattenSeq defines.
Flattens(f, q, n) ==
    f = [i \in 1 .. n |-> IF i = 1 THEN q[i] ELSE f[i - 1] \o q[i]]

LEMMA FlattensExist ==
    ASSUME NEW q, NEW n \in Nat
    PROVE  \E f : Flattens(f, q, n)
<1> DEFINE T == {m \in Nat : \E f : Flattens(f, q, m)}
<1>1. 0 \in T
  <2> DEFINE f == [i \in 1 .. 0 |-> <<>>]
  <2>1. Flattens(f, q, 0)
    BY DEF Flattens
  <2> QED BY <2>1
<1>2. ASSUME NEW m \in T PROVE m + 1 \in T
  <2>1. PICK f : Flattens(f, q, m)
    OBVIOUS
  <2> DEFINE g == [i \in 1 .. m + 1 |->
                      IF i <= m THEN f[i] ELSE IF i = 1 THEN q[i] ELSE f[m] \o q[i]]
  <2>2. ASSUME NEW i \in 1 .. m + 1
        PROVE  g[i] = IF i = 1 THEN q[i] ELSE g[i - 1] \o q[i]
    <3>1. CASE i = m + 1
      <4>1. i # 1 => i - 1 = m /\ m \in 1 .. m + 1 /\ m <= m /\ g[m] = f[m]
        BY <3>1
      <4>2. g[i] = IF i = 1 THEN q[i] ELSE f[m] \o q[i]
        BY <3>1
      <4> QED BY <4>1, <4>2
    <3>2. CASE i # m + 1
      <4>1. i \in 1 .. m /\ (i # 1 => i - 1 \in 1 .. m)
        BY <3>2
      <4>2. f[i] = IF i = 1 THEN q[i] ELSE f[i - 1] \o q[i]
        BY <2>1, <4>1 DEF Flattens
      <4>3. g[i] = f[i] /\ (i # 1 => g[i - 1] = f[i - 1])
        BY <4>1
      <4> QED BY <4>2, <4>3
    <3> QED BY <3>1, <3>2
  <2>3. Flattens(g, q, m + 1)
    BY <2>2 DEF Flattens
  <2> HIDE DEF g
  <2>4. m + 1 \in Nat
    OBVIOUS
  <2> QED BY <2>3, <2>4
<1>3. T = Nat
  BY <1>1, <1>2, NatInductionSet
<1> QED BY <1>3

\* The parts of the first m words, in order, none missing and nothing else.
Holds(parts, words, m) ==
    /\ parts \in Seq(Span)
    /\ \A a \in 1 .. Len(parts) : parts[a].to <= words[m].t1
    /\ \A a, b \in 1 .. Len(parts) : a < b => parts[a].to <= parts[b].from
    /\ \A i \in 1 .. m : \A b \in 1 .. Len(words[i].parts) :
           \E a \in 1 .. Len(parts) : parts[a] = words[i].parts[b]

\* The parts of a published word lie within it.
LEMMA WordSpans ==
    ASSUME NEW word \in Row, NEW timed, WordFits(word, timed)
    PROVE  /\ word.parts \in Seq(Span) /\ Len(word.parts) \in Nat \ {0}
           /\ word.t0 \in Nat /\ word.t1 \in Nat
           /\ \A a \in 1 .. Len(word.parts) :
                  /\ word.parts[a].from \in Nat /\ word.parts[a].to \in Nat
                  /\ word.t0 <= word.parts[a].from /\ word.parts[a].to <= word.t1
           /\ \A a, b \in 1 .. Len(word.parts) : a < b => word.parts[a].to <= word.parts[b].from
<1> DEFINE p == word.parts
           n == Len(p)
<1>1. p \in Seq(Span) /\ word.t0 \in Nat /\ word.t1 \in Nat
  BY DEF Row
<1>2. n \in Nat \ {0} /\ p # <<>>
  BY <1>1 DEF WordFits
<1>3. /\ \A a \in 1 .. n : p[a].from < p[a].to
      /\ \A a, b \in 1 .. n : a < b => p[a].to <= p[b].from
      /\ word.t0 <= p[1].from /\ p[n].to <= word.t1
  BY DEF WordFits
<1>4. \A a \in 1 .. n : p[a].from \in Nat /\ p[a].to \in Nat
  <2>1. \A a \in 1 .. n : p[a] \in Span
    <3> HIDE DEF p
    <3> QED BY <1>1
  <2> QED BY <2>1 DEF Span
<1> HIDE DEF p, n
<1>5. ASSUME NEW a \in 1 .. n PROVE word.t0 <= p[a].from /\ p[a].to <= word.t1
  <2>1. 1 \in 1 .. n /\ n \in 1 .. n
    BY <1>2
  <2>2. word.t0 <= p[a].from
    <3>1. CASE a = 1
      BY <3>1, <1>3
    <3>2. CASE a # 1
      <4>1. 1 < a
        BY <3>2, <1>2
      <4>2. p[1].to <= p[a].from /\ p[1].from < p[1].to
        BY <2>1, <4>1, <1>3
      <4> QED BY <2>1, <4>2, <1>1, <1>3, <1>4
    <3> QED BY <3>1, <3>2
  <2>3. p[a].to <= word.t1
    <3>1. CASE a = n
      BY <3>1, <1>3
    <3>2. CASE a # n
      <4>1. a < n
        BY <3>2, <1>2
      <4>2. p[a].to <= p[n].from /\ p[n].from < p[n].to
        BY <2>1, <4>1, <1>3
      <4> QED BY <2>1, <4>2, <1>1, <1>3, <1>4
    <3> QED BY <3>1, <3>2
  <2> QED BY <2>2, <2>3
<1> QED BY <1>1, <1>2, <1>3, <1>4, <1>5 DEF p, n

\* Another word behind them.
LEMMA HoldsMore ==
    ASSUME NEW words, NEW timed, NEW f, OutWell(words, timed, f),
           NEW m \in Nat \ {0}, m + 1 \in 1 .. Len(words),
           NEW parts, Holds(parts, words, m)
    PROVE  Holds(parts \o words[m + 1].parts, words, m + 1)
<1> DEFINE old == words[m]
           word == words[m + 1]
           p == word.parts
           n == Len(parts)
           all == parts \o p
<1>1. m \in 1 .. Len(words) /\ Len(words) \in Nat
  BY DEF OutWell
<1>2. /\ old \in Row /\ word \in Row /\ WordFits(word, timed) /\ WordFits(old, timed)
      /\ old.t1 <= word.t0
  BY <1>1 DEF OutWell
<1>3. /\ p \in Seq(Span) /\ Len(p) \in Nat \ {0} /\ word.t0 \in Nat /\ word.t1 \in Nat
      /\ \A a \in 1 .. Len(p) : /\ p[a].from \in Nat /\ p[a].to \in Nat
                                /\ word.t0 <= p[a].from /\ p[a].to <= word.t1
      /\ \A a, b \in 1 .. Len(p) : a < b => p[a].to <= p[b].from
  BY <1>2, WordSpans
<1>4. old.t1 \in Nat /\ word.t0 <= word.t1
  BY <1>2 DEF Row, WordFits
<1> HIDE DEF old, word, p
<1>5. /\ parts \in Seq(Span) /\ n \in Nat
      /\ \A a \in 1 .. n : parts[a].from \in Nat /\ parts[a].to \in Nat /\ parts[a].to <= old.t1
      /\ \A a, b \in 1 .. n : a < b => parts[a].to <= parts[b].from
  <2>1. parts \in Seq(Span)
    BY DEF Holds
  <2>2. \A a \in 1 .. n : parts[a] \in Span
    BY <2>1
  <2> QED BY <2>1, <2>2 DEF Holds, Span, old
<1> HIDE DEF n
<1>6. /\ all \in Seq(Span) /\ Len(all) = n + Len(p)
      /\ \A a \in 1 .. n + Len(p) : all[a] = IF a <= n THEN parts[a] ELSE p[a - n]
  BY <1>3, <1>5, ConcatProperties DEF n
<1> HIDE DEF all
<1>7. \A a \in 1 .. Len(all) :
          \/ a \in 1 .. n /\ all[a] = parts[a]
          \/ a > n /\ a - n \in 1 .. Len(p) /\ all[a] = p[a - n]
  BY <1>3, <1>5, <1>6
<1>8. ASSUME NEW a \in 1 .. Len(all) PROVE all[a].to <= word.t1
  <2>1. CASE a \in 1 .. n /\ all[a] = parts[a]
    BY <2>1, <1>2, <1>3, <1>4, <1>5
  <2>2. CASE a - n \in 1 .. Len(p) /\ all[a] = p[a - n]
    BY <2>2, <1>3
  <2> QED BY <2>1, <2>2, <1>7
<1>9. ASSUME NEW a \in 1 .. Len(all), NEW b \in 1 .. Len(all), a < b PROVE all[a].to <= all[b].from
  <2> DEFINE x == a - n
             y == b - n
  <2>1. CASE a \in 1 .. n /\ all[a] = parts[a] /\ b \in 1 .. n /\ all[b] = parts[b]
    BY <2>1, <1>5, <1>9
  <2>2. CASE a \in 1 .. n /\ all[a] = parts[a] /\ y \in 1 .. Len(p) /\ all[b] = p[y]
    <3>1. parts[a].to \in Nat /\ parts[a].to <= old.t1
      BY <2>2, <1>5
    <3>2. p[y].from \in Nat /\ word.t0 <= p[y].from
      <4> HIDE DEF y
      <4> QED BY <2>2, <1>3
    <3> HIDE DEF y
    <3> QED BY <2>2, <3>1, <3>2, <1>2, <1>3, <1>4
  <2>3. CASE x \in 1 .. Len(p) /\ all[a] = p[x] /\ y \in 1 .. Len(p) /\ all[b] = p[y]
    <3>1. x < y
      BY <1>5, <1>9
    <3> HIDE DEF x, y
    <3> QED BY <2>3, <3>1, <1>3
  <2>4. a > n => b > n
    BY <1>5, <1>9
  <2> QED BY <2>1, <2>2, <2>3, <2>4, <1>5, <1>7
<1>10. ASSUME NEW i \in 1 .. m + 1, NEW b \in 1 .. Len(words[i].parts)
       PROVE  \E a \in 1 .. Len(all) : all[a] = words[i].parts[b]
  <2>1. CASE i = m + 1
    <3>1. b \in 1 .. Len(p) /\ words[i].parts[b] = p[b]
      BY <2>1 DEF p, word
    <3>2. b + n \in 1 .. n + Len(p) /\ ~ (b + n <= n) /\ (b + n) - n = b
      BY <3>1, <1>3, <1>5
    <3>3. b + n \in 1 .. Len(all) /\ all[b + n] = p[b]
      BY <3>2, <1>6
    <3> QED BY <3>1, <3>3
  <2>2. CASE i # m + 1
    <3>1. i \in 1 .. m
      BY <2>2
    <3>2. PICK a \in 1 .. n : parts[a] = words[i].parts[b]
      BY <3>1 DEF Holds, n
    <3>3. a \in 1 .. Len(all) /\ all[a] = parts[a]
      BY <1>3, <1>5, <1>6
    <3> QED BY <3>2, <3>3
  <2> QED BY <2>1, <2>2
<1>11. Holds(all, words, m + 1)
  BY <1>6, <1>8, <1>9, <1>10 DEF Holds, word
<1> QED BY <1>11 DEF all, p, word

LEMMA PartsFlatten ==
    ASSUME NEW words, NEW timed, NEW f, OutWell(words, timed, f)
    PROVE  LET parts == FlattenSeq([i \in DOMAIN words |-> words[i].parts])
           IN  Len(words) # 0 => Holds(parts, words, Len(words))
<1> DEFINE n == Len(words)
           q == [i \in DOMAIN words |-> words[i].parts]
           g == CHOOSE h : Flattens(h, q, n)
           T == {m \in Nat : m + 1 <= n => Holds(g[m + 1], words, m + 1)}
<1> SUFFICES ASSUME n # 0 PROVE Holds(FlattenSeq(q), words, n)
  OBVIOUS
<1>1. n \in Nat /\ DOMAIN words = 1 .. n
  BY DEF OutWell
<1>2. /\ DOMAIN q = 1 .. n /\ Len(q) = n /\ \A i \in 1 .. n : q[i] = words[i].parts
  <2>1. q = [i \in 1 .. n |-> words[i].parts]
    BY <1>1
  <2> QED BY <2>1, <1>1
<1> HIDE DEF q, n
<1>3. Flattens(g, q, n)
  BY <1>1, FlattensExist
<1>4. FlattenSeq(q) = g[n]
  BY <1>2 DEF FlattenSeq, Flattens
<1> HIDE DEF g
<1>5. 0 \in T
  <2>1. 1 \in 1 .. n /\ 1 \in 1 .. Len(words)
    BY <1>1 DEF n
  <2>2. g[1] = words[1].parts
    BY <2>1, <1>2, <1>3 DEF Flattens
  <2>3. words[1] \in Row /\ WordFits(words[1], timed)
    BY <2>1 DEF OutWell
  <2>4. Holds(words[1].parts, words, 1)
    BY <2>3, WordSpans DEF Holds
  <2> QED BY <2>2, <2>4
<1>6. ASSUME NEW m \in T PROVE m + 1 \in T
  <2>1. SUFFICES ASSUME (m + 1) + 1 <= n PROVE Holds(g[(m + 1) + 1], words, (m + 1) + 1)
    OBVIOUS
  <2> DEFINE k == m + 1
  <2>2. k \in Nat \ {0} /\ k + 1 \in 1 .. n /\ k + 1 # 1 /\ (k + 1) - 1 = k /\ m + 1 <= n
    BY <2>1, <1>1
  <2>3. Holds(g[k], words, k)
    BY <2>2
  <2> HIDE DEF k
  <2>4. g[k + 1] = g[k] \o words[k + 1].parts
    BY <2>2, <1>2, <1>3 DEF Flattens
  <2>5. Holds(g[k] \o words[k + 1].parts, words, k + 1)
    BY <2>2, <2>3, HoldsMore DEF n
  <2> QED BY <2>4, <2>5 DEF k
<1>7. T = Nat
  BY <1>5, <1>6, NatInductionSet
<1>8. PICK m \in Nat : m + 1 = n
  <2>1. n - 1 \in Nat /\ (n - 1) + 1 = n
    BY <1>1
  <2> QED BY <2>1
<1>9. m \in T
  BY <1>7
<1>10. Holds(g[n], words, n)
  BY <1>8, <1>9
<1> QED BY <1>4, <1>10

\* "every row a run produces is new by construction" (comment at Window): however
\* each run cuts the same words, no audio is published twice or out of order, a
\* row stands where its words are, and what was said in front of the window is
\* published, unless a forced trim or an aborted drain gave it up.
THEOREM RowsOfRunsAreNew == Spec => []RowsAreNew
<1>1. IInv => RowsAreNew
  <2> SUFFICES ASSUME IInv PROVE RowsAreNew
    OBVIOUS
  <2> DEFINE parts == FlattenSeq([i \in DOMAIN out |-> out[i].parts])
             n == Len(out)
  <2>1. OutWell(out, stream.timed, window.start) /\ n \in Nat /\ DOMAIN out = 1 .. n
    BY DEF IInv, OutInv, OutWell
  <2>2. n # 0 => Holds(parts, out, n)
    BY <2>1, PartsFlatten
  <2>3. n = 0 => Len(parts) = 0
    <3>1. DOMAIN [i \in DOMAIN out |-> out[i].parts] = 1 .. n
      BY <2>1
    <3>2. Len([i \in DOMAIN out |-> out[i].parts]) = n
      BY <2>1, <3>1
    <3> QED BY <3>2 DEF FlattenSeq
  <2> HIDE DEF parts, n
  <2>4. \A i \in 1 .. Len(parts) - 1 : parts[i].to <= parts[i + 1].from
    <3>1. CASE n = 0
      BY <3>1, <2>3
    <3>2. CASE n # 0
      <4>1. parts \in Seq(Span) /\ \A a, b \in 1 .. Len(parts) : a < b => parts[a].to <= parts[b].from
        BY <3>2, <2>2 DEF Holds
      <4>2. ASSUME NEW i \in 1 .. Len(parts) - 1 PROVE parts[i].to <= parts[i + 1].from
        <5>1. i \in 1 .. Len(parts) /\ i + 1 \in 1 .. Len(parts) /\ i < i + 1
          BY <4>1
        <5> QED BY <4>1, <5>1
      <4> QED BY <4>2
    <3> QED BY <3>1, <3>2
  <2>5. ASSUME NEW i \in DOMAIN out
        PROVE  /\ out[i].t0 <= Head(out[i].parts).from /\ out[i].t1 >= Last(out[i].parts).to
               /\ stream.timed => out[i].t0 = Head(out[i].parts).from
    <3>1. out[i] \in Row /\ WordFits(out[i], stream.timed)
      BY <2>1 DEF OutWell, n
    <3> DEFINE p == out[i].parts
    <3>2. p \in Seq(Span) /\ Len(p) \in Nat \ {0} /\ p # <<>>
      BY <3>1, WordSpans DEF WordFits
    <3>3. Head(p) = p[1] /\ Last(p) = p[Len(p)]
      BY <3>2, HeadTailProperties DEF Last
    <3>4. p[Len(p)].to \in Nat /\ out[i].t1 \in Nat
      <4>1. Len(p) \in 1 .. Len(p)
        BY <3>2
      <4> QED BY <4>1, <3>1, WordSpans
    <3> HIDE DEF p
    <3>5. out[i].t0 <= p[1].from /\ p[Len(p)].to <= out[i].t1 /\ (stream.timed => out[i].t0 = p[1].from)
      BY <3>1 DEF WordFits, p
    <3>6. /\ out[i].t0 <= Head(p).from /\ out[i].t1 >= Last(p).to
          /\ stream.timed => out[i].t0 = Head(p).from
      BY <3>3, <3>4, <3>5
    <3> QED BY <3>6 DEF p
  <2>6. ASSUME NEW k \in DOMAIN stream.script, NEW ms \in stream.script[k][1] .. stream.script[k][2] - 1,
               waived <= ms /\ ms < window.start
        PROVE  \E i \in DOMAIN parts : parts[i].from <= ms /\ ms < parts[i].to
    <3>1. stream.script[k][1] \in Nat /\ stream.script[k][2] \in Nat
      BY StreamsSpeak, ScriptType DEF IInv
    <3>2. ms \in Nat /\ Says(stream.script, k, ms)
      BY <3>1 DEF Says
    <3>3. Voiced(out, ms)
      BY <3>2, <2>6 DEF IInv, CoveredInv
    <3>4. PICK i \in 1 .. n : \E b \in 1 .. Len(out[i].parts) :
              out[i].parts[b].from <= ms /\ ms < out[i].parts[b].to
      BY <3>3 DEF Voiced, n
    <3>5. PICK b \in 1 .. Len(out[i].parts) : out[i].parts[b].from <= ms /\ ms < out[i].parts[b].to
      BY <3>4
    <3>6. Holds(parts, out, n)
      BY <2>1, <2>2
    <3>7. PICK a \in 1 .. Len(parts) : parts[a] = out[i].parts[b]
      BY <3>6 DEF Holds
    <3>8. a \in DOMAIN parts
      BY <3>6 DEF Holds
    <3> QED BY <3>5, <3>7, <3>8
  <2> QED BY <2>4, <2>5, <2>6 DEF RowsAreNew, parts
<1> QED BY <1>1, InvariantHolds, PTL
=============================================================================
