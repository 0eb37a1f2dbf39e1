-------------------------- MODULE FlvSubMux_proofs --------------------------
(***************************************************************************)
(* What is proved of flvsubmux for every queue length, every number of     *)
(* cues and every resolution of running time: first what media waits for,  *)
(* then the caption timeline.  Nothing of an old timeline stays scheduled  *)
(* or on screen, the loaded intervals tile the time they cover, tags stay  *)
(* between the media around them, no cue is skipped, and after media the   *)
(* viewer sees what the timeline shows.                                    *)
(***************************************************************************)
EXTENDS FlvSubMux, OrderLemmas, SequenceTheorems

\* The part of the state media coverage depends on.  A loaded interval is at
\* the head of the text queue, and an observer has recorded it.
QueueTypeOK == textQ \in Seq(Interval \cup Event)
LoadedAtHead == loaded => /\ BufferAt(1)
                          /\ textQ[1] \in cues
CoverageInv == QueueTypeOK /\ LoadedAtHead /\ MediaCovered

-----------------------------------------------------------------------------
\* The loops that consume text stop somewhere, and at the first such place.

LEMMA StopIndexDefined ==
    ASSUME QueueTypeOK, NEW time
    PROVE  /\ StopIndex(time) \in 1 .. Len(textQ) + 1
           /\ StopsAt(StopIndex(time), time)
           /\ \A j \in 1 .. StopIndex(time) - 1 : ~StopsAt(j, time)
<1> DEFINE T == {i \in 1 .. Len(textQ) + 1 : StopsAt(i, time)}
<1>1. Len(textQ) \in Nat
  BY DEF QueueTypeOK
<1>2. Len(textQ) + 1 \in T
  BY <1>1 DEF StopsAt, BufferAt
<1>3. PICK x \in T : \A y \in T : x <= y
  <2>1. T \in SUBSET Nat
    BY <1>1
  <2> HIDE DEF T
  <2> QED BY <1>2, <2>1, LeastNat
<1>4. \A j \in 1 .. x - 1 : ~StopsAt(j, time)
  BY <1>1, <1>3
<1> HIDE DEF StopsAt
<1> QED BY <1>3, <1>4 DEF StopIndex

LEMMA FinishIndexDefined ==
    ASSUME QueueTypeOK
    PROVE  /\ FinishIndex \in 1 .. Len(textQ) + 1
           /\ ~BufferAt(FinishIndex) \/ ~LoadOk(FinishIndex)
           /\ \A j \in 1 .. FinishIndex - 1 : BufferAt(j) /\ LoadOk(j)
<1> DEFINE T == {i \in 1 .. Len(textQ) + 1 : ~BufferAt(i) \/ ~LoadOk(i)}
<1>1. Len(textQ) \in Nat
  BY DEF QueueTypeOK
<1>2. Len(textQ) + 1 \in T
  BY <1>1 DEF BufferAt
<1>3. PICK x \in T : \A y \in T : x <= y
  <2>1. T \in SUBSET Nat
    BY <1>1
  <2> HIDE DEF T
  <2> QED BY <1>2, <2>1, LeastNat
<1>4. \A j \in 1 .. x - 1 : BufferAt(j) /\ LoadOk(j)
  BY <1>1, <1>3
<1> QED BY <1>3, <1>4 DEF FinishIndex

\* Loading keeps the queue a suffix of itself, and an interval that stays
\* loaded at its head.
LEMMA LoadTextKeepsHead ==
    ASSUME QueueTypeOK, LoadedAtHead, NEW k \in 1 .. Len(textQ) + 1, LoadText(k)
    PROVE  /\ QueueTypeOK'
           /\ LoadedAtHead'
           /\ BufferAt(k) /\ LoadOk(k) => textQ[k] \in cues'
<1>1. Len(textQ) \in Nat /\ \A i \in k .. Len(textQ) : textQ[i] \in Interval \cup Event
  BY DEF QueueTypeOK
<1>2. /\ textQ' \in Seq(Interval \cup Event)
      /\ Len(textQ') = IF k <= Len(textQ) THEN Len(textQ) - k + 1 ELSE 0
      /\ \A i \in 1 .. Len(textQ) - k + 1 : textQ'[i] = textQ[k + i - 1]
  BY <1>1 DEF LoadText
<1>3. ASSUME BufferAt(k), LoadOk(k) PROVE textQ[k] \in cues'
  <2>1. CASE k = 1 /\ loaded
    BY <2>1 DEF LoadedAtHead, LoadText
  <2>2. CASE ~(k = 1 /\ loaded)
    <3>1. k \in LoadedIndices(k)
      BY <1>1, <1>3, <2>2 DEF LoadedIndices, BufferAt
    <3> QED BY <3>1 DEF LoadText
  <2> QED BY <2>1, <2>2
<1>4. LoadedAtHead'
  <2> SUFFICES ASSUME loaded' PROVE BufferAt(1)' /\ textQ'[1] \in cues'
    BY DEF LoadedAtHead
  <2>1. BufferAt(k) /\ LoadOk(k)
    BY DEF LoadText
  <2>2. k <= Len(textQ)
    BY <2>1 DEF BufferAt
  <2>3. textQ'[1] = textQ[k] /\ Len(textQ') >= 1
    BY <1>1, <1>2, <2>2
  <2> QED BY <1>3, <2>1, <2>3 DEF BufferAt
<1> QED BY <1>2, <1>3, <1>4 DEF QueueTypeOK

\* A pushed media buffer lies inside the interval its loop stopped at, or the
\* text pad had ended.
LEMMA PushCovered ==
    ASSUME QueueTypeOK, LoadedAtHead, NEW pushOk \in BOOLEAN, PushMedia(pushOk)
    PROVE  MediaCovered'
<1> DEFINE time == Head(flvQ).at
           k == StopIndex(time)
<1>1. k \in 1 .. Len(textQ) + 1 /\ StopsAt(k, time)
  BY StopIndexDefined
<1>2. LoadText(k) /\ textEos' = textEos
  BY DEF PushMedia
<1>3. out'.type = "media" => out'.at = time
  BY DEF PushMedia, Nothing
<1>4. Covering(k, time) \/ textEos
  BY DEF PushMedia
<1>5. CASE Covering(k, time)
  <2>1. textQ[k] \in cues'
    BY <1>1, <1>2, <1>5, LoadTextKeepsHead DEF Covering
  <2>2. textQ[k].start <= time /\ time < textQ[k].end
    BY <1>1, <1>5 DEF Covering, StopsAt
  <2> QED BY <1>3, <2>1, <2>2 DEF MediaCovered
<1> QED BY <1>2, <1>4, <1>5 DEF MediaCovered

-----------------------------------------------------------------------------
LEMMA CoverageInit == Init => CoverageInv
  BY DEF Init, CoverageInv, QueueTypeOK, LoadedAtHead, MediaCovered, Nothing

LEMMA CoverageStep == CoverageInv /\ [Next]_vars => CoverageInv'
<1> SUFFICES ASSUME CoverageInv, [Next]_vars PROVE CoverageInv'
  OBVIOUS
<1> USE DEF CoverageInv
<1>1. ASSUME NEW item \in TextItems, TextArrives(item) PROVE CoverageInv'
  <2>1. item \in Interval \cup Event
    BY DEF TextItems, Interval, Event, Time, AnyText
  <2>2. QueueTypeOK' /\ Len(textQ') = Len(textQ) + 1
        /\ \A i \in 1 .. Len(textQ) : textQ'[i] = textQ[i]
    BY <1>1, <2>1 DEF TextArrives, QueueTypeOK
  <2>3. LoadedAtHead'
    BY <1>1, <2>2 DEF TextArrives, LoadedAtHead, BufferAt, QueueTypeOK, stateVars, observed
  <2>4. MediaCovered'
    BY <1>1 DEF TextArrives, MediaCovered, Nothing
  <2> QED BY <2>2, <2>3, <2>4
<1>2. ASSUME NEW item \in MediaItems, MediaArrives(item) PROVE CoverageInv'
  BY <1>2 DEF MediaArrives, QueueTypeOK, LoadedAtHead, BufferAt, MediaCovered, Nothing,
              stateVars, observed
<1>3. ASSUME NEW pushOk \in BOOLEAN, ForwardHeader(pushOk) PROVE CoverageInv'
  BY <1>3 DEF ForwardHeader, QueueTypeOK, LoadedAtHead, BufferAt, MediaCovered, Nothing,
              stateVars, observed
<1>4. ASSUME NEW pushOk \in BOOLEAN, PushMedia(pushOk) PROVE CoverageInv'
  <2>1. PICK k \in 1 .. Len(textQ) + 1 : LoadText(k)
    BY <1>4, StopIndexDefined DEF PushMedia
  <2> QED BY <1>4, <2>1, LoadTextKeepsHead, PushCovered
<1>5. ASSUME NEW pushOk \in BOOLEAN, Finish(pushOk) PROVE CoverageInv'
  <2>1. LoadText(FinishIndex)
    BY <1>5 DEF Finish
  <2>2. out'.type # "media"
    BY <1>5 DEF Finish, Nothing
  <2> QED BY <2>1, <2>2, FinishIndexDefined, LoadTextKeepsHead DEF MediaCovered
<1>6. ASSUME RefuseMedia PROVE CoverageInv'
  BY <1>6 DEF RefuseMedia, padVars, QueueTypeOK, LoadedAtHead, BufferAt, MediaCovered,
              Nothing, stateVars, observed
<1>7. ASSUME AwaitText \/ RefuseText PROVE CoverageInv'
  <2>1. PICK k \in 1 .. Len(textQ) + 1 : LoadText(k)
    BY <1>7, StopIndexDefined DEF AwaitText, RefuseText
  <2>2. MediaCovered'
    BY <1>7 DEF AwaitText, RefuseText, MediaCovered, Nothing
  <2> QED BY <2>1, <2>2, LoadTextKeepsHead
<1>8. ASSUME FlvSegment \/ FlvEosEvent PROVE CoverageInv'
  <2>1. MediaCovered' /\ textQ' = textQ
    BY <1>8 DEF FlvSegment, FlvEosEvent, MediaCovered, Nothing
  <2>2. ~loaded' \/ UNCHANGED <<loaded, cues>>
    BY <1>8 DEF FlvSegment, ResetRuntime, FlvEosEvent, stateVars, observed
  <2> QED BY <2>1, <2>2 DEF QueueTypeOK, LoadedAtHead, BufferAt
<1>9. ASSUME TextSegment PROVE CoverageInv'
  BY <1>9 DEF TextSegment, BufferAtHead, QueueTypeOK, LoadedAtHead, MediaCovered, Nothing
<1>10. ASSUME TextEosEvent PROVE CoverageInv'
  <2>1. ~loaded
    BY <1>10 DEF TextEosEvent, BufferAtHead, LoadedAtHead, BufferAt, TextBuffer
  <2> QED BY <1>10, <2>1 DEF TextEosEvent, BufferAtHead, QueueTypeOK, LoadedAtHead,
              MediaCovered, Nothing, stateVars, observed
<1>11. ASSUME Flush \/ ReadyToPaused PROVE CoverageInv'
  <2>1. MediaCovered' /\ textQ' = <<>> /\ ~loaded'
    BY <1>11 DEF Flush, ReadyToPaused, ResetRuntime, MediaCovered, Nothing
  <2> QED BY <2>1 DEF QueueTypeOK, LoadedAtHead
<1>12. CASE UNCHANGED vars
  BY <1>12 DEF vars, padVars, stateVars, observed, QueueTypeOK, LoadedAtHead, BufferAt,
               MediaCovered
<1> QED BY <1>1, <1>2, <1>3, <1>4, <1>5, <1>6, <1>7, <1>8, <1>9, <1>10, <1>11, <1>12
        DEF Next, Upstream, Aggregate, SinkEvent

\* flvsubmux never lets a media buffer out before a text or GAP interval has
\* been proven to contain its running time (require_text_coverage), unless the
\* text pad is at EOS.
THEOREM MediaAlwaysCovered == Spec => []MediaCovered
<1>1. CoverageInv => MediaCovered
  BY DEF CoverageInv
<1> QED BY <1>1, CoverageInit, CoverageStep, PTL DEF Spec

-----------------------------------------------------------------------------
\* Type correctness rests on the numbering of transitions: each belongs to a
\* generation handed out already, and no two have the same sequence number, so
\* that the last one to set the screen exists and is unique.
Numbered(P, n) ==
    /\ P \subseteq Transition
    /\ \A t \in P : /\ t.gen < n
                    /\ t.seq = IF t.kind = "expire" THEN 2 * t.gen + 1 ELSE 2 * t.gen
                    /\ t.kind = "show" => t.text \in Texts
    /\ \A a, b \in P : a.seq = b.seq => a = b

TypeInv == TypeOK /\ LoadedAtHead /\ Numbered(pending, nextGen)

LEMMA NumberedSubset ==
    ASSUME NEW P, NEW n, Numbered(P, n), NEW Q, Q \subseteq P
    PROVE  Numbered(Q, n)
  BY DEF Numbered

LEMMA NumberedFinite ==
    ASSUME NEW P, NEW n \in Nat, Numbered(P, n)
    PROVE  IsFiniteSet(P)
<1> DEFINE f == [t \in P |-> t.seq]
<1>1. \A t \in P : t.gen \in Nat /\ t.gen < n /\ t.seq \in Nat /\ t.seq <= 2 * t.gen + 1
  BY DEF Numbered, Transition
<1>2. f \in Injection(P, 0 .. 2 * n + 1)
  <2>1. f \in [P -> 0 .. 2 * n + 1]
    BY <1>1
  <2>2. \A a, b \in P : f[a] = f[b] => a = b
    BY DEF Numbered
  <2> QED BY <2>1, <2>2 DEF Injection, IsInjective
<1>3. IsFiniteSet(0 .. 2 * n + 1)
  BY FS_Interval
<1> QED BY <1>2, <1>3, FS_Injection

LEMMA StampType == \A zero \in Int, time \in Nat : StampMs(zero, time) \in Nat
<1> SUFFICES ASSUME NEW zero \in Int, NEW time \in Nat PROVE StampMs(zero, time) \in Nat
  OBVIOUS
<1>1. time > zero => (time - zero) \div UnitsPerMs \in Nat
  BY CaptionAssumption
<1> QED BY <1>1, CaptionAssumption DEF StampMs

\* Among the transitions that set the screen there is a last one.
LEMMA LastSetter ==
    ASSUME NEW S, NEW n \in Nat, Numbered(S, n), NEW zero \in Int,
           \E a \in S : a.kind # "expire"
    PROVE  LET setters == {a \in S : a.kind # "expire"}
           IN  \E a \in setters : \A b \in setters \ {a} : Precedes(zero, b, a)
<1> DEFINE T == {a \in S : a.kind # "expire"}
           R == {p \in T \X T : Precedes(zero, p[1], p[2])}
<1>1. IsFiniteSet(T) /\ T # {}
  <2>1. Numbered(T, n)
    BY NumberedSubset
  <2> QED BY <2>1, NumberedFinite
<1>2. \A a \in T : StampMs(zero, a.at) \in Nat /\ a.seq \in Nat
  BY StampType DEF Numbered, Transition
<1>3. \A a, b \in T : <<a, b>> \in R <=> Precedes(zero, a, b)
  OBVIOUS
<1>4. \A a, b \in T : a.seq = b.seq => a = b
  BY DEF Numbered
<1>5. \A a, b, c \in T : Precedes(zero, a, b) /\ Precedes(zero, b, c) => Precedes(zero, a, c)
  <2> HIDE DEF T
  <2> QED BY <1>2 DEF Precedes
<1>6. \A a, b \in T : ~Precedes(zero, a, a)
                      /\ (a = b \/ Precedes(zero, a, b) \/ Precedes(zero, b, a))
  <2> HIDE DEF T
  <2> QED BY <1>2, <1>4 DEF Precedes
<1>7. \E a \in T : \A b \in T \ {a} : <<b, a>> \in R
  <2> HIDE DEF T, R
  <2> QED BY <1>1, <1>3, <1>5, <1>6, GreatestElement
<1> QED BY <1>3, <1>7

LEMMA ActiveAfterType ==
    ASSUME NEW S, NEW n \in Nat, Numbered(S, n), NEW zero \in Int, NEW cue \in Cue
    PROVE  ActiveAfter(zero, cue, S) \in Cue
<1> DEFINE setters == {a \in S : a.kind # "expire"}
           last == CHOOSE a \in setters : \A b \in setters \ {a} : Precedes(zero, b, a)
           base == IF setters = {} THEN cue
                   ELSE IF last.kind = "show" THEN [gen |-> last.gen, text |-> last.text]
                   ELSE NoCue
<1>1. setters # {} => last \in setters
  BY LastSetter
<1>2. setters # {} /\ last.kind = "show" => last.gen \in Nat /\ last.text \in Texts
  BY <1>1 DEF Numbered, Transition
<1>3. base \in Cue /\ NoCue \in Cue
  <2> HIDE DEF setters, last
  <2> QED BY <1>2 DEF Cue
<1>4. ActiveAfter(zero, cue, S)
        = IF \E a \in S : a.kind = "expire" /\ a.gen = base.gen THEN NoCue ELSE base
  BY DEF ActiveAfter
<1> HIDE DEF base
<1> QED BY <1>3, <1>4

LEMMA DrainTagsType ==
    ASSUME NEW P, NEW n \in Nat, Numbered(P, n), NEW zero \in Int, NEW cue \in Cue,
           NEW now
    PROVE  DrainTags(zero, cue, P, now) \in SUBSET [stamp : Nat, text : AnyText]
<1> DEFINE reached == Reached(zero, P, now)
           upTo(m) == {a \in reached : StampMs(zero, a.at) <= m}
<1>1. \A a \in reached : StampMs(zero, a.at) \in Nat
  BY StampType DEF Reached, Numbered, Transition
<1>2. \A m : Numbered(upTo(m), n)
  <2>1. \A m : upTo(m) \subseteq P
    BY DEF Reached
  <2> HIDE DEF upTo
  <2> QED BY <2>1, NumberedSubset
<1>3. \A m : ActiveAfter(zero, cue, upTo(m)) \in Cue
  <2> HIDE DEF upTo
  <2> QED BY <1>2, ActiveAfterType
<1>4. \A m : ActiveAfter(zero, cue, upTo(m)).text \in AnyText
  <2> HIDE DEF upTo
  <2>1. \A c \in Cue : c.text \in AnyText
    BY DEF Cue, NoCue, AnyText
  <2> QED BY <1>3, <2>1
<1>5. \A tag \in DrainTags(zero, cue, P, now) : \E a \in reached :
         LET m == StampMs(zero, a.at)
         IN  tag = [stamp |-> m, text |-> ActiveAfter(zero, cue, upTo(m)).text]
  BY Zenon DEF DrainTags
<1> HIDE DEF reached, upTo
<1> QED BY <1>1, <1>4, <1>5

\* The generations of one loading loop are distinct and follow those in use.
LEMMA GenerationsDistinct ==
    ASSUME QueueTypeOK, nextGen \in Nat, NEW k \in 1 .. Len(textQ) + 1
    PROVE  /\ Cardinality(TextIndices(k)) \in Nat
           /\ \A i \in TextIndices(k) :
                 /\ Generation(i) \in Nat
                 /\ nextGen <= Generation(i)
                 /\ Generation(i) < nextGen + Cardinality(TextIndices(k))
           /\ \A i, j \in TextIndices(k) : i < j => Generation(i) < Generation(j)
<1> DEFINE before(i) == {j \in TextIndices(i) : j < i}
<1>1. Len(textQ) \in Nat
  BY DEF QueueTypeOK
<1>2. \A i \in 1 .. Len(textQ) + 1 : TextIndices(i) \subseteq 1 .. Len(textQ)
  BY DEF TextIndices, LoadedIndices
<1>3. \A Q \in SUBSET (1 .. Len(textQ)) : IsFiniteSet(Q) /\ Cardinality(Q) \in Nat
  <2>1. IsFiniteSet(1 .. Len(textQ))
    BY <1>1, FS_Interval
  <2> QED BY <2>1, FS_Subset, FS_CardinalityType
<1>4. \A i \in TextIndices(k) : before(i) \in SUBSET (1 .. Len(textQ))
  BY <1>1, <1>2
<1>5. \A i, j \in TextIndices(k) : i < j => before(i) \cup {i} \subseteq before(j)
  BY <1>1 DEF TextIndices, LoadedIndices
<1>6. \A i \in TextIndices(k) : before(i) \cup {i} \subseteq TextIndices(k)
  BY <1>1 DEF TextIndices, LoadedIndices
<1>7. ASSUME NEW i \in TextIndices(k), NEW Q \in SUBSET (1 .. Len(textQ)),
             before(i) \cup {i} \subseteq Q
      PROVE  Cardinality(before(i)) + 1 <= Cardinality(Q)
  <2>1. IsFiniteSet(before(i)) /\ i \notin before(i)
    BY <1>1, <1>2, <1>3, <1>4
  <2>2. Cardinality(before(i) \cup {i}) = Cardinality(before(i)) + 1
    <3> HIDE DEF before
    <3> QED BY <2>1, FS_AddElement
  <2>3. Cardinality(before(i) \cup {i}) <= Cardinality(Q)
    <3> HIDE DEF before
    <3> QED BY <1>3, <1>7, FS_Subset
  <2> QED BY <2>2, <2>3
<1>8. \A i \in TextIndices(k) : Generation(i) = nextGen + Cardinality(before(i))
  BY DEF Generation
<1> HIDE DEF before
<1> QED BY <1>2, <1>3, <1>4, <1>5, <1>6, <1>7, <1>8

\* Loading intervals keeps the transitions numbered.
LEMMA NewTransitionsNumbered ==
    ASSUME QueueTypeOK, nextGen \in Nat, Numbered(pending, nextGen),
           NEW k \in 1 .. Len(textQ) + 1
    PROVE  Numbered(pending \cup NewTransitions(k), nextGen + Cardinality(TextIndices(k)))
<1> DEFINE N == nextGen + Cardinality(TextIndices(k))
           new(i) == QueueText(Generation(i), textQ[i].start, textQ[i].end, textQ[i].text,
                               inputMode)
<1>1. Cardinality(TextIndices(k)) \in Nat
  BY GenerationsDistinct
<1>2. \A i \in TextIndices(k) : /\ textQ[i].start \in Nat /\ textQ[i].end \in Nat
                               /\ textQ[i].text \in AnyText
  BY DEF QueueTypeOK, TextIndices, LoadedIndices, Interval, Event, AnyText
<1>3. \A t \in NewTransitions(k) : \E i \in TextIndices(k) :
         /\ t \in new(i)
         /\ t.gen = Generation(i)
         /\ t.seq = IF t.kind = "expire" THEN 2 * t.gen + 1 ELSE 2 * t.gen
         /\ t.kind \in {"show", "clear", "expire"}
  <2>1. \A i \in TextIndices(k) : \A t \in new(i) :
         /\ t.gen = Generation(i)
         /\ t.seq = IF t.kind = "expire" THEN 2 * t.gen + 1 ELSE 2 * t.gen
         /\ t.kind \in {"show", "clear", "expire"}
    BY DEF QueueText
  <2> QED BY <2>1 DEF NewTransitions
<1>4. \A i \in TextIndices(k) : \A t \in new(i) :
         t \in Transition /\ (t.kind = "show" => t.text \in Texts)
  BY <1>2, GenerationsDistinct DEF QueueText, Transition, AnyText
<1>5. \A i \in TextIndices(k) : \A a, b \in new(i) : a.seq = b.seq => a = b
  BY GenerationsDistinct DEF QueueText
<1>6. \A a, b \in NewTransitions(k) : a.seq = b.seq => a = b
  <2> SUFFICES ASSUME NEW a \in NewTransitions(k), NEW b \in NewTransitions(k), a.seq = b.seq
               PROVE  a = b
    OBVIOUS
  <2>1. PICK i \in TextIndices(k) : a \in new(i) /\ a.gen = Generation(i)
    BY <1>3
  <2>2. PICK j \in TextIndices(k) : b \in new(j) /\ b.gen = Generation(j)
    BY <1>3
  <2>3. a.gen = b.gen
    <3>1. a.gen \in Nat /\ b.gen \in Nat
      BY <2>1, <2>2, GenerationsDistinct
    <3>2. /\ a.seq = IF a.kind = "expire" THEN 2 * a.gen + 1 ELSE 2 * a.gen
          /\ b.seq = IF b.kind = "expire" THEN 2 * b.gen + 1 ELSE 2 * b.gen
      BY <1>3
    <3>3. \A x, y \in Nat : /\ 2 * x + 1 # 2 * y
                            /\ 2 * x = 2 * y \/ 2 * x + 1 = 2 * y + 1 => x = y
      OBVIOUS
    <3>4. CASE a.kind = "expire" /\ b.kind # "expire"
      BY <3>1, <3>2, <3>3, <3>4
    <3>5. CASE a.kind # "expire" /\ b.kind = "expire"
      BY <3>1, <3>2, <3>3, <3>5
    <3>6. CASE a.kind = "expire" /\ b.kind = "expire"
      BY <3>1, <3>2, <3>3, <3>6
    <3>7. CASE a.kind # "expire" /\ b.kind # "expire"
      BY <3>1, <3>2, <3>3, <3>7
    <3> QED BY <3>4, <3>5, <3>6, <3>7
  <2>4. i = j
    <3>1. i \in Nat /\ j \in Nat
      <4>1. Len(textQ) \in Nat /\ TextIndices(k) \subseteq 1 .. Len(textQ)
        BY DEF TextIndices, LoadedIndices, QueueTypeOK
      <4> QED BY <4>1
    <3>2. /\ Generation(i) \in Nat
          /\ i < j => Generation(i) < Generation(j)
          /\ j < i => Generation(j) < Generation(i)
      BY GenerationsDistinct
    <3> HIDE DEF new
    <3> QED BY <2>1, <2>2, <2>3, <3>1, <3>2
  <2> HIDE DEF new
  <2> QED BY <1>5, <2>1, <2>2, <2>4
<1>7. \A a \in pending, b \in NewTransitions(k) : a.seq # b.seq
  <2>1. \A a \in pending : a.gen \in Nat /\ a.gen < nextGen /\ a.seq <= 2 * a.gen + 1
    BY DEF Numbered, Transition
  <2>2. \A b \in NewTransitions(k) : b.gen \in Nat /\ nextGen <= b.gen /\ 2 * b.gen <= b.seq
    <3> HIDE DEF new
    <3> QED BY <1>3, GenerationsDistinct
  <2>3. \A a \in pending, b \in NewTransitions(k) : a.seq \in Nat /\ b.seq \in Nat
    <3> HIDE DEF new
    <3> QED BY <1>3, <1>4 DEF Numbered, Transition
  <2> QED BY <2>1, <2>2, <2>3
<1>8. \A t \in NewTransitions(k) :
         /\ t \in Transition /\ t.gen < N
         /\ t.seq = IF t.kind = "expire" THEN 2 * t.gen + 1 ELSE 2 * t.gen
         /\ t.kind = "show" => t.text \in Texts
  <2> HIDE DEF new
  <2> QED BY <1>3, <1>4, GenerationsDistinct
<1>9. \A t \in pending : t.gen < N
  BY <1>1 DEF Numbered, Transition
<1> HIDE DEF N
<1>10. \A t \in pending \cup NewTransitions(k) :
         /\ t \in Transition /\ t.gen < N
         /\ t.seq = IF t.kind = "expire" THEN 2 * t.gen + 1 ELSE 2 * t.gen
         /\ t.kind = "show" => t.text \in Texts
  BY <1>8, <1>9 DEF Numbered
<1>11. \A a, b \in pending \cup NewTransitions(k) : a.seq = b.seq => a = b
  BY <1>6, <1>7 DEF Numbered
<1> QED BY <1>10, <1>11 DEF Numbered, N

\* What loading does to the variables it changes.
LEMMA LoadTextType ==
    ASSUME TypeInv, NEW k \in 1 .. Len(textQ) + 1, LoadText(k),
           \A j \in 1 .. k - 1 : BufferAt(j)
    PROVE  /\ textQ' \in Seq(Interval \cup Event)
           /\ loaded' \in BOOLEAN
           /\ consumedEnd' \in TimeOption
           /\ nextGen' \in Nat
           /\ cues' \subseteq Interval
           /\ LoadedAtHead'
           /\ Numbered(pending \cup NewTransitions(k), nextGen')
<1>1. QueueTypeOK /\ Len(textQ) \in Nat
  BY DEF TypeInv, TypeOK, QueueTypeOK
<1>2. \A i \in 1 .. Len(textQ) : BufferAt(i) => textQ[i] \in Interval /\ textQ[i].end \in Nat
  BY <1>1 DEF QueueTypeOK, BufferAt, TextBuffer, Interval, Event
<1>3. textQ' \in Seq(Interval \cup Event) /\ LoadedAtHead'
  BY <1>1, LoadTextKeepsHead DEF TypeInv, QueueTypeOK
<1>4. consumedEnd' \in TimeOption
  <2>1. CASE k = 1
    BY <2>1 DEF LoadText, TypeInv, TypeOK
  <2>2. CASE k # 1
    <3>1. k - 1 \in 1 .. Len(textQ) /\ BufferAt(k - 1)
      BY <1>1, <2>2
    <3> QED BY <1>2, <2>2, <3>1 DEF LoadText, TimeOption
  <2> QED BY <2>1, <2>2
<1>5. cues' \subseteq Interval
  BY <1>1, <1>2 DEF LoadText, LoadedIndices, TypeInv, TypeOK
<1>6. loaded' \in BOOLEAN
  BY DEF LoadText, BufferAt, LoadOk, TextBuffer
<1>7. nextGen' \in Nat /\ nextGen' = nextGen + Cardinality(TextIndices(k))
  BY <1>1, GenerationsDistinct DEF LoadText, TypeInv, TypeOK
<1> QED BY <1>1, <1>3, <1>4, <1>5, <1>6, <1>7, NewTransitionsNumbered DEF TypeInv, TypeOK

\* The type of everything TypeInv says, apart from the text queue and the
\* variables the loops share with it.
LEMMA PushType ==
    ASSUME TypeInv, NEW pushOk \in BOOLEAN, PushMedia(pushOk)
    PROVE  TypeInv'
<1> DEFINE time == Head(flvQ).at
           k == StopIndex(time)
           zero == IF origin = NoTime THEN time ELSE origin
           reachable == pending \cup NewTransitions(k)
           now == StampMs(zero, time)
           reached == Reached(zero, reachable, now)
           tags == DrainTags(zero, active, reachable, now)
           shown == ActiveAfter(zero, active, reached)
<1>1. time \in Nat /\ flvQ' \in Seq(Media \cup Event)
  <2>1. flvQ # <<>> /\ Head(flvQ).type = "media" /\ flvQ' = Tail(flvQ)
    BY DEF PushMedia, AdmissibleMedia, BufferAtHead
  <2>2. Head(flvQ) \in Media \cup Event /\ Tail(flvQ) \in Seq(Media \cup Event)
    BY <2>1 DEF TypeInv, TypeOK
  <2>3. Head(flvQ).at \in Nat
    BY <2>1, <2>2 DEF Media, Event
  <2> QED BY <2>1, <2>2, <2>3
<1>2. zero \in Nat /\ zero \in Int /\ now \in Nat
  <2> HIDE DEF time
  <2>1. zero \in Nat
    BY <1>1 DEF TypeInv, TypeOK, TimeOption
  <2>2. StampMs(zero, time) \in Nat
    <3> HIDE DEF zero
    <3>1. zero \in Int /\ time \in Nat
      BY <1>1, <2>1
    <3> QED BY Zenon, <3>1, StampType
  <2> QED BY <2>1, <2>2
<1>3. /\ k \in 1 .. Len(textQ) + 1 /\ LoadText(k)
      /\ \A j \in 1 .. k - 1 : BufferAt(j)
  <2>1. QueueTypeOK
    BY DEF TypeInv, TypeOK, QueueTypeOK
  <2>2. LoadText(k)
    BY DEF PushMedia
  <2> HIDE DEF time
  <2> QED BY <2>1, <2>2, StopIndexDefined DEF StopsAt
<1>4. Numbered(reachable, nextGen') /\ nextGen' \in Nat
  BY <1>3, LoadTextType
<1>5. reached \subseteq reachable
  BY DEF Reached
<1>6. shown \in Cue /\ shown.text \in AnyText
  <2>1. shown \in Cue
    <3>1. Numbered(reached, nextGen')
      <4> HIDE DEF reachable, reached
      <4> QED BY <1>4, <1>5, NumberedSubset
    <3> HIDE DEF reached, zero
    <3> QED BY <1>2, <1>4, <3>1, ActiveAfterType DEF TypeInv, TypeOK
  <2>2. \A c \in Cue : c.text \in AnyText
    BY DEF Cue, NoCue, AnyText
  <2> HIDE DEF shown
  <2> QED BY <2>1, <2>2
<1>7. tags \in SUBSET [stamp : Nat, text : AnyText]
  <2> HIDE DEF reachable, zero, now
  <2> QED BY <1>2, <1>4, DrainTagsType DEF TypeInv, TypeOK
<1>8. /\ origin' = zero /\ position' = now /\ lastMedia' = time
      /\ pending' = reachable \ reached
      /\ active' = shown
      /\ primed' = (primed \/ prime) /\ needsClear' = FALSE
      /\ flow' \in {"ok", "error"} /\ newText' = FALSE
      /\ UNCHANGED <<flvEos, textEos, inputMode, prime>>
      /\ Watch((prime /\ ~primed) \/ needsClear, tags, shown.text, pushOk)
      /\ out' = IF pushOk
                THEN [type |-> "media", at |-> time,
                      blank |-> (prime /\ ~primed) \/ needsClear, tags |-> tags]
                ELSE Nothing
  BY DEF PushMedia, settings
<1> HIDE DEF time, k, zero, now, reachable, reached, tags, shown
<1>9. out' \in Pushed
  <2>1. ((prime /\ ~primed) \/ needsClear) \in BOOLEAN
    BY DEF TypeInv, TypeOK
  <2> HIDE DEF TypeInv
  <2> QED BY <1>1, <1>7, <1>8, <2>1 DEF Pushed, Nothing
<1>10. screen' \in AnyText /\ orphan' \in BOOLEAN
  BY <1>6, <1>8 DEF Watch, TypeInv, TypeOK, AnyText
<1>11. Numbered(pending', nextGen') /\ pending' \subseteq Transition
  <2>1. Numbered(pending', nextGen')
    BY <1>4, <1>8, NumberedSubset
  <2> QED BY <2>1 DEF Numbered
<1>12. /\ textQ' \in Seq(Interval \cup Event) /\ loaded' \in BOOLEAN
       /\ consumedEnd' \in TimeOption /\ cues' \subseteq Interval /\ LoadedAtHead'
  BY <1>3, LoadTextType
<1>13. /\ primed' \in BOOLEAN /\ needsClear' \in BOOLEAN
       /\ flvEos' \in BOOLEAN /\ textEos' \in BOOLEAN
       /\ inputMode' \in {"timed", "replacement"} /\ prime' \in BOOLEAN
       /\ flow' \in {"ok", "error", "eos"} /\ newText' \in BOOLEAN
       /\ origin' \in TimeOption /\ lastMedia' \in TimeOption /\ position' \in Nat
       /\ active' \in Cue
  BY <1>1, <1>2, <1>6, <1>8 DEF TypeInv, TypeOK, TimeOption
<1> QED BY <1>1, <1>4, <1>9, <1>10, <1>11, <1>12, <1>13 DEF TypeInv, TypeOK

LEMMA FinishType ==
    ASSUME TypeInv, NEW pushOk \in BOOLEAN, Finish(pushOk)
    PROVE  TypeInv'
<1> DEFINE last == FinishIndex
           reachable == pending \cup NewTransitions(last)
           refused == BufferAt(last) /\ ~LoadOk(last)
           ended == last > Len(textQ) /\ textEos
           drained == ended /\ origin # NoTime
           tags == IF drained THEN DrainTags(origin, active, reachable, position) ELSE {}
           shown == IF drained
                    THEN ActiveAfter(origin, active, Reached(origin, reachable, position))
                    ELSE active
           sent == ended /\ (pushOk \/ tags = {})
<1>1. /\ last \in 1 .. Len(textQ) + 1 /\ LoadText(last)
      /\ \A j \in 1 .. last - 1 : BufferAt(j)
  <2>1. QueueTypeOK
    BY DEF TypeInv, TypeOK, QueueTypeOK
  <2> QED BY <2>1, FinishIndexDefined DEF Finish
<1>2. Numbered(reachable, nextGen') /\ nextGen' \in Nat
  BY <1>1, LoadTextType
<1>3. origin \in Int
  BY DEF TypeInv, TypeOK, TimeOption, NoTime
<1>4. shown \in Cue /\ shown.text \in AnyText
  <2>1. Numbered(Reached(origin, reachable, position), nextGen')
    <3>1. Reached(origin, reachable, position) \subseteq reachable
      BY DEF Reached
    <3> HIDE DEF reachable
    <3> QED BY <1>2, <3>1, NumberedSubset
  <2>2. shown \in Cue
    <3> HIDE DEF reachable, drained
    <3> QED BY <1>2, <1>3, <2>1, ActiveAfterType DEF TypeInv, TypeOK
  <2>3. \A c \in Cue : c.text \in AnyText
    BY DEF Cue, NoCue, AnyText
  <2> HIDE DEF shown
  <2> QED BY <2>2, <2>3
<1>5. tags \in SUBSET [stamp : Nat, text : AnyText]
  <2> HIDE DEF reachable, drained
  <2> QED BY <1>2, <1>3, DrainTagsType DEF TypeInv, TypeOK
<1>6. /\ pending' = IF ended THEN {} ELSE reachable
      /\ active' = shown
      /\ flow' \in {"ok", "error", "eos"}
      /\ UNCHANGED <<flvQ, flvEos, textEos, inputMode, prime, origin, position, lastMedia,
                     primed, needsClear, newText>>
      /\ Watch(FALSE, tags, shown.text, sent)
      /\ out' = IF sent
                THEN [type |-> "final", at |-> 0, blank |-> FALSE, tags |-> tags]
                ELSE Nothing
  BY DEF Finish, settings
<1> HIDE DEF last, reachable, refused, ended, drained, tags, shown, sent
<1>7. out' \in Pushed
  <2> HIDE DEF TypeInv
  <2> QED BY <1>5, <1>6 DEF Pushed, Nothing
<1>8. screen' \in AnyText /\ orphan' \in BOOLEAN
  BY <1>4, <1>6 DEF Watch, TypeInv, TypeOK, AnyText
<1>9. Numbered(pending', nextGen') /\ pending' \subseteq Transition
  <2>1. Numbered(pending', nextGen')
    BY <1>2, <1>6, NumberedSubset
  <2> QED BY <2>1 DEF Numbered
<1>10. /\ textQ' \in Seq(Interval \cup Event) /\ loaded' \in BOOLEAN
       /\ consumedEnd' \in TimeOption /\ cues' \subseteq Interval /\ LoadedAtHead'
  BY <1>1, LoadTextType
<1> QED BY <1>2, <1>4, <1>6, <1>7, <1>8, <1>9, <1>10 DEF TypeInv, TypeOK

LEMMA WaitOrRefuseType ==
    ASSUME TypeInv, AwaitText \/ RefuseText
    PROVE  TypeInv'
<1> DEFINE k == StopIndex(Head(flvQ).at)
<1>1. LoadText(k) /\ pending' = pending \cup NewTransitions(k)
  BY DEF AwaitText, RefuseText
<1>2. k \in 1 .. Len(textQ) + 1 /\ \A j \in 1 .. k - 1 : BufferAt(j)
  <2>1. QueueTypeOK
    BY DEF TypeInv, TypeOK, QueueTypeOK
  <2> QED BY <2>1, StopIndexDefined DEF StopsAt
<1> HIDE DEF k
<1>3. Numbered(pending', nextGen') /\ nextGen' \in Nat /\ pending' \subseteq Transition
  BY <1>1, <1>2, LoadTextType DEF Numbered
<1>4. /\ textQ' \in Seq(Interval \cup Event) /\ loaded' \in BOOLEAN
      /\ consumedEnd' \in TimeOption /\ cues' \subseteq Interval /\ LoadedAtHead'
  BY <1>1, <1>2, LoadTextType
<1>5. out' \in Pushed
  <2>1. out' = Nothing
    BY DEF AwaitText, RefuseText
  <2> QED BY <2>1 DEF Pushed, Nothing
<1>6. /\ UNCHANGED <<flvQ, flvEos, textEos, inputMode, prime, origin, position, lastMedia,
                     active, primed, needsClear, screen, orphan, newText>>
      /\ flow' \in {"ok", "error", "eos"}
  BY DEF AwaitText, RefuseText, settings, TypeInv, TypeOK
<1> QED BY <1>3, <1>4, <1>5, <1>6 DEF TypeInv, TypeOK

LEMMA TypeStep == TypeInv /\ [Next]_vars => TypeInv'
<1> SUFFICES ASSUME TypeInv, [Next]_vars PROVE TypeInv'
  OBVIOUS
<1>1. Nothing \in Pushed /\ [Nothing EXCEPT !.type = "header"] \in Pushed
  BY DEF Nothing, Pushed
<1>2. ASSUME NEW item \in TextItems, TextArrives(item) PROVE TypeInv'
  <2>1. item \in Interval \cup Event
    BY DEF TextItems, Interval, Event, Time, AnyText
  <2>2. textQ' \in Seq(Interval \cup Event) /\ Len(textQ') = Len(textQ) + 1
        /\ \A i \in 1 .. Len(textQ) : textQ'[i] = textQ[i]
    BY <1>2, <2>1 DEF TextArrives, TypeInv, TypeOK
  <2>3. LoadedAtHead'
    BY <1>2, <2>2 DEF TextArrives, TypeInv, TypeOK, LoadedAtHead, BufferAt, stateVars, observed
  <2>4. Numbered(pending, nextGen)' /\ out' \in Pushed
    BY <1>1, <1>2 DEF TextArrives, TypeInv, Numbered, stateVars, captionVars
  <2> QED BY <1>2, <2>2, <2>3, <2>4
          DEF TextArrives, TypeInv, TypeOK, settings, stateVars, captionVars, observed
<1>3. ASSUME NEW item \in MediaItems, MediaArrives(item) PROVE TypeInv'
  <2>1. item \in Media \cup Event
    BY DEF MediaItems, Media, Event, Time
  <2>2. flvQ' \in Seq(Media \cup Event)
    BY <1>3, <2>1 DEF MediaArrives, TypeInv, TypeOK
  <2> QED BY <1>1, <1>3, <2>2 DEF MediaArrives, TypeInv, TypeOK, LoadedAtHead, BufferAt,
             Numbered, settings, stateVars, captionVars, observed
<1>4. ASSUME NEW pushOk \in BOOLEAN, ForwardHeader(pushOk) PROVE TypeInv'
  <2>1. flvQ' \in Seq(Media \cup Event) /\ out' \in Pushed /\ flow' \in {"ok", "error", "eos"}
    BY <1>1, <1>4 DEF ForwardHeader, BufferAtHead, TypeInv, TypeOK
  <2> QED BY <1>4, <2>1 DEF ForwardHeader, TypeInv, TypeOK, LoadedAtHead, BufferAt,
             Numbered, settings, stateVars, captionVars, observed
<1>5. ASSUME RefuseMedia PROVE TypeInv'
  BY <1>1, <1>5 DEF RefuseMedia, TypeInv, TypeOK, LoadedAtHead, BufferAt, Numbered,
     padVars, settings, stateVars, captionVars, observed
<1>6. ASSUME FlvEosEvent PROVE TypeInv'
  <2>1. flvQ' \in Seq(Media \cup Event)
    BY <1>6 DEF FlvEosEvent, BufferAtHead, TypeInv, TypeOK
  <2> QED BY <1>1, <1>6, <2>1 DEF FlvEosEvent, TypeInv, TypeOK, LoadedAtHead, BufferAt,
             Numbered, settings, stateVars, captionVars, observed
<1>7. ASSUME TextEosEvent PROVE TypeInv'
  <2>1. ~loaded
    BY <1>7 DEF TextEosEvent, BufferAtHead, TypeInv, LoadedAtHead, BufferAt, TextBuffer
  <2>2. textQ' \in Seq(Interval \cup Event)
    BY <1>7 DEF TextEosEvent, BufferAtHead, TypeInv, TypeOK
  <2> QED BY <1>1, <1>7, <2>1, <2>2 DEF TextEosEvent, TypeInv, TypeOK, LoadedAtHead,
             Numbered, settings, stateVars, captionVars, observed
<1>8. ASSUME TextSegment PROVE TypeInv'
  <2>1. textQ' \in Seq(Interval \cup Event)
    BY <1>8 DEF TextSegment, BufferAtHead, TypeInv, TypeOK
  <2>2. NoCue \in Cue /\ needsClear' \in BOOLEAN /\ orphan' \in BOOLEAN
    BY <1>8 DEF TextSegment, TypeInv, TypeOK, Cue
  <2> QED BY <1>1, <1>8, <2>1, <2>2 DEF TextSegment, ResetTimeline, TypeInv, TypeOK,
             LoadedAtHead, Numbered, settings, TimeOption
<1>9. ASSUME FlvSegment PROVE TypeInv'
  <2>1. flvQ' \in Seq(Media \cup Event) /\ NoCue \in Cue /\ orphan' \in BOOLEAN
    BY <1>9 DEF FlvSegment, BufferAtHead, TypeInv, TypeOK, Cue
  <2> QED BY <1>1, <1>9, <2>1 DEF FlvSegment, ResetRuntime, TypeInv, TypeOK,
             LoadedAtHead, Numbered, settings, TimeOption
<1>10. ASSUME Flush \/ ReadyToPaused PROVE TypeInv'
  <2>1. NoCue \in Cue /\ Blank \in AnyText
    BY DEF Cue, AnyText
  <2>2. ResetRuntime /\ flvQ' = <<>> /\ textQ' = <<>> /\ flow' = "ok" /\ cues' = {}
        /\ ~flvEos' /\ flvEos' \in BOOLEAN /\ ~textEos' /\ textEos' \in BOOLEAN
        /\ out' = Nothing /\ newText' \in BOOLEAN
    BY <1>10 DEF Flush, ReadyToPaused
  <2>3. /\ screen' \in AnyText /\ orphan' \in BOOLEAN
        /\ inputMode' \in {"timed", "replacement"} /\ prime' \in BOOLEAN
    BY <1>10, <2>1 DEF Flush, ReadyToPaused, settings, TypeInv, TypeOK
  <2>4. <<>> \in Seq(Media \cup Event) /\ <<>> \in Seq(Interval \cup Event)
    OBVIOUS
  <2>5. Numbered(pending, nextGen)' /\ LoadedAtHead'
    BY <2>2 DEF ResetRuntime, Numbered, LoadedAtHead
  <2>6. /\ flvQ' \in Seq(Media \cup Event) /\ textQ' \in Seq(Interval \cup Event)
        /\ cues' \subseteq Interval /\ pending' \subseteq Transition
        /\ flow' \in {"ok", "error", "eos"} /\ out' \in Pushed
    BY <1>1, <2>2, <2>4 DEF ResetRuntime
  <2>7. /\ origin' \in TimeOption /\ position' \in Nat /\ lastMedia' \in TimeOption
        /\ loaded' \in BOOLEAN /\ consumedEnd' \in TimeOption /\ nextGen' \in Nat
        /\ active' \in Cue /\ primed' \in BOOLEAN /\ needsClear' \in BOOLEAN
    BY <2>1, <2>2 DEF ResetRuntime, TimeOption
  <2> QED BY <2>2, <2>3, <2>5, <2>6, <2>7 DEF TypeInv, TypeOK
<1>11. CASE UNCHANGED vars
  BY <1>11 DEF vars, TypeInv, TypeOK, LoadedAtHead, BufferAt, Numbered,
     padVars, settings, stateVars, captionVars, observed
<1> QED BY <1>2, <1>3, <1>4, <1>5, <1>6, <1>7, <1>8, <1>9, <1>10, <1>11,
           PushType, FinishType, WaitOrRefuseType
        DEF Next, Upstream, Aggregate, SinkEvent

\* Whatever upstream sends and whatever aggregate returns, every variable keeps
\* its type.  What is behind it: the text loops stop, generations are never
\* handed out twice, and a cue shown always has a text (caption.rs, queue_text
\* and drain_ready_ms).
THEOREM TypeCorrect == Spec => []TypeOK
<1>1. Init => TypeInv
  <2> SUFFICES ASSUME Init PROVE TypeInv
    OBVIOUS
  <2>1. flvQ \in Seq(Media \cup Event) /\ textQ \in Seq(Interval \cup Event)
    BY DEF Init
  <2>2. /\ out \in Pushed /\ active \in Cue /\ screen \in AnyText
        /\ cues \subseteq Interval /\ pending \subseteq Transition
    BY DEF Init, Pushed, Nothing, Cue, AnyText
  <2>3. Numbered(pending, nextGen) /\ LoadedAtHead
    BY DEF Init, Numbered, LoadedAtHead
  <2> QED BY <2>1, <2>2, <2>3 DEF Init, TypeInv, TypeOK, TimeOption
<1>2. TypeInv => TypeOK
  BY DEF TypeInv
<1> QED BY <1>1, <1>2, TypeStep, PTL DEF Spec

-----------------------------------------------------------------------------
\* The caption timeline.

\* A scheduled transition comes from a loaded text, and shows no other.
FromCue(t, C) ==
    \E c \in C : /\ c.type = "text"
                 /\ t.at = (IF t.kind = "expire" THEN c.end ELSE c.start)
                 /\ t.kind = "show" => t.text = c.text
ShowsCue(cue, C) == cue # NoCue => \E c \in C : c.text = cue.text

LeakInv == (\A t \in pending : FromCue(t, cues)) /\ ShowsCue(active, cues)

\* What upstream has queued: no interval ends before it starts, and nothing
\* follows an EOS.
QueueOrdered ==
    \A i \in 1 .. Len(textQ) :
        /\ TextBuffer(textQ[i]) => textQ[i].start <= textQ[i].end
        /\ textQ[i].type = "eos" => i = Len(textQ)

\* The intervals of C follow each other without a hole up to f.
TiledTo(C, f) ==
    /\ \A a, b \in C : a = b \/ a.end <= b.start \/ b.end <= a.start
    /\ \A a \in C : /\ a.start <= a.end /\ a.end <= f
                    /\ a.end = f \/ \E b \in C \ {a} : b.start = a.end

TiledInv == QueueOrdered /\ TiledTo(cues, TextFrontier)

\* The timeline has passed the last media buffer, and no scheduled transition
\* lies before it.
AheadOfMedia ==
    lastMedia # NoTime /\ ~newText =>
        /\ origin # NoTime /\ position = StampMs(origin, lastMedia)
        /\ textEos \/ TextFrontier > lastMedia
        /\ \A t \in pending : position <= StampMs(origin, t.at)

AheadInv == (textEos => textQ = <<>>) /\ AheadOfMedia

\* The running time of the media at the head, the origin it is sent with, and
\* the transitions known once the text it needs is loaded.
MediaTime == Head(flvQ).at
Zero == IF origin = NoTime THEN MediaTime ELSE origin
Reachable == pending \cup NewTransitions(StopIndex(MediaTime))

-----------------------------------------------------------------------------
\* Nothing of an old timeline survives.

\* The transitions a loading loop schedules belong to intervals it loads.
LEMMA LoadTextFromCues ==
    ASSUME NEW k, LoadText(k), \A t \in pending : FromCue(t, cues)
    PROVE  \A t \in pending \cup NewTransitions(k) : FromCue(t, cues')
<1>1. cues \subseteq cues' /\ \A i \in LoadedIndices(k) : textQ[i] \in cues'
  BY DEF LoadText
<1>2. ASSUME NEW t \in NewTransitions(k) PROVE FromCue(t, cues')
  <2>1. PICK i \in TextIndices(k) :
           t \in QueueText(Generation(i), textQ[i].start, textQ[i].end, textQ[i].text, inputMode)
    BY DEF NewTransitions
  <2>2. textQ[i] \in cues' /\ textQ[i].type = "text"
    BY <1>1 DEF TextIndices
  <2>3. /\ t.at = (IF t.kind = "expire" THEN textQ[i].end ELSE textQ[i].start)
        /\ t.kind = "show" => t.text = textQ[i].text
    BY <2>1 DEF QueueText
  <2> QED BY <2>2, <2>3 DEF FromCue
<1>3. ASSUME NEW t \in pending PROVE FromCue(t, cues')
  BY <1>1 DEF FromCue
<1> QED BY <1>2, <1>3

\* The cue on screen after transitions of loaded cues is a loaded cue.
LEMMA ActiveFromCues ==
    ASSUME NEW S, NEW n \in Nat, Numbered(S, n), NEW zero \in Int, NEW C,
           \A t \in S : FromCue(t, C), NEW cue, ShowsCue(cue, C)
    PROVE  ShowsCue(ActiveAfter(zero, cue, S), C)
<1> DEFINE setters == {a \in S : a.kind # "expire"}
           last == CHOOSE a \in setters : \A b \in setters \ {a} : Precedes(zero, b, a)
           base == IF setters = {} THEN cue
                   ELSE IF last.kind = "show" THEN [gen |-> last.gen, text |-> last.text]
                   ELSE NoCue
<1>1. setters # {} => last \in setters
  BY LastSetter
<1>2. ASSUME setters # {}, last.kind = "show"
      PROVE  ShowsCue([gen |-> last.gen, text |-> last.text], C)
  <2>1. FromCue(last, C)
    BY <1>1, <1>2
  <2> HIDE DEF setters, last
  <2> QED BY <1>2, <2>1 DEF FromCue, ShowsCue
<1>3. ShowsCue(NoCue, C)
  BY DEF ShowsCue
<1>4. ShowsCue(base, C)
  <2> HIDE DEF setters, last
  <2> QED BY <1>2, <1>3
<1>5. ActiveAfter(zero, cue, S)
        = IF \E a \in S : a.kind = "expire" /\ a.gen = base.gen THEN NoCue ELSE base
  BY DEF ActiveAfter
<1> HIDE DEF base
<1> QED BY <1>3, <1>4, <1>5

LEMMA ShowsCueMonotone ==
    ASSUME NEW cue, NEW C, NEW D, C \subseteq D, ShowsCue(cue, C)
    PROVE  ShowsCue(cue, D)
  BY DEF ShowsCue

LEMMA LeakPush ==
    ASSUME TypeInv, LeakInv, NEW pushOk \in BOOLEAN, PushMedia(pushOk)
    PROVE  LeakInv'
<1> DEFINE time == Head(flvQ).at
           k == StopIndex(time)
           zero == IF origin = NoTime THEN time ELSE origin
           reachable == pending \cup NewTransitions(k)
           reached == Reached(zero, reachable, StampMs(zero, time))
<1>1. /\ k \in 1 .. Len(textQ) + 1 /\ LoadText(k)
      /\ \A j \in 1 .. k - 1 : BufferAt(j)
  <2>1. QueueTypeOK
    BY DEF TypeInv, TypeOK, QueueTypeOK
  <2>2. LoadText(k)
    BY DEF PushMedia
  <2> HIDE DEF time
  <2> QED BY <2>1, <2>2, StopIndexDefined DEF StopsAt
<1>2. zero \in Int
  <2>1. flvQ # <<>> /\ Head(flvQ) \in Media \cup Event /\ Head(flvQ).type = "media"
    BY DEF PushMedia, AdmissibleMedia, BufferAtHead, TypeInv, TypeOK
  <2>2. time \in Nat
    BY <2>1 DEF Media, Event
  <2> QED BY <2>2 DEF TypeInv, TypeOK, TimeOption, NoTime
<1>3. pending' = reachable \ reached /\ active' = ActiveAfter(zero, active, reached)
  BY DEF PushMedia
<1>4. reached \subseteq reachable
  BY DEF Reached
<1> HIDE DEF time, k, zero, reached
<1>5. \A t \in reachable : FromCue(t, cues')
  BY <1>1, LoadTextFromCues DEF LeakInv
<1>6. Numbered(reachable, nextGen') /\ nextGen' \in Nat
  BY <1>1, LoadTextType
<1> HIDE DEF reachable
<1>7. Numbered(reached, nextGen') /\ \A t \in reached : FromCue(t, cues')
  BY <1>4, <1>5, <1>6, NumberedSubset
<1>8. ShowsCue(active, cues')
  BY <1>1, ShowsCueMonotone DEF LoadText, LeakInv
<1>9. ShowsCue(active', cues')
  BY <1>2, <1>3, <1>6, <1>7, <1>8, ActiveFromCues
<1> QED BY <1>3, <1>5, <1>9 DEF LeakInv

LEMMA LeakFinish ==
    ASSUME TypeInv, LeakInv, NEW pushOk \in BOOLEAN, Finish(pushOk)
    PROVE  LeakInv'
<1> DEFINE last == FinishIndex
           reachable == pending \cup NewTransitions(last)
           reached == Reached(origin, reachable, position)
<1>1. /\ last \in 1 .. Len(textQ) + 1 /\ LoadText(last)
      /\ \A j \in 1 .. last - 1 : BufferAt(j)
  <2>1. QueueTypeOK
    BY DEF TypeInv, TypeOK, QueueTypeOK
  <2> QED BY <2>1, FinishIndexDefined DEF Finish
<1>2. origin \in Int
  BY DEF TypeInv, TypeOK, TimeOption, NoTime
<1>3. /\ pending' = {} \/ pending' = reachable
      /\ active' = active \/ active' = ActiveAfter(origin, active, reached)
  BY DEF Finish
<1>4. reached \subseteq reachable
  BY DEF Reached
<1> HIDE DEF last, reached
<1>5. \A t \in reachable : FromCue(t, cues')
  BY <1>1, LoadTextFromCues DEF LeakInv
<1>6. Numbered(reachable, nextGen') /\ nextGen' \in Nat
  BY <1>1, LoadTextType
<1> HIDE DEF reachable
<1>7. Numbered(reached, nextGen') /\ \A t \in reached : FromCue(t, cues')
  BY <1>4, <1>5, <1>6, NumberedSubset
<1>8. ShowsCue(active, cues')
  BY <1>1, ShowsCueMonotone DEF LoadText, LeakInv
<1>9. ShowsCue(ActiveAfter(origin, active, reached), cues')
  BY <1>2, <1>6, <1>7, <1>8, ActiveFromCues
<1> QED BY <1>3, <1>5, <1>8, <1>9 DEF LeakInv

LEMMA LeakStep == TypeInv /\ LeakInv /\ [Next]_vars => LeakInv'
<1> SUFFICES ASSUME TypeInv, LeakInv, [Next]_vars PROVE LeakInv'
  OBVIOUS
<1>1. CASE AwaitText \/ RefuseText
  <2>1. PICK k : LoadText(k) /\ pending' = pending \cup NewTransitions(k) /\ active' = active
    BY <1>1 DEF AwaitText, RefuseText
  <2>2. ShowsCue(active', cues')
    BY <2>1, ShowsCueMonotone DEF LoadText, LeakInv
  <2> QED BY <2>1, <2>2, LoadTextFromCues DEF LeakInv
<1>2. ASSUME pending' = {}, active' = NoCue PROVE LeakInv'
  BY <1>2 DEF LeakInv, ShowsCue
<1>3. CASE FlvSegment \/ TextSegment \/ Flush \/ ReadyToPaused
  BY <1>2, <1>3 DEF FlvSegment, TextSegment, Flush, ReadyToPaused, ResetRuntime, ResetTimeline
<1>4. ASSUME UNCHANGED <<pending, active, cues>> PROVE LeakInv'
  BY <1>4 DEF LeakInv
<1>5. CASE \/ \E item \in TextItems : TextArrives(item)
           \/ \E item \in MediaItems : MediaArrives(item)
           \/ \E pushOk \in BOOLEAN : ForwardHeader(pushOk)
           \/ RefuseMedia \/ FlvEosEvent \/ TextEosEvent \/ UNCHANGED vars
  BY <1>4, <1>5 DEF TextArrives, MediaArrives, ForwardHeader, RefuseMedia, FlvEosEvent,
     TextEosEvent, vars, stateVars, captionVars, observed
<1> QED BY <1>1, <1>3, <1>5, LeakPush, LeakFinish DEF Next, Upstream, Aggregate, SinkEvent

\* The initial state, and that types are kept, for the theorems below.
LEMMA TypeInit == Init => TypeInv
<1> SUFFICES ASSUME Init PROVE TypeInv
  OBVIOUS
<1>1. flvQ \in Seq(Media \cup Event) /\ textQ \in Seq(Interval \cup Event)
  BY DEF Init
<1>2. /\ out \in Pushed /\ active \in Cue /\ screen \in AnyText
      /\ cues \subseteq Interval /\ pending \subseteq Transition
  BY DEF Init, Pushed, Nothing, Cue, AnyText
<1>3. Numbered(pending, nextGen) /\ LoadedAtHead
  BY DEF Init, Numbered, LoadedAtHead
<1> QED BY <1>1, <1>2, <1>3 DEF Init, TypeInv, TypeOK, TimeOption

\* A text segment, a media segment, a flush and a restart leave no transition
\* and no cue of the timeline they end: whatever is scheduled or on screen is
\* an interval loaded since (reset_timeline, reset_runtime).
THEOREM NothingOldLeaks == Spec => []NothingLeaks
<1>1. Init => LeakInv
  BY DEF Init, LeakInv, ShowsCue
<1>2. LeakInv => NothingLeaks
  BY DEF LeakInv, NothingLeaks, FromCue, ShowsCue
<1> QED BY <1>1, <1>2, TypeInit, TypeStep, LeakStep, PTL DEF Spec

-----------------------------------------------------------------------------
\* The loaded intervals tile the time they cover.

LEMMA AddTile ==
    ASSUME NEW C \in SUBSET Interval, NEW f \in TimeOption, TiledTo(C, f),
           NEW item \in Interval, item.start <= item.end, f = NoTime \/ item.start = f
    PROVE  TiledTo(C \cup {item}, item.end)
<1>1. \A a \in C \cup {item} : a.start \in Nat /\ a.end \in Nat
  BY DEF Interval
<1>2. \A a \in C : a.end <= item.start
  BY <1>1 DEF TiledTo, TimeOption, NoTime
<1>3. \A a, b \in C \cup {item} : a = b \/ a.end <= b.start \/ b.end <= a.start
  BY <1>2 DEF TiledTo
<1>4. \A a \in C \cup {item} : a.start <= a.end /\ a.end <= item.end
  BY <1>1, <1>2 DEF TiledTo
<1>5. ASSUME NEW a \in C \cup {item}
      PROVE  a.end = item.end \/ \E b \in (C \cup {item}) \ {a} : b.start = a.end
  <2>1. CASE a = item
    BY <2>1
  <2>2. CASE a # item /\ a.end = f
    <3>1. item.start = f
      BY <1>1, <2>2 DEF NoTime
    <3> QED BY <2>2, <3>1
  <2>3. CASE a # item /\ a.end # f
    BY <2>3 DEF TiledTo
  <2> QED BY <2>1, <2>2, <2>3
<1> QED BY <1>3, <1>4, <1>5 DEF TiledTo

LEMMA FrontierType ==
    ASSUME TypeInv
    PROVE  /\ TextFrontier \in TimeOption
           /\ loaded => TextFrontier = textQ[1].end
           /\ ~loaded => TextFrontier = consumedEnd
<1>1. CASE loaded
  <2>1. textQ \in Seq(Interval \cup Event) /\ 1 <= Len(textQ) /\ TextBuffer(textQ[1])
    BY <1>1 DEF TypeInv, TypeOK, LoadedAtHead, BufferAt
  <2>2. Head(textQ) = textQ[1] /\ textQ[1] \in Interval \cup Event
    BY <2>1
  <2>3. textQ[1].end \in Nat
    BY <2>1, <2>2 DEF TextBuffer, Interval, Event
  <2> QED BY <1>1, <2>2, <2>3 DEF TextFrontier, TimeOption
<1>2. CASE ~loaded
  BY <1>2 DEF TextFrontier, TypeInv, TypeOK
<1> QED BY <1>1, <1>2

\* Loading intervals extends the tiling at its end, one interval at a time.
LEMMA LoadTextTiles ==
    ASSUME TypeInv, TiledInv, NEW k \in 1 .. Len(textQ) + 1, LoadText(k),
           \A j \in 1 .. k - 1 : BufferAt(j) /\ LoadOk(j)
    PROVE  /\ TiledTo(cues', TextFrontier')
           /\ TextFrontier <= TextFrontier'
           /\ \A i \in LoadedIndices(k) : TextFrontier <= textQ[i].start
<1> DEFINE stays == BufferAt(k) /\ LoadOk(k)
           s == IF loaded THEN 2 ELSE 1
           m == IF stays THEN k + 1 ELSE k
           Seen(i) == cues \cup {textQ[j] : j \in {l \in LoadedIndices(k) : l < i}}
           Edge(i) == IF i = 1 THEN consumedEnd ELSE textQ[i - 1].end
           T == {i \in Nat : s <= i /\ i <= m => TiledTo(Seen(i), Edge(i))
                                                 /\ TextFrontier <= Edge(i)}
<1>1. textQ \in Seq(Interval \cup Event) /\ Len(textQ) \in Nat /\ k \in Nat /\ 1 <= k
  BY DEF TypeInv, TypeOK
<1>2. \A i \in 1 .. Len(textQ) : BufferAt(i) =>
         textQ[i] \in Interval /\ textQ[i].start \in Nat /\ textQ[i].end \in Nat
  BY <1>1 DEF BufferAt, TextBuffer, Interval, Event
<1>3. loaded => BufferAt(1) /\ LoadOk(1)
  BY DEF TypeInv, LoadedAtHead, LoadOk
<1>4. TextFrontier \in TimeOption
  BY FrontierType
<1>5. s \in Nat /\ m \in Nat /\ 1 <= s /\ s <= m
  BY <1>1, <1>3
<1>6. TiledTo(cues, TextFrontier) /\ TextFrontier = Edge(s)
  <2>1. TextFrontier = Edge(s)
    BY FrontierType
  <2> QED BY <2>1 DEF TiledInv
<1>7. ASSUME NEW i \in Nat, s <= i, i < m
      PROVE  i \in LoadedIndices(k) /\ i \in 1 .. Len(textQ) /\ i <= k
  <2>1. i \in 1 .. k /\ ~(i = 1 /\ loaded)
    BY <1>1, <1>7
  <2>2. BufferAt(i) /\ LoadOk(i)
    BY <1>1, <1>7, <2>1
  <2>3. i <= Len(textQ)
    BY <2>2 DEF BufferAt
  <2> QED BY <1>1, <2>1, <2>2, <2>3 DEF LoadedIndices
<1>8. \A i \in LoadedIndices(k) : i \in Nat /\ s <= i /\ i < m
  <2>1. \A i \in LoadedIndices(k) : i \in 1 .. Len(textQ) /\ i <= k /\ ~(i = 1 /\ loaded)
                                    /\ BufferAt(i) /\ LoadOk(i)
    BY DEF LoadedIndices
  <2> QED BY <1>1, <2>1
<1>9. Seen(s) = cues /\ Seen(m) = cues'
  <2>1. {l \in LoadedIndices(k) : l < s} = {} /\ {l \in LoadedIndices(k) : l < m} = LoadedIndices(k)
    BY <1>5, <1>8
  <2> QED BY <2>1 DEF LoadText
<1>10. ASSUME NEW i \in Nat, s <= i, i < m, TiledTo(Seen(i), Edge(i)), TextFrontier <= Edge(i)
       PROVE  /\ TiledTo(Seen(i + 1), Edge(i + 1))
              /\ TextFrontier <= Edge(i + 1)
              /\ TextFrontier <= textQ[i].start
  <2>1. i \in LoadedIndices(k) /\ i \in 1 .. Len(textQ) /\ i <= k
    BY <1>7, <1>10
  <2>2. BufferAt(i) /\ LoadOk(i) /\ ~(i = 1 /\ loaded)
    BY <2>1 DEF LoadedIndices
  <2>3. textQ[i] \in Interval /\ textQ[i].start \in Nat /\ textQ[i].end \in Nat
        /\ textQ[i].start <= textQ[i].end
    BY <1>2, <2>1, <2>2 DEF TiledInv, QueueOrdered, BufferAt
  <2>4. Edge(i) = NoTime \/ textQ[i].start = Edge(i)
    BY <2>2 DEF LoadOk, StartOk
  <2>5. Edge(i) \in TimeOption
    <3>1. CASE i = 1
      BY <3>1 DEF TypeInv, TypeOK
    <3>2. CASE i # 1
      <4>1. i - 1 \in 1 .. k - 1 /\ i - 1 \in 1 .. Len(textQ)
        BY <1>1, <2>1, <3>2
      <4>2. textQ[i - 1].end \in Nat
        BY <1>2, <4>1
      <4> QED BY <3>2, <4>2 DEF TimeOption
    <3> QED BY <3>1, <3>2
  <2>6. Seen(i) \in SUBSET Interval
    <3>1. \A j \in LoadedIndices(k) : textQ[j] \in Interval
      BY <1>2 DEF LoadedIndices
    <3> QED BY <3>1 DEF TypeInv, TypeOK
  <2>7. Seen(i + 1) = Seen(i) \cup {textQ[i]}
    <3>1. {l \in LoadedIndices(k) : l < i + 1} = {l \in LoadedIndices(k) : l < i} \cup {i}
      <4>1. \A l \in LoadedIndices(k) : l \in Nat /\ (l < i + 1 <=> l < i \/ l = i)
        BY <1>8
      <4> QED BY <2>1, <4>1
    <3> DEFINE before == {l \in LoadedIndices(k) : l < i}
    <3>2. {textQ[j] : j \in before \cup {i}} = {textQ[j] : j \in before} \cup {textQ[i]}
      <4> HIDE DEF before
      <4> QED OBVIOUS
    <3> QED BY <3>1, <3>2
  <2>8. Edge(i + 1) = textQ[i].end
    BY <1>5, <1>10
  <2>9. TextFrontier <= textQ[i].start
    BY <1>4, <1>10, <2>3, <2>4 DEF TimeOption, NoTime
  <2>10. TextFrontier <= textQ[i].end
    BY <1>4, <2>3, <2>9 DEF TimeOption, NoTime
  <2> HIDE DEF Seen, Edge
  <2>11. TiledTo(Seen(i) \cup {textQ[i]}, textQ[i].end)
    BY <1>10, <2>3, <2>4, <2>5, <2>6, AddTile
  <2> QED BY <2>7, <2>8, <2>9, <2>10, <2>11
<1>11. T = Nat
  <2>1. 0 \in T
    BY <1>5
  <2>2. ASSUME NEW i \in T PROVE i + 1 \in T
    <3> SUFFICES ASSUME s <= i + 1, i + 1 <= m
                 PROVE  TiledTo(Seen(i + 1), Edge(i + 1)) /\ TextFrontier <= Edge(i + 1)
      BY <2>2
    <3>1. CASE i + 1 = s
      <4>1. TextFrontier <= TextFrontier
        BY <1>4 DEF TimeOption, NoTime
      <4> HIDE DEF Seen, Edge, s, m
      <4> QED BY <1>6, <1>9, <3>1, <4>1
    <3>2. CASE i + 1 # s
      <4>1. i \in Nat /\ s <= i /\ i < m
        BY <1>5, <2>2, <3>2
      <4>2. TiledTo(Seen(i), Edge(i)) /\ TextFrontier <= Edge(i)
        BY <1>5, <2>2, <4>1
      <4> HIDE DEF Seen, Edge, s, m, T
      <4> QED BY <1>10, <4>1, <4>2
    <3> QED BY <3>1, <3>2
  <2> HIDE DEF T
  <2>3. T \in SUBSET Nat
    BY DEF T
  <2> QED BY <2>1, <2>2, <2>3, NatInductionSet
<1>12. \A i \in Nat : s <= i /\ i <= m => TiledTo(Seen(i), Edge(i)) /\ TextFrontier <= Edge(i)
  BY <1>11
<1>13. TextFrontier' = Edge(m)
  <2>1. CASE stays
    <3>1. k <= Len(textQ) /\ loaded'
      BY <2>1 DEF BufferAt, LoadText
    <3>2. textQ' = SubSeq(textQ, k, Len(textQ))
      BY DEF LoadText
    <3>3. Head(textQ') = textQ[k]
      BY <1>1, <3>1, <3>2
    <3>4. TextFrontier' = textQ[k].end
      BY <3>1, <3>3 DEF TextFrontier
    <3>5. Edge(m) = textQ[k].end
      BY <1>1, <2>1
    <3> QED BY <3>4, <3>5
  <2>2. CASE ~stays
    BY <2>2 DEF TextFrontier, LoadText
  <2> QED BY <2>1, <2>2
<1> HIDE DEF Seen, Edge, s, m, T
<1>14. TiledTo(cues', TextFrontier') /\ TextFrontier <= TextFrontier'
  BY <1>5, <1>9, <1>12, <1>13
<1>15. ASSUME NEW i \in LoadedIndices(k) PROVE TextFrontier <= textQ[i].start
  <2>1. i \in Nat /\ s <= i /\ i < m
    BY <1>8
  <2>2. i <= m
    BY <1>5, <2>1
  <2> QED BY <1>10, <1>12, <2>1, <2>2
<1> QED BY <1>14, <1>15

LEMMA LoadTextOrdered ==
    ASSUME TypeInv, QueueOrdered, NEW k \in 1 .. Len(textQ) + 1, LoadText(k)
    PROVE  QueueOrdered'
<1>1. textQ \in Seq(Interval \cup Event) /\ Len(textQ) \in Nat
  BY DEF TypeInv, TypeOK
<1>2. /\ Len(textQ') = IF k <= Len(textQ) THEN Len(textQ) - k + 1 ELSE 0
      /\ \A i \in 1 .. Len(textQ) - k + 1 : textQ'[i] = textQ[k + i - 1]
  BY <1>1 DEF LoadText
<1>3. ASSUME NEW i \in 1 .. Len(textQ')
      PROVE  /\ textQ'[i] = textQ[k + i - 1] /\ k + i - 1 \in 1 .. Len(textQ)
             /\ k + i - 1 = Len(textQ) => i = Len(textQ')
  BY <1>1, <1>2
<1> QED BY <1>3 DEF QueueOrdered

\* The interval at the head of the queue stays there while it is loaded.
LEMMA FrontierKept ==
    ASSUME TypeInv, UNCHANGED <<loaded, consumedEnd>>,
           textQ' = textQ \/ \E item \in Interval \cup Event : textQ' = Append(textQ, item)
    PROVE  TextFrontier' = TextFrontier
<1>1. CASE loaded
  <2>1. textQ \in Seq(Interval \cup Event) /\ Len(textQ) \in Nat /\ 1 <= Len(textQ)
    BY <1>1 DEF TypeInv, TypeOK, LoadedAtHead, BufferAt
  <2>2. Head(textQ') = Head(textQ)
    BY <2>1
  <2> QED BY <1>1, <2>2 DEF TextFrontier
<1>2. CASE ~loaded
  BY <1>2 DEF TextFrontier
<1> QED BY <1>1, <1>2

\* The loop of aggregate that an action runs.
LEMMA PushLoads ==
    ASSUME TypeInv, PushMedia(TRUE) \/ PushMedia(FALSE) \/ AwaitText \/ RefuseText
    PROVE  LET k == StopIndex(Head(flvQ).at)
           IN  /\ k \in 1 .. Len(textQ) + 1 /\ LoadText(k)
               /\ StopsAt(k, Head(flvQ).at)
               /\ \A j \in 1 .. k - 1 : BufferAt(j) /\ LoadOk(j)
<1>1. QueueTypeOK
  BY DEF TypeInv, TypeOK, QueueTypeOK
<1>2. LoadText(StopIndex(Head(flvQ).at))
  BY DEF PushMedia, AwaitText, RefuseText
<1> DEFINE time == Head(flvQ).at
<1>3. /\ StopIndex(time) \in 1 .. Len(textQ) + 1 /\ StopsAt(StopIndex(time), time)
      /\ \A j \in 1 .. StopIndex(time) - 1 : BufferAt(j) /\ LoadOk(j)
  <2> HIDE DEF time
  <2> QED BY <1>1, StopIndexDefined DEF StopsAt
<1> QED BY <1>2, <1>3

LEMMA FinishLoads ==
    ASSUME TypeInv, Finish(TRUE) \/ Finish(FALSE)
    PROVE  /\ FinishIndex \in 1 .. Len(textQ) + 1 /\ LoadText(FinishIndex)
           /\ \A j \in 1 .. FinishIndex - 1 : BufferAt(j) /\ LoadOk(j)
<1>1. QueueTypeOK
  BY DEF TypeInv, TypeOK, QueueTypeOK
<1> QED BY <1>1, FinishIndexDefined DEF Finish

\* Everything else an action does to the text queue keeps it in order.
LEMMA OrderedStep ==
    ASSUME TypeInv, QueueOrdered,
           \/ UNCHANGED textQ \/ textQ' = <<>>
           \/ textQ # <<>> /\ textQ' = Tail(textQ)
           \/ \E item \in TextItems : TextArrives(item)
    PROVE  QueueOrdered'
<1>1. textQ \in Seq(Interval \cup Event) /\ Len(textQ) \in Nat
  BY DEF TypeInv, TypeOK
<1>2. CASE UNCHANGED textQ
  BY <1>2 DEF QueueOrdered
<1>3. CASE textQ' = <<>>
  BY <1>3 DEF QueueOrdered
<1>4. CASE textQ # <<>> /\ textQ' = Tail(textQ)
  <2>1. /\ Len(textQ') = Len(textQ) - 1
        /\ \A i \in 1 .. Len(textQ') : textQ'[i] = textQ[i + 1] /\ i + 1 \in 1 .. Len(textQ)
    <3>1. /\ Len(Tail(textQ)) = Len(textQ) - 1
          /\ \A i \in 1 .. Len(Tail(textQ)) : Tail(textQ)[i] = textQ[i + 1]
      BY <1>1, <1>4, HeadTailProperties
    <3> DEFINE rest == Tail(textQ)
    <3> HIDE DEF rest
    <3>2. textQ' = rest /\ Len(rest) = Len(textQ) - 1
          /\ \A i \in 1 .. Len(rest) : rest[i] = textQ[i + 1]
      BY <1>4, <3>1 DEF rest
    <3> QED BY <1>1, <3>2
  <2> SUFFICES ASSUME NEW i \in 1 .. Len(textQ')
               PROVE  /\ TextBuffer(textQ'[i]) => textQ'[i].start <= textQ'[i].end
                      /\ textQ'[i].type = "eos" => i = Len(textQ')
    BY DEF QueueOrdered, TextBuffer
  <2>2. textQ'[i] = textQ[i + 1] /\ i + 1 \in 1 .. Len(textQ)
    BY <2>1
  <2>3. /\ TextBuffer(textQ[i + 1]) => textQ[i + 1].start <= textQ[i + 1].end
        /\ textQ[i + 1].type = "eos" => i + 1 = Len(textQ)
    BY <2>2 DEF QueueOrdered
  <2> QED BY <1>1, <2>1, <2>2, <2>3
<1>5. ASSUME NEW item \in TextItems, TextArrives(item) PROVE QueueOrdered'
  <2>1. textQ' = Append(textQ, item) /\ \A i \in 1 .. Len(textQ) : textQ[i].type # "eos"
    BY <1>1, <1>5 DEF TextArrives, HasRoom
  <2>2. /\ Len(textQ') = Len(textQ) + 1 /\ textQ'[Len(textQ) + 1] = item
        /\ \A i \in 1 .. Len(textQ) : textQ'[i] = textQ[i]
    BY <1>1, <2>1
  <2>3. TextBuffer(item) => item.start <= item.end
    BY DEF TextBuffer, TextItems, Event
  <2>4. \A i \in 1 .. Len(textQ') : i \in 1 .. Len(textQ) \/ i = Len(textQ')
    BY <1>1, <2>2
  <2> QED BY <2>1, <2>2, <2>3, <2>4 DEF QueueOrdered
<1> QED BY <1>2, <1>3, <1>4, <1>5

LEMMA TiledStep == TypeInv /\ TiledInv /\ [Next]_vars => TiledInv'
<1> SUFFICES ASSUME TypeInv, TiledInv, [Next]_vars PROVE TiledInv'
  OBVIOUS
<1>1. ASSUME NEW k \in 1 .. Len(textQ) + 1, LoadText(k),
             \A j \in 1 .. k - 1 : BufferAt(j) /\ LoadOk(j)
      PROVE  TiledInv'
  BY <1>1, LoadTextTiles, LoadTextOrdered DEF TiledInv
<1>2. CASE \/ AwaitText \/ RefuseText
           \/ \E pushOk \in BOOLEAN : PushMedia(pushOk) \/ Finish(pushOk)
  <2>1. \/ PushMedia(TRUE) \/ PushMedia(FALSE) \/ AwaitText \/ RefuseText
        \/ Finish(TRUE) \/ Finish(FALSE)
    BY <1>2
  <2> HIDE DEF TiledInv
  <2> QED BY <1>1, <2>1, PushLoads, FinishLoads
<1>3. CASE FlvSegment \/ TextSegment \/ Flush \/ ReadyToPaused
  <2>1. cues' = {} /\ (UNCHANGED textQ \/ textQ' = <<>> \/ (textQ # <<>> /\ textQ' = Tail(textQ)))
    BY <1>3 DEF FlvSegment, TextSegment, Flush, ReadyToPaused, BufferAtHead
  <2> QED BY <2>1, OrderedStep DEF TiledInv, TiledTo
<1>4. CASE TextEosEvent
  <2>1. ~loaded /\ textQ # <<>> /\ textQ' = Tail(textQ)
    BY <1>4 DEF TextEosEvent, BufferAtHead, TypeInv, LoadedAtHead, BufferAt, TextBuffer
  <2>2. TextFrontier' = TextFrontier /\ cues' = cues
    BY <1>4, <2>1 DEF TextEosEvent, TextFrontier, stateVars, observed
  <2> QED BY <2>1, <2>2, OrderedStep DEF TiledInv
<1>5. ASSUME NEW item \in TextItems, TextArrives(item) PROVE TiledInv'
  <2>1. item \in Interval \cup Event
    BY DEF TextItems, Interval, Event, Time, AnyText
  <2>2. TextFrontier' = TextFrontier /\ cues' = cues
    BY <1>5, <2>1, FrontierKept DEF TextArrives, stateVars, observed
  <2> QED BY <1>5, <2>2, OrderedStep DEF TiledInv
<1>6. CASE \/ \E item \in MediaItems : MediaArrives(item)
           \/ \E pushOk \in BOOLEAN : ForwardHeader(pushOk)
           \/ RefuseMedia \/ FlvEosEvent \/ UNCHANGED vars
  <2>1. UNCHANGED <<textQ, loaded, consumedEnd, cues>>
    BY <1>6 DEF MediaArrives, ForwardHeader, RefuseMedia, FlvEosEvent, vars, stateVars, observed,
       padVars
  <2>2. TextFrontier' = TextFrontier
    BY <2>1, FrontierKept
  <2> QED BY <2>1, <2>2, OrderedStep DEF TiledInv
<1> QED BY <1>2, <1>3, <1>4, <1>5, <1>6 DEF Next, Upstream, Aggregate, SinkEvent

LEMMA TiledInit == Init => TiledInv
  BY DEF Init, TiledInv, QueueOrdered, TiledTo

\* Whatever upstream sends, the intervals the element has loaded since the
\* timeline began overlap nowhere and leave no hole up to consumed_text_end or
\* the interval still loaded (load_text_interval).
THEOREM TimelineAlwaysTiled == Spec => []TimelineTiled
<1>1. TiledInv => TimelineTiled
  BY DEF TiledInv, TiledTo, TimelineTiled
<1> QED BY <1>1, TypeInit, TypeStep, TiledInit, TiledStep, PTL DEF Spec

-----------------------------------------------------------------------------
\* Caption tags stay between the media around them.

\* A later running time has no earlier stamp.
LEMMA StampMonotone ==
    ASSUME NEW zero \in Int, NEW a \in Nat, NEW b \in Nat, a <= b
    PROVE  StampMs(zero, a) <= StampMs(zero, b)
<1> DEFINE ms(time) == IF time > zero THEN (time - zero) \div UnitsPerMs ELSE 0
<1>1. \A x, y \in Nat, u \in Nat \ {0} : x <= y => x \div u <= y \div u /\ x \div u \in Nat
  OBVIOUS
<1>2. UnitsPerMs \in Nat \ {0} /\ MaxTimestampMs \in Nat
  BY CaptionAssumption
<1>3. ms(a) <= ms(b) /\ ms(a) \in Nat /\ ms(b) \in Nat
  <2>1. CASE a > zero
    <3>1. a - zero \in Nat /\ b - zero \in Nat /\ a - zero <= b - zero /\ b > zero
      BY <2>1
    <3>2. (a - zero) \div UnitsPerMs <= (b - zero) \div UnitsPerMs
          /\ (a - zero) \div UnitsPerMs \in Nat /\ (b - zero) \div UnitsPerMs \in Nat
      BY <1>1, <1>2, <3>1
    <3> QED BY <2>1, <3>1, <3>2
  <2>2. CASE ~(a > zero)
    <3>1. b > zero => b - zero \in Nat
      OBVIOUS
    <3>2. b > zero => (b - zero) \div UnitsPerMs \in Nat
      BY <1>1, <1>2, <3>1
    <3> QED BY <2>2, <3>2
  <2> QED BY <2>1, <2>2
<1>4. /\ StampMs(zero, a) = IF ms(a) < MaxTimestampMs THEN ms(a) ELSE MaxTimestampMs
      /\ StampMs(zero, b) = IF ms(b) < MaxTimestampMs THEN ms(b) ELSE MaxTimestampMs
  BY DEF StampMs
<1> HIDE DEF ms
<1> QED BY <1>2, <1>3, <1>4

\* While media moves on, no transition is scheduled before the last media: what
\* a loop loads starts where the timeline had come to.
LEMMA ScheduledAhead ==
    ASSUME TypeInv, TiledInv, AheadInv, lastMedia # NoTime, ~newText,
           NEW k \in 1 .. Len(textQ) + 1, LoadText(k),
           \A j \in 1 .. k - 1 : BufferAt(j) /\ LoadOk(j)
    PROVE  \A t \in pending \cup NewTransitions(k) : position <= StampMs(origin, t.at)
<1>1. lastMedia \in Nat /\ origin \in Int /\ position = StampMs(origin, lastMedia)
  BY DEF TypeInv, TypeOK, TimeOption, NoTime, AheadInv, AheadOfMedia
<1>2. ASSUME NEW t \in NewTransitions(k) PROVE position <= StampMs(origin, t.at)
  <2>1. PICK i \in TextIndices(k) :
           t \in QueueText(Generation(i), textQ[i].start, textQ[i].end, textQ[i].text, inputMode)
    BY DEF NewTransitions
  <2>2. i \in LoadedIndices(k) /\ i \in 1 .. Len(textQ) /\ textQ[i].type = "text"
    BY DEF TextIndices, LoadedIndices
  <2>3. textQ[i].start \in Nat /\ textQ[i].end \in Nat /\ textQ[i].start <= textQ[i].end
    BY <2>2 DEF TypeInv, TypeOK, Interval, Event, TiledInv, QueueOrdered, TextBuffer
  <2>4. TextFrontier > lastMedia
    <3>1. textQ # <<>>
      BY <2>2
    <3> QED BY <3>1 DEF AheadInv, AheadOfMedia
  <2>5. TextFrontier <= textQ[i].start /\ TextFrontier \in Int
    BY <2>2, LoadTextTiles, FrontierType DEF TimeOption, NoTime
  <2>6. t.at = textQ[i].start \/ t.at = textQ[i].end
    BY <2>1 DEF QueueText
  <2>7. t.at \in Nat /\ lastMedia <= t.at
    BY <1>1, <2>3, <2>4, <2>5, <2>6
  <2> QED BY <1>1, <2>7, StampMonotone
<1> QED BY <1>2 DEF AheadInv, AheadOfMedia

\* The frontier stays a time or none.
LEMMA FrontierAfter == TypeInv' => (TextFrontier \in TimeOption)'
<1>1. TypeInv => TextFrontier \in TimeOption
  BY FrontierType
<1> QED BY <1>1, PTL

\* At text EOS nothing is left to load.
LEMMA EosLoadsNothing ==
    ASSUME TypeInv, textEos => textQ = <<>>, NEW k \in 1 .. Len(textQ) + 1, LoadText(k),
           textEos' = textEos
    PROVE  textEos' => textQ' = <<>>
<1> SUFFICES ASSUME textQ = <<>> PROVE textQ' = <<>>
  OBVIOUS
<1>1. Len(textQ) = 0
  OBVIOUS
<1>2. k = 1
  BY <1>1
<1>3. textQ' = SubSeq(textQ, 1, Len(textQ)) /\ textQ \in Seq(Interval \cup Event)
  BY <1>2 DEF LoadText, TypeInv, TypeOK
<1>4. textQ' \in Seq(Interval \cup Event) /\ Len(textQ') = 0
  BY <1>1, <1>3
<1> QED BY <1>4, EmptySeq

LEMMA AheadPush ==
    ASSUME TypeInv, TiledInv, AheadInv, PushMedia(TRUE) \/ PushMedia(FALSE)
    PROVE  AheadInv'
<1> DEFINE time == Head(flvQ).at
           k == StopIndex(time)
           zero == IF origin = NoTime THEN time ELSE origin
           now == StampMs(zero, time)
           reachable == pending \cup NewTransitions(k)
<1>1. /\ k \in 1 .. Len(textQ) + 1 /\ LoadText(k) /\ StopsAt(k, time)
      /\ \A j \in 1 .. k - 1 : BufferAt(j) /\ LoadOk(j)
  BY PushLoads
<1>2. time \in Nat
  <2>1. AdmissibleMedia
    BY DEF PushMedia
  <2>2. flvQ # <<>> /\ Head(flvQ).type = "media"
    BY <2>1 DEF AdmissibleMedia, BufferAtHead
  <2>3. Head(flvQ) \in Media \cup Event
    BY <2>2 DEF TypeInv, TypeOK
  <2> QED BY <2>2, <2>3 DEF Media, Event
<1>3. zero \in Nat
  BY <1>2 DEF TypeInv, TypeOK, TimeOption
<1>4. /\ origin' = zero /\ position' = now /\ lastMedia' = time /\ textEos' = textEos
      /\ pending' = reachable \ Reached(zero, reachable, now)
      /\ Covering(k, time) \/ textEos
  BY DEF PushMedia
<1> HIDE DEF time, k, zero
<1>5. textEos' => textQ' = <<>>
  BY <1>1, <1>4, EosLoadsNothing DEF AheadInv
<1>6. textEos' \/ TextFrontier' > lastMedia'
  <2> SUFFICES ASSUME Covering(k, time) PROVE TextFrontier' > time
    BY <1>4
  <2>1. BufferAt(k) /\ LoadOk(k) /\ time < textQ[k].end /\ loaded' /\ k <= Len(textQ)
    BY <1>1 DEF Covering, StopsAt, LoadText, BufferAt
  <2>2. textQ \in Seq(Interval \cup Event) /\ Len(textQ) \in Nat
        /\ textQ' = SubSeq(textQ, k, Len(textQ))
    BY <1>1 DEF TypeInv, TypeOK, LoadText
  <2>3. textQ[k] \in Interval
    BY <1>1, <2>1, <2>2 DEF BufferAt, TextBuffer, Interval, Event
  <2>4. Head(textQ') = textQ[k]
    BY <1>1, <2>1, <2>2
  <2>5. TextFrontier' = textQ[k].end /\ textQ[k].end \in Nat
    BY <2>1, <2>3, <2>4 DEF TextFrontier, Interval
  <2> QED BY <1>2, <2>1, <2>5
<1>7. \A t \in pending' : position' <= StampMs(origin', t.at)
  <2> SUFFICES ASSUME NEW t \in pending' PROVE now <= StampMs(zero, t.at)
    BY <1>4
  <2>1. t \in reachable /\ ~(StampMs(zero, t.at) <= now)
    BY <1>4 DEF Reached
  <2>2. Numbered(reachable, nextGen')
    BY <1>1, LoadTextType
  <2>3. t.at \in Nat
    BY <2>1, <2>2 DEF Numbered, Transition
  <2>4. zero \in Int
    BY <1>3
  <2>5. now \in Nat /\ StampMs(zero, t.at) \in Nat
    BY <1>2, <2>3, <2>4, StampType
  <2> HIDE DEF now
  <2> QED BY <2>1, <2>5
<1>8. origin' # NoTime
  BY <1>3, <1>4 DEF NoTime
<1> HIDE DEF reachable, now
<1>9. position' = StampMs(origin', lastMedia')
  BY <1>4 DEF now
<1> QED BY <1>5, <1>6, <1>7, <1>8, <1>9 DEF AheadInv, AheadOfMedia

LEMMA AheadStep == TypeInv /\ TiledInv /\ AheadInv /\ [Next]_vars => AheadInv'
<1> SUFFICES ASSUME TypeInv, TiledInv, AheadInv, [Next]_vars PROVE AheadInv'
  OBVIOUS
<1>1. ASSUME NEW k \in 1 .. Len(textQ) + 1, LoadText(k),
             \A j \in 1 .. k - 1 : BufferAt(j) /\ LoadOk(j),
             pending' \subseteq pending \cup NewTransitions(k),
             UNCHANGED <<textEos, origin, position, lastMedia, newText>>
      PROVE  AheadInv'
  <2>1. textEos' => textQ' = <<>>
    BY <1>1, EosLoadsNothing DEF AheadInv
  <2>2. ASSUME lastMedia # NoTime, ~newText
        PROVE  /\ \A t \in pending' : position' <= StampMs(origin', t.at)
               /\ origin' # NoTime /\ position' = StampMs(origin', lastMedia')
               /\ textEos' \/ TextFrontier' > lastMedia'
    <3>1. \A t \in pending' : position' <= StampMs(origin', t.at)
      BY <1>1, <2>2, ScheduledAhead
    <3>2. origin' # NoTime /\ position' = StampMs(origin', lastMedia')
          /\ (textEos \/ TextFrontier > lastMedia)
      BY <1>1, <2>2 DEF AheadInv, AheadOfMedia
    <3>3. TextFrontier <= TextFrontier' /\ TextFrontier \in Int /\ lastMedia \in Int
      BY <1>1, LoadTextTiles, FrontierType DEF TimeOption, NoTime, TypeInv, TypeOK
    <3>4. TextFrontier' \in Int
      <4>1. TypeInv'
        BY TypeStep
      <4>2. TextFrontier' \in TimeOption
        BY <4>1, FrontierAfter
      <4> QED BY <4>2 DEF TimeOption, NoTime
    <3> QED BY <1>1, <3>1, <3>2, <3>3, <3>4
  <2> QED BY <1>1, <2>1, <2>2 DEF AheadInv, AheadOfMedia
<1>2. CASE \E pushOk \in BOOLEAN : PushMedia(pushOk)
  <2>1. PushMedia(TRUE) \/ PushMedia(FALSE)
    BY <1>2
  <2> QED BY <2>1, AheadPush
<1>3. CASE AwaitText \/ RefuseText
  <2> DEFINE k == StopIndex(Head(flvQ).at)
  <2>1. /\ k \in 1 .. Len(textQ) + 1 /\ LoadText(k)
        /\ \A j \in 1 .. k - 1 : BufferAt(j) /\ LoadOk(j)
    BY <1>3, PushLoads
  <2>2. /\ pending' = pending \cup NewTransitions(k)
        /\ UNCHANGED <<textEos, origin, position, lastMedia, newText>>
    BY <1>3 DEF AwaitText, RefuseText
  <2> HIDE DEF k, AheadInv
  <2> QED BY <1>1, <2>1, <2>2
<1>4. CASE \E pushOk \in BOOLEAN : Finish(pushOk)
  <2>1. Finish(TRUE) \/ Finish(FALSE)
    BY <1>4
  <2>2. /\ FinishIndex \in 1 .. Len(textQ) + 1 /\ LoadText(FinishIndex)
        /\ \A j \in 1 .. FinishIndex - 1 : BufferAt(j) /\ LoadOk(j)
    BY <2>1, FinishLoads
  <2>3. /\ pending' \subseteq pending \cup NewTransitions(FinishIndex)
        /\ UNCHANGED <<textEos, origin, position, lastMedia, newText>>
    BY <2>1 DEF Finish
  <2> HIDE DEF AheadInv
  <2> QED BY <1>1, <2>2, <2>3
<1>5. CASE FlvSegment \/ Flush \/ ReadyToPaused
  <2>1. lastMedia' = NoTime /\ (UNCHANGED <<textEos, textQ>> \/ textQ' = <<>>)
    BY <1>5 DEF FlvSegment, Flush, ReadyToPaused, ResetRuntime
  <2> QED BY <2>1 DEF AheadInv, AheadOfMedia
<1>6. CASE TextSegment
  BY <1>6 DEF TextSegment, BufferAtHead, AheadInv, AheadOfMedia
<1>7. CASE TextEosEvent
  <2>1. textQ # <<>> /\ Head(textQ).type = "eos" /\ textQ' = Tail(textQ) /\ textEos'
        /\ UNCHANGED <<stateVars, observed>>
    BY <1>7 DEF TextEosEvent, BufferAtHead
  <2>2. textQ \in Seq(Interval \cup Event) /\ Head(textQ) = textQ[1] /\ 1 \in 1 .. Len(textQ)
    BY <2>1 DEF TypeInv, TypeOK
  <2>3. Len(textQ) = 1
    BY <2>1, <2>2 DEF TiledInv, QueueOrdered
  <2>4. textQ' = <<>>
    <3>1. Tail(textQ) \in Seq(Interval \cup Event) /\ Len(Tail(textQ)) = 0
      BY <2>1, <2>2, <2>3
    <3> QED BY <2>1, <3>1, EmptySeq
  <2>5. UNCHANGED <<origin, position, lastMedia, newText, pending>>
    BY <2>1 DEF stateVars, captionVars, observed
  <2> QED BY <2>1, <2>4, <2>5 DEF AheadInv, AheadOfMedia
<1>8. ASSUME UNCHANGED <<textEos, origin, position, lastMedia, newText, pending, loaded, consumedEnd>>,
             textQ' = textQ \/ \E item \in Interval \cup Event : textQ' = Append(textQ, item),
             textEos => textQ' = textQ
      PROVE  AheadInv'
  <2>1. TextFrontier' = TextFrontier
    BY <1>8, FrontierKept
  <2> QED BY <1>8, <2>1 DEF AheadInv, AheadOfMedia
<1>9. ASSUME NEW item \in TextItems, TextArrives(item) PROVE AheadInv'
  <2>1. item \in Interval \cup Event
    BY DEF TextItems, Interval, Event, Time, AnyText
  <2>2. /\ UNCHANGED <<textEos, origin, position, lastMedia, newText, pending, loaded, consumedEnd>>
        /\ textQ' = Append(textQ, item) /\ ~textEos
    BY <1>9 DEF TextArrives, stateVars, captionVars, observed
  <2> HIDE DEF AheadInv
  <2> QED BY <1>8, <2>1, <2>2
<1>10. CASE \/ \E item \in MediaItems : MediaArrives(item)
            \/ \E pushOk \in BOOLEAN : ForwardHeader(pushOk)
            \/ RefuseMedia \/ FlvEosEvent \/ UNCHANGED vars
  <2>1. UNCHANGED <<textQ, textEos, origin, position, lastMedia, newText, pending, loaded,
                    consumedEnd>>
    BY <1>10 DEF MediaArrives, ForwardHeader, RefuseMedia, FlvEosEvent, vars, stateVars,
       captionVars, observed, padVars
  <2> HIDE DEF AheadInv
  <2> QED BY <1>8, <2>1
<1> QED BY <1>2, <1>3, <1>4, <1>5, <1>6, <1>7, <1>9, <1>10
        DEF Next, Upstream, Aggregate, SinkEvent

\* The tags of one media buffer are stamped from the last media's position to
\* its own.
TagsBetween ==
    out'.type = "media" /\ lastMedia # NoTime /\ ~newText =>
        \A t \in out'.tags : position <= t.stamp /\ t.stamp <= position'

\* Every tag is stamped where a reached transition lies.
LEMMA DrainTagsStamps ==
    ASSUME NEW zero, NEW cue, NEW P, NEW now, NEW t \in DrainTags(zero, cue, P, now)
    PROVE  \E a \in Reached(zero, P, now) : t.stamp = StampMs(zero, a.at)
<1> DEFINE reached == Reached(zero, P, now)
           upTo(m) == {a \in reached : StampMs(zero, a.at) <= m}
<1>1. \E a \in reached :
         LET m == StampMs(zero, a.at)
         IN  t = [stamp |-> m, text |-> ActiveAfter(zero, cue, upTo(m)).text]
  BY Zenon DEF DrainTags
<1> HIDE DEF reached, upTo
<1>2. \E a \in reached : t.stamp = StampMs(zero, a.at)
  BY <1>1
<1> QED BY <1>2 DEF reached

\* Only a media buffer that was pushed puts media on the output.
LEMMA OnlyPushSendsMedia ==
    ASSUME Next, out'.type = "media"
    PROVE  /\ PushMedia(TRUE)
           /\ out'.tags = DrainTags(Zero, active, Reachable, position')
<1>1. Nothing.type = "none" /\ [Nothing EXCEPT !.type = "header"].type = "header"
  BY DEF Nothing
<1>2. ~ \E pushOk \in BOOLEAN : Finish(pushOk)
  <2> SUFFICES ASSUME \E pushOk \in BOOLEAN : Finish(pushOk) PROVE FALSE
    OBVIOUS
  <2>1. \/ out' = Nothing
        \/ \E tags : out' = [type |-> "final", at |-> 0, blank |-> FALSE, tags |-> tags]
    BY Zenon DEF Finish
  <2> QED BY <1>1, <2>1
<1>3. ~ \E pushOk \in BOOLEAN : ForwardHeader(pushOk)
  <2> SUFFICES ASSUME \E pushOk \in BOOLEAN : ForwardHeader(pushOk) PROVE FALSE
    OBVIOUS
  <2>1. out' = Nothing \/ out' = [Nothing EXCEPT !.type = "header"]
    BY DEF ForwardHeader
  <2> QED BY <1>1, <2>1
<1>4. ASSUME \/ \E item \in MediaItems : MediaArrives(item)
             \/ \E item \in TextItems : TextArrives(item)
             \/ RefuseMedia \/ AwaitText \/ RefuseText \/ FlvSegment \/ TextSegment
             \/ FlvEosEvent \/ TextEosEvent \/ Flush \/ ReadyToPaused
      PROVE  FALSE
  <2>1. out' = Nothing
    BY <1>4 DEF TextArrives, MediaArrives, RefuseMedia, AwaitText, RefuseText, FlvSegment,
       TextSegment, FlvEosEvent, TextEosEvent, Flush, ReadyToPaused
  <2> QED BY <1>1, <2>1
<1>5. ~PushMedia(FALSE)
  <2> SUFFICES ASSUME PushMedia(FALSE) PROVE FALSE
    OBVIOUS
  <2>1. out' = Nothing
    BY DEF PushMedia
  <2> QED BY <1>1, <2>1
<1>6. PushMedia(TRUE)
  <2>1. \E pushOk \in BOOLEAN : PushMedia(pushOk)
    BY <1>2, <1>3, <1>4 DEF Next, Upstream, Aggregate, SinkEvent
  <2> QED BY <1>5, <2>1
<1> DEFINE now == StampMs(Zero, MediaTime)
           tags == DrainTags(Zero, active, Reachable, now)
<1>7. \E blank : out' = [type |-> "media", at |-> Head(flvQ).at, blank |-> blank, tags |-> tags]
  BY <1>6, Zenon DEF PushMedia, Zero, MediaTime, Reachable
<1>8. position' = now
  BY <1>6 DEF PushMedia, Zero, MediaTime
<1>9. out'.tags = tags
  <2> HIDE DEF tags
  <2> QED BY <1>7
<1> HIDE DEF now
<1> QED BY <1>6, <1>8, <1>9

LEMMA PushBetween ==
    ASSUME TypeInv, TiledInv, AheadInv, Next, PushMedia(TRUE)
    PROVE  TagsBetween
<1> DEFINE time == Head(flvQ).at
           k == StopIndex(time)
           zero == IF origin = NoTime THEN time ELSE origin
           now == StampMs(zero, time)
           reachable == pending \cup NewTransitions(k)
           tags == DrainTags(zero, active, reachable, now)
<1> SUFFICES ASSUME out'.type = "media", lastMedia # NoTime, ~newText, NEW t \in out'.tags
             PROVE  position <= t.stamp /\ t.stamp <= position'
  BY DEF TagsBetween
<1>1. /\ k \in 1 .. Len(textQ) + 1 /\ LoadText(k)
      /\ \A j \in 1 .. k - 1 : BufferAt(j) /\ LoadOk(j)
  BY PushLoads
<1>2. position' = now /\ t \in tags
  <2>1. position' = now
    BY DEF PushMedia
  <2>2. out'.tags = DrainTags(Zero, active, Reachable, position')
    BY OnlyPushSendsMedia
  <2> QED BY <2>1, <2>2 DEF Zero, Reachable, MediaTime
<1>3. zero = origin
  BY DEF AheadInv, AheadOfMedia
<1>4. PICK a \in Reached(zero, reachable, now) : t.stamp = StampMs(zero, a.at)
  BY <1>2, DrainTagsStamps
<1>5. a \in reachable /\ t.stamp <= now
  BY <1>4 DEF Reached
<1> HIDE DEF k, zero, now, tags
<1>6. position <= StampMs(origin, a.at)
  BY <1>1, <1>5, ScheduledAhead
<1> QED BY <1>2, <1>3, <1>4, <1>5, <1>6

LEMMA BetweenStep == TypeInv /\ TiledInv /\ AheadInv /\ [Next]_vars => TagsBetween \/ UNCHANGED vars
<1> SUFFICES ASSUME TypeInv, TiledInv, AheadInv, Next PROVE TagsBetween
  OBVIOUS
<1>1. CASE PushMedia(TRUE)
  BY <1>1, PushBetween
<1>2. CASE ~PushMedia(TRUE)
  BY <1>2, OnlyPushSendsMedia DEF TagsBetween
<1> QED BY <1>1, <1>2

\* However far the media cadence jumps and however late the text arrives, no
\* caption tag is stamped after the media buffer it precedes or before media
\* already sent, until a text segment moves the timeline (drain_ready_ms).
THEOREM TagsStayBetweenMedia == Spec => TagsBetweenMedia
<1>1. Init => AheadInv
  BY DEF Init, AheadInv, AheadOfMedia
<1>2. TypeInv /\ TiledInv /\ AheadInv /\ [Next]_vars =>
        [out'.type = "media" /\ lastMedia # NoTime /\ ~newText =>
           \A t \in out'.tags : position <= t.stamp /\ t.stamp <= position']_vars
  BY BetweenStep DEF TagsBetween
<1> QED BY <1>1, <1>2, TypeInit, TypeStep, TiledInit, TiledStep, AheadStep, PTL
        DEF Spec, TagsBetweenMedia

-----------------------------------------------------------------------------
\* The timeline as a cut.  The texts loaded since the timeline began are
\* numbered by their generations, first .. n - 1, and own[g] is the text of
\* generation g.  Their transitions form one schedule, in which the sequence
\* numbers order time; what the element holds of it is the transitions from
\* some sequence number on, and the cue that the ones before it leave.

Setter(own, g) ==
    [at |-> own[g].start, seq |-> 2 * g, gen |-> g, text |-> own[g].text,
     kind |-> IF own[g].text = Blank THEN "clear" ELSE "show"]
Expiry(own, g) ==
    [at |-> own[g].end, seq |-> 2 * g + 1, gen |-> g, text |-> Blank, kind |-> "expire"]

Schedule(own, first, n, mode) ==
    UNION {QueueText(g, own[g].start, own[g].end, own[g].text, mode) : g \in first .. n - 1}

\* The texts of C, in the order of their generations and of time.
TextsInOrder(own, first, n, mode, C) ==
    /\ first \in Nat /\ n \in Nat /\ first <= n
    /\ \A g \in first .. n - 1 :
          /\ own[g] \in C /\ own[g] \in Interval /\ own[g].type = "text"
          /\ own[g].start <= own[g].end
          /\ QueueTextOk(own[g].start, own[g].end, own[g].text, mode)
    /\ \A g, h \in first .. n - 1 : g < h => own[g].end <= own[h].start
    /\ \A c \in C : c.type = "text" => \E g \in first .. n - 1 : own[g] = c

\* The cue that generation g leaves on screen once the schedule is applied up
\* to cut.
LeftBy(own, g, mode, cut) ==
    IF own[g].text = Blank \/ (mode = "timed" /\ cut = 2 * g + 2) THEN NoCue
    ELSE [gen |-> g, text |-> own[g].text]

\* The cue that the schedule leaves on screen up to cut.
Stands(own, first, n, mode, cut, cue) ==
    \/ cut = 2 * first /\ cue = NoCue
    \/ \E g \in first .. n - 1 : /\ cut = 2 * g + 1 \/ cut = 2 * g + 2
                                 /\ cue = LeftBy(own, g, mode, cut)

LEMMA TextFacts ==
    ASSUME NEW own, NEW first, NEW n, NEW mode, NEW C, TextsInOrder(own, first, n, mode, C)
    PROVE  \A g \in first .. n - 1 : /\ g \in Nat
                                     /\ own[g].start \in Nat /\ own[g].end \in Nat
                                     /\ own[g].start <= own[g].end
                                     /\ own[g].text \in AnyText
  BY DEF TextsInOrder, Interval, AnyText

LEMMA ScheduleElements ==
    ASSUME NEW own, NEW first, NEW n, NEW mode, NEW t
    PROVE  t \in Schedule(own, first, n, mode) <=>
             \E g \in first .. n - 1 :
                \/ t = Setter(own, g)
                \/ mode = "timed" /\ own[g].text # Blank /\ t = Expiry(own, g)
<1>1. \A g : QueueText(g, own[g].start, own[g].end, own[g].text, mode)
              = {Setter(own, g)} \cup
                {x \in {Expiry(own, g)} : mode = "timed" /\ own[g].text # Blank}
  BY DEF QueueText, Setter, Expiry
<1>2. \A g : t \in QueueText(g, own[g].start, own[g].end, own[g].text, mode) <=>
              \/ t = Setter(own, g)
              \/ mode = "timed" /\ own[g].text # Blank /\ t = Expiry(own, g)
  <2> TAKE g
  <2> DEFINE q == QueueText(g, own[g].start, own[g].end, own[g].text, mode)
             a == Setter(own, g)
             b == Expiry(own, g)
             p == mode = "timed" /\ own[g].text # Blank
  <2>1. q = {a} \cup {x \in {b} : p}
    BY <1>1
  <2> HIDE DEF q, a, b, p
  <2>2. t \in q <=> t = a \/ (p /\ t = b)
    BY <2>1
  <2> QED BY <2>2 DEF q, a, b, p
<1>3. t \in Schedule(own, first, n, mode) <=>
        \E g \in first .. n - 1 : t \in QueueText(g, own[g].start, own[g].end, own[g].text, mode)
  BY DEF Schedule
<1> QED BY <1>2, <1>3

\* The fields of the two transitions a text has.
LEMMA TransitionFields ==
    ASSUME NEW own, NEW g
    PROVE  /\ Setter(own, g).at = own[g].start /\ Setter(own, g).seq = 2 * g
           /\ Setter(own, g).gen = g /\ Setter(own, g).text = own[g].text
           /\ Setter(own, g).kind = (IF own[g].text = Blank THEN "clear" ELSE "show")
           /\ Setter(own, g).kind # "expire"
           /\ Expiry(own, g).at = own[g].end /\ Expiry(own, g).seq = 2 * g + 1
           /\ Expiry(own, g).gen = g /\ Expiry(own, g).kind = "expire"
  BY DEF Setter, Expiry

\* The sequence numbers order the schedule in time.
LEMMA SeqOrdersTime ==
    ASSUME NEW own, NEW first, NEW n, NEW mode, NEW C, TextsInOrder(own, first, n, mode, C)
    PROVE  \A s, t \in Schedule(own, first, n, mode) :
              /\ s.seq \in Nat /\ s.at \in Nat /\ s.seq < 2 * n /\ 2 * first <= s.seq
              /\ s.seq < t.seq => s.at <= t.at
<1> SUFFICES ASSUME NEW s \in Schedule(own, first, n, mode),
                    NEW t \in Schedule(own, first, n, mode)
             PROVE  /\ s.seq \in Nat /\ s.at \in Nat /\ s.seq < 2 * n /\ 2 * first <= s.seq
                    /\ s.seq < t.seq => s.at <= t.at
  OBVIOUS
<1>1. PICK g \in first .. n - 1 : s = Setter(own, g) \/ s = Expiry(own, g)
  BY ScheduleElements
<1>2. PICK h \in first .. n - 1 : t = Setter(own, h) \/ t = Expiry(own, h)
  BY ScheduleElements
<1>3. /\ first \in Nat /\ n \in Nat /\ g \in Nat /\ h \in Nat
      /\ own[g].start \in Nat /\ own[g].end \in Nat /\ own[g].start <= own[g].end
      /\ own[h].start \in Nat /\ own[h].end \in Nat /\ own[h].start <= own[h].end
  BY TextFacts DEF TextsInOrder
<1>4. g < h => own[g].end <= own[h].start
  BY DEF TextsInOrder
<1>5. /\ (s.seq = 2 * g /\ s.at = own[g].start) \/ (s.seq = 2 * g + 1 /\ s.at = own[g].end)
      /\ (t.seq = 2 * h /\ t.at = own[h].start) \/ (t.seq = 2 * h + 1 /\ t.at = own[h].end)
  BY <1>1, <1>2, TransitionFields
<1>6. g < h \/ g = h \/ h < g
  BY <1>3
<1> QED BY <1>3, <1>4, <1>5, <1>6

\* No two transitions of a schedule have the same sequence number.
LEMMA SeqUnique ==
    ASSUME NEW own, NEW first, NEW n, NEW mode, NEW C, TextsInOrder(own, first, n, mode, C)
    PROVE  \A s, t \in Schedule(own, first, n, mode) : s.seq = t.seq => s = t
<1> SUFFICES ASSUME NEW s \in Schedule(own, first, n, mode),
                    NEW t \in Schedule(own, first, n, mode), s.seq = t.seq
             PROVE  s = t
  OBVIOUS
<1>1. PICK g \in first .. n - 1 : s = Setter(own, g) \/ s = Expiry(own, g)
  BY ScheduleElements
<1>2. PICK h \in first .. n - 1 : t = Setter(own, h) \/ t = Expiry(own, h)
  BY ScheduleElements
<1>3. g \in Nat /\ h \in Nat
  BY TextFacts
<1>4. /\ s = Setter(own, g) => s.seq = 2 * g
      /\ s = Expiry(own, g) => s.seq = 2 * g + 1
      /\ t = Setter(own, h) => t.seq = 2 * h
      /\ t = Expiry(own, h) => t.seq = 2 * h + 1
  BY TransitionFields
<1>5. /\ s = Setter(own, g) <=> t = Setter(own, h)
      /\ g = h
  <2> DEFINE x == s = Setter(own, g)
             y == t = Setter(own, h)
  <2>1. /\ s.seq = IF x THEN 2 * g ELSE 2 * g + 1
        /\ s.seq = IF y THEN 2 * h ELSE 2 * h + 1
    BY <1>1, <1>2, <1>4
  <2> HIDE DEF x, y
  <2>2. (x <=> y) /\ g = h
    BY <1>3, <2>1
  <2> QED BY <2>2 DEF x, y
<1> QED BY <1>1, <1>2, <1>5

\* Every positive number is the place after a setter or after an expiry.
LEMMA HalfBelow == \A x \in Nat : x > 0 => \E y \in Nat : x = 2 * y + 1 \/ x = 2 * y + 2
<1> SUFFICES ASSUME NEW x \in Nat, x > 0
             PROVE  \E y \in Nat : x = 2 * y + 1 \/ x = 2 * y + 2
  OBVIOUS
<1> DEFINE y == (x - 1) \div 2
<1>1. y \in Nat /\ (x = 2 * y + 1 \/ x = 2 * y + 2)
  OBVIOUS
<1> QED BY <1>1

\* The part of a schedule from one cut to another.
Between(own, first, n, mode, cut, next) ==
    {t \in Schedule(own, first, n, mode) : cut <= t.seq /\ t.seq < next}

\* Time reaches the schedule up to a cut.
LEMMA ReachedIsBetween ==
    ASSUME NEW own, NEW first, NEW n, NEW mode, NEW C, TextsInOrder(own, first, n, mode, C),
           NEW zero \in Int, NEW m, m \in Int, NEW cut \in Nat, cut <= 2 * n
    PROVE  \E next \in Nat :
              /\ cut <= next /\ next <= 2 * n
              /\ \A t \in Schedule(own, first, n, mode) :
                    cut <= t.seq => (StampMs(zero, t.at) <= m <=> t.seq < next)
<1> DEFINE S == Schedule(own, first, n, mode)
           late == {t \in S : cut <= t.seq /\ ~(StampMs(zero, t.at) <= m)}
           T == {t.seq : t \in late}
<1>1. \A s, t \in S : /\ s.seq \in Nat /\ s.at \in Nat /\ s.seq < 2 * n
                      /\ StampMs(zero, s.at) \in Nat
                      /\ s.seq <= t.seq => s.seq < t.seq \/ s.seq = t.seq
                      /\ s.seq < t.seq => StampMs(zero, s.at) <= StampMs(zero, t.at)
  <2>1. \A s, t \in S : /\ s.seq \in Nat /\ s.at \in Nat /\ s.seq < 2 * n
                        /\ s.seq < t.seq => s.at <= t.at
    BY SeqOrdersTime
  <2> HIDE DEF S
  <2>2. \A s \in S : StampMs(zero, s.at) \in Nat
    BY <2>1, StampType
  <2>3. \A s, t \in S : s.seq < t.seq => StampMs(zero, s.at) <= StampMs(zero, t.at)
    BY <2>1, StampMonotone
  <2> QED BY <2>1, <2>2, <2>3
<1>2. n \in Nat
  BY DEF TextsInOrder
<1> HIDE DEF S
<1>3. CASE late = {}
  <2>1. \A t \in S : cut <= t.seq => StampMs(zero, t.at) <= m /\ t.seq < 2 * n
    BY <1>1, <1>3
  <2>2. 2 * n \in Nat /\ cut <= 2 * n /\ 2 * n <= 2 * n
    BY <1>2
  <2> QED BY <2>1, <2>2 DEF S
<1>4. CASE late # {}
  <2>1. T \in SUBSET Nat /\ T # {}
    BY <1>1, <1>4
  <2>2. PICK x \in T : \A y \in T : x <= y
    <3> HIDE DEF T
    <3> QED BY <2>1, LeastNat
  <2>3. PICK l \in late : l.seq = x
    BY <2>2
  <2>4. l \in S /\ cut <= x /\ x \in Nat /\ x < 2 * n /\ ~(StampMs(zero, l.at) <= m)
    BY <1>1, <2>3
  <2>5. ASSUME NEW t \in S, cut <= t.seq PROVE StampMs(zero, t.at) <= m <=> t.seq < x
    <3>1. ASSUME t.seq < x PROVE StampMs(zero, t.at) <= m
      <4>1. t.seq \notin T
        BY <1>1, <2>2, <2>4, <3>1
      <4> QED BY <2>5, <4>1
    <3>2. ASSUME ~(t.seq < x) PROVE ~(StampMs(zero, t.at) <= m)
      <4>1. t.seq = l.seq \/ l.seq < t.seq
        BY <1>1, <2>3, <2>4, <3>2
      <4>2. CASE l.seq < t.seq
        <5>1. StampMs(zero, l.at) <= StampMs(zero, t.at)
          BY <1>1, <2>4, <4>2
        <5> QED BY <1>1, <2>4, <5>1
      <4>3. CASE t.seq = l.seq
        <5>1. PICK u \in late : u.seq = x /\ u = l
          BY <2>3
        <5>2. t = l
          BY <2>4, <4>3, SeqUnique DEF S
        <5> QED BY <2>4, <5>2
      <4> QED BY <4>1, <4>2, <4>3
    <3> QED BY <3>1, <3>2
  <2> QED BY <1>2, <2>4, <2>5 DEF S
<1> QED BY <1>3, <1>4

\* Applying the schedule from one cut to the next leaves the cue that stands
\* at the next.
LEMMA DrainStands ==
    ASSUME NEW own, NEW first, NEW n, NEW mode, NEW C, TextsInOrder(own, first, n, mode, C),
           NEW zero \in Int, NEW cut \in Nat, NEW next \in Nat, cut <= next, next <= 2 * n,
           NEW cue, Stands(own, first, n, mode, cut, cue)
    PROVE  Stands(own, first, n, mode, next,
                  ActiveAfter(zero, cue, Between(own, first, n, mode, cut, next)))
<1> DEFINE S == Between(own, first, n, mode, cut, next)
           setters == {a \in S : a.kind # "expire"}
           last == CHOOSE a \in setters : \A b \in setters \ {a} : Precedes(zero, b, a)
           base == IF setters = {} THEN cue
                   ELSE IF last.kind = "show" THEN [gen |-> last.gen, text |-> last.text]
                   ELSE NoCue
           after == IF \E a \in S : a.kind = "expire" /\ a.gen = base.gen THEN NoCue ELSE base
<1>1. ActiveAfter(zero, cue, S) = after
  BY DEF ActiveAfter
<1>2. /\ first \in Nat /\ n \in Nat /\ first <= n
      /\ \A g \in first .. n - 1 : g \in Nat /\ first <= g /\ g < n
  BY DEF TextsInOrder
<1>3. \A t \in S : \E g \in first .. n - 1 :
         \/ t = Setter(own, g) /\ cut <= 2 * g /\ 2 * g < next
         \/ /\ mode = "timed" /\ own[g].text # Blank
            /\ t = Expiry(own, g) /\ cut <= 2 * g + 1 /\ 2 * g + 1 < next
  <2> SUFFICES ASSUME NEW t \in S
               PROVE  \E g \in first .. n - 1 :
                         \/ t = Setter(own, g) /\ cut <= 2 * g /\ 2 * g < next
                         \/ /\ mode = "timed" /\ own[g].text # Blank
                            /\ t = Expiry(own, g) /\ cut <= 2 * g + 1 /\ 2 * g + 1 < next
    OBVIOUS
  <2>1. t \in Schedule(own, first, n, mode) /\ cut <= t.seq /\ t.seq < next
    BY DEF Between
  <2>2. PICK g \in first .. n - 1 :
           \/ t = Setter(own, g)
           \/ mode = "timed" /\ own[g].text # Blank /\ t = Expiry(own, g)
    BY <2>1, ScheduleElements
  <2> QED BY <2>1, <2>2, TransitionFields
<1>4. \A g \in first .. n - 1 :
         /\ cut <= 2 * g /\ 2 * g < next => Setter(own, g) \in S
         /\ (mode = "timed" /\ own[g].text # Blank /\ cut <= 2 * g + 1 /\ 2 * g + 1 < next)
              => Expiry(own, g) \in S
  BY ScheduleElements, TransitionFields DEF Between
<1>5. \A a \in setters : \E g \in first .. n - 1 :
         a = Setter(own, g) /\ cut <= 2 * g /\ 2 * g < next
  BY <1>3, TransitionFields
<1>6. \A g \in first .. n - 1 :
         (\E a \in S : a.kind = "expire" /\ a.gen = g)
           <=> mode = "timed" /\ own[g].text # Blank /\ cut <= 2 * g + 1 /\ 2 * g + 1 < next
  <2> SUFFICES ASSUME NEW g \in first .. n - 1
               PROVE  (\E a \in S : a.kind = "expire" /\ a.gen = g)
                        <=> /\ mode = "timed" /\ own[g].text # Blank
                            /\ cut <= 2 * g + 1 /\ 2 * g + 1 < next
    OBVIOUS
  <2>1. ASSUME NEW a \in S, a.kind = "expire", a.gen = g
        PROVE  mode = "timed" /\ own[g].text # Blank /\ cut <= 2 * g + 1 /\ 2 * g + 1 < next
    BY <1>3, <2>1, TransitionFields
  <2> HIDE DEF S
  <2> QED BY <1>4, <2>1, TransitionFields
<1>7. \A a \in S : a.gen \in Nat
  BY <1>2, <1>3, TransitionFields
<1> HIDE DEF S
<1>8. CASE setters = {}
  <2>1. base = cue
    BY <1>8
  <2>2. \A g \in first .. n - 1 : ~(cut <= 2 * g /\ 2 * g < next)
    <3> SUFFICES ASSUME NEW g \in first .. n - 1, cut <= 2 * g, 2 * g < next PROVE FALSE
      OBVIOUS
    <3>1. Setter(own, g) \in S /\ Setter(own, g).kind # "expire"
      BY <1>4, TransitionFields
    <3> QED BY <1>8, <3>1
  <2> HIDE DEF setters, last, base
  <2>3. CASE cut = 2 * first /\ cue = NoCue
    <3>1. next = cut
      <4> SUFFICES ASSUME cut < next PROVE FALSE
        OBVIOUS
      <4>1. first \in first .. n - 1
        BY <1>2, <2>3
      <4> QED BY <1>2, <2>2, <2>3, <4>1
    <3>2. after = NoCue
      BY <2>1, <2>3
    <3> QED BY <1>1, <2>3, <3>1, <3>2 DEF Stands, S
  <2>4. ASSUME NEW g \in first .. n - 1, cut = 2 * g + 1 \/ cut = 2 * g + 2,
               cue = LeftBy(own, g, mode, cut)
        PROVE  Stands(own, first, n, mode, next, after)
    <3>1. next = cut \/ (cut = 2 * g + 1 /\ next = 2 * g + 2)
      <4> SUFFICES ASSUME 2 * g + 2 < next PROVE FALSE
        BY <1>2, <2>4
      <4>1. g + 1 \in first .. n - 1 /\ cut <= 2 * (g + 1) /\ 2 * (g + 1) < next
        BY <1>2, <2>4
      <4> QED BY <2>2, <4>1
    <3>2. after = LeftBy(own, g, mode, next)
      <4>1. CASE cue = NoCue
        <5>1. after = NoCue
          BY <2>1, <4>1
        <5>2. own[g].text = Blank \/ (mode = "timed" /\ cut = 2 * g + 2)
          BY <1>2, <2>4, <4>1 DEF LeftBy, NoCue
        <5> QED BY <1>2, <3>1, <5>1, <5>2 DEF LeftBy
      <4>2. CASE cue # NoCue
        <5>1. cue = [gen |-> g, text |-> own[g].text] /\ own[g].text # Blank
              /\ ~(mode = "timed" /\ cut = 2 * g + 2)
          BY <2>4, <4>2 DEF LeftBy
        <5>2. (\E a \in S : a.kind = "expire" /\ a.gen = base.gen)
                <=> mode = "timed" /\ cut <= 2 * g + 1 /\ 2 * g + 1 < next
          <6>1. base.gen = g
            BY <2>1, <5>1
          <6> QED BY <1>6, <5>1, <6>1
        <5>3. (cut <= 2 * g + 1 /\ 2 * g + 1 < next) <=> (next = 2 * g + 2 /\ cut = 2 * g + 1)
          BY <1>2, <2>4, <3>1
        <5>4. next = 2 * g + 2 => cut = 2 * g + 1 \/ cut = 2 * g + 2
          BY <2>4
        <5>5. after = IF mode = "timed" /\ next = 2 * g + 2 THEN NoCue ELSE cue
          BY <2>1, <5>1, <5>2, <5>3, <5>4
        <5> QED BY <5>1, <5>5 DEF LeftBy
      <4> QED BY <4>1, <4>2
    <3>3. next = 2 * g + 1 \/ next = 2 * g + 2
      BY <2>4, <3>1
    <3> HIDE DEF after
    <3> QED BY <3>2, <3>3 DEF Stands
  <2> QED BY <1>1, <2>3, <2>4 DEF Stands, S
<1>9. CASE setters # {}
  <2>1. PICK h \in first .. n - 1 : cut <= 2 * h /\ 2 * h < next
    BY <1>5, <1>9
  <2>2. PICK g \in first .. n - 1 : cut <= 2 * g /\ (next = 2 * g + 1 \/ next = 2 * g + 2)
    <3>1. \E g \in Nat : next = 2 * g + 1 \/ next = 2 * g + 2
      <4>1. \A x \in Nat : x > 0 => \E y \in Nat : x = 2 * y + 1 \/ x = 2 * y + 2
        BY HalfBelow
      <4>2. next > 0
        BY <1>2, <2>1
      <4> QED BY <4>1, <4>2
    <3> QED BY <1>2, <2>1, <3>1
  <2>3. Setter(own, g) \in setters
    BY <1>2, <1>4, <2>2, TransitionFields
  <2>4. \A a \in setters : a = Setter(own, g) \/ (a.seq < 2 * g /\ a.seq \in Nat)
    <3> SUFFICES ASSUME NEW a \in setters
                 PROVE  a = Setter(own, g) \/ (a.seq < 2 * g /\ a.seq \in Nat)
      OBVIOUS
    <3>1. PICK f \in first .. n - 1 : a = Setter(own, f) /\ 2 * f < next
      BY <1>5
    <3>2. a.seq = 2 * f
      BY <3>1, TransitionFields
    <3>3. f = g \/ f < g
      BY <1>2, <2>2, <3>1
    <3>4. f < g => 2 * f < 2 * g /\ 2 * f \in Nat
      BY <1>2
    <3> QED BY <3>1, <3>2, <3>3, <3>4
  <2>5. \A a \in setters : a = Setter(own, g) \/
           (Precedes(zero, a, Setter(own, g)) /\ ~Precedes(zero, Setter(own, g), a))
    <3> SUFFICES ASSUME NEW a \in setters, a # Setter(own, g)
                 PROVE  Precedes(zero, a, Setter(own, g)) /\ ~Precedes(zero, Setter(own, g), a)
      OBVIOUS
    <3> DEFINE b == Setter(own, g)
    <3>1. a \in Schedule(own, first, n, mode) /\ b \in Schedule(own, first, n, mode)
      BY <2>3 DEF S, Between
    <3>2. b.seq = 2 * g
      BY TransitionFields
    <3> HIDE DEF b, setters
    <3>3. a.seq < b.seq /\ a.seq \in Nat /\ b.seq \in Nat
      BY <1>2, <2>4, <3>2 DEF b
    <3>4. a.at \in Nat /\ b.at \in Nat /\ a.at <= b.at
      BY <3>1, <3>3, SeqOrdersTime
    <3>5. /\ StampMs(zero, a.at) \in Nat /\ StampMs(zero, b.at) \in Nat
          /\ StampMs(zero, a.at) <= StampMs(zero, b.at)
      BY <3>4, StampType, StampMonotone
    <3> QED BY <3>3, <3>5 DEF Precedes, b
  <2>6. last = Setter(own, g)
    <3>1. \E a \in setters : \A b \in setters \ {a} : Precedes(zero, b, a)
      BY <2>3, <2>5
    <3>2. last \in setters /\ \A b \in setters \ {last} : Precedes(zero, b, last)
      <4> HIDE DEF setters
      <4> QED BY <3>1
    <3> HIDE DEF last, setters
    <3> QED BY <2>3, <2>5, <3>2
  <2>7. base = IF own[g].text = Blank THEN NoCue ELSE [gen |-> g, text |-> own[g].text]
    <3>1. base = IF last.kind = "show" THEN [gen |-> last.gen, text |-> last.text] ELSE NoCue
      BY <1>9
    <3> HIDE DEF last, base
    <3> QED BY <2>6, <3>1, TransitionFields
  <2> HIDE DEF setters, last, base
  <2>8. after = LeftBy(own, g, mode, next)
    <3>1. CASE own[g].text = Blank
      <4>1. base = NoCue
        BY <2>7, <3>1
      <4>2. after = NoCue
        BY <4>1
      <4> QED BY <3>1, <4>2 DEF LeftBy
    <3>2. CASE own[g].text # Blank
      <4>1. base = [gen |-> g, text |-> own[g].text] /\ base.gen = g
        BY <2>7, <3>2
      <4>2. (\E a \in S : a.kind = "expire" /\ a.gen = base.gen)
              <=> mode = "timed" /\ next = 2 * g + 2
        <5>1. (cut <= 2 * g + 1 /\ 2 * g + 1 < next) <=> next = 2 * g + 2
          BY <1>2, <2>2
        <5> QED BY <1>6, <3>2, <4>1, <5>1
      <4> QED BY <3>2, <4>1, <4>2 DEF LeftBy
    <3> QED BY <3>1, <3>2
  <2> HIDE DEF after
  <2> QED BY <1>1, <2>2, <2>8 DEF Stands, S
<1> QED BY <1>8, <1>9

\* P and cue are what a cut leaves of the schedule of the texts of C.
CutAt(own, first, n, mode, C, cut, P, cue) ==
    /\ TextsInOrder(own, first, n, mode, C)
    /\ cut \in Nat /\ 2 * first <= cut /\ cut <= 2 * n
    /\ P = {t \in Schedule(own, first, n, mode) : cut <= t.seq}
    /\ Stands(own, first, n, mode, cut, cue)

\* Media has reached everything before the cut.
ReachedBefore(own, first, n, mode, cut, zero, now) ==
    \A t \in Schedule(own, first, n, mode) :
        t.seq < cut => zero # NoTime /\ StampMs(zero, t.at) <= now

\* What the element holds of the text timeline is a cut through its schedule.
CutInv ==
    flow = "ok" =>
        \E own, first, cut :
            /\ CutAt(own, first, nextGen, inputMode, cues, cut, pending, active)
            /\ ReachedBefore(own, first, nextGen, inputMode, cut, origin, position)

\* The intervals a loop loads follow each other.
LEMMA LoadedInOrder ==
    ASSUME TypeInv, QueueOrdered, NEW k \in 1 .. Len(textQ) + 1,
           \A j \in 1 .. k - 1 : BufferAt(j) /\ LoadOk(j)
    PROVE  \A i, j \in LoadedIndices(k) : i < j => textQ[i].end <= textQ[j].start
<1> DEFINE L == LoadedIndices(k)
           T == {j \in Nat : j \in L => \A i \in L : i < j => textQ[i].end <= textQ[j].start}
<1>1. Len(textQ) \in Nat /\ k \in Nat
  BY DEF TypeInv, TypeOK
<1>2. \A i \in L : /\ i \in Nat /\ 1 <= i /\ i <= k /\ i <= Len(textQ)
                   /\ BufferAt(i) /\ LoadOk(i) /\ ~(i = 1 /\ loaded)
  BY DEF LoadedIndices
<1>3. \A i \in L : /\ textQ[i].start \in Nat /\ textQ[i].end \in Nat
                   /\ textQ[i].start <= textQ[i].end
  <2>1. \A i \in 1 .. Len(textQ) : BufferAt(i) =>
           textQ[i].start \in Nat /\ textQ[i].end \in Nat /\ textQ[i].start <= textQ[i].end
    BY DEF TypeInv, TypeOK, BufferAt, TextBuffer, Interval, Event, QueueOrdered
  <2> QED BY <1>1, <1>2, <2>1
<1>4. ASSUME NEW j \in Nat, j + 1 \in L, NEW i \in L, i < j + 1
      PROVE  /\ j \in 1 .. Len(textQ) /\ textQ[j + 1].start = textQ[j].end
             /\ i = j \/ (j \in L /\ i < j)
  <2>1. j \in 1 .. Len(textQ) /\ j \in 1 .. k - 1
    BY <1>1, <1>2, <1>4
  <2>2. BufferAt(j) /\ LoadOk(j)
    BY <2>1
  <2>3. textQ[j].end \in Nat
    BY <2>1, <2>2 DEF TypeInv, TypeOK, BufferAt, TextBuffer, Interval, Event
  <2>4. textQ[j + 1].start = textQ[j].end
    <3>1. StartOk(j + 1)
      BY <1>2, <1>4, <2>1 DEF LoadOk
    <3>2. j + 1 # 1 /\ (j + 1) - 1 = j
      BY <2>1
    <3> QED BY <2>3, <3>1, <3>2 DEF StartOk, NoTime
  <2>5. i < j => j \in L
    <3> SUFFICES ASSUME i < j PROVE j \in L
      OBVIOUS
    <3>1. j # 1 /\ j <= k
      BY <1>1, <1>2, <2>1
    <3> QED BY <2>1, <2>2, <3>1 DEF LoadedIndices
  <2>6. i = j \/ i < j
    BY <1>2, <1>4
  <2> QED BY <2>1, <2>4, <2>5, <2>6
<1> HIDE DEF L
<1>5. T = Nat
  <2>1. 0 \in T
    BY <1>2
  <2>2. ASSUME NEW j \in T PROVE j + 1 \in T
    <3> SUFFICES ASSUME j + 1 \in L, NEW i \in L, i < j + 1
                 PROVE  textQ[i].end <= textQ[j + 1].start
      OBVIOUS
    <3>1. /\ textQ[j + 1].start = textQ[j].end
          /\ i = j \/ (j \in L /\ i < j)
      BY <1>4
    <3>2. CASE i = j
      BY <1>3, <3>1, <3>2
    <3>3. CASE j \in L /\ i < j
      <4>1. textQ[i].end <= textQ[j].start
        BY <2>2, <3>3
      <4> QED BY <1>3, <3>1, <3>3, <4>1
    <3> QED BY <3>1, <3>2, <3>3
  <2> HIDE DEF T
  <2>3. T \in SUBSET Nat
    BY DEF T
  <2> QED BY <2>1, <2>2, <2>3, NatInductionSet
<1> QED BY <1>2, <1>5 DEF L

\* The generations of a loop are the next ones, without a gap.
LEMMA GenerationsOnto ==
    ASSUME QueueTypeOK, nextGen \in Nat, NEW k \in 1 .. Len(textQ) + 1
    PROVE  \A g \in nextGen .. (nextGen + Cardinality(TextIndices(k))) - 1 :
              \E i \in TextIndices(k) : Generation(i) = g
<1> DEFINE c == Cardinality(TextIndices(k))
           f == [i \in TextIndices(k) |-> Generation(i)]
           G == nextGen .. (nextGen + c) - 1
<1>1. c \in Nat
  BY GenerationsDistinct
<1>2. \A i \in TextIndices(k) : i \in Nat
  BY DEF TextIndices, LoadedIndices, QueueTypeOK
<1>3. f \in Injection(TextIndices(k), G)
  <2>1. \A i \in TextIndices(k) : Generation(i) \in G
    BY <1>1, GenerationsDistinct
  <2>2. \A i, j \in TextIndices(k) : Generation(i) = Generation(j) => i = j
    <3>1. \A i, j \in TextIndices(k) : /\ Generation(i) \in Nat
                                       /\ i < j => Generation(i) < Generation(j)
      BY GenerationsDistinct
    <3>2. \A i, j \in TextIndices(k) : i < j \/ i = j \/ j < i
      BY <1>2
    <3> QED BY <3>1, <3>2
  <2> HIDE DEF G
  <2> QED BY <2>1, <2>2 DEF Injection, IsInjective
<1>4. IsFiniteSet(G) /\ Cardinality(G) = c
  <2>1. nextGen \in Int /\ (nextGen + c) - 1 \in Int
    BY <1>1
  <2> DEFINE b == (nextGen + c) - 1
  <2> HIDE DEF b, c
  <2>2. /\ IsFiniteSet(nextGen .. b)
        /\ Cardinality(nextGen .. b) = IF nextGen > b THEN 0 ELSE b - nextGen + 1
    BY <2>1, FS_Interval DEF b
  <2>3. Cardinality(nextGen .. b) = c
    BY <1>1, <2>2 DEF b
  <2> QED BY <2>2, <2>3 DEF b
<1> HIDE DEF G, f
<1>5. f \in Surjection(TextIndices(k), G)
  <2>1. Cardinality(TextIndices(k)) = Cardinality(G)
    BY <1>4
  <2> QED BY <1>3, <1>4, <2>1, FS_Injection
<1>6. \A g \in G : \E i \in TextIndices(k) : f[i] = g
  BY <1>5 DEF Surjection
<1> QED BY <1>6 DEF G, f

\* A loop adds the texts it loads to the end of the schedule.
LEMMA LoadTextCut ==
    ASSUME TypeInv, TiledInv, NEW k \in 1 .. Len(textQ) + 1, LoadText(k),
           \A j \in 1 .. k - 1 : BufferAt(j) /\ LoadOk(j),
           NEW own, NEW first, NEW cut,
           CutAt(own, first, nextGen, inputMode, cues, cut, pending, active)
    PROVE  \E own2 :
              /\ CutAt(own2, first, nextGen', inputMode, cues', cut,
                       pending \cup NewTransitions(k), active)
              /\ \A g \in first .. nextGen' - 1 : g < nextGen => own2[g] \in cues
              /\ \A t \in Schedule(own2, first, nextGen', inputMode) :
                    t.seq < cut => t \in Schedule(own, first, nextGen, inputMode)
<1> DEFINE n == nextGen
           n2 == nextGen'
           I == TextIndices(k)
           index(g) == CHOOSE i \in I : Generation(i) = g
           own2 == [g \in first .. n2 - 1 |-> IF g < n THEN own[g] ELSE textQ[index(g)]]
<1>1. /\ TextsInOrder(own, first, n, inputMode, cues)
      /\ cut \in Nat /\ 2 * first <= cut /\ cut <= 2 * n
      /\ pending = {t \in Schedule(own, first, n, inputMode) : cut <= t.seq}
      /\ Stands(own, first, n, inputMode, cut, active)
  BY DEF CutAt
<1>2. QueueTypeOK /\ n \in Nat /\ Len(textQ) \in Nat /\ first \in Nat /\ first <= n
  BY <1>1 DEF TypeInv, TypeOK, QueueTypeOK, TextsInOrder
<1>3. /\ n2 \in Nat /\ n <= n2
      /\ \A g \in n .. n2 - 1 : index(g) \in I /\ Generation(index(g)) = g
      /\ \A i \in I : Generation(i) \in Nat /\ n <= Generation(i) /\ Generation(i) < n2
      /\ \A i, j \in I : i < j => Generation(i) < Generation(j)
  <2>1. n2 = n + Cardinality(I)
    BY DEF LoadText
  <2>2. /\ Cardinality(I) \in Nat
        /\ \A i \in I : Generation(i) \in Nat /\ n <= Generation(i) /\ Generation(i) < n2
        /\ \A i, j \in I : i < j => Generation(i) < Generation(j)
    BY <1>2, <2>1, GenerationsDistinct
  <2>3. \A g \in n .. n2 - 1 : \E i \in I : Generation(i) = g
    <3>1. \A g \in n .. (n + Cardinality(I)) - 1 : \E i \in I : Generation(i) = g
      BY <1>2, GenerationsOnto
    <3> DEFINE N == n + Cardinality(I)
    <3> HIDE DEF N, I, n
    <3>2. \A g \in n .. N - 1 : \E i \in I : Generation(i) = g
      BY <3>1, Zenon DEF N
    <3>3. n2 = N
      BY <2>1 DEF N
    <3> HIDE DEF n2
    <3> QED BY <3>2, <3>3
  <2> HIDE DEF n2, I
  <2>4. \A g \in n .. n2 - 1 : index(g) \in I /\ Generation(index(g)) = g
    BY <2>3
  <2> QED BY <1>2, <2>1, <2>2, <2>4
<1>4. \A i \in I : /\ i \in Nat /\ i \in LoadedIndices(k) /\ textQ[i].type = "text"
                   /\ textQ[i] \in Interval /\ textQ[i] \in cues'
                   /\ textQ[i].start \in Nat /\ textQ[i].end \in Nat
                   /\ textQ[i].start <= textQ[i].end
                   /\ QueueTextOk(textQ[i].start, textQ[i].end, textQ[i].text, inputMode)
  <2> SUFFICES ASSUME NEW i \in I
               PROVE  /\ i \in Nat /\ i \in LoadedIndices(k) /\ textQ[i].type = "text"
                      /\ textQ[i] \in Interval /\ textQ[i] \in cues'
                      /\ textQ[i].start \in Nat /\ textQ[i].end \in Nat
                      /\ textQ[i].start <= textQ[i].end
                      /\ QueueTextOk(textQ[i].start, textQ[i].end, textQ[i].text, inputMode)
    OBVIOUS
  <2>1. i \in LoadedIndices(k) /\ textQ[i].type = "text"
    BY DEF TextIndices
  <2>2. i \in 1 .. Len(textQ) /\ BufferAt(i) /\ LoadOk(i) /\ ~(i = 1 /\ loaded)
    BY <2>1 DEF LoadedIndices
  <2>3. /\ textQ[i] \in Interval /\ textQ[i].start \in Nat /\ textQ[i].end \in Nat
        /\ textQ[i].start <= textQ[i].end
    BY <2>2 DEF TypeInv, TypeOK, BufferAt, TextBuffer, Interval, Event, TiledInv, QueueOrdered
  <2>4. QueueTextOk(textQ[i].start, textQ[i].end, textQ[i].text, inputMode)
    BY <2>1, <2>2 DEF LoadOk
  <2>5. textQ[i] \in cues'
    BY <2>1 DEF LoadText
  <2> QED BY <1>2, <2>1, <2>2, <2>3, <2>4, <2>5
<1>5. cues \subseteq cues' /\ \A c \in cues' : c.type = "text" => c \in cues \/ \E i \in I : c = textQ[i]
  BY DEF LoadText, TextIndices
<1>6. /\ TextFrontier \in TimeOption
      /\ \A c \in cues : c.end <= TextFrontier
      /\ \A i \in I : TextFrontier <= textQ[i].start
  <2>1. \A i \in LoadedIndices(k) : TextFrontier <= textQ[i].start
    BY LoadTextTiles
  <2> QED BY <1>4, <2>1, FrontierType DEF TiledInv, TiledTo
<1>7. \A i, j \in I : i < j => textQ[i].end <= textQ[j].start
  BY <1>4, LoadedInOrder DEF TiledInv
<1>20. n2 \in Nat /\ n <= n2 /\ n \in Nat /\ first \in Nat /\ first <= n
  BY <1>2, <1>3
<1>8. \A g \in first .. n2 - 1 :
         \/ g \in first .. n - 1 /\ g < n /\ own2[g] = own[g]
         \/ g \in n .. n2 - 1 /\ ~(g < n) /\ index(g) \in I /\ own2[g] = textQ[index(g)]
  <2> SUFFICES ASSUME NEW g \in first .. n2 - 1
               PROVE  \/ g \in first .. n - 1 /\ g < n /\ own2[g] = own[g]
                      \/ g \in n .. n2 - 1 /\ ~(g < n) /\ index(g) \in I
                         /\ own2[g] = textQ[index(g)]
    OBVIOUS
  <2>1. own2[g] = IF g < n THEN own[g] ELSE textQ[index(g)]
    OBVIOUS
  <2>2. g < n => g \in first .. n - 1
    <3> HIDE DEF n, n2
    <3> QED BY <1>20
  <2>3. ~(g < n) => g \in n .. n2 - 1
    <3> HIDE DEF n, n2
    <3> QED BY <1>20
  <2> HIDE DEF index, own2
  <2> QED BY <1>3, <2>1, <2>2, <2>3
<1>9. /\ \A g \in first .. n - 1 : g \in first .. n2 - 1 /\ own2[g] = own[g]
      /\ \A i \in I : Generation(i) \in first .. n2 - 1 /\ own2[Generation(i)] = textQ[i]
  <2>1. \A g \in first .. n - 1 : g \in first .. n2 - 1 /\ g < n
    <3> HIDE DEF n, n2
    <3> QED BY <1>20
  <2>2. ASSUME NEW i \in I
        PROVE  Generation(i) \in n .. n2 - 1 /\ index(Generation(i)) = i
    <3>1. Generation(i) \in n .. n2 - 1
      BY <1>2, <1>3
    <3> DEFINE j == index(Generation(i))
    <3>2. j \in I /\ Generation(j) = Generation(i)
      BY <1>3, <3>1
    <3> HIDE DEF j
    <3>3. j = i
      BY <1>3, <1>4, <3>2
    <3> QED BY <3>1, <3>3 DEF j
  <2>3. \A g \in first .. n2 - 1 : own2[g] = IF g < n THEN own[g] ELSE textQ[index(g)]
    OBVIOUS
  <2>4. \A g \in n .. n2 - 1 : g \in first .. n2 - 1 /\ ~(g < n)
    <3> HIDE DEF n, n2
    <3> QED BY <1>20
  <2> HIDE DEF index, own2, n, n2
  <2> QED BY <2>1, <2>2, <2>3, <2>4
<1> HIDE DEF own2, index
<1>10. TextsInOrder(own2, first, n2, inputMode, cues')
  <2>1. \A g \in first .. n2 - 1 :
           /\ own2[g] \in cues' /\ own2[g] \in Interval /\ own2[g].type = "text"
           /\ own2[g].start <= own2[g].end
           /\ QueueTextOk(own2[g].start, own2[g].end, own2[g].text, inputMode)
    <3>1. \A g \in first .. n - 1 :
             /\ own[g] \in cues' /\ own[g] \in Interval /\ own[g].type = "text"
             /\ own[g].start <= own[g].end
             /\ QueueTextOk(own[g].start, own[g].end, own[g].text, inputMode)
      BY <1>1, <1>5 DEF TextsInOrder
    <3> HIDE DEF n, n2, I
    <3> QED BY <1>4, <1>8, <3>1
  <2>2. ASSUME NEW g \in first .. n2 - 1, NEW h \in first .. n2 - 1, g < h
        PROVE  own2[g].end <= own2[h].start
    <3>1. CASE h < n
      <4>1. g < n
        BY <1>2, <1>3, <2>2, <3>1
      <4>2. own2[g] = own[g] /\ own2[h] = own[h] /\ g \in first .. n - 1 /\ h \in first .. n - 1
        BY <1>8, <3>1, <4>1
      <4> QED BY <1>1, <2>2, <4>2 DEF TextsInOrder
    <3>2. CASE ~(h < n) /\ g < n
      <4>1. own2[g] \in cues /\ own2[g].end \in Nat
        BY <1>1, <1>8, <3>2 DEF TextsInOrder, Interval
      <4>2. index(h) \in I /\ own2[h] = textQ[index(h)]
        BY <1>8, <3>2
      <4>3. own2[h].start \in Nat /\ TextFrontier <= own2[h].start /\ own2[g].end <= TextFrontier
        BY <1>4, <1>6, <4>1, <4>2
      <4> QED BY <1>6, <4>1, <4>3 DEF TimeOption, NoTime
    <3>3. CASE ~(h < n) /\ ~(g < n)
      <4>1. /\ index(h) \in I /\ own2[h] = textQ[index(h)] /\ Generation(index(h)) = h
            /\ index(g) \in I /\ own2[g] = textQ[index(g)] /\ Generation(index(g)) = g
        BY <1>3, <1>8, <3>3
      <4>2. index(g) < index(h)
        <5> DEFINE i == index(g)
                   j == index(h)
        <5> HIDE DEF i, j
        <5>1. i \in I /\ j \in I /\ Generation(i) < Generation(j) /\ i \in Nat /\ j \in Nat
          BY <1>4, <2>2, <4>1 DEF i, j
        <5>2. ~(j < i) /\ i # j
          BY <1>3, <5>1
        <5>3. i < j
          BY <5>1, <5>2
        <5> QED BY <5>3 DEF i, j
      <4> QED BY <1>7, <4>1, <4>2
    <3> QED BY <3>1, <3>2, <3>3
  <2>3. ASSUME NEW c \in cues', c.type = "text"
        PROVE  \E g \in first .. n2 - 1 : own2[g] = c
    <3>1. CASE c \in cues
      BY <1>1, <1>9, <2>3, <3>1 DEF TextsInOrder
    <3>2. CASE \E i \in I : c = textQ[i]
      BY <1>9, <3>2
    <3> QED BY <1>5, <2>3, <3>1, <3>2
  <2>4. first <= n2
    BY <1>2, <1>3
  <2> HIDE DEF n2
  <2> QED BY <1>2, <1>3, <2>1, <2>2, <2>3, <2>4 DEF TextsInOrder
<1>11. \A t : t \in Schedule(own2, first, n2, inputMode) <=>
                t \in Schedule(own, first, n, inputMode) \/ t \in NewTransitions(k)
  <2> DEFINE q(x, g) == QueueText(g, x.start, x.end, x.text, inputMode)
  <2>1. \A t : /\ t \in Schedule(own2, first, n2, inputMode) <=>
                    \E g \in first .. n2 - 1 : t \in q(own2[g], g)
               /\ t \in Schedule(own, first, n, inputMode) <=>
                    \E g \in first .. n - 1 : t \in q(own[g], g)
               /\ t \in NewTransitions(k) <=> \E i \in I : t \in q(textQ[i], Generation(i))
    <3> HIDE DEF n2
    <3> QED BY DEF Schedule, NewTransitions
  <2> HIDE DEF q
  <2>2. ASSUME NEW t, NEW g \in first .. n2 - 1, t \in q(own2[g], g)
        PROVE  \/ \E h \in first .. n - 1 : t \in q(own[h], h)
               \/ \E i \in I : t \in q(textQ[i], Generation(i))
    BY <1>3, <1>8, <2>2
  <2>3. ASSUME NEW t, NEW g \in first .. n - 1, t \in q(own[g], g)
        PROVE  \E h \in first .. n2 - 1 : t \in q(own2[h], h)
    BY <1>9, <2>3
  <2>4. ASSUME NEW t, NEW i \in I, t \in q(textQ[i], Generation(i))
        PROVE  \E h \in first .. n2 - 1 : t \in q(own2[h], h)
    BY <1>9, <2>4
  <2> HIDE DEF n2, n, I
  <2> QED BY <2>1, <2>2, <2>3, <2>4
<1>12. \A t \in NewTransitions(k) : t.seq \in Nat /\ 2 * n <= t.seq
  <2> SUFFICES ASSUME NEW t \in NewTransitions(k) PROVE t.seq \in Nat /\ 2 * n <= t.seq
    OBVIOUS
  <2>1. PICK i \in I :
           t \in QueueText(Generation(i), textQ[i].start, textQ[i].end, textQ[i].text, inputMode)
    BY DEF NewTransitions
  <2>2. t.seq = 2 * Generation(i) \/ t.seq = 2 * Generation(i) + 1
    BY <2>1 DEF QueueText
  <2> QED BY <1>2, <1>3, <2>2
<1>13. \A t \in NewTransitions(k) : cut <= t.seq /\ ~(t.seq < cut)
  BY <1>1, <1>2, <1>12
<1>14. pending \cup NewTransitions(k) = {t \in Schedule(own2, first, n2, inputMode) : cut <= t.seq}
  <2> HIDE DEF n2, n
  <2> QED BY <1>1, <1>11, <1>13
<1>15. Stands(own2, first, n2, inputMode, cut, active)
  <2>1. ASSUME NEW g \in first .. n - 1
        PROVE  g \in first .. n2 - 1 /\ LeftBy(own2, g, inputMode, cut) = LeftBy(own, g, inputMode, cut)
    BY <1>9 DEF LeftBy
  <2> HIDE DEF n2, n
  <2> QED BY <1>1, <2>1 DEF Stands
<1>16. cut <= 2 * n2
  <2> HIDE DEF n, n2
  <2> QED BY <1>1, <1>20
<1>17. CutAt(own2, first, n2, inputMode, cues', cut, pending \cup NewTransitions(k), active)
  <2> HIDE DEF n2
  <2> QED BY <1>1, <1>10, <1>14, <1>15, <1>16 DEF CutAt
<1>18. \A g \in first .. n2 - 1 : g < n => own2[g] \in cues
  BY <1>1, <1>8 DEF TextsInOrder
<1>19. \A t \in Schedule(own2, first, n2, inputMode) :
          t.seq < cut => t \in Schedule(own, first, n, inputMode)
  BY <1>11, <1>13
<1> QED BY <1>17, <1>18, <1>19

\* Applying what time has reached of a cut moves it, and leaves the cue that
\* stands at the new one.
LEMMA CutReached ==
    ASSUME NEW own, NEW first, NEW n, NEW mode, NEW C, NEW cut, NEW P, NEW cue,
           CutAt(own, first, n, mode, C, cut, P, cue), NEW zero \in Int, NEW m \in Int
    PROVE  \E next \in Nat :
              /\ cut <= next /\ next <= 2 * n
              /\ \A t \in Schedule(own, first, n, mode) :
                    cut <= t.seq => (StampMs(zero, t.at) <= m <=> t.seq < next)
              /\ Stands(own, first, n, mode, next,
                        ActiveAfter(zero, cue, {a \in P : StampMs(zero, a.at) <= m}))
<1>1. /\ TextsInOrder(own, first, n, mode, C)
      /\ cut \in Nat /\ 2 * first <= cut /\ cut <= 2 * n
      /\ P = {t \in Schedule(own, first, n, mode) : cut <= t.seq}
      /\ Stands(own, first, n, mode, cut, cue)
  BY DEF CutAt
<1>2. PICK next \in Nat :
         /\ cut <= next /\ next <= 2 * n
         /\ \A t \in Schedule(own, first, n, mode) :
               cut <= t.seq => (StampMs(zero, t.at) <= m <=> t.seq < next)
  BY <1>1, ReachedIsBetween
<1>3. {a \in P : StampMs(zero, a.at) <= m} = Between(own, first, n, mode, cut, next)
  BY <1>1, <1>2 DEF Between
<1>4. Stands(own, first, n, mode, next,
             ActiveAfter(zero, cue, Between(own, first, n, mode, cut, next)))
  BY <1>1, <1>2, DrainStands
<1> QED BY <1>2, <1>3, <1>4

\* The origin comes with the first media, and the position follows the last.
CalibratedInv == origin # NoTime => lastMedia # NoTime /\ position = StampMs(origin, lastMedia)

\* What process_flv_buffer does to the timeline.
LEMMA PushEffect ==
    ASSUME TypeInv, CalibratedInv, PushMedia(TRUE) \/ PushMedia(FALSE)
    PROVE  /\ MediaTime \in Nat /\ Zero \in Int /\ Zero # NoTime
           /\ lastMedia # NoTime => lastMedia <= MediaTime
           /\ origin # NoTime => Zero = origin /\ position <= position'
           /\ origin' = Zero /\ lastMedia' = MediaTime /\ inputMode' = inputMode
           /\ position' = StampMs(Zero, MediaTime) /\ position' \in Nat
           /\ pending' = Reachable \ {a \in Reachable : StampMs(Zero, a.at) <= position'}
           /\ active' = ActiveAfter(Zero, active,
                                    {a \in Reachable : StampMs(Zero, a.at) <= position'})
           /\ Covering(StopIndex(MediaTime), MediaTime)
                \/ (StopIndex(MediaTime) > Len(textQ) /\ textEos)
<1>1. flvQ # <<>> /\ Head(flvQ).type = "media" /\ (lastMedia = NoTime \/ MediaTime >= lastMedia)
  BY DEF PushMedia, AdmissibleMedia, BufferAtHead, MediaTime
<1>2. MediaTime \in Nat
  <2>1. Head(flvQ) \in Media \cup Event
    BY <1>1 DEF TypeInv, TypeOK
  <2> QED BY <1>1, <2>1 DEF Media, Event, MediaTime
<1>3. Zero \in Nat /\ Zero \in Int /\ Zero # NoTime
  BY <1>2 DEF TypeInv, TypeOK, TimeOption, NoTime, Zero
<1>4. /\ origin' = Zero /\ lastMedia' = MediaTime /\ inputMode' = inputMode
      /\ position' = StampMs(Zero, MediaTime)
      /\ pending' = Reachable \ Reached(Zero, Reachable, position')
      /\ active' = ActiveAfter(Zero, active, Reached(Zero, Reachable, position'))
      /\ Covering(StopIndex(MediaTime), MediaTime)
           \/ (StopIndex(MediaTime) > Len(textQ) /\ textEos)
  BY DEF PushMedia, Zero, MediaTime, Reachable, settings
<1>5. lastMedia # NoTime => lastMedia <= MediaTime /\ lastMedia \in Nat
  BY <1>1, <1>2 DEF TypeInv, TypeOK, TimeOption
<1>6. origin # NoTime => Zero = origin /\ position <= position'
  <2> SUFFICES ASSUME origin # NoTime PROVE Zero = origin /\ position <= position'
    OBVIOUS
  <2>1. Zero = origin /\ lastMedia # NoTime /\ position = StampMs(origin, lastMedia)
    BY DEF CalibratedInv, Zero
  <2>2. StampMs(Zero, lastMedia) <= StampMs(Zero, MediaTime)
    BY <1>2, <1>3, <1>5, <2>1, StampMonotone
  <2> QED BY <1>4, <2>1, <2>2
<1>7. position' \in Nat
  BY <1>2, <1>3, <1>4, StampType
<1> QED BY <1>2, <1>3, <1>4, <1>5, <1>6, <1>7 DEF Reached

LEMMA CalibratedStep == TypeInv /\ CalibratedInv /\ [Next]_vars => CalibratedInv'
<1> SUFFICES ASSUME TypeInv, CalibratedInv, [Next]_vars PROVE CalibratedInv'
  OBVIOUS
<1>1. CASE \E pushOk \in BOOLEAN : PushMedia(pushOk)
  <2>1. PushMedia(TRUE) \/ PushMedia(FALSE)
    BY <1>1
  <2>2. MediaTime \in Nat /\ origin' = Zero /\ lastMedia' = MediaTime
        /\ position' = StampMs(Zero, MediaTime)
    BY <2>1, PushEffect
  <2> QED BY <2>2 DEF CalibratedInv, NoTime
<1>2. CASE FlvSegment \/ Flush \/ ReadyToPaused
  BY <1>2 DEF FlvSegment, Flush, ReadyToPaused, ResetRuntime, CalibratedInv
<1>3. CASE \/ \E item \in TextItems : TextArrives(item)
           \/ \E item \in MediaItems : MediaArrives(item)
           \/ \E pushOk \in BOOLEAN : ForwardHeader(pushOk) \/ Finish(pushOk)
           \/ RefuseMedia \/ AwaitText \/ RefuseText \/ TextSegment \/ FlvEosEvent
           \/ TextEosEvent \/ UNCHANGED vars
  <2>1. UNCHANGED <<origin, position, lastMedia>>
    BY <1>3 DEF TextArrives, MediaArrives, ForwardHeader, Finish, RefuseMedia, AwaitText,
       RefuseText, TextSegment, FlvEosEvent, TextEosEvent, vars, stateVars
  <2> QED BY <2>1 DEF CalibratedInv
<1> QED BY <1>1, <1>2, <1>3 DEF Next, Upstream, Aggregate, SinkEvent

\* A media buffer moves the cut over the timeline it has loaded.
LEMMA CutPush ==
    ASSUME TypeInv, TiledInv, CalibratedInv, PushMedia(TRUE) \/ PushMedia(FALSE),
           NEW own, NEW first, NEW cut,
           CutAt(own, first, nextGen, inputMode, cues, cut, pending, active),
           ReachedBefore(own, first, nextGen, inputMode, cut, origin, position)
    PROVE  \E own2, next :
              /\ CutAt(own2, first, nextGen', inputMode, cues', cut, Reachable, active)
              /\ CutAt(own2, first, nextGen', inputMode, cues', next, pending', active')
              /\ ReachedBefore(own2, first, nextGen', inputMode, next, origin', position')
              /\ \A g \in first .. nextGen' - 1 : g < nextGen => own2[g] \in cues
<1> DEFINE k == StopIndex(MediaTime)
<1>1. /\ k \in 1 .. Len(textQ) + 1 /\ LoadText(k)
      /\ \A j \in 1 .. k - 1 : BufferAt(j) /\ LoadOk(j)
  BY PushLoads DEF MediaTime
<1>2. PICK own2 :
         /\ CutAt(own2, first, nextGen', inputMode, cues', cut, pending \cup NewTransitions(k), active)
         /\ \A g \in first .. nextGen' - 1 : g < nextGen => own2[g] \in cues
         /\ \A t \in Schedule(own2, first, nextGen', inputMode) :
               t.seq < cut => t \in Schedule(own, first, nextGen, inputMode)
  <2> HIDE DEF k
  <2> QED BY <1>1, LoadTextCut
<1>3. /\ Zero \in Int /\ Zero # NoTime /\ position' \in Nat
      /\ origin # NoTime => Zero = origin /\ position <= position'
      /\ origin' = Zero
      /\ pending' = Reachable \ {a \in Reachable : StampMs(Zero, a.at) <= position'}
      /\ active' = ActiveAfter(Zero, active,
                               {a \in Reachable : StampMs(Zero, a.at) <= position'})
  BY PushEffect
<1>4. CutAt(own2, first, nextGen', inputMode, cues', cut, Reachable, active)
  BY <1>2 DEF Reachable
<1> HIDE DEF k
<1> DEFINE S == Schedule(own2, first, nextGen', inputMode)
<1>5. PICK next \in Nat :
         /\ cut <= next /\ next <= 2 * nextGen'
         /\ \A t \in S : cut <= t.seq => (StampMs(Zero, t.at) <= position' <=> t.seq < next)
         /\ Stands(own2, first, nextGen', inputMode, next, active')
  <2> DEFINE now == position'
  <2>1. now \in Int
    BY <1>3
  <2> HIDE DEF now
  <2>2. \E next \in Nat :
           /\ cut <= next /\ next <= 2 * nextGen'
           /\ \A t \in Schedule(own2, first, nextGen', inputMode) :
                 cut <= t.seq => (StampMs(Zero, t.at) <= now <=> t.seq < next)
           /\ Stands(own2, first, nextGen', inputMode, next,
                     ActiveAfter(Zero, active, {a \in Reachable : StampMs(Zero, a.at) <= now}))
    BY <1>3, <1>4, <2>1, CutReached
  <2> QED BY <1>3, <2>2 DEF now
<1>6. /\ TextsInOrder(own2, first, nextGen', inputMode, cues')
      /\ cut \in Nat /\ 2 * first <= cut /\ cut <= 2 * nextGen'
      /\ Reachable = {t \in S : cut <= t.seq}
      /\ first \in Nat
  BY <1>4 DEF CutAt, TextsInOrder
<1>7. \A t \in S : t.seq \in Nat
  BY <1>6, SeqOrdersTime
<1>8. pending' = {t \in S : next <= t.seq}
  <2> HIDE DEF S
  <2>1. ASSUME NEW t \in S PROVE t \in pending' <=> next <= t.seq
    <3>1. t \in pending' <=> cut <= t.seq /\ ~(StampMs(Zero, t.at) <= position')
      BY <1>3, <1>6
    <3>2. cut <= t.seq => (StampMs(Zero, t.at) <= position' <=> t.seq < next)
      BY <1>5
    <3>3. t.seq \in Nat /\ (next <= t.seq <=> ~(t.seq < next)) /\ (next <= t.seq => cut <= t.seq)
      BY <1>5, <1>6, <1>7
    <3> QED BY <3>1, <3>2, <3>3
  <2>2. \A t \in pending' : t \in S
    BY <1>3, <1>6
  <2> QED BY <2>1, <2>2
<1>9. 2 * first <= next
  BY <1>5, <1>6
<1>10. CutAt(own2, first, nextGen', inputMode, cues', next, pending', active')
  <2> QED BY <1>5, <1>6, <1>8, <1>9 DEF CutAt
<1>11. ReachedBefore(own2, first, nextGen', inputMode, next, origin', position')
  <2> SUFFICES ASSUME NEW t \in S, t.seq < next PROVE StampMs(Zero, t.at) <= position'
    BY <1>3 DEF ReachedBefore
  <2>1. CASE cut <= t.seq
    BY <1>5, <2>1
  <2>2. CASE ~(cut <= t.seq)
    <3>1. t.seq < cut
      BY <1>6, <1>7, <2>2
    <3>2. t \in Schedule(own, first, nextGen, inputMode)
      BY <1>2, <3>1
    <3>3. origin # NoTime /\ StampMs(origin, t.at) <= position
      BY <3>1, <3>2 DEF ReachedBefore
    <3>4. t.at \in Nat /\ position \in Nat
      BY <1>6, SeqOrdersTime DEF TypeInv, TypeOK
    <3>5. StampMs(Zero, t.at) \in Nat
      BY <1>3, <3>4, StampType
    <3>6. StampMs(Zero, t.at) <= position /\ position <= position'
      BY <1>3, <3>3
    <3> QED BY <1>3, <3>4, <3>5, <3>6
  <2> QED BY <2>1, <2>2
<1> QED BY <1>2, <1>4, <1>10, <1>11

LEMMA CutStep ==
    TypeInv /\ TiledInv /\ CalibratedInv /\ CutInv /\ [Next]_vars => CutInv'
<1> SUFFICES ASSUME TypeInv, TiledInv, CalibratedInv, CutInv, [Next]_vars, flow' = "ok"
             PROVE  \E own, first, cut :
                       /\ CutAt(own, first, nextGen', inputMode', cues', cut, pending', active')
                       /\ ReachedBefore(own, first, nextGen', inputMode', cut, origin', position')
  BY DEF CutInv
<1> DEFINE Goal == \E own, first, cut :
                      /\ CutAt(own, first, nextGen', inputMode', cues', cut, pending', active')
                      /\ ReachedBefore(own, first, nextGen', inputMode', cut, origin', position')
<1>1. CASE \E pushOk \in BOOLEAN : PushMedia(pushOk)
  <2>1. PushMedia(TRUE) \/ PushMedia(FALSE)
    BY <1>1
  <2>2. flow = "ok" /\ inputMode' = inputMode
    BY <2>1 DEF PushMedia, AdmissibleMedia, settings
  <2>3. PICK own, first, cut :
           /\ CutAt(own, first, nextGen, inputMode, cues, cut, pending, active)
           /\ ReachedBefore(own, first, nextGen, inputMode, cut, origin, position)
    BY <2>2 DEF CutInv
  <2>4. \E own2, next :
           /\ CutAt(own2, first, nextGen', inputMode, cues', next, pending', active')
           /\ ReachedBefore(own2, first, nextGen', inputMode, next, origin', position')
    BY <2>1, <2>3, CutPush
  <2> QED BY <2>2, <2>4
<1>2. ASSUME NEW k \in 1 .. Len(textQ) + 1, LoadText(k), flow = "ok",
             \A j \in 1 .. k - 1 : BufferAt(j) /\ LoadOk(j),
             pending' = pending \cup NewTransitions(k),
             UNCHANGED <<active, inputMode, origin, position>>
      PROVE  Goal
  <2>1. PICK own, first, cut :
           /\ CutAt(own, first, nextGen, inputMode, cues, cut, pending, active)
           /\ ReachedBefore(own, first, nextGen, inputMode, cut, origin, position)
    BY <1>2 DEF CutInv
  <2>2. PICK own2 :
           /\ CutAt(own2, first, nextGen', inputMode, cues', cut, pending \cup NewTransitions(k),
                    active)
           /\ \A t \in Schedule(own2, first, nextGen', inputMode) :
                 t.seq < cut => t \in Schedule(own, first, nextGen, inputMode)
    BY <1>2, <2>1, LoadTextCut
  <2>3. ReachedBefore(own2, first, nextGen', inputMode, cut, origin, position)
    BY <2>1, <2>2 DEF ReachedBefore
  <2> QED BY <1>2, <2>2, <2>3
<1>3. CASE AwaitText \/ RefuseText
  <2> DEFINE k == StopIndex(Head(flvQ).at)
  <2>1. /\ k \in 1 .. Len(textQ) + 1 /\ LoadText(k)
        /\ \A j \in 1 .. k - 1 : BufferAt(j) /\ LoadOk(j)
    BY <1>3, PushLoads
  <2>2. /\ pending' = pending \cup NewTransitions(k) /\ flow = "ok"
        /\ UNCHANGED <<active, inputMode, origin, position>>
    BY <1>3 DEF AwaitText, RefuseText, AdmissibleMedia, settings
  <2> HIDE DEF k, Goal
  <2>3. Goal
    BY <1>2, <2>1, <2>2
  <2> QED BY <2>3 DEF Goal
<1>4. CASE \E pushOk \in BOOLEAN : Finish(pushOk)
  <2>1. Finish(TRUE) \/ Finish(FALSE)
    BY <1>4
  <2>2. /\ FinishIndex \in 1 .. Len(textQ) + 1 /\ LoadText(FinishIndex)
        /\ \A j \in 1 .. FinishIndex - 1 : BufferAt(j) /\ LoadOk(j)
    BY <2>1, FinishLoads
  <2>3. ~(FinishIndex > Len(textQ) /\ textEos)
    <3> SUFFICES ASSUME FinishIndex > Len(textQ) /\ textEos PROVE flow' # "ok"
      OBVIOUS
    <3> QED BY <2>1 DEF Finish
  <2>4. /\ pending' = pending \cup NewTransitions(FinishIndex) /\ flow = "ok"
        /\ UNCHANGED <<active, inputMode, origin, position>>
    BY <2>1, <2>3 DEF Finish, settings
  <2> HIDE DEF Goal
  <2>5. Goal
    BY <1>2, <2>2, <2>4
  <2> QED BY <2>5 DEF Goal
<1>5. CASE FlvSegment \/ TextSegment \/ Flush \/ ReadyToPaused
  <2>1. pending' = {} /\ active' = NoCue /\ cues' = {}
    BY <1>5 DEF FlvSegment, TextSegment, Flush, ReadyToPaused, ResetRuntime, ResetTimeline
  <2>7. nextGen' \in Nat
    <3>1. TypeInv'
      BY TypeStep
    <3> QED BY <3>1 DEF TypeInv, TypeOK
  <2> DEFINE N == nextGen'
             M == inputMode'
  <2> HIDE DEF N, M
  <2>2. N \in Nat /\ N .. N - 1 = {}
    <3>1. N \in Nat
      BY <2>7 DEF N
    <3> QED BY <3>1
  <2>3. Schedule(<<>>, N, N, M) = {}
    BY <2>2 DEF Schedule
  <2>4. TextsInOrder(<<>>, N, N, M, {})
    BY <2>2 DEF TextsInOrder
  <2>5. CutAt(<<>>, N, N, M, {}, 2 * N, {}, NoCue)
    BY <2>2, <2>3, <2>4 DEF CutAt, Stands
  <2>6. ReachedBefore(<<>>, N, N, M, 2 * N, origin', position')
    BY <2>3 DEF ReachedBefore
  <2> QED BY <2>1, <2>5, <2>6 DEF N, M
<1>6. CASE \/ \E item \in TextItems : TextArrives(item)
           \/ \E item \in MediaItems : MediaArrives(item)
           \/ \E pushOk \in BOOLEAN : ForwardHeader(pushOk)
           \/ RefuseMedia \/ FlvEosEvent \/ TextEosEvent \/ UNCHANGED vars
  <2>1. UNCHANGED <<nextGen, inputMode, cues, pending, active, origin, position>>
    BY <1>6 DEF TextArrives, MediaArrives, ForwardHeader, RefuseMedia, FlvEosEvent,
       TextEosEvent, vars, stateVars, captionVars, observed, settings
  <2>2. flow = "ok"
    BY <1>6 DEF TextArrives, MediaArrives, ForwardHeader, RefuseMedia, FlvEosEvent,
       TextEosEvent, vars
  <2> QED BY <2>1, <2>2 DEF CutInv
<1> QED BY <1>1, <1>3, <1>4, <1>5, <1>6 DEF Next, Upstream, Aggregate, SinkEvent

LEMMA CutInit == Init => CutInv /\ CalibratedInv
<1> SUFFICES ASSUME Init PROVE CutInv /\ CalibratedInv
  OBVIOUS
<1>1. Schedule(<<>>, 0, 0, inputMode) = {}
  BY DEF Schedule
<1>2. TextsInOrder(<<>>, 0, 0, inputMode, {})
  BY DEF TextsInOrder
<1>3. CutAt(<<>>, 0, 0, inputMode, {}, 0, {}, NoCue)
  BY <1>1, <1>2 DEF CutAt, Stands
<1>4. ReachedBefore(<<>>, 0, 0, inputMode, 0, origin, position)
  BY <1>1 DEF ReachedBefore
<1> QED BY <1>3, <1>4 DEF Init, CutInv, CalibratedInv

-----------------------------------------------------------------------------
\* No cue is skipped.

\* A text whose transition is still held is written at its own stamp, unless it
\* lasts less than the resolution of stamps or its words were on screen already.
LEMMA CutWrites ==
    ASSUME NEW own, NEW first, NEW n, NEW mode, NEW C, NEW cut, NEW P, NEW cue,
           CutAt(own, first, n, mode, C, cut, P, cue),
           NEW zero \in Int, NEW now \in Int, NEW g \in first .. n - 1,
           own[g].text # Blank, cut <= 2 * g,
           StampMs(zero, own[g].start) < StampMs(zero, own[g].end),
           StampMs(zero, own[g].start) <= now
    PROVE  \/ [stamp |-> StampMs(zero, own[g].start), text |-> own[g].text]
                \in DrainTags(zero, cue, P, now)
           \/ \E h \in first .. n - 1 : h < g /\ own[h].text = own[g].text
<1> DEFINE S == Schedule(own, first, n, mode)
           s == StampMs(zero, own[g].start)
           upTo(m) == {a \in P : StampMs(zero, a.at) <= m}
<1>1. /\ TextsInOrder(own, first, n, mode, C)
      /\ cut \in Nat /\ 2 * first <= cut /\ cut <= 2 * n
      /\ P = {t \in S : cut <= t.seq}
      /\ first \in Nat /\ n \in Nat /\ g \in Nat /\ g < n /\ first <= g
      /\ own[g].start \in Nat /\ own[g].end \in Nat
      /\ s \in Nat /\ StampMs(zero, own[g].end) \in Nat
  <2>1. TextsInOrder(own, first, n, mode, C)
    BY DEF CutAt
  <2>2. own[g].start \in Nat /\ own[g].end \in Nat
    BY <2>1, TextFacts
  <2>3. s \in Nat /\ StampMs(zero, own[g].end) \in Nat
    BY <2>2, StampType
  <2>4. first \in Nat /\ n \in Nat /\ g \in Nat /\ g < n /\ first <= g
    BY <2>1 DEF TextsInOrder
  <2> HIDE DEF s
  <2> QED BY <2>1, <2>2, <2>3, <2>4 DEF CutAt
<1>2. Setter(own, g) \in P /\ Setter(own, g).at = own[g].start /\ Setter(own, g).seq = 2 * g
  BY <1>1, ScheduleElements, TransitionFields
<1>3. PICK next \in Nat :
         /\ cut <= next /\ next <= 2 * n
         /\ \A t \in S : cut <= t.seq => (StampMs(zero, t.at) <= s <=> t.seq < next)
         /\ Stands(own, first, n, mode, next, ActiveAfter(zero, cue, upTo(s)))
  <2> DEFINE m == s
  <2>1. m \in Int
    BY <1>1
  <2> HIDE DEF m
  <2>2. \E next \in Nat :
         /\ cut <= next /\ next <= 2 * n
         /\ \A t \in S : cut <= t.seq => (StampMs(zero, t.at) <= m <=> t.seq < next)
         /\ Stands(own, first, n, mode, next, ActiveAfter(zero, cue, upTo(m)))
    BY <2>1, CutReached
  <2> QED BY <2>2 DEF m
<1>4. PICK prev \in Nat :
         /\ cut <= prev /\ prev <= 2 * n
         /\ \A t \in S : cut <= t.seq => (StampMs(zero, t.at) <= s - 1 <=> t.seq < prev)
         /\ Stands(own, first, n, mode, prev, ActiveAfter(zero, cue, upTo(s - 1)))
  <2> DEFINE m == s - 1
  <2>1. m \in Int
    BY <1>1
  <2> HIDE DEF m
  <2>2. \E prev \in Nat :
         /\ cut <= prev /\ prev <= 2 * n
         /\ \A t \in S : cut <= t.seq => (StampMs(zero, t.at) <= m <=> t.seq < prev)
         /\ Stands(own, first, n, mode, prev, ActiveAfter(zero, cue, upTo(m)))
    BY <2>1, CutReached
  <2> QED BY <2>2 DEF m
<1> DEFINE shown == ActiveAfter(zero, cue, upTo(s))
           before == ActiveAfter(zero, cue, upTo(s - 1))
<1>5. 2 * g < next /\ prev <= 2 * g
  <2>1. Setter(own, g) \in S /\ StampMs(zero, Setter(own, g).at) = s
    BY <1>1, <1>2
  <2>2. s <= s /\ ~(s <= s - 1)
    BY <1>1
  <2> HIDE DEF s, S
  <2>3. 2 * g < next /\ ~(2 * g < prev)
    BY <1>2, <1>3, <1>4, <2>1, <2>2
  <2> QED BY <1>1, <1>4, <2>3
<1>6. next = 2 * g + 1 \/ (next = 2 * g + 2 /\ mode # "timed")
  <2>1. next <= 2 * g + 2
    <3> SUFFICES ASSUME 2 * g + 2 < next PROVE FALSE
      BY <1>1, <1>3
    <3>1. g + 1 \in first .. n - 1 /\ g < g + 1
      BY <1>1, <1>3
    <3> DEFINE t == Setter(own, g + 1)
    <3>2. t \in S /\ t.seq = 2 * (g + 1) /\ t.at = own[g + 1].start
      BY <3>1, ScheduleElements, TransitionFields
    <3> HIDE DEF t, S
    <3>3. StampMs(zero, t.at) <= s
      BY <1>1, <1>3, <3>2
    <3>4. own[g].end <= t.at /\ t.at \in Nat
      <4>1. own[g].end <= own[g + 1].start
        BY <1>1, <3>1 DEF TextsInOrder
      <4>2. own[g + 1].start \in Nat
        BY <1>1, <3>1, TextFacts
      <4> QED BY <3>2, <4>1, <4>2
    <3>5. StampMs(zero, own[g].end) <= StampMs(zero, t.at) /\ StampMs(zero, t.at) \in Nat
      BY <1>1, <3>4, StampMonotone, StampType
    <3> QED BY <1>1, <3>3, <3>5
  <2>2. mode = "timed" => ~(2 * g + 1 < next)
    <3> SUFFICES ASSUME mode = "timed", 2 * g + 1 < next PROVE FALSE
      OBVIOUS
    <3> DEFINE t == Expiry(own, g)
    <3>1. t \in S /\ t.seq = 2 * g + 1 /\ t.at = own[g].end
      BY ScheduleElements, TransitionFields
    <3> HIDE DEF t, S
    <3>2. StampMs(zero, t.at) <= s
      BY <1>1, <1>3, <3>1
    <3> QED BY <1>1, <3>1, <3>2
  <2> QED BY <1>1, <1>3, <1>5, <2>1, <2>2
<1>7. shown.text = own[g].text
  <2>1. Stands(own, first, n, mode, next, shown)
    BY <1>3
  <2> HIDE DEF shown
  <2>2. next # 2 * first
    BY <1>1, <1>5
  <2>3. PICK h \in first .. n - 1 : /\ next = 2 * h + 1 \/ next = 2 * h + 2
                                    /\ shown = LeftBy(own, h, mode, next)
    BY <2>1, <2>2 DEF Stands
  <2>4. h = g
    BY <1>1, <1>6, <2>3
  <2>5. ~(own[g].text = Blank \/ (mode = "timed" /\ next = 2 * g + 2))
    BY <1>1, <1>6
  <2> QED BY <2>3, <2>4, <2>5 DEF LeftBy
<1>8. CASE before.text = own[g].text
  <2>1. Stands(own, first, n, mode, prev, before)
    BY <1>4
  <2> HIDE DEF before
  <2>2. before # NoCue
    BY <1>8 DEF NoCue
  <2>3. PICK h \in first .. n - 1 : /\ prev = 2 * h + 1 \/ prev = 2 * h + 2
                                    /\ before = LeftBy(own, h, mode, prev)
    BY <2>1, <2>2 DEF Stands
  <2>4. before.text = own[h].text
    BY <2>2, <2>3 DEF LeftBy
  <2>5. h < g
    BY <1>1, <1>5, <2>3
  <2> QED BY <1>8, <2>4, <2>5
<1>9. CASE before.text # own[g].text
  <2> DEFINE reached == Reached(zero, P, now)
             stamps == {StampMs(zero, a.at) : a \in reached}
             up(m) == ActiveAfter(zero, cue, {a \in reached : StampMs(zero, a.at) <= m}).text
             low(m) == ActiveAfter(zero, cue, {a \in reached : StampMs(zero, a.at) < m}).text
  <2>1. \A a \in P : StampMs(zero, a.at) \in Nat
    <3>1. \A a \in P : a.at \in Nat
      BY <1>1, SeqOrdersTime
    <3> QED BY <3>1, StampType
  <2>2. /\ {a \in reached : StampMs(zero, a.at) <= s} = upTo(s)
        /\ {a \in reached : StampMs(zero, a.at) < s} = upTo(s - 1)
    <3> HIDE DEF s
    <3>1. s <= now /\ s \in Nat
      BY <1>1 DEF s
    <3>2. \A a \in P : /\ StampMs(zero, a.at) <= s => StampMs(zero, a.at) <= now
                       /\ StampMs(zero, a.at) < s <=> StampMs(zero, a.at) <= s - 1
                       /\ StampMs(zero, a.at) < s => StampMs(zero, a.at) <= now
      BY <2>1, <3>1
    <3> QED BY <3>2 DEF Reached
  <2>3. up(s) = shown.text /\ low(s) = before.text
    BY <2>2
  <2>4. s \in stamps
    <3>1. Setter(own, g) \in reached
      BY <1>2 DEF Reached
    <3> HIDE DEF reached
    <3> QED BY <1>2, <3>1
  <2>5. DrainTags(zero, cue, P, now)
          = {[stamp |-> m, text |-> up(m)] : m \in {x \in stamps : up(x) # low(x)}}
    BY DEF DrainTags
  <2> HIDE DEF up, low, stamps, s, shown, before
  <2>6. s \in {x \in stamps : up(x) # low(x)} /\ up(s) = own[g].text
    BY <1>7, <1>9, <2>3, <2>4
  <2>7. [stamp |-> s, text |-> own[g].text] \in DrainTags(zero, cue, P, now)
    BY <2>5, <2>6
  <2> QED BY <2>7 DEF s
<1> QED BY <1>8, <1>9

LEMMA SkippedStep ==
    TypeInv /\ TiledInv /\ CalibratedInv /\ CutInv /\ [Next]_vars => NeverSkipped \/ UNCHANGED vars
<1> SUFFICES ASSUME TypeInv, TiledInv, CalibratedInv, CutInv, Next PROVE NeverSkipped
  OBVIOUS
<1> DEFINE s(c) == StampMs(origin', c.start)
           Due(c) == c \notin cues \/ \E t \in pending : t.kind = "show" /\ t.at = c.start
<1> SUFFICES ASSUME out'.type = "media", NEW c \in cues', c.type = "text", c.text # Blank,
                    Due(c), s(c) < StampMs(origin', c.end), s(c) <= position'
             PROVE  \/ [stamp |-> s(c), text |-> c.text] \in out'.tags
                    \/ \E d \in cues' \ {c} : d.text = c.text /\ d.start <= c.start
  BY DEF NeverSkipped
<1>1. PushMedia(TRUE) /\ out'.tags = DrainTags(Zero, active, Reachable, position')
  BY OnlyPushSendsMedia
<1>2. origin' = Zero /\ Zero \in Int /\ position' \in Nat
  BY <1>1, PushEffect
<1>3. flow = "ok"
  BY <1>1 DEF PushMedia, AdmissibleMedia
<1>4. PICK own0, first, cut :
         /\ CutAt(own0, first, nextGen, inputMode, cues, cut, pending, active)
         /\ ReachedBefore(own0, first, nextGen, inputMode, cut, origin, position)
  BY <1>3 DEF CutInv
<1> DEFINE n == nextGen'
           C == cues'
           now == position'
<1>5. PICK own :
         /\ CutAt(own, first, n, inputMode, C, cut, Reachable, active)
         /\ \A g \in first .. n - 1 : g < nextGen => own[g] \in cues
  BY <1>1, <1>4, CutPush
<1> HIDE DEF n, C, now
<1>6. /\ TextsInOrder(own, first, n, inputMode, C)
      /\ Reachable = {t \in Schedule(own, first, n, inputMode) : cut <= t.seq}
      /\ first \in Nat /\ n \in Nat /\ cut \in Nat
  BY <1>5 DEF CutAt, TextsInOrder
<1>7. PICK g \in first .. n - 1 : own[g] = c
  BY <1>6 DEF TextsInOrder, C
<1>8. c.start \in Nat /\ c.end \in Nat /\ g \in Nat
  BY <1>6, <1>7, TextFacts
<1>9. ~(c.end <= c.start)
  <2> SUFFICES ASSUME c.end <= c.start PROVE FALSE
    OBVIOUS
  <2>1. /\ StampMs(Zero, c.end) <= StampMs(Zero, c.start)
        /\ StampMs(Zero, c.end) \in Nat /\ StampMs(Zero, c.start) \in Nat
    BY <1>2, <1>8, StampMonotone, StampType
  <2> QED BY <1>2, <2>1
<1>10. cut <= 2 * g
  <2>1. CASE c \notin cues
    <3>1. ~(g < nextGen)
      BY <1>5, <1>7, <2>1
    <3>2. cut <= 2 * nextGen /\ nextGen \in Nat
      BY <1>4 DEF CutAt, TextsInOrder
    <3> QED BY <1>6, <1>8, <3>1, <3>2
  <2>2. ASSUME NEW t \in pending, t.kind = "show", t.at = c.start PROVE cut <= 2 * g
    <3>1. t \in Reachable
      BY DEF Reachable
    <3>2. t \in Schedule(own, first, n, inputMode) /\ cut <= t.seq
      BY <1>6, <3>1
    <3>3. PICK h \in first .. n - 1 : t = Setter(own, h)
      BY <2>2, <3>2, ScheduleElements, TransitionFields
    <3>4. t.seq = 2 * h /\ own[h].start = c.start /\ h \in Nat
      BY <1>6, <2>2, <3>3, TransitionFields
    <3>5. ~(g < h)
      BY <1>6, <1>7, <1>9, <3>4 DEF TextsInOrder
    <3> QED BY <1>6, <1>8, <3>2, <3>4, <3>5
  <2> QED BY <2>1, <2>2
<1>11. \/ [stamp |-> StampMs(Zero, own[g].start), text |-> own[g].text]
             \in DrainTags(Zero, active, Reachable, now)
       \/ \E h \in first .. n - 1 : h < g /\ own[h].text = own[g].text
  <2>1. now \in Int
    BY <1>2 DEF now
  <2>2. own[g].text # Blank /\ StampMs(Zero, own[g].start) < StampMs(Zero, own[g].end)
        /\ StampMs(Zero, own[g].start) <= now
    BY <1>2, <1>7 DEF now
  <2> HIDE DEF s, Due
  <2> QED BY <1>2, <1>5, <1>10, <2>1, <2>2, CutWrites
<1>12. ASSUME NEW h \in first .. n - 1, h < g, own[h].text = own[g].text
       PROVE  \E d \in cues' \ {c} : d.text = c.text /\ d.start <= c.start
  <2>1. own[h] \in C /\ own[h].end <= own[g].start
    BY <1>6, <1>12 DEF TextsInOrder
  <2>2. own[h].start \in Nat /\ own[h].end \in Nat /\ own[h].start <= own[h].end
    BY <1>6, TextFacts
  <2>3. own[h].start <= c.start /\ own[h].text = c.text
    BY <1>7, <1>8, <1>12, <2>1, <2>2
  <2>4. own[h] # c
    BY <1>7, <1>9, <2>1
  <2> QED BY <2>1, <2>3, <2>4 DEF C
<1> QED BY <1>1, <1>2, <1>7, <1>11, <1>12 DEF now

\* However far the media cadence jumps over it, a text still to be written when
\* media is pushed leaves as a tag with its own stamp, unless it is shorter than
\* a millisecond or its words were on screen already (drain_ready_ms).
THEOREM NoCueSkipped == Spec => CueNeverSkipped
<1>1. TypeInv /\ TiledInv /\ CalibratedInv /\ CutInv /\ [Next]_vars => [NeverSkipped]_vars
  BY SkippedStep
<1> QED BY <1>1, TypeInit, TypeStep, TiledInit, TiledStep, CutInit, CalibratedStep, CutStep, PTL
        DEF Spec, CueNeverSkipped

-----------------------------------------------------------------------------
\* After a media buffer the screen shows what the timeline shows.

\* A clear is owed to the viewer: the prime tag, or that of a text segment.
OwedClear == (prime /\ ~primed) \/ needsClear

\* What the viewer sees is the active cue, unless a clear is owed or the cue on
\* screen was lost.
ScreenInv ==
    flow = "ok" =>
        /\ OwedClear => active = NoCue
        /\ orphan \/ OwedClear \/ screen = active.text

\* No interval is loaded before media reaches its start.
LoadedBehind ==
    flow = "ok" /\ ~(flvEos /\ flvQ = <<>>) =>
        \A c \in cues : \/ lastMedia # NoTime /\ c.start <= lastMedia
                        \/ BufferAtHead(flvQ, {"media"}) /\ c.start <= Head(flvQ).at

\* Where no tag is written, the text on screen is the one before.
LEMMA QuietDrain ==
    ASSUME NEW P, NEW zero, NEW now \in Nat, NEW cue,
           \A a \in P : StampMs(zero, a.at) \in Nat,
           DrainTags(zero, cue, P, now) = {}
    PROVE  ActiveAfter(zero, cue, Reached(zero, P, now)).text = cue.text
<1> DEFINE reached == Reached(zero, P, now)
           below(m) == {a \in reached : StampMs(zero, a.at) < m}
           atMost(m) == {a \in reached : StampMs(zero, a.at) <= m}
           Text(S) == ActiveAfter(zero, cue, S).text
           stamps == {StampMs(zero, a.at) : a \in reached}
           T == {m \in Nat : Text(below(m)) = cue.text}
<1>1. \A a \in reached : StampMs(zero, a.at) \in Nat /\ StampMs(zero, a.at) <= now
  BY DEF Reached
<1>2. \A m \in stamps : Text(atMost(m)) = Text(below(m))
  <2>1. DrainTags(zero, cue, P, now)
          = {[stamp |-> m, text |-> Text(atMost(m))] :
                m \in {s \in stamps : Text(atMost(s)) # Text(below(s))}}
    BY DEF DrainTags
  <2> HIDE DEF Text, atMost, below, stamps
  <2> QED BY <2>1
<1> HIDE DEF reached
<1>3. Text({}) = cue.text
  BY DEF ActiveAfter
<1>4. T = Nat
  <2>1. 0 \in T
    <3>1. below(0) = {}
      BY <1>1
    <3> HIDE DEF below, Text
    <3> QED BY <1>3, <3>1
  <2>2. ASSUME NEW m \in T PROVE m + 1 \in T
    <3>1. m \in Nat /\ Text(below(m)) = cue.text
      OBVIOUS
    <3>2. below(m + 1) = atMost(m)
      BY <1>1, <3>1
    <3>3. m \notin stamps => atMost(m) = below(m)
      BY <1>1, <3>1
    <3> HIDE DEF below, atMost, Text, stamps
    <3>4. Text(below(m + 1)) = cue.text
      BY <1>2, <3>1, <3>2, <3>3
    <3> QED BY <3>1, <3>4
  <2> HIDE DEF T
  <2>3. T \in SUBSET Nat
    BY DEF T
  <2> QED BY <2>1, <2>2, <2>3, NatInductionSet
<1>5. below(now + 1) = reached
  <2>1. \A x \in Nat : x <= now => x < now + 1
    OBVIOUS
  <2> QED BY <1>1, <2>1
<1>6. Text(below(now + 1)) = cue.text
  <2>1. now + 1 \in T
    <3> HIDE DEF T
    <3> QED BY <1>4
  <2> HIDE DEF below, Text
  <2> QED BY <2>1
<1>7. Text(reached) = cue.text
  <2> HIDE DEF below, Text
  <2> QED BY <1>5, <1>6
<1> QED BY <1>7 DEF reached

\* At the last cut media has reached, the cue that stands is one the timeline
\* shows.
LEMMA CutShows ==
    ASSUME NEW own, NEW first, NEW n, NEW mode, NEW C, NEW cut, NEW P, NEW cue,
           CutAt(own, first, n, mode, C, cut, P, cue),
           NEW zero \in Int, NEW time \in Nat,
           ReachedBefore(own, first, n, mode, cut, zero, StampMs(zero, time)),
           \A t \in P : ~(StampMs(zero, t.at) <= StampMs(zero, time)),
           \A c \in C : c.start <= time,
           \A c \in C : c.end > time => StampMs(zero, c.end) > StampMs(zero, time)
    PROVE  LET texts == {c \in C : /\ c.type = "text" /\ c.start <= time
                                   /\ mode = "timed" => time < c.end \/ c.start = c.end}
               shown == {c.text : c \in {d \in texts : \A e \in texts : e.start <= d.start}}
           IN  (shown = {} /\ cue.text = Blank) \/ cue.text \in shown
<1> DEFINE S == Schedule(own, first, n, mode)
           now == StampMs(zero, time)
           texts == {c \in C : /\ c.type = "text" /\ c.start <= time
                               /\ mode = "timed" => time < c.end \/ c.start = c.end}
           shown == {c.text : c \in {d \in texts : \A e \in texts : e.start <= d.start}}
<1>1. /\ TextsInOrder(own, first, n, mode, C)
      /\ cut \in Nat /\ 2 * first <= cut /\ cut <= 2 * n
      /\ P = {t \in S : cut <= t.seq}
      /\ Stands(own, first, n, mode, cut, cue)
      /\ first \in Nat /\ n \in Nat /\ first <= n
  BY DEF CutAt, TextsInOrder
<1>2. /\ \A g \in first .. n - 1 : /\ g \in Nat /\ own[g] \in C /\ own[g].type = "text"
                                   /\ own[g].start \in Nat /\ own[g].end \in Nat
                                   /\ own[g].start <= own[g].end /\ own[g].start <= time
      /\ \A g, h \in first .. n - 1 : g < h => own[g].end <= own[h].start
      /\ \A c \in C : c.type = "text" => \E g \in first .. n - 1 : own[g] = c
      /\ \A g \in first .. n - 1 :
            mode = "timed" /\ own[g].text # Blank => own[g].start < own[g].end
  BY <1>1, TextFacts DEF TextsInOrder, QueueTextOk
<1>3. now \in Nat /\ \A x \in Nat : /\ StampMs(zero, x) \in Nat
                                    /\ x <= time => StampMs(zero, x) <= now
  BY StampType, StampMonotone
<1>4. NoCue.text = Blank
  BY DEF NoCue
<1>5. CASE first = n
  <2>1. shown = {}
    BY <1>1, <1>2, <1>5
  <2>2. cue = NoCue
    BY <1>1, <1>5 DEF Stands
  <2> QED BY <1>4, <2>1, <2>2
<1>6. CASE first # n
  <2> DEFINE g == n - 1
             c == own[g]
  <2>1. g \in first .. n - 1 /\ g \in Nat /\ first <= g /\ n = g + 1
    BY <1>1, <1>6
  <2> HIDE DEF g, S, now
  <2>2. /\ c \in C /\ c.type = "text" /\ c.start \in Nat /\ c.end \in Nat /\ c.start <= c.end
        /\ c.start <= time
        /\ mode = "timed" /\ c.text # Blank => c.start < c.end
    BY <1>2, <2>1
  <2>3. cut = 2 * g + 1 \/ cut = 2 * g + 2
    <3>1. ~(cut <= 2 * g)
      <4> SUFFICES ASSUME cut <= 2 * g PROVE FALSE
        OBVIOUS
      <4>1. Setter(own, g) \in P /\ Setter(own, g).at = c.start
        BY <1>1, <2>1, ScheduleElements, TransitionFields DEF S
      <4> QED BY <1>3, <2>2, <4>1 DEF now
    <3> QED BY <1>1, <2>1, <3>1
  <2>4. cue = LeftBy(own, g, mode, cut)
    <3>1. PICK h \in first .. n - 1 : /\ cut = 2 * h + 1 \/ cut = 2 * h + 2
                                      /\ cue = LeftBy(own, h, mode, cut)
      BY <1>1, <2>1, <2>3 DEF Stands
    <3>2. h = g
      BY <1>2, <2>1, <2>3, <3>1
    <3> QED BY <3>1, <3>2
  <2>5. mode = "timed" /\ c.text # Blank =>
          Expiry(own, g) \in S /\ Expiry(own, g).at = c.end /\ Expiry(own, g).seq = 2 * g + 1
    BY <2>1, ScheduleElements, TransitionFields DEF S
  <2>6. ASSUME mode = "timed", c.text # Blank PROVE cut = 2 * g + 2 <=> c.end <= time
    <3>1. ASSUME cut = 2 * g + 2 PROVE c.end <= time
      <4>1. Expiry(own, g).seq < cut
        BY <2>1, <2>5, <2>6, <3>1
      <4>2. StampMs(zero, c.end) <= now
        BY <2>5, <2>6, <4>1 DEF ReachedBefore, S, now
      <4> QED BY <1>3, <2>2, <4>2 DEF now
    <3>2. ASSUME cut = 2 * g + 1 PROVE ~(c.end <= time)
      <4>1. Expiry(own, g) \in P
        BY <1>1, <2>1, <2>5, <2>6, <3>2
      <4>2. ~(StampMs(zero, c.end) <= now)
        BY <2>5, <2>6, <4>1 DEF now
      <4> QED BY <1>3, <2>2, <4>2
    <3> QED BY <2>3, <3>1, <3>2
  <2>7. \A e \in texts : /\ e.start <= c.start
                         /\ e = c \/ (e.end <= c.start /\ e.start \in Nat /\ e.end \in Nat)
                         /\ mode = "timed" /\ e.text # Blank => e.start < e.end
    <3> SUFFICES ASSUME NEW e \in texts
                 PROVE  /\ e.start <= c.start
                        /\ e = c \/ (e.end <= c.start /\ e.start \in Nat /\ e.end \in Nat)
                        /\ mode = "timed" /\ e.text # Blank => e.start < e.end
      OBVIOUS
    <3>1. PICK h \in first .. n - 1 : own[h] = e
      BY <1>2
    <3>2. h = g \/ h < g
      BY <1>2, <2>1, <3>1
    <3>3. CASE h = g
      BY <2>2, <3>1, <3>3
    <3>4. CASE h < g
      BY <1>2, <2>1, <3>1, <3>4
    <3> QED BY <3>2, <3>3, <3>4
  <2> HIDE DEF c
  <2>8. CASE c \in texts
    <3>1. c.text \in shown
      BY <2>7, <2>8
    <3>2. cue.text = c.text
      <4>1. CASE c.text = Blank
        BY <1>4, <2>4, <4>1 DEF LeftBy, c
      <4>2. CASE c.text # Blank
        <5>1. ~(mode = "timed" /\ cut = 2 * g + 2)
          BY <2>2, <2>6, <2>8, <4>2
        <5> QED BY <2>4, <4>2, <5>1 DEF LeftBy, c
      <4> QED BY <4>1, <4>2
    <3> QED BY <3>1, <3>2
  <2>9. CASE c \notin texts
    <3>1. mode = "timed" /\ c.end <= time /\ c.start # c.end
      BY <2>2, <2>9
    <3>2. cue.text = Blank
      BY <1>4, <2>4, <2>6, <3>1 DEF LeftBy, c
    <3>3. \A e \in texts : e.text = Blank
      <4> SUFFICES ASSUME NEW e \in texts, e.text # Blank PROVE FALSE
        OBVIOUS
      <4>1. e # c
        BY <2>9
      <4>2. e.end <= c.start /\ e.start < e.end /\ e.end \in Nat /\ e.start \in Nat
        BY <2>7, <3>1, <4>1
      <4>3. time < e.end \/ e.start = e.end
        BY <3>1
      <4> QED BY <2>2, <4>2, <4>3
    <3> HIDE DEF texts
    <3>4. shown = {} \/ Blank \in shown
      BY <3>3
    <3> QED BY <3>2, <3>4 DEF texts
  <2> QED BY <2>8, <2>9
<1> QED BY <1>5, <1>6

\* What a loop loads for media starts at or before it.
LEMMA LoadedBeforeMedia ==
    ASSUME TypeInv, TiledInv, LoadedBehind,
           PushMedia(TRUE) \/ PushMedia(FALSE) \/ AwaitText
    PROVE  /\ \A c \in cues' : c.start <= MediaTime
           /\ BufferAtHead(flvQ, {"media"}) /\ MediaTime \in Nat
<1> DEFINE k == StopIndex(MediaTime)
<1>1. /\ flow = "ok" /\ BufferAtHead(flvQ, {"media"}) /\ flvQ # <<>>
      /\ lastMedia # NoTime => MediaTime >= lastMedia
  BY DEF PushMedia, AwaitText, AdmissibleMedia, BufferAtHead, MediaTime
<1>2. MediaTime \in Nat
  <2>1. Head(flvQ) \in Media \cup Event
    <3>1. flvQ \in Seq(Media \cup Event)
      BY DEF TypeInv, TypeOK
    <3> QED BY <1>1, <3>1
  <2>2. Head(flvQ).type = "media"
    BY <1>1 DEF BufferAtHead
  <2> QED BY <2>1, <2>2 DEF Media, Event, MediaTime
<1>3. /\ k \in 1 .. Len(textQ) + 1 /\ Len(textQ) \in Nat
      /\ \A j \in 1 .. k - 1 : ~StopsAt(j, MediaTime)
  <2>1. QueueTypeOK
    BY DEF TypeInv, TypeOK, QueueTypeOK
  <2>2. /\ StopIndex(MediaTime) \in 1 .. Len(textQ) + 1
        /\ \A j \in 1 .. StopIndex(MediaTime) - 1 : ~StopsAt(j, MediaTime)
    BY <2>1, StopIndexDefined
  <2> QED BY <2>1, <2>2 DEF QueueTypeOK
<1>4. LoadText(k) /\ (~BufferAt(k) \/ Covering(k, MediaTime))
  <2>1. CASE AwaitText
    BY <2>1 DEF AwaitText, MediaTime
  <2>2. CASE PushMedia(TRUE) \/ PushMedia(FALSE)
    <3>1. LoadText(k) /\ (Covering(k, MediaTime) \/ k > Len(textQ))
      BY <2>2 DEF PushMedia, MediaTime
    <3> HIDE DEF k
    <3>2. k > Len(textQ) => ~BufferAt(k)
      BY <1>3 DEF BufferAt
    <3> QED BY <3>1, <3>2
  <2> QED BY <2>1, <2>2
<1> HIDE DEF k
<1>5. \A i \in LoadedIndices(k) : textQ[i].start <= MediaTime
  <2> SUFFICES ASSUME NEW i \in LoadedIndices(k) PROVE textQ[i].start <= MediaTime
    OBVIOUS
  <2>1. i \in 1 .. Len(textQ) /\ i <= k /\ BufferAt(i)
    BY DEF LoadedIndices
  <2>2. textQ[i].start \in Nat /\ textQ[i].end \in Nat /\ textQ[i].start <= textQ[i].end
    BY <2>1 DEF TypeInv, TypeOK, BufferAt, TextBuffer, Interval, Event, TiledInv, QueueOrdered
  <2>3. CASE i = k
    BY <1>4, <2>1, <2>3 DEF Covering
  <2>4. CASE i # k
    <3>1. i \in 1 .. k - 1
      BY <1>3, <2>1, <2>4
    <3>2. ~(MediaTime < textQ[i].end)
      BY <1>3, <3>1 DEF StopsAt
    <3> QED BY <1>2, <2>2, <3>2
  <2> QED BY <2>3, <2>4
<1>6. \A c \in cues : c.start <= MediaTime
  <2> SUFFICES ASSUME NEW c \in cues PROVE c.start <= MediaTime
    OBVIOUS
  <2>1. \/ lastMedia # NoTime /\ c.start <= lastMedia
        \/ c.start <= MediaTime
    BY <1>1 DEF LoadedBehind, MediaTime
  <2>2. c.start \in Nat /\ (lastMedia # NoTime => lastMedia \in Nat)
    BY DEF TypeInv, TypeOK, Interval, TimeOption
  <2> QED BY <1>1, <1>2, <2>1, <2>2
<1>7. \A c \in cues' : c \in cues \/ \E i \in LoadedIndices(k) : c = textQ[i]
  BY <1>4 DEF LoadText
<1> QED BY <1>1, <1>2, <1>5, <1>6, <1>7

LEMMA BehindStep ==
    TypeInv /\ TiledInv /\ CalibratedInv /\ LoadedBehind /\ [Next]_vars => LoadedBehind'
<1> SUFFICES ASSUME TypeInv, TiledInv, CalibratedInv, LoadedBehind, [Next]_vars
             PROVE  LoadedBehind'
  OBVIOUS
<1>1. CASE \E pushOk \in BOOLEAN : PushMedia(pushOk)
  <2>1. PushMedia(TRUE) \/ PushMedia(FALSE)
    BY <1>1
  <2>2. lastMedia' = MediaTime /\ MediaTime \in Nat
    BY <2>1, PushEffect
  <2>3. \A c \in cues' : c.start <= MediaTime
    BY <2>1, LoadedBeforeMedia
  <2> QED BY <2>2, <2>3 DEF LoadedBehind, NoTime
<1>2. CASE AwaitText
  <2>1. flvQ' = flvQ
    BY <1>2 DEF AwaitText
  <2>2. (\A c \in cues' : c.start <= MediaTime) /\ BufferAtHead(flvQ, {"media"})
    BY <1>2, LoadedBeforeMedia
  <2> QED BY <2>1, <2>2 DEF LoadedBehind, BufferAtHead, MediaTime
<1>3. CASE RefuseMedia \/ RefuseText
  <2>1. flow' = "error"
    BY <1>3 DEF RefuseMedia, RefuseText
  <2> QED BY <2>1 DEF LoadedBehind
<1>4. CASE \E pushOk \in BOOLEAN : Finish(pushOk)
  <2>1. flvEos' /\ flvQ' = <<>>
    BY <1>4 DEF Finish
  <2> QED BY <2>1 DEF LoadedBehind
<1>5. CASE FlvSegment \/ TextSegment \/ Flush \/ ReadyToPaused
  <2>1. cues' = {}
    BY <1>5 DEF FlvSegment, TextSegment, Flush, ReadyToPaused
  <2> QED BY <2>1 DEF LoadedBehind
<1>6. CASE FlvEosEvent \/ \E pushOk \in BOOLEAN : ForwardHeader(pushOk)
  <2>1. flvQ # <<>> /\ ~BufferAtHead(flvQ, {"media"}) /\ flow = "ok"
    BY <1>6 DEF FlvEosEvent, ForwardHeader, BufferAtHead
  <2>2. UNCHANGED <<cues, lastMedia>>
    BY <1>6 DEF FlvEosEvent, ForwardHeader, stateVars, observed
  <2> QED BY <2>1, <2>2 DEF LoadedBehind
<1>7. ASSUME NEW item \in MediaItems, MediaArrives(item) PROVE LoadedBehind'
  <2>1. ~flvEos /\ flvQ' = Append(flvQ, item) /\ UNCHANGED <<flvEos, flow, cues, lastMedia>>
    BY <1>7 DEF MediaArrives, stateVars, observed
  <2>2. flvQ \in Seq(Media \cup Event)
    BY DEF TypeInv, TypeOK
  <2>3. flvQ # <<>> => Append(flvQ, item) # <<>> /\ Head(Append(flvQ, item)) = Head(flvQ)
    BY <2>2
  <2>4. BufferAtHead(flvQ, {"media"}) => BufferAtHead(flvQ', {"media"}) /\ Head(flvQ') = Head(flvQ)
    BY <2>1, <2>3 DEF BufferAtHead
  <2> QED BY <2>1, <2>4 DEF LoadedBehind
<1>8. CASE \/ \E item \in TextItems : TextArrives(item)
           \/ TextEosEvent \/ UNCHANGED vars
  <2>1. UNCHANGED <<flow, flvEos, flvQ, cues, lastMedia>>
    BY <1>8 DEF TextArrives, TextEosEvent, vars, padVars, stateVars, observed
  <2> QED BY <2>1 DEF LoadedBehind
<1> QED BY <1>1, <1>2, <1>3, <1>4, <1>5, <1>6, <1>7, <1>8
        DEF Next, Upstream, Aggregate, SinkEvent

\* What a pushed list does to the screen.
LEMMA PushScreen ==
    ASSUME TypeInv, CalibratedInv, ScreenInv, PushMedia(TRUE)
    PROVE  /\ ~OwedClear'
           /\ orphan' \/ screen' = active'.text
           /\ flow' = "ok"
<1> DEFINE tags == DrainTags(Zero, active, Reachable, position')
<1>1. /\ primed' = (primed \/ prime) /\ needsClear' = FALSE /\ prime' = prime
      /\ flow' = "ok" /\ flow = "ok"
      /\ Watch(OwedClear, tags, active'.text, TRUE)
  <2>1. /\ primed' = (primed \/ prime) /\ needsClear' = FALSE /\ prime' = prime
        /\ flow' = "ok" /\ flow = "ok"
    BY DEF PushMedia, AdmissibleMedia, settings
  <2>2. /\ position' = StampMs(Zero, MediaTime)
        /\ active' = ActiveAfter(Zero, active, Reached(Zero, Reachable, StampMs(Zero, MediaTime)))
        /\ Watch(OwedClear, DrainTags(Zero, active, Reachable, StampMs(Zero, MediaTime)),
                 ActiveAfter(Zero, active,
                             Reached(Zero, Reachable, StampMs(Zero, MediaTime))).text, TRUE)
    BY DEF PushMedia, Zero, MediaTime, Reachable, OwedClear
  <2> QED BY <2>1, <2>2
<1>2. /\ screen' = IF tags # {} THEN active'.text ELSE IF OwedClear THEN Blank ELSE screen
      /\ orphan' = (orphan /\ tags = {} /\ ~OwedClear)
  BY <1>1 DEF Watch
<1>3. tags = {} => active'.text = active.text
  <2> SUFFICES ASSUME tags = {} PROVE active'.text = active.text
    OBVIOUS
  <2>1. /\ position' \in Nat /\ Zero \in Int
        /\ active' = ActiveAfter(Zero, active, Reached(Zero, Reachable, position'))
    BY PushEffect DEF Reached
  <2>2. \A a \in Reachable : a.at \in Nat
    <3>1. /\ StopIndex(MediaTime) \in 1 .. Len(textQ) + 1 /\ LoadText(StopIndex(MediaTime))
          /\ \A j \in 1 .. StopIndex(MediaTime) - 1 : BufferAt(j)
      BY PushLoads DEF MediaTime
    <3>2. Numbered(Reachable, nextGen')
      BY <3>1, LoadTextType DEF Reachable
    <3> QED BY <3>2 DEF Numbered, Transition
  <2>3. \A a \in Reachable : StampMs(Zero, a.at) \in Nat
    BY <2>1, <2>2, StampType
  <2> DEFINE now == position'
  <2> HIDE DEF now
  <2>4. now \in Nat /\ DrainTags(Zero, active, Reachable, now) = {}
    BY <2>1 DEF now
  <2>5. ActiveAfter(Zero, active, Reached(Zero, Reachable, now)).text = active.text
    BY <2>3, <2>4, QuietDrain
  <2> QED BY <2>1, <2>5 DEF now
<1>4. ~OwedClear'
  BY <1>1 DEF OwedClear
<1>5. orphan' \/ screen' = active'.text
  <2>1. CASE tags # {}
    BY <1>2, <2>1
  <2>2. CASE tags = {} /\ OwedClear
    BY <1>1, <1>2, <1>3, <2>2 DEF ScreenInv, NoCue
  <2>3. CASE tags = {} /\ ~OwedClear
    BY <1>1, <1>2, <1>3, <2>3 DEF ScreenInv
  <2> QED BY <2>1, <2>2, <2>3
<1> QED BY <1>1, <1>4, <1>5

LEMMA ScreenStep == TypeInv /\ CalibratedInv /\ ScreenInv /\ [Next]_vars => ScreenInv'
<1> SUFFICES ASSUME TypeInv, CalibratedInv, ScreenInv, [Next]_vars PROVE ScreenInv'
  OBVIOUS
<1>0. NoCue.text = Blank
  BY DEF NoCue
<1>1. CASE PushMedia(TRUE)
  BY <1>1, PushScreen DEF ScreenInv
<1>2. CASE PushMedia(FALSE) \/ RefuseMedia \/ RefuseText
  <2>1. flow' = "error"
    BY <1>2 DEF PushMedia, RefuseMedia, RefuseText
  <2> QED BY <2>1 DEF ScreenInv
<1>3. ASSUME NEW pushOk \in BOOLEAN, Finish(pushOk) PROVE ScreenInv'
  <2> SUFFICES ASSUME flow' = "ok" PROVE ScreenInv'
    BY DEF ScreenInv
  <2>1. /\ flow = "ok" /\ active' = active
        /\ Watch(FALSE, {}, active.text, FALSE)
    <3> DEFINE last == FinishIndex
               reachable == pending \cup NewTransitions(last)
               refused == BufferAt(last) /\ ~LoadOk(last)
               ended == last > Len(textQ) /\ textEos
               drained == ended /\ origin # NoTime
               tags == IF drained THEN DrainTags(origin, active, reachable, position) ELSE {}
               shown == IF drained
                        THEN ActiveAfter(origin, active, Reached(origin, reachable, position))
                        ELSE active
               sent == ended /\ (pushOk \/ tags = {})
    <3>1. /\ flow = "ok" /\ active' = shown /\ Watch(FALSE, tags, shown.text, sent)
          /\ flow' = IF refused \/ (ended /\ ~sent) THEN "error"
                     ELSE IF ended THEN "eos" ELSE "ok"
      BY <1>3, Zenon DEF Finish
    <3> HIDE DEF ended, refused
    <3>2. ~ended
      BY <3>1
    <3>3. shown = active /\ tags = {} /\ sent = FALSE
      BY <3>2
    <3> HIDE DEF shown, tags, sent
    <3> QED BY <3>1, <3>3
  <2>2. UNCHANGED <<screen, orphan, prime, primed, needsClear>>
    <3>1. UNCHANGED <<prime, primed, needsClear>>
      BY <1>3 DEF Finish, settings
    <3> QED BY <2>1, <3>1 DEF Watch
  <2> QED BY <2>1, <2>2 DEF ScreenInv, OwedClear
<1>4. CASE FlvSegment \/ Flush
  <2>1. /\ active' = NoCue /\ screen' = screen /\ prime' = prime /\ primed' = FALSE
        /\ orphan' = (screen # Blank /\ ~prime)
    BY <1>4 DEF FlvSegment, Flush, ResetRuntime, settings
  <2> QED BY <1>0, <2>1 DEF ScreenInv, OwedClear
<1>5. CASE ReadyToPaused
  <2>1. active' = NoCue /\ screen' = Blank
    BY <1>5 DEF ReadyToPaused, ResetRuntime
  <2> QED BY <1>0, <2>1 DEF ScreenInv
<1>6. CASE TextSegment
  <2>1. /\ flow = "ok" /\ active' = NoCue /\ needsClear' = (active # NoCue)
        /\ orphan' = (orphan \/ (needsClear /\ active = NoCue))
        /\ UNCHANGED <<screen, prime, primed>>
    BY <1>6 DEF TextSegment, ResetTimeline, settings
  <2> QED BY <1>0, <2>1 DEF ScreenInv, OwedClear
<1>7. CASE \/ \E item \in MediaItems : MediaArrives(item)
           \/ \E item \in TextItems : TextArrives(item)
           \/ \E pushOk \in BOOLEAN : ForwardHeader(pushOk)
           \/ AwaitText \/ FlvEosEvent \/ TextEosEvent \/ UNCHANGED vars
  <2>1. /\ UNCHANGED <<prime, primed, needsClear, active, screen, orphan>>
        /\ flow' = "ok" => flow = "ok"
    BY <1>7 DEF MediaArrives, TextArrives, ForwardHeader, AwaitText, FlvEosEvent, TextEosEvent,
       vars, settings, stateVars, captionVars, observed
  <2> QED BY <2>1 DEF ScreenInv, OwedClear
<1> QED BY <1>1, <1>2, <1>3, <1>4, <1>5, <1>6, <1>7 DEF Next, Upstream, Aggregate, SinkEvent

LEMMA ScreenInit == Init => ScreenInv /\ LoadedBehind /\ ScreenMatchesTimeline
<1> SUFFICES ASSUME Init PROVE ScreenInv /\ LoadedBehind /\ ScreenMatchesTimeline
  OBVIOUS
<1>1. NoCue.text = Blank /\ Nothing.type = "none"
  BY DEF NoCue, Nothing
<1>2. active = NoCue /\ screen = Blank /\ cues = {} /\ out = Nothing
  BY DEF Init
<1> QED BY <1>1, <1>2 DEF ScreenInv, LoadedBehind, ScreenMatchesTimeline

LEMMA MatchStep ==
    TypeInv /\ TiledInv /\ CalibratedInv /\ CutInv /\ LoadedBehind /\ ScreenInv
      /\ ScreenMatchesTimeline /\ [Next]_vars => ScreenMatchesTimeline'
<1> SUFFICES ASSUME TypeInv, TiledInv, CalibratedInv, CutInv, LoadedBehind, ScreenInv,
                    ScreenMatchesTimeline, [Next]_vars
             PROVE  ScreenMatchesTimeline'
  OBVIOUS
<1>1. CASE UNCHANGED vars
  <2>1. UNCHANGED <<out, orphan, position, cues, lastMedia, origin, screen, inputMode>>
    BY <1>1 DEF vars, settings, stateVars, observed
  <2> QED BY <2>1 DEF ScreenMatchesTimeline, Unsaturated, TimelineText
<1>2. CASE Next
  <2> SUFFICES ASSUME out'.type = "media", ~orphan',
                      \A c \in cues' : c.end > lastMedia' => StampMs(origin', c.end) > position'
               PROVE  \/ TimelineText(lastMedia)' = {} /\ screen' = Blank
                      \/ screen' \in TimelineText(lastMedia)'
    BY DEF ScreenMatchesTimeline
  <2>1. PushMedia(TRUE)
    BY <1>2, OnlyPushSendsMedia
  <2>2. flow = "ok"
    BY <2>1 DEF PushMedia, AdmissibleMedia
  <2>3. screen' = active'.text
    BY <2>1, PushScreen
  <2> DEFINE n == nextGen'
             C == cues'
             P == pending'
             cue == active'
             zero == Zero
             time == MediaTime
             mode == inputMode
  <2>4. /\ zero \in Int /\ time \in Nat
        /\ origin' = zero /\ lastMedia' = time /\ inputMode' = mode
        /\ position' = StampMs(zero, time)
        /\ \A t \in P : ~(StampMs(zero, t.at) <= StampMs(zero, time))
    BY <2>1, PushEffect
  <2>5. \A c \in C : c.start <= time
    BY <2>1, LoadedBeforeMedia
  <2>6. PICK own0, first, cut0 :
         /\ CutAt(own0, first, nextGen, inputMode, cues, cut0, pending, active)
         /\ ReachedBefore(own0, first, nextGen, inputMode, cut0, origin, position)
    BY <2>2 DEF CutInv
  <2>7. PICK own, cut :
         /\ CutAt(own, first, n, mode, C, cut, P, cue)
         /\ ReachedBefore(own, first, n, mode, cut, origin', position')
    BY <2>1, <2>6, CutPush
  <2>8. \A c \in C : c.end > time => StampMs(zero, c.end) > StampMs(zero, time)
    BY <2>4
  <2> HIDE DEF n, C, P, cue, zero, time, mode
  <2>9. ReachedBefore(own, first, n, mode, cut, zero, StampMs(zero, time))
    BY <2>4, <2>7
  <2> DEFINE texts == {c \in C : /\ c.type = "text" /\ c.start <= time
                                 /\ mode = "timed" => time < c.end \/ c.start = c.end}
             shown == {c.text : c \in {d \in texts : \A e \in texts : e.start <= d.start}}
  <2>10. (shown = {} /\ cue.text = Blank) \/ cue.text \in shown
    BY <2>4, <2>5, <2>7, <2>8, <2>9, CutShows
  <2>11. TimelineText(lastMedia)' = shown
    <3>1. TimelineText(lastMedia)' =
            LET ts == {c \in cues' : c.type = "text" /\ c.start <= lastMedia'
                                     /\ (inputMode' = "timed" =>
                                           lastMedia' < c.end \/ c.start = c.end)}
            IN  {c.text : c \in {d \in ts : \A e \in ts : e.start <= d.start}}
      BY DEF TimelineText
    <3>2. cues' = C
      BY DEF C
    <3> QED BY <2>4, <3>1, <3>2
  <2> HIDE DEF shown
  <2> QED BY <2>3, <2>10, <2>11 DEF cue
<1> QED BY <1>1, <1>2

\* After every media buffer the viewer sees what the loaded text timeline shows
\* at that time, whatever mixture of GAPs, cues, waits, segments, flushes and
\* failed pushes came before (process_flv_buffer, drain_ready_ms).
THEOREM ScreenAlwaysMatches == Spec => []ScreenMatchesTimeline
  BY TypeInit, TypeStep, TiledInit, TiledStep, CutInit, CalibratedStep, CutStep,
     ScreenInit, BehindStep, ScreenStep, MatchStep, PTL DEF Spec
=============================================================================
