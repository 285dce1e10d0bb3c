-------------------------- MODULE LogStoreProofs --------------------------
(***************************************************************************)
(* LogStore's invariants for every bound on indexes, terms and batches.    *)
(***************************************************************************)
EXTENDS LogStore, TLAPS

\* The stored indexes form one interval.
Convex(d) ==
  \A i, k \in DOMAIN d.log : \A j \in i..k : j \in DOMAIN d.log

\* A log with an entry has a last one.
HasLast(d) ==
  DOMAIN d.log # {} => \E i \in DOMAIN d.log : \A j \in DOMAIN d.log : j <= i

\* The terms of the stored entries never decrease.
TermsAscend(d) ==
  \A i, j \in DOMAIN d.log : i <= j => d.log[i] <= d.log[j]

\* What is stored at or above the snapshot's index, or purged up to it, is
\* not older than the snapshot.
SnapMatches(d) ==
  /\ \A i \in DOMAIN d.log : d.snap.index <= i => d.snap.term <= d.log[i]
  /\ d.purged.index = d.snap.index => d.snap.term <= d.purged.term

\* What every content that a power loss can leave satisfies.
Sound(d) ==
  /\ NoGap(d)
  /\ Convex(d)
  /\ HasLast(d)
  /\ TermsAscend(d)
  /\ d.purged.index <= d.snap.index
  /\ SnapMatches(d)

IndInv ==
  /\ TypeOK
  /\ db \in survivors
  /\ \A d \in survivors : Sound(d)
  /\ AckedEntriesSurvive
  /\ AckedVoteSurvives
  /\ saving # 0 => saving = db.vote
  /\ pendingPurge # NoLogId => pendingPurge = db.snap
  /\ LogNotBehindSnapshot
----------------------------------------------------------------------------
\* What the type of a database content says of its fields.
LEMMA ContentsFields ==
  ASSUME NEW d \in Contents
  PROVE  /\ DOMAIN d.log \in SUBSET Index
         /\ DOMAIN d.log \in SUBSET Nat
         /\ d.log \in [DOMAIN d.log -> Term]
         /\ d.purged \in LogId
         /\ d.vote \in 0..MaxTerm
         /\ d.snap \in LogId
         /\ d = [log |-> d.log, purged |-> d.purged,
                 vote |-> d.vote, snap |-> d.snap]
<1>1. PICK S \in SUBSET Index : d.log \in [S -> Term]
  BY DEF Contents
<1>2. DOMAIN d.log = S
  BY <1>1
<1> QED
  BY <1>1, <1>2 DEF Contents, Index

\* A function on a set of indexes is a log.
LEMMA LogType ==
  ASSUME NEW S \in SUBSET Index, NEW f \in [S -> Term]
  PROVE  f \in UNION {[T -> Term] : T \in SUBSET Index}
  OBVIOUS

\* Four fields of the right types make a content.
LEMMA ContentsIntro ==
  ASSUME NEW l \in UNION {[T -> Term] : T \in SUBSET Index},
         NEW p \in LogId, NEW v \in 0..MaxTerm, NEW q \in LogId
  PROVE  [log |-> l, purged |-> p, vote |-> v, snap |-> q] \in Contents
  BY DEF Contents

\* LastKey is the greatest stored index.
LEMMA LastKeyIsLast ==
  ASSUME NEW d, HasLast(d), DOMAIN d.log # {}
  PROVE  LastKey(d) \in DOMAIN d.log /\ \A j \in DOMAIN d.log : j <= LastKey(d)
  BY DEF HasLast, LastKey

\* The greatest stored index is LastKey.
LEMMA LastKeyUnique ==
  ASSUME NEW d, DOMAIN d.log \in SUBSET Nat, NEW i \in DOMAIN d.log,
         \A j \in DOMAIN d.log : j <= i
  PROVE  LastKey(d) = i
<1>1. LastKey(d) \in DOMAIN d.log /\ \A j \in DOMAIN d.log : j <= LastKey(d)
  BY DEF LastKey
<1>2. LastKey(d) <= i /\ i <= LastKey(d)
  BY <1>1
<1> QED
  BY <1>1, <1>2

\* get_log_state returns a log id.
LEMMA LastLogIdType ==
  ASSUME NEW d \in Contents, HasLast(d)
  PROVE  /\ LastLogId(d) \in LogId
         /\ \A i \in DOMAIN d.log : i <= LastLogId(d).index
<1>1. CASE DOMAIN d.log = {}
  BY <1>1, ContentsFields DEF LastLogId
<1>2. CASE DOMAIN d.log # {}
  <2>1. LastKey(d) \in DOMAIN d.log /\ \A j \in DOMAIN d.log : j <= LastKey(d)
    BY <1>2, LastKeyIsLast
  <2>2. LastLogId(d) = [term |-> d.log[LastKey(d)], index |-> LastKey(d)]
    BY <1>2 DEF LastLogId
  <2>3. d.log[LastKey(d)] \in Term /\ LastKey(d) \in Index
    BY <2>1, ContentsFields
  <2>4. d.log[LastKey(d)] \in 0..MaxTerm /\ LastKey(d) \in 0..MaxIndex
    BY <2>3, BoundsAssumption DEF Term, Index
  <2> QED
    BY <2>1, <2>2, <2>4 DEF LogId
<1> QED
  BY <1>1, <1>2
----------------------------------------------------------------------------
\* A put of a prefix of a batch behind the last log id: its type, its
\* fields, and that it keeps what survivors need.
LEMMA PutEntriesSound ==
  ASSUME NEW d \in Contents, Sound(d), ~LogIdLt(LastLogId(d), d.snap),
         NEW es \in Batch, NEW n \in 1..Len(es),
         LastLogId(d).index + Len(es) <= MaxIndex,
         \A k \in 1..Len(es) : /\ LastLogId(d).term <= es[k]
                               /\ \A j \in 1..k : es[j] <= es[k]
  PROVE  LET e == PutEntries(d, LastLogId(d).index, es, n)
         IN /\ e \in Contents
            /\ Sound(e)
            /\ e.vote = d.vote
            /\ \A i \in DOMAIN d.log : i \in DOMAIN e.log /\ e.log[i] = d.log[i]
            /\ ~LogIdLt(LastLogId(e), e.snap)
            /\ e.snap = d.snap
<1> DEFINE base == LastLogId(d).index
           e == PutEntries(d, base, es, n)
           S == DOMAIN d.log \cup (base + 1)..(base + n)
<1>1. PICK m \in 1..MaxBatch : es \in [1..m -> Term]
  BY DEF Batch
<1>2. /\ m \in Nat
      /\ Len(es) = m
      /\ n \in Nat /\ n >= 1 /\ n <= m
      /\ \A k \in 1..m : es[k] \in Term
  <2>1. m \in Nat
    BY BoundsAssumption
  <2>2. DOMAIN es = 1..m /\ es \in Seq(Term)
    BY <1>1, <2>1
  <2>3. Len(es) = m
    BY <2>1, <2>2
  <2> QED
    BY <1>1, <2>1, <2>3
<1>3. /\ DOMAIN d.log \in SUBSET Index
      /\ d.log \in [DOMAIN d.log -> Term]
      /\ d.purged \in LogId /\ d.snap \in LogId
      /\ d.purged.index \in Nat /\ d.snap.index \in Nat
      /\ d.purged.term \in Nat /\ d.snap.term \in Nat
  BY ContentsFields, BoundsAssumption DEF LogId
<1>4. HasLast(d) /\ NoGap(d) /\ Convex(d) /\ TermsAscend(d) /\ SnapMatches(d)
      /\ d.purged.index <= d.snap.index
  BY DEF Sound
<1>5. /\ base \in Nat /\ LastLogId(d).term \in Nat
      /\ \A i \in DOMAIN d.log : i <= base
  BY <1>4, LastLogIdType, BoundsAssumption DEF LogId
<1>6. /\ e.log = [i \in S |-> IF i \in (base + 1)..(base + n) THEN es[i - base]
                                                           ELSE d.log[i]]
      /\ e.purged = d.purged /\ e.vote = d.vote /\ e.snap = d.snap
  BY ContentsFields DEF PutEntries
<1>7. DOMAIN e.log = S
  BY <1>6
<1>8. \A i \in (base + 1)..(base + n) : e.log[i] = es[i - base] /\ i - base \in 1..m
  BY <1>6, <1>2, <1>5
<1>9. \A i \in DOMAIN d.log : i \in S /\ e.log[i] = d.log[i] /\ i \in Nat /\ d.log[i] \in Term
  BY <1>6, <1>5, <1>3 DEF Index
<1>10. S \in SUBSET Index
  BY <1>2, <1>3, <1>5, BoundsAssumption DEF Index
<1>11. e.log \in [S -> Term]
  BY <1>2, <1>6, <1>7, <1>8, <1>9
<1>12. e \in Contents
  <2>1. e.log \in UNION {[T -> Term] : T \in SUBSET Index}
    BY <1>10, <1>11, LogType
  <2>2. e = [log |-> e.log, purged |-> d.purged, vote |-> d.vote, snap |-> d.snap]
    BY ContentsFields DEF PutEntries
  <2> QED
    BY <2>1, <2>2, ContentsFields DEF Contents
<1>13. base + n \in S /\ \A i \in S : i <= base + n
  BY <1>2, <1>5, <1>3 DEF Index
<1>14. LastLogId(e) = [term |-> es[n], index |-> base + n]
  <2>1. LastKey(e) = base + n
    BY <1>7, <1>10, <1>13, LastKeyUnique DEF Index
  <2>2. e.log[base + n] = es[n]
    BY <1>2, <1>5, <1>8
  <2> QED
    BY <1>7, <1>13, <2>1, <2>2 DEF LastLogId
<1>15. LastLogId(d).term <= es[n] /\ es[n] \in Nat
  BY <1>2 DEF Term
<1>16. ~LogIdLt(LastLogId(e), e.snap)
  BY <1>2, <1>3, <1>5, <1>6, <1>14, <1>15 DEF LogIdLt
<1>17. NoGap(e)
  <2> SUFFICES ASSUME NEW i \in S, NEW j \in (d.purged.index + 1)..i
               PROVE  j \in S
    BY <1>6, <1>7 DEF NoGap
  <2>1. j \in Nat /\ i \in Nat
    BY <1>3, <1>10 DEF Index
  <2>2. CASE j > base
    BY <2>1, <2>2, <1>13, <1>2, <1>5
  <2>3. CASE j <= base
    <3>1. CASE DOMAIN d.log = {}
      BY <3>1, <2>1, <2>3, <1>3 DEF LastLogId
    <3>2. CASE DOMAIN d.log # {}
      <4>1. base \in DOMAIN d.log
        BY <3>2, <1>4, LastKeyIsLast DEF LastLogId
      <4> QED
        BY <4>1, <1>4, <2>1, <2>3, <1>3 DEF NoGap
    <3> QED
      BY <3>1, <3>2
  <2> QED
    BY <2>1, <2>2, <2>3, <1>5
<1>18. Convex(e)
  <2> SUFFICES ASSUME NEW i \in S, NEW k \in S, NEW j \in i..k
               PROVE  j \in S
    BY <1>7 DEF Convex
  <2>1. j \in Nat /\ i \in Nat /\ k \in Nat
    BY <1>10 DEF Index
  <2>2. CASE j > base
    BY <2>1, <2>2, <1>13, <1>2, <1>5
  <2>3. CASE j <= base
    <3>1. i \in DOMAIN d.log
      BY <2>1, <2>3, <1>5
    <3>2. base \in DOMAIN d.log
      BY <3>1, <1>4, LastKeyIsLast DEF LastLogId
    <3> QED
      BY <3>1, <3>2, <2>1, <2>3, <1>4, <1>5 DEF Convex
  <2> QED
    BY <2>1, <2>2, <2>3, <1>5
<1>19. HasLast(e)
  BY <1>7, <1>13 DEF HasLast
<1>20. \A i \in DOMAIN d.log : d.log[i] <= LastLogId(d).term
  <2> SUFFICES ASSUME NEW i \in DOMAIN d.log
               PROVE  d.log[i] <= LastLogId(d).term
    OBVIOUS
  <2>1. LastKey(d) \in DOMAIN d.log /\ i <= LastKey(d)
    BY <1>4, LastKeyIsLast
  <2>2. LastLogId(d).term = d.log[LastKey(d)]
    BY <2>1 DEF LastLogId
  <2> QED
    BY <2>1, <2>2, <1>4 DEF TermsAscend
<1>21. TermsAscend(e)
  <2> SUFFICES ASSUME NEW i \in S, NEW j \in S, i <= j
               PROVE  e.log[i] <= e.log[j]
    BY <1>7 DEF TermsAscend
  <2>1. j \in Nat /\ i \in Nat /\ e.log[i] \in Nat /\ e.log[j] \in Nat
    BY <1>10, <1>11 DEF Index, Term
  <2>2. CASE j \in DOMAIN d.log
    <3>1. i \in DOMAIN d.log
      BY <2>1, <2>2, <1>5
    <3> QED
      BY <3>1, <2>2, <1>4, <1>9 DEF TermsAscend
  <2>3. CASE j \in (base + 1)..(base + n)
    <3>1. CASE i \in DOMAIN d.log
      <4>1. e.log[i] = d.log[i] /\ d.log[i] <= LastLogId(d).term
        BY <3>1, <1>9, <1>20
      <4>2. e.log[j] = es[j - base] /\ LastLogId(d).term <= es[j - base]
        BY <2>3, <1>2, <1>8
      <4> QED
        BY <4>1, <4>2, <2>1, <1>5
    <3>2. CASE i \in (base + 1)..(base + n)
      BY <3>2, <2>1, <2>3, <1>2, <1>5, <1>8
    <3> QED
      BY <3>1, <3>2
  <2> QED
    BY <2>2, <2>3
<1>22. SnapMatches(e)
  <2>1. LastLogId(d).term >= d.snap.term
    BY <1>3, <1>5 DEF LogIdLt
  <2>2. \A i \in S : e.snap.index <= i => e.snap.term <= e.log[i]
    <3> SUFFICES ASSUME NEW i \in S, d.snap.index <= i
                 PROVE  d.snap.term <= e.log[i]
      BY <1>6
    <3>1. CASE i \in DOMAIN d.log
      BY <3>1, <1>4, <1>9 DEF SnapMatches
    <3>2. CASE i \in (base + 1)..(base + n)
      <4>1. e.log[i] = es[i - base] /\ LastLogId(d).term <= es[i - base]
            /\ es[i - base] \in Nat
        BY <3>2, <1>2, <1>8 DEF Term
      <4> QED
        BY <4>1, <2>1, <1>3, <1>5
    <3> QED
      BY <3>1, <3>2
  <2> QED
    BY <1>4, <1>6, <1>7, <2>2 DEF SnapMatches
<1> QED
  BY <1>4, <1>6, <1>7, <1>9, <1>12, <1>16, <1>17, <1>18, <1>19, <1>21, <1>22 DEF Sound
----------------------------------------------------------------------------
\* The part of a log that a range deletion leaves, with any last purged id.
LEMMA RestrictedContents ==
  ASSUME NEW d \in Contents, NEW T \in SUBSET (DOMAIN d.log), NEW id \in LogId,
         NEW e, e = [log |-> Restrict(d.log, T), purged |-> id,
                     vote |-> d.vote, snap |-> d.snap]
  PROVE  /\ e \in Contents
         /\ DOMAIN e.log = T
         /\ \A i \in T : e.log[i] = d.log[i]
         /\ e.purged = id /\ e.vote = d.vote /\ e.snap = d.snap
<1>1. e.log = [i \in T |-> d.log[i]]
  BY DEF Restrict
<1>2. e.log \in [T -> Term] /\ T \in SUBSET Index
  BY <1>1, ContentsFields
<1>3. e.log \in UNION {[S -> Term] : S \in SUBSET Index}
  BY <1>2, LogType
<1> QED
  BY <1>1, <1>3, ContentsFields DEF Contents

\* A truncation above the snapshot keeps what survivors need, and leaves a
\* last log id that is not before the snapshot.
LEMMA DeleteFromSound ==
  ASSUME NEW d \in Contents, Sound(d), ~LogIdLt(LastLogId(d), d.snap),
         NEW from \in DOMAIN d.log, from > d.snap.index
  PROVE  LET e == DeleteFrom(d, from)
         IN /\ e \in Contents
            /\ Sound(e)
            /\ e.vote = d.vote /\ e.snap = d.snap
            /\ \A i \in DOMAIN d.log :
                 i < from => i \in DOMAIN e.log /\ e.log[i] = d.log[i]
            /\ ~LogIdLt(LastLogId(e), e.snap)
<1> DEFINE T == {i \in DOMAIN d.log : i < from}
           e == DeleteFrom(d, from)
<1>1. e = [log |-> Restrict(d.log, T), purged |-> d.purged,
           vote |-> d.vote, snap |-> d.snap]
  BY ContentsFields DEF DeleteFrom
<1>2. /\ e \in Contents
      /\ DOMAIN e.log = T
      /\ \A i \in T : e.log[i] = d.log[i]
      /\ e.purged = d.purged /\ e.vote = d.vote /\ e.snap = d.snap
  <2>1. T \in SUBSET (DOMAIN d.log) /\ d.purged \in LogId
    BY ContentsFields
  <2> HIDE DEF T, e
  <2> QED
    BY <1>1, <2>1, RestrictedContents
<1>3. /\ DOMAIN d.log \in SUBSET Nat
      /\ \A i \in DOMAIN d.log : d.log[i] \in Nat
      /\ d.purged.index \in Nat /\ d.snap.index \in Nat
      /\ d.purged.term \in Nat /\ d.snap.term \in Nat
      /\ from \in Nat
  BY ContentsFields, BoundsAssumption DEF LogId, Term
<1>4. HasLast(d) /\ NoGap(d) /\ Convex(d) /\ TermsAscend(d) /\ SnapMatches(d)
      /\ d.purged.index <= d.snap.index
  BY DEF Sound
<1>5. T # {} => from - 1 \in T
  BY <1>3, <1>4 DEF Convex
<1>6. \A i \in T : i <= from - 1
  BY <1>3
<1>7. HasLast(e)
  BY <1>2, <1>5, <1>6 DEF HasLast
<1>8. ~LogIdLt(LastLogId(e), e.snap)
  <2>1. CASE T = {}
    <3>1. LastLogId(e) = d.purged
      BY <2>1, <1>2 DEF LastLogId
    <3>2. from - 1 <= d.purged.index
      <4>1. CASE d.purged.index + 1 <= from - 1
        <5>1. from - 1 \in (d.purged.index + 1)..from
          BY <4>1, <1>3
        <5>2. from - 1 \in T
          BY <5>1, <1>3, <1>4 DEF NoGap
        <5> QED
          BY <5>2, <2>1
      <4> QED
        BY <4>1, <1>3
    <3>3. d.purged.index = d.snap.index
      BY <3>2, <1>3, <1>4
    <3>4. d.snap.term <= d.purged.term
      BY <3>3, <1>4 DEF SnapMatches
    <3> QED
      BY <3>1, <3>3, <3>4, <1>2, <1>3 DEF LogIdLt
  <2>2. CASE T # {}
    <3>1. from - 1 \in T
      BY <2>2, <1>5
    <3>2. LastKey(e) = from - 1
      BY <3>1, <1>2, <1>3, <1>6, LastKeyUnique
    <3>3. LastLogId(e) = [term |-> d.log[from - 1], index |-> from - 1]
      BY <3>1, <3>2, <1>2 DEF LastLogId
    <3>4. d.snap.index <= from - 1
      BY <1>3
    <3>5. d.snap.term <= d.log[from - 1]
      BY <3>1, <3>4, <1>4 DEF SnapMatches
    <3>6. d.log[from - 1] \in Nat
      BY <3>1, <1>3
    <3> QED
      BY <3>3, <3>4, <3>5, <3>6, <1>2, <1>3 DEF LogIdLt
  <2> QED
    BY <2>1, <2>2
<1>9. NoGap(e)
  BY <1>2, <1>3, <1>4 DEF NoGap
<1>10. Convex(e)
  BY <1>2, <1>3, <1>4 DEF Convex
<1>11. TermsAscend(e)
  BY <1>2, <1>4 DEF TermsAscend
<1>12. SnapMatches(e)
  BY <1>2, <1>4 DEF SnapMatches
<1> QED
  BY <1>2, <1>3, <1>4, <1>7, <1>8, <1>9, <1>10, <1>11, <1>12 DEF Sound

\* The two writes of a purge up to an id the snapshot covers.
LEMMA PurgeSound ==
  ASSUME NEW d \in Contents, Sound(d),
         NEW id \in LogId,
         d.purged.index <= id.index, id.index <= d.snap.index,
         id.index = d.snap.index => d.snap.term <= id.term
  PROVE  /\ PurgeMeta(d, id) \in Contents
         /\ Sound(PurgeMeta(d, id))
         /\ PurgeMeta(d, id).log = d.log
         /\ PurgeMeta(d, id).vote = d.vote
         /\ PurgeRange(d, id) \in Contents
         /\ Sound(PurgeRange(d, id))
         /\ DOMAIN PurgeRange(d, id).log = {i \in DOMAIN d.log : i > id.index}
         /\ \A i \in DOMAIN d.log : i > id.index => PurgeRange(d, id).log[i] = d.log[i]
         /\ PurgeRange(d, id).vote = d.vote
         /\ PurgeRange(d, id).snap = d.snap
         /\ PurgeRange(d, id).purged = id
<1> DEFINE T == {i \in DOMAIN d.log : i > id.index}
           m == PurgeMeta(d, id)
           e == PurgeRange(d, id)
<1>1. /\ m \in Contents /\ m.log = d.log /\ m.purged = id
      /\ m.vote = d.vote /\ m.snap = d.snap
  BY ContentsFields DEF PurgeMeta, PutPurged, Contents
<1>2. e = [log |-> Restrict(d.log, T), purged |-> id,
           vote |-> d.vote, snap |-> d.snap]
  <2>1. PutPurged(d, id) = [log |-> d.log, purged |-> id,
                            vote |-> d.vote, snap |-> d.snap]
    BY ContentsFields DEF PutPurged
  <2> QED
    BY <2>1 DEF PurgeRange, DeleteUpto
<1>3. /\ e \in Contents
      /\ DOMAIN e.log = T
      /\ \A i \in T : e.log[i] = d.log[i]
      /\ e.purged = id /\ e.vote = d.vote /\ e.snap = d.snap
  <2>1. T \in SUBSET (DOMAIN d.log)
    OBVIOUS
  <2> HIDE DEF T, e
  <2> QED
    BY <1>2, <2>1, RestrictedContents
<1>4. /\ DOMAIN d.log \in SUBSET Nat
      /\ d.purged.index \in Nat /\ d.snap.index \in Nat /\ id.index \in Nat
  BY ContentsFields, BoundsAssumption DEF LogId
<1>5. HasLast(d) /\ NoGap(d) /\ Convex(d) /\ TermsAscend(d) /\ SnapMatches(d)
  BY DEF Sound
<1>6. Sound(m)
  <2>1. NoGap(m)
    BY <1>1, <1>4, <1>5 DEF NoGap
  <2>2. HasLast(m) /\ Convex(m) /\ TermsAscend(m)
    BY <1>1, <1>5 DEF HasLast, Convex, TermsAscend
  <2>3. SnapMatches(m)
    BY <1>1, <1>5 DEF SnapMatches
  <2> QED
    BY <2>1, <2>2, <2>3, <1>1 DEF Sound
<1>7. Sound(e)
  <2>1. NoGap(e)
    BY <1>3, <1>4, <1>5 DEF NoGap
  <2>2. Convex(e)
    BY <1>3, <1>4, <1>5 DEF Convex
  <2>3. TermsAscend(e)
    BY <1>3, <1>5 DEF TermsAscend
  <2>4. SnapMatches(e)
    BY <1>3, <1>5 DEF SnapMatches
  <2>5. HasLast(e)
    <3> SUFFICES ASSUME T # {}
                 PROVE  \E i \in T : \A j \in T : j <= i
      BY <1>3 DEF HasLast
    <3>1. PICK i \in DOMAIN d.log : \A j \in DOMAIN d.log : j <= i
      BY <1>5 DEF HasLast
    <3>2. i \in T
      BY <3>1, <1>4
    <3> QED
      BY <3>1, <3>2
  <2> QED
    BY <2>1, <2>2, <2>3, <2>4, <2>5, <1>3 DEF Sound
<1> QED
  BY <1>1, <1>3, <1>6, <1>7

\* A purge up to the snapshot leaves a last log id that is not before it.
LEMMA PurgeToSnapshot ==
  ASSUME NEW d \in Contents, Sound(d)
  PROVE  ~LogIdLt(LastLogId(PurgeRange(d, d.snap)), d.snap)
<1> DEFINE e == PurgeRange(d, d.snap)
<1>1. /\ d.snap \in LogId /\ d.snap.index \in Nat /\ d.snap.term \in Nat
      /\ DOMAIN d.log \in SUBSET Nat
      /\ \A i \in DOMAIN d.log : d.log[i] \in Nat
  BY ContentsFields, BoundsAssumption DEF LogId, Term
<1>2. d.purged.index <= d.snap.index
  BY DEF Sound
<1>3. /\ e \in Contents /\ Sound(e)
      /\ DOMAIN e.log = {i \in DOMAIN d.log : i > d.snap.index}
      /\ \A i \in DOMAIN d.log : i > d.snap.index => e.log[i] = d.log[i]
      /\ e.purged = d.snap
  BY <1>1, <1>2, PurgeSound
<1>4. CASE DOMAIN e.log = {}
  BY <1>1, <1>3, <1>4 DEF LastLogId, LogIdLt
<1>5. CASE DOMAIN e.log # {}
  <2>1. LastKey(e) \in DOMAIN e.log
    BY <1>3, <1>5, LastKeyIsLast DEF Sound
  <2>2. LastLogId(e) = [term |-> d.log[LastKey(e)], index |-> LastKey(e)]
    BY <2>1, <1>3 DEF LastLogId
  <2>3. d.snap.term <= d.log[LastKey(e)]
    BY <2>1, <1>1, <1>3 DEF Sound, SnapMatches
  <2> QED
    BY <2>1, <2>2, <2>3, <1>1, <1>3 DEF LogIdLt
<1> QED
  BY <1>4, <1>5

\* A newer snapshot that agrees with the entry stored at its index.
LEMMA SnapSound ==
  ASSUME NEW d \in Contents, Sound(d), NEW id \in LogId,
         id.index > d.snap.index,
         id.index \in DOMAIN d.log => d.log[id.index] = id.term
  PROVE  LET e == [d EXCEPT !.snap = id]
         IN /\ e \in Contents /\ Sound(e)
            /\ e.log = d.log /\ e.vote = d.vote /\ e.purged = d.purged
            /\ e.snap = id
<1> DEFINE e == [d EXCEPT !.snap = id]
<1>1. /\ e \in Contents /\ e.log = d.log /\ e.vote = d.vote
      /\ e.purged = d.purged /\ e.snap = id
  BY ContentsFields DEF Contents
<1>2. /\ DOMAIN d.log \in SUBSET Nat
      /\ d.purged.index \in Nat /\ d.snap.index \in Nat /\ id.index \in Nat
  BY ContentsFields, BoundsAssumption DEF LogId
<1>3. HasLast(d) /\ NoGap(d) /\ Convex(d) /\ TermsAscend(d)
      /\ d.purged.index <= d.snap.index
  BY DEF Sound
<1>4. HasLast(e) /\ NoGap(e) /\ Convex(e) /\ TermsAscend(e)
  BY <1>1, <1>3 DEF HasLast, NoGap, Convex, TermsAscend
<1>5. \A i \in DOMAIN d.log : id.index <= i => id.term <= d.log[i]
  <2> SUFFICES ASSUME NEW i \in DOMAIN d.log, id.index <= i
               PROVE  id.term <= d.log[i]
    OBVIOUS
  <2>1. id.index \in (d.purged.index + 1)..i
    BY <1>2, <1>3
  <2>2. id.index \in DOMAIN d.log
    BY <2>1, <1>3 DEF NoGap
  <2> QED
    BY <2>2, <1>3 DEF TermsAscend
<1>6. SnapMatches(e)
  BY <1>1, <1>2, <1>3, <1>5 DEF SnapMatches
<1> QED
  BY <1>1, <1>2, <1>3, <1>4, <1>6 DEF Sound
----------------------------------------------------------------------------
\* The database starts empty.
LEMMA InitIndInv == Init => IndInv
<1> SUFFICES ASSUME Init PROVE IndInv
  OBVIOUS
<1>1. /\ EmptyDb.log = [i \in {} |-> 0] /\ DOMAIN EmptyDb.log = {}
      /\ EmptyDb.purged = NoLogId /\ EmptyDb.vote = 0 /\ EmptyDb.snap = NoLogId
  BY DEF EmptyDb
<1>2. NoLogId \in LogId /\ NoLogId.index = 0 /\ NoLogId.term = 0
  BY BoundsAssumption DEF NoLogId, LogId
<1>3. EmptyDb \in Contents
  <2> DEFINE l == [i \in {} |-> 0]
  <2>1. l \in [{} -> Term]
    OBVIOUS
  <2>2. l \in UNION {[T -> Term] : T \in SUBSET Index}
    BY <2>1, LogType
  <2>3. EmptyDb = [log |-> l, purged |-> NoLogId, vote |-> 0, snap |-> NoLogId]
    BY DEF EmptyDb
  <2>4. 0 \in 0..MaxTerm
    BY BoundsAssumption
  <2> HIDE DEF l
  <2> QED
    BY <1>2, <2>2, <2>3, <2>4, ContentsIntro
<1>4. TypeOK
  BY <1>2, <1>3, BoundsAssumption DEF Init, TypeOK
<1>5. Sound(EmptyDb)
  BY <1>1, <1>2 DEF Sound, NoGap, Convex, HasLast, TermsAscend, SnapMatches
<1>6. AckedEntriesSurvive /\ AckedVoteSurvives
  BY <1>1 DEF Init, AckedEntriesSurvive, AckedVoteSurvives
<1>7. LogNotBehindSnapshot
  BY <1>1, <1>2 DEF Init, LogNotBehindSnapshot, LastLogId, LogIdLt
<1> QED
  BY <1>4, <1>5, <1>6, <1>7 DEF Init, IndInv

\* Every step of the store keeps the inductive invariant.
LEMMA NextIndInv == IndInv /\ [Next]_vars => IndInv'
<1> SUFFICES ASSUME IndInv, [Next]_vars PROVE IndInv'
  OBVIOUS
<1> USE DEF CoreFree
<1>1. /\ TypeOK /\ db \in survivors /\ db \in Contents
      /\ survivors \in SUBSET Contents
      /\ \A d \in survivors : Sound(d)
      /\ AckedEntriesSurvive /\ AckedVoteSurvives
      /\ saving # 0 => saving = db.vote
      /\ pendingPurge # NoLogId => pendingPurge = db.snap
      /\ LogNotBehindSnapshot
  BY DEF IndInv, TypeOK
<1>2. /\ db.snap \in LogId /\ db.purged \in LogId /\ db.vote \in Nat
      /\ db.snap.index \in Nat /\ db.purged.index \in Nat
      /\ DOMAIN db.log \in SUBSET Index /\ DOMAIN db.log \in SUBSET Nat
      /\ \A i \in DOMAIN db.log : db.log[i] \in Term
      /\ ackedVote \in Nat
  BY <1>1, ContentsFields, BoundsAssumption DEF LogId, TypeOK
<1>3. ASSUME NEW v \in Term, SaveVote(v) PROVE IndInv'
  <2>1. /\ db'.vote = v /\ db'.log = db.log /\ db'.purged = db.purged
        /\ db'.snap = db.snap /\ db' \in Contents
    BY <1>1, <1>3, ContentsFields, BoundsAssumption
       DEF SaveVote, PutVote, Contents, Term
  <2>2. survivors' = survivors \cup {db'}
    BY <1>3 DEF SaveVote
  <2>3. Sound(db')
    BY <2>1, <1>1 DEF Sound, NoGap, Convex, HasLast, TermsAscend, SnapMatches
  <2>4. TypeOK'
    BY <1>1, <1>3, <2>1, <2>2, BoundsAssumption DEF TypeOK, SaveVote, Term
  <2>5. AckedEntriesSurvive'
    BY <1>1, <1>3, <2>1, <2>2 DEF AckedEntriesSurvive, SaveVote
  <2>6. db'.vote >= ackedVote
    BY <1>1, <1>2, <1>3, <2>1 DEF AckedVoteSurvives, SaveVote, Term
  <2>7. AckedVoteSurvives'
    BY <1>1, <1>3, <2>2, <2>6 DEF AckedVoteSurvives, SaveVote
  <2>8. LogNotBehindSnapshot'
    BY <1>1, <1>3, <2>1 DEF LogNotBehindSnapshot, SaveVote, LastLogId, LastKey
  <2> QED
    BY <1>1, <1>3, <2>1, <2>2, <2>3, <2>4, <2>5, <2>7, <2>8 DEF IndInv, SaveVote
<1>4. ASSUME SaveVoteReturn PROVE IndInv'
  <2>1. TypeOK'
    BY <1>1, <1>4, BoundsAssumption DEF TypeOK, SaveVoteReturn
  <2>2. AckedEntriesSurvive' /\ AckedVoteSurvives'
    BY <1>1, <1>2, <1>4 DEF AckedEntriesSurvive, AckedVoteSurvives, SaveVoteReturn
  <2>3. LogNotBehindSnapshot'
    BY <1>1, <1>4 DEF LogNotBehindSnapshot, SaveVoteReturn
  <2> QED
    BY <1>1, <1>4, <2>1, <2>2, <2>3 DEF IndInv, SaveVoteReturn
<1>5. ASSUME NEW es \in Batch, AppendEntries(es) PROVE IndInv'
  <2> DEFINE base == LastLogId(db).index
             put == [n \in 1..Len(es) |-> PutEntries(db, base, es, n)]
  <2>1. ~LogIdLt(LastLogId(db), db.snap)
    BY <1>1, <1>5 DEF AppendEntries, LogNotBehindSnapshot
  <2>2. \A n \in 1..Len(es) :
          /\ put[n] \in Contents /\ Sound(put[n])
          /\ put[n].vote = db.vote
          /\ \A i \in DOMAIN db.log : i \in DOMAIN put[n].log /\ put[n].log[i] = db.log[i]
          /\ ~LogIdLt(LastLogId(put[n]), put[n].snap)
          /\ put[n].snap = db.snap
    BY <1>1, <1>5, <2>1, PutEntriesSound DEF AppendEntries
  <2>3. Len(es) \in 1..Len(es) /\ Len(es) \in Nat
    <3>1. PICK m \in 1..MaxBatch : es \in [1..m -> Term]
      BY DEF Batch
    <3>2. m \in Nat /\ m >= 1
      BY BoundsAssumption
    <3>3. es \in Seq(Term) /\ DOMAIN es = 1..m
      BY <3>1, <3>2
    <3>4. Len(es) = m
      BY <3>2, <3>3
    <3> QED
      BY <3>2, <3>4
  <2>4. base \in Nat
    BY <1>1, LastLogIdType, BoundsAssumption DEF Sound, LogId
  <2>5. /\ db' = put[Len(es)]
        /\ survivors' = survivors \cup {put[n] : n \in 1..Len(es)}
        /\ flushing' = flushing \cup {base + Len(es)}
        /\ base + Len(es) <= MaxIndex
        /\ UNCHANGED <<up, saving, pendingPurge, acked, ackedVote>>
    <3>1. \A n \in 1..Len(es) : put[n] = PutEntries(db, base, es, n)
      OBVIOUS
    <3>2. {put[n] : n \in 1..Len(es)} =
            {PutEntries(db, base, es, n) : n \in 1..Len(es)}
      BY <3>1
    <3>3. put[Len(es)] = PutEntries(db, base, es, Len(es))
      BY <2>3, <3>1
    <3> HIDE DEF put
    <3> QED
      BY <1>5, <3>2, <3>3 DEF AppendEntries
  <2> HIDE DEF put, base
  <2>6. TypeOK'
    <3>1. base + Len(es) \in Index
      BY <2>3, <2>4, <2>5, BoundsAssumption DEF Index
    <3> QED
      BY <1>1, <2>2, <2>3, <2>5, <3>1 DEF TypeOK
  <2>7. db' \in survivors' /\ \A d \in survivors' : Sound(d)
    BY <1>1, <2>2, <2>3, <2>5
  <2>8. AckedEntriesSurvive'
    BY <1>1, <2>2, <2>5 DEF AckedEntriesSurvive
  <2>9. AckedVoteSurvives'
    BY <1>1, <2>2, <2>5 DEF AckedVoteSurvives
  <2>10. LogNotBehindSnapshot'
    BY <2>2, <2>3, <2>5 DEF LogNotBehindSnapshot
  <2>11. db'.vote = db.vote /\ db'.snap = db.snap
    BY <2>2, <2>3, <2>5
  <2> QED
    BY <1>1, <2>5, <2>6, <2>7, <2>8, <2>9, <2>10, <2>11 DEF IndInv
<1>6. ASSUME NEW i \in flushing, IoCompleted(i) PROVE IndInv'
  <2>1. \A e \in acked' : e[1] \in DOMAIN db.log /\ db.log[e[1]] = e[2]
    BY <1>1, <1>6 DEF IoCompleted, AckedEntriesSurvive
  <2>2. acked' \in SUBSET (Index \X Term)
    BY <1>1, <1>2, <1>6 DEF IoCompleted, TypeOK
  <2>3. TypeOK'
    BY <1>1, <1>6, <2>2 DEF TypeOK, IoCompleted
  <2>4. AckedEntriesSurvive' /\ AckedVoteSurvives'
    BY <1>1, <1>6, <2>1 DEF AckedEntriesSurvive, AckedVoteSurvives, IoCompleted
  <2>5. LogNotBehindSnapshot'
    BY <1>1, <1>6 DEF LogNotBehindSnapshot, IoCompleted
  <2> QED
    BY <1>1, <1>6, <2>3, <2>4, <2>5 DEF IndInv, IoCompleted
<1>7. ASSUME NEW from \in Index, Truncate(from) PROVE IndInv'
  <2>1. ~LogIdLt(LastLogId(db), db.snap)
    BY <1>1, <1>7 DEF Truncate, LogNotBehindSnapshot
  <2>2. /\ db' \in Contents /\ Sound(db')
        /\ db'.vote = db.vote /\ db'.snap = db.snap
        /\ \A i \in DOMAIN db.log :
             i < from => i \in DOMAIN db'.log /\ db'.log[i] = db.log[i]
        /\ ~LogIdLt(LastLogId(db'), db'.snap)
    BY <1>1, <1>7, <2>1, DeleteFromSound DEF Truncate
  <2>3. survivors' = survivors \cup {db'}
    BY <1>7 DEF Truncate
  <2>4. TypeOK'
    BY <1>1, <1>7, <2>2, <2>3 DEF TypeOK, Truncate
  <2>5. AckedEntriesSurvive'
    BY <1>1, <1>7, <2>2, <2>3 DEF AckedEntriesSurvive, Truncate
  <2>6. AckedVoteSurvives'
    BY <1>1, <1>7, <2>2, <2>3 DEF AckedVoteSurvives, Truncate
  <2>7. LogNotBehindSnapshot'
    BY <2>2 DEF LogNotBehindSnapshot
  <2> QED
    BY <1>1, <1>7, <2>2, <2>3, <2>4, <2>5, <2>6, <2>7 DEF IndInv, Truncate
<1>8. ASSUME NEW id \in LogId, db' = [db EXCEPT !.snap = id],
             survivors' = {db'},
             id.index > db.snap.index,
             id.index \in DOMAIN db.log => db.log[id.index] = id.term,
             UNCHANGED <<up, saving, flushing, acked, ackedVote>>
      PROVE  /\ db' \in Contents /\ db'.log = db.log /\ db'.vote = db.vote
             /\ db'.purged = db.purged /\ db'.snap = id
             /\ \A d \in survivors' : Sound(d)
             /\ survivors' \in SUBSET Contents
             /\ AckedEntriesSurvive' /\ AckedVoteSurvives'
             /\ LastLogId(db') = LastLogId(db)
  <2>1. /\ db' \in Contents /\ Sound(db')
        /\ db'.log = db.log /\ db'.vote = db.vote
        /\ db'.purged = db.purged /\ db'.snap = id
    BY <1>1, <1>8, SnapSound
  <2>2. AckedEntriesSurvive' /\ AckedVoteSurvives'
    BY <1>1, <1>8, <2>1 DEF AckedEntriesSurvive, AckedVoteSurvives
  <2>3. LastLogId(db') = LastLogId(db)
    BY <2>1 DEF LastLogId, LastKey
  <2> QED
    BY <1>8, <2>1, <2>2, <2>3
<1>9. ASSUME NEW n \in Index, BuildSnapshot(n) PROVE IndInv'
  <2> DEFINE id == [term |-> db.log[n], index |-> n]
  <2>1. id \in LogId /\ id.index = n /\ id.term = db.log[n]
    BY <1>2, <1>9, BoundsAssumption DEF BuildSnapshot, LogId, Term, Index
  <2>2. /\ db' = [db EXCEPT !.snap = id] /\ survivors' = {db'}
        /\ n \in DOMAIN db.log /\ n > db.snap.index
        /\ pendingPurge' = pendingPurge /\ pendingPurge = NoLogId
        /\ saving' = saving
        /\ UNCHANGED <<up, saving, flushing, acked, ackedVote>>
    BY <1>9 DEF BuildSnapshot
  <2> HIDE DEF id
  <2>3. /\ db' \in Contents /\ db'.log = db.log /\ db'.vote = db.vote
        /\ db'.purged = db.purged /\ db'.snap = id
        /\ \A d \in survivors' : Sound(d)
        /\ survivors' \in SUBSET Contents
        /\ AckedEntriesSurvive' /\ AckedVoteSurvives'
        /\ LastLogId(db') = LastLogId(db)
    BY <1>8, <2>1, <2>2
  <2>4. TypeOK'
    BY <1>1, <2>2, <2>3 DEF TypeOK
  <2>5. ~LogIdLt(LastLogId(db), id)
    <3>1. HasLast(db) /\ TermsAscend(db)
      BY <1>1 DEF Sound
    <3>2. LastKey(db) \in DOMAIN db.log /\ n <= LastKey(db)
      BY <3>1, <2>2, LastKeyIsLast
    <3>3. LastLogId(db) = [term |-> db.log[LastKey(db)], index |-> LastKey(db)]
      BY <3>2 DEF LastLogId
    <3>4. db.log[n] <= db.log[LastKey(db)] /\ db.log[n] \in Nat
          /\ db.log[LastKey(db)] \in Nat
      BY <3>1, <3>2, <2>2, <1>2 DEF TermsAscend, Term
    <3>5. n \in Nat /\ LastKey(db) \in Nat
      BY <3>2, <2>2, <1>2
    <3> QED
      BY <3>2, <3>3, <3>4, <3>5, <2>1 DEF LogIdLt
  <2>6. LogNotBehindSnapshot'
    BY <2>3, <2>5 DEF LogNotBehindSnapshot
  <2> QED
    BY <1>1, <2>2, <2>3, <2>4, <2>6 DEF IndInv
<1>10. ASSUME NEW id \in [term : Term, index : Index], InstallSnapshot(id)
       PROVE  IndInv'
  <2>1. id \in LogId /\ id # NoLogId
    BY BoundsAssumption DEF LogId, Term, Index, NoLogId
  <2>2. /\ db' = [db EXCEPT !.snap = id] /\ survivors' = {db'}
        /\ id.index > db.snap.index
        /\ id.index \in DOMAIN db.log => db.log[id.index] = id.term
        /\ pendingPurge' = id
        /\ UNCHANGED <<up, saving, flushing, acked, ackedVote>>
    BY <1>10 DEF InstallSnapshot, Installable
  <2>3. /\ db' \in Contents /\ db'.log = db.log /\ db'.vote = db.vote
        /\ db'.purged = db.purged /\ db'.snap = id
        /\ \A d \in survivors' : Sound(d)
        /\ survivors' \in SUBSET Contents
        /\ AckedEntriesSurvive' /\ AckedVoteSurvives'
        /\ LastLogId(db') = LastLogId(db)
    BY <1>8, <2>1, <2>2
  <2>4. TypeOK'
    BY <1>1, <2>1, <2>2, <2>3 DEF TypeOK
  <2>5. LogNotBehindSnapshot'
    BY <2>1, <2>2 DEF LogNotBehindSnapshot
  <2> QED
    BY <1>1, <2>2, <2>3, <2>4, <2>5 DEF IndInv
<1>11. ASSUME NEW id \in LogId, Purge(id),
              db.purged.index <= id.index, id.index <= db.snap.index,
              id.index = db.snap.index => db.snap.term <= id.term,
              ackedVote' = ackedVote
       PROVE  /\ db' = PurgeRange(db, id)
              /\ db' \in Contents /\ db' \in survivors'
              /\ survivors' \in SUBSET Contents
              /\ acked' \in SUBSET acked
              /\ \A d \in survivors' : Sound(d)
              /\ AckedEntriesSurvive' /\ AckedVoteSurvives'
              /\ db'.vote = db.vote /\ db'.snap = db.snap
              /\ db'.purged = id
              /\ DOMAIN db'.log = {i \in DOMAIN db.log : i > id.index}
              /\ \A i \in DOMAIN db'.log : db'.log[i] = db.log[i]
  <2> DEFINE m == PurgeMeta(db, id)
  <2>1. /\ m \in Contents /\ Sound(m) /\ m.log = db.log /\ m.vote = db.vote
        /\ db' \in Contents /\ Sound(db')
        /\ DOMAIN db'.log = {i \in DOMAIN db.log : i > id.index}
        /\ \A i \in DOMAIN db.log : i > id.index => db'.log[i] = db.log[i]
        /\ db'.vote = db.vote /\ db'.snap = db.snap /\ db'.purged = id
    BY <1>1, <1>11, PurgeSound DEF Purge
  <2>2. survivors' = survivors \cup {m, db'} /\ db' = PurgeRange(db, id)
        /\ acked' = {e \in acked : e[1] > id.index}
    BY <1>11 DEF Purge
  <2> HIDE DEF m
  <2>3. AckedEntriesSurvive' /\ AckedVoteSurvives'
    BY <1>1, <1>11, <2>1, <2>2 DEF AckedEntriesSurvive, AckedVoteSurvives
  <2> QED
    BY <1>1, <2>1, <2>2, <2>3
<1>12. ASSUME PurgeInstalled PROVE IndInv'
  <2>1. pendingPurge = db.snap /\ Purge(db.snap) /\ pendingPurge' = NoLogId
        /\ UNCHANGED <<up, saving, flushing, ackedVote>>
    BY <1>1, <1>12 DEF PurgeInstalled
  <2>2. db.purged.index <= db.snap.index /\ db.snap.term \in Nat
    BY <1>1, <1>2, BoundsAssumption DEF Sound, LogId
  <2>3. /\ db' = PurgeRange(db, db.snap)
        /\ db' \in Contents /\ db' \in survivors'
        /\ survivors' \in SUBSET Contents
        /\ acked' \in SUBSET acked
        /\ \A d \in survivors' : Sound(d)
        /\ AckedEntriesSurvive' /\ AckedVoteSurvives'
        /\ db'.vote = db.vote /\ db'.snap = db.snap
    BY <1>2, <1>11, <2>1, <2>2
  <2>4. NoLogId \in LogId
    BY BoundsAssumption DEF NoLogId, LogId
  <2>5. TypeOK'
    BY <1>1, <2>1, <2>3, <2>4 DEF TypeOK
  <2>6. LogNotBehindSnapshot'
    BY <1>1, <2>3, PurgeToSnapshot DEF LogNotBehindSnapshot
  <2> QED
    BY <1>1, <2>1, <2>3, <2>5, <2>6 DEF IndInv
<1>13. ASSUME NEW n \in Index, PurgeByPolicy(n) PROVE IndInv'
  <2> DEFINE id == [term |-> db.log[n], index |-> n]
  <2>1. /\ Purge(id) /\ n \in DOMAIN db.log
        /\ db.purged.index < n /\ n <= db.snap.index
        /\ up /\ pendingPurge = NoLogId
        /\ UNCHANGED <<up, saving, flushing, pendingPurge, ackedVote>>
    BY <1>2, <1>13 DEF PurgeByPolicy
  <2>2. id \in LogId /\ id.index = n /\ id.term = db.log[n] /\ n \in Nat
    BY <1>2, <2>1, BoundsAssumption DEF LogId, Term, Index
  <2>3. n = db.snap.index => db.snap.term <= id.term
    BY <1>1, <2>1, <2>2 DEF Sound, SnapMatches
  <2> HIDE DEF id
  <2>4. /\ db' \in Contents /\ db' \in survivors'
        /\ survivors' \in SUBSET Contents
        /\ acked' \in SUBSET acked
        /\ \A d \in survivors' : Sound(d)
        /\ AckedEntriesSurvive' /\ AckedVoteSurvives'
        /\ db'.vote = db.vote /\ db'.snap = db.snap /\ db'.purged = id
        /\ DOMAIN db'.log = {i \in DOMAIN db.log : i > n}
        /\ \A i \in DOMAIN db'.log : db'.log[i] = db.log[i]
    BY <1>2, <1>11, <2>1, <2>2, <2>3
  <2>5. TypeOK'
    BY <1>1, <2>1, <2>4 DEF TypeOK
  <2>6. LastLogId(db') = LastLogId(db)
    <3>1. LastKey(db) \in DOMAIN db.log /\ \A j \in DOMAIN db.log : j <= LastKey(db)
      BY <1>1, <2>1, LastKeyIsLast DEF Sound
    <3>2. LastLogId(db) = [term |-> db.log[LastKey(db)], index |-> LastKey(db)]
      BY <3>1 DEF LastLogId
    <3>3. CASE LastKey(db) > n
      <4>1. LastKey(db) \in DOMAIN db'.log
        BY <3>1, <3>3, <2>4
      <4>2. LastKey(db') = LastKey(db)
        BY <3>1, <4>1, <2>4, <1>2, LastKeyUnique
      <4> QED
        BY <3>2, <4>1, <4>2, <2>4 DEF LastLogId
    <3>4. CASE LastKey(db) = n
      <4>1. DOMAIN db'.log = {}
        BY <3>1, <3>4, <2>2, <2>4, <1>2
      <4>2. LastLogId(db') = id
        BY <4>1, <2>4 DEF LastLogId
      <4> QED
        BY <3>2, <3>4, <4>2 DEF id
    <3> QED
      BY <3>1, <3>3, <3>4, <2>1, <2>2, <1>2
  <2>7. LogNotBehindSnapshot'
    BY <1>1, <2>1, <2>4, <2>6 DEF LogNotBehindSnapshot
  <2> QED
    BY <1>1, <2>1, <2>4, <2>5, <2>7 DEF IndInv
<1>14. ASSUME Crash PROVE IndInv'
  <2>1. PICK d \in survivors : db' = d /\ survivors' = {d}
    BY <1>14 DEF Crash
  <2>2. NoLogId \in LogId
    BY BoundsAssumption DEF NoLogId, LogId
  <2>3. TypeOK'
    <3>1. d \in Contents /\ {d} \in SUBSET Contents /\ 0 \in 0..MaxTerm
      BY <1>1, BoundsAssumption
    <3>2. /\ up' = FALSE /\ saving' = 0 /\ flushing' = {}
          /\ pendingPurge' = NoLogId /\ acked' = acked /\ ackedVote' = ackedVote
      BY <1>14 DEF Crash
    <3> QED
      BY <1>1, <2>1, <2>2, <3>1, <3>2 DEF TypeOK
  <2>4. AckedEntriesSurvive' /\ AckedVoteSurvives'
    BY <1>1, <1>14, <2>1 DEF AckedEntriesSurvive, AckedVoteSurvives, Crash
  <2>5. LogNotBehindSnapshot'
    BY <1>14 DEF LogNotBehindSnapshot, Crash
  <2> QED
    BY <1>1, <1>14, <2>1, <2>3, <2>4, <2>5 DEF IndInv, Crash
<1>15. ASSUME Start PROVE IndInv'
  <2>1. CASE LogIdLt(LastLogId(db), db.snap)
    <3>1. Purge(db.snap) /\ up' = TRUE
          /\ UNCHANGED <<saving, flushing, pendingPurge, ackedVote>>
      BY <1>15, <2>1 DEF Start
    <3>2. db.purged.index <= db.snap.index /\ db.snap.term \in Nat
      BY <1>1, <1>2, BoundsAssumption DEF Sound, LogId
    <3>3. /\ db' = PurgeRange(db, db.snap)
          /\ db' \in Contents /\ db' \in survivors'
          /\ survivors' \in SUBSET Contents
          /\ acked' \in SUBSET acked
          /\ \A d \in survivors' : Sound(d)
          /\ AckedEntriesSurvive' /\ AckedVoteSurvives'
          /\ db'.vote = db.vote /\ db'.snap = db.snap
      BY <1>2, <1>11, <3>1, <3>2
    <3>4. TypeOK'
      BY <1>1, <3>1, <3>3 DEF TypeOK
    <3>5. LogNotBehindSnapshot'
      BY <1>1, <3>3, PurgeToSnapshot DEF LogNotBehindSnapshot
    <3> QED
      BY <1>1, <3>1, <3>3, <3>4, <3>5 DEF IndInv
  <2>2. CASE ~LogIdLt(LastLogId(db), db.snap)
    <3>1. UNCHANGED <<db, survivors, acked, saving, flushing, pendingPurge, ackedVote>>
          /\ up' = TRUE
      BY <1>15, <2>2 DEF Start
    <3>2. TypeOK' /\ AckedEntriesSurvive' /\ AckedVoteSurvives'
      BY <1>1, <3>1 DEF TypeOK, AckedEntriesSurvive, AckedVoteSurvives
    <3>3. LogNotBehindSnapshot'
      BY <2>2, <3>1 DEF LogNotBehindSnapshot
    <3> QED
      BY <1>1, <3>1, <3>2, <3>3 DEF IndInv
  <2> QED
    BY <2>1, <2>2
<1>16. CASE UNCHANGED vars
  BY <1>1, <1>16 DEF vars, IndInv, TypeOK, AckedEntriesSurvive,
     AckedVoteSurvives, LogNotBehindSnapshot
<1> QED
  BY <1>3, <1>4, <1>5, <1>6, <1>7, <1>9, <1>10, <1>12, <1>13, <1>14, <1>15,
     <1>16 DEF Next
----------------------------------------------------------------------------
\* The inductive invariant holds in every reachable state.
THEOREM Invariance == Spec => []IndInv
  BY InitIndInv, NextIndInv, PTL DEF Spec

\* Every value the store's variables take has its type.
THEOREM TypeCorrect == Spec => []TypeOK
<1>1. IndInv => TypeOK
  BY DEF IndInv
<1> QED
  BY <1>1, Invariance, PTL

\* Entries io_completed reported as flushed are in whatever a power loss
\* leaves, at every moment.
THEOREM Durability == Spec => []AckedEntriesSurvive
<1>1. IndInv => AckedEntriesSurvive
  BY DEF IndInv
<1> QED
  BY <1>1, Invariance, PTL

\* So is the last vote save_vote returned for, or a later one.
THEOREM VoteDurability == Spec => []AckedVoteSurvives
<1>1. IndInv => AckedVoteSurvives
  BY DEF IndInv
<1> QED
  BY <1>1, Invariance, PTL

\* Whatever a power loss leaves has a gapless log above last_purged_log_id,
\* purged no further than its snapshot.
THEOREM CrashConsistency == Spec => [](NoGapSurvives /\ SnapshotCoversPurge)
<1>1. IndInv => NoGapSurvives /\ SnapshotCoversPurge
  BY DEF IndInv, Sound, NoGapSurvives, SnapshotCoversPurge
<1> QED
  BY <1>1, Invariance, PTL

\* After a start, and whenever no purge is waited for, the last log id is
\* not before the snapshot's.
THEOREM StartRepairs == Spec => []LogNotBehindSnapshot
<1>1. IndInv => LogNotBehindSnapshot
  BY DEF IndInv
<1> QED
  BY <1>1, Invariance, PTL
============================================================================
