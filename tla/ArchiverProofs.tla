--------------------------- MODULE ArchiverProofs ---------------------------
(***************************************************************************)
(* Theorems about Archiver, for every list of subreddits, every content    *)
(* of the backends, every page size and every sequence of runs.            *)
(***************************************************************************)
EXTENDS Archiver, FiniteSetTheorems, TLAPS

-----------------------------------------------------------------------------
(* Types *)

(* The constants a step reads have their types. *)
LEMMA Constants ==
    ASSUME TypeOK
    PROVE  /\ After \in Nat
           /\ Before \in Nat
           /\ Runs[run].maxPages \in Nat
           /\ \A w \in Workers : StreamOf(w) \in Streams
           /\ Common \subseteq Records
<1>1. Runs[run] \in RunType
  BY RunsAssumption DEF TypeOK
<1>2. After \in Nat /\ Before \in Nat /\ Runs[run].maxPages \in Nat
  BY <1>1 DEF After, Before, RunType
<1>3. \A w \in Workers : StreamOf(w) \in Streams
  BY DEF TypeOK, StreamOf, Streams, Subreddits
<1>4. Common \subseteq Records
  BY DataAssumption DEF Common
<1> QED
  BY <1>2, <1>3, <1>4

(* The values a fresh process starts from have their types. *)
LEMMA FreshValues ==
    /\ NoPage \in PageType
    /\ NoRow \in RowType
    /\ Len(Runs) \in Nat
    /\ 1 <= Len(Runs)
<1>1. NoPage \in PageType
  BY DEF NoPage, PageType, None
<1>2. NoRow \in RowType
  BY DEF NoRow, RowType
<1>3. Len(Runs) \in Nat /\ 1 <= Len(Runs)
  BY RunsAssumption
<1> QED
  BY <1>1, <1>2, <1>3

(* A step of a worker keeps the types. *)
LEMMA StepType ==
    ASSUME TypeOK, NEW w \in Workers, Step(w)
    PROVE  TypeOK'
<1> USE DEF TypeOK, PCs, GoTo
<1>1. After \in Nat /\ Before \in Nat /\ StreamOf(w) \in Streams
  BY Constants
<1>2. CASE Start(w)
  BY <1>2 DEF Start, BeginComments, Kinds, files
<1>3. CASE SkipComplete(w)
  BY <1>3 DEF SkipComplete, LeaveWalk, BeginComments, Kinds, files
<1>4. CASE Resume(w)
  <2>1. rows[StreamOf(w)].cursor \in Nat
    BY <1>1 DEF RowType
  <2>2. cursor' \in [Workers -> Nat]
    BY <1>1, <1>4, <2>1 DEF Resume, ResumePoint
  <2> QED
    BY <1>4, <2>2 DEF Resume, files
<1>5. CASE LoopHead(w)
  BY <1>5 DEF LoopHead, files
<1>6. CASE FetchPage(w)
  <2> DEFINE M(b, unseen) == Matching(b, StreamOf(w), cursor[w], Before) \ unseen
  <2>1. PICK b \in Backends, unseen \in SUBSET Late :
          \E size \in PageSizes[b], P \in SUBSET M(b, unseen),
             t \in {Created[r] : r \in M(b, unseen)} \cup {None} :
            Answer(w, b, M(b, unseen), size, P, t)
    BY <1>6 DEF FetchPage
  <2>a. PICK size \in PageSizes[b], P \in SUBSET M(b, unseen),
             t \in {Created[r] : r \in M(b, unseen)} \cup {None} :
            Answer(w, b, M(b, unseen), size, P, t)
    BY <2>1
  <2>2. P \subseteq Records /\ t \in Nat \cup {None}
    BY DataAssumption DEF Matching
  <2>3. page' \in [Workers -> PageType]
    BY <2>a, <2>2 DEF PageType, Answer
  <2> QED
    BY <1>6, <2>3 DEF FetchPage, files
<1>7. CASE FetchFails(w)
  BY <1>7 DEF FetchFails, files
<1>8. CASE Persist(w)
  <2>1. page[w].items \subseteq Records
    BY DEF PageType
  <2> QED
    BY <1>8, <2>1 DEF Persist, StoredAfter
<1>9. CASE Checkpoint(w)
  <2>1. page[w].next \in Nat \cup {None} /\ cursor[w] \in Nat
    BY DEF PageType
  <2>2. rows' \in [Streams -> RowType]
    <3>1. SavedCursor(w) \in Nat
      BY <2>1 DEF SavedCursor
    <3> QED
      BY <1>1, <1>9, <3>1 DEF Checkpoint, Row, RowType
  <2>3. page' \in [Workers -> PageType] /\ pages' \in [Workers -> Nat]
    <3>1. PagesCounted \in Nat /\ pages[w] \in Nat
      BY Constants DEF PagesCounted
    <3>2. Earlier(pages[w] + 1, PagesCounted) \in Nat
      BY <3>1 DEF Earlier
    <3> QED
      BY <1>9, <3>2, FreshValues DEF Checkpoint
  <2>4. /\ cursor' \in [Workers -> Nat]
        /\ completed' \in [Workers -> BOOLEAN]
        /\ pc' \in [Workers -> PCs]
        /\ kind' \in [Workers -> Kinds]
    <3>1. CASE page[w].exhausted \/ page[w].next = None
      BY <1>9, <3>1 DEF Checkpoint
    <3>2. CASE ~(page[w].exhausted \/ page[w].next = None)
      <4>1. NextCursor(w) \in Nat
        BY <2>1, <3>2 DEF NextCursor
      <4> QED
        BY <1>9, <3>2, <4>1 DEF Checkpoint
    <3> QED
      BY <3>1, <3>2
  <2> QED
    BY <1>9, <2>2, <2>3, <2>4 DEF Checkpoint
<1>10. CASE Close(w)
  <2>1. rows' \in [Streams -> RowType]
    BY <1>1, <1>10 DEF Close, FinalStatus, Row, RowType, Earlier
  <2> QED
    BY <1>10, <2>1 DEF Close, LeaveWalk, BeginComments, Kinds
<1>11. CASE RecomputeDepths(w) \/ DepthsUnread(w)
  BY <1>11 DEF RecomputeDepths, DepthsUnread
<1> QED
  BY <1>2, <1>3, <1>4, <1>5, <1>6, <1>7, <1>8, <1>9, <1>10, <1>11 DEF Step

(* The files and the local state of the walks always have their types. *)
THEOREM TypeCorrect == Spec => []TypeOK
<1>1. Init => TypeOK
  <2> SUFFICES ASSUME Init PROVE TypeOK
    OBVIOUS
  <2>1. pc \in [Workers -> PCs] /\ kind \in [Workers -> Kinds]
    BY DEF Init, PCs, Kinds
  <2>2. page \in [Workers -> PageType] /\ rows \in [Streams -> RowType]
    BY FreshValues DEF Init
  <2>3. run \in 1 .. Len(Runs)
    BY FreshValues DEF Init
  <2> QED
    BY <2>1, <2>2, <2>3 DEF Init, TypeOK
<1>2. TypeOK /\ [Next]_vars => TypeOK'
  <2> SUFFICES ASSUME TypeOK, [Next]_vars
               PROVE  TypeOK'
    OBVIOUS
  <2>1. CASE \E w \in Workers : Step(w)
    BY <2>1, StepType
  <2>2. CASE RequestShutdown
    BY <2>2 DEF RequestShutdown, TypeOK, files
  <2>3. CASE NextRun
    <3>1. pc' \in [Workers -> PCs] /\ kind' \in [Workers -> Kinds]
      BY <2>3 DEF NextRun, FreshProcess, PCs, Kinds
    <3>2. page' \in [Workers -> PageType]
      BY <2>3, FreshValues DEF NextRun, FreshProcess
    <3>3. run' \in 1 .. Len(Runs)
      BY <2>3, FreshValues DEF NextRun, TypeOK
    <3> QED
      BY <2>3, <3>1, <3>2, <3>3 DEF NextRun, FreshProcess, TypeOK, files
  <2>4. CASE Finished \/ UNCHANGED vars
    BY <2>4 DEF Finished, vars, process, files, TypeOK
  <2> QED
    BY <2>1, <2>2, <2>3, <2>4 DEF Next
<1> QED
  BY <1>1, <1>2, PTL DEF Spec

-----------------------------------------------------------------------------
(* Checkpoints *)

(***************************************************************************)
(* A page holds every promised record it settles: the records are sorted,  *)
(* a short page is all there is, and a page whose last timestamp is not    *)
(* past the cursor, which holds that timestamp only, has all of it because *)
(* a promised burst fits on a page.                                        *)
(***************************************************************************)
LEMMA PageContent ==
    ASSUME NEW b \in Backends, NEW s \in Streams, NEW from \in Nat, NEW to \in Nat,
           NEW size \in PageSizes[b],
           NEW unseen \in SUBSET Late,
           NEW P \in SUBSET (Matching(b, s, from, to) \ unseen),
           NEW t \in Nat \cup {None},
           IsPage(P, Matching(b, s, from, to) \ unseen, size),
           IsLastEpoch(t, P),
           NEW pg, pg = [items |-> P, next |-> t,
             exhausted |-> P = {} \/ (b \in ShortPageEnds /\ Cardinality(P) < size)],
           NEW r \in Common,
           Stream[r] = s, from <= Created[r], Created[r] < to,
           Settles(pg, from, Created[r])
    PROVE  r \in P
<1> DEFINE M == Matching(b, s, from, to) \ unseen
<1>1. r \in M
  BY DEF Common, Matching
<1>2. size \in Nat /\ size # 0
  BY DataAssumption
<1>3. \A q \in Records : Created[q] \in Nat
  BY DataAssumption
<1>4. M \subseteq Records
  BY DataAssumption DEF Matching
<1>5. IsFiniteSet(P) /\ Cardinality(P) \in Nat
  BY <1>4, DataAssumption, FS_Subset, FS_CardinalityType
<1>6. ASSUME Cardinality(P) # size
      PROVE  r \in P
  BY <1>1, <1>6 DEF IsPage
<1>7. CASE P = {}
  BY <1>2, <1>6, <1>7, FS_EmptySet
<1>8. CASE P # {} /\ pg.exhausted
  <2>1. pg.exhausted = (P = {} \/ (b \in ShortPageEnds /\ Cardinality(P) < size))
    OBVIOUS
  <2>2. Cardinality(P) < size
    BY <2>1, <1>8
  <2> QED
    BY <1>2, <1>5, <1>6, <2>2
<1>9. CASE P # {} /\ ~pg.exhausted
  <2>1. PICK p \in P : t = Created[p] /\ \A q \in P : Created[q] <= t
    BY <1>9 DEF IsLastEpoch
  <2>2. t \in Nat /\ p \in M /\ pg.next = t
    BY <2>1, <1>3, <1>4
  <2>3. CASE Created[r] < t
    BY <2>1, <2>2, <2>3, <1>1, <1>3, <1>4 DEF IsPage
  <2>4. CASE t <= from /\ Created[r] = from
    <3> DEFINE Burst == {q \in Served[b] : Stream[q] = s /\ Created[q] = t}
    <3>1. \A q \in M : from <= Created[q] /\ Stream[q] = s /\ q \in Served[b]
      BY DEF Matching
    <3>2. P \in SUBSET Burst
      BY <2>1, <2>2, <2>4, <3>1, <1>3, <1>4
    <3>3. r \in Burst
      BY <1>1, <2>1, <2>2, <2>4, <3>1, <1>3, <1>4
    <3>4. IsFiniteSet(Burst) /\ Cardinality(Burst) \in Nat
      <4>1. Burst \in SUBSET Records
        BY DataAssumption
      <4> QED
        BY <4>1, DataAssumption, FS_Subset, FS_CardinalityType
    <3>5. Cardinality(Burst) <= size
      <4>1. FitsPages(b, r)
        BY DEF Common
      <4>2. Created[r] = t
        BY <3>3
      <4> QED
        BY <4>1, <4>2 DEF FitsPages
    <3>6. Cardinality(P) <= Cardinality(Burst)
      BY <3>2, <3>4, FS_Subset
    <3>7. CASE Cardinality(P) = size
      <4>1. Cardinality(Burst) = Cardinality(P)
        BY <3>4, <3>5, <3>6, <3>7, <1>2, <1>5
      <4>2. Burst = P
        BY <3>2, <3>4, <4>1, FS_Subset
      <4> QED
        BY <4>2, <3>3
    <3> QED
      BY <3>7, <1>6
  <2>5. t # None
    BY <2>2 DEF None
  <2> QED
    BY <2>2, <2>3, <2>4, <2>5, <1>9 DEF Settles
<1> QED
  BY <1>7, <1>8, <1>9

(* What a step of a worker leaves alone: the run, the records already      *)
(* stored, the other workers, and the checkpoints of other streams.        *)
LEMMA StepFrame ==
    ASSUME TypeOK, NEW w \in Workers, Step(w)
    PROVE  /\ run' = run /\ After' = After /\ Before' = Before
           /\ stored \subseteq stored'
           /\ \A v \in Workers \ {w} :
                /\ pc'[v] = pc[v] /\ kind'[v] = kind[v] /\ cursor'[v] = cursor[v]
                /\ page'[v] = page[v] /\ completed'[v] = completed[v]
                /\ pages'[v] = pages[v]
           /\ \A s \in Streams \ {StreamOf(w)} : rows'[s] = rows[s]
           /\ pc[w] \notin {"checkpoint", "close"} => rows' = rows
<1> USE DEF TypeOK, GoTo, files
<1>0. run' = run => After' = After /\ Before' = Before
  BY DEF After, Before
<1>1. CASE Start(w)
  BY <1>0, <1>1 DEF Start, BeginComments
<1>2. CASE SkipComplete(w)
  BY <1>0, <1>2 DEF SkipComplete, LeaveWalk, BeginComments
<1>3. CASE Resume(w)
  BY <1>0, <1>3 DEF Resume
<1>4. CASE LoopHead(w)
  BY <1>0, <1>4 DEF LoopHead
<1>5. CASE FetchPage(w)
  BY <1>0, <1>5 DEF FetchPage, Answer
<1>6. CASE FetchFails(w)
  BY <1>0, <1>6 DEF FetchFails
<1>7. CASE Persist(w)
  BY <1>0, <1>7 DEF Persist, StoredAfter
<1>8. CASE Checkpoint(w)
  BY <1>0, <1>8 DEF Checkpoint
<1>9. CASE Close(w)
  BY <1>0, <1>9 DEF Close, LeaveWalk, BeginComments
<1>10. CASE RecomputeDepths(w) \/ DepthsUnread(w)
  BY <1>0, <1>10 DEF RecomputeDepths, DepthsUnread
<1> QED
  BY <1>1, <1>2, <1>3, <1>4, <1>5, <1>6, <1>7, <1>8, <1>9, <1>10 DEF Step

(* What a walk knows survives the step of another worker. *)
LEMMA OtherWalks ==
    ASSUME TypeOK, CoverageInv, NEW w \in Workers, Step(w), NEW v \in Workers \ {w}
    PROVE  WalkInv(v)'
<1>1. /\ run' = run /\ After' = After /\ Before' = Before
      /\ stored \subseteq stored'
      /\ pc'[v] = pc[v] /\ kind'[v] = kind[v] /\ cursor'[v] = cursor[v]
      /\ page'[v] = page[v] /\ completed'[v] = completed[v]
  BY StepFrame
<1>2. WalkInv(v)
  BY DEF CoverageInv
<1>3. StreamOf(v)' = StreamOf(v)
  BY <1>1 DEF StreamOf
<1>4. BehindCursor(v)'
  BY <1>1, <1>2, <1>3 DEF WalkInv, BehindCursor, Archived
<1>5. PageInHand(v)'
  BY <1>1, <1>2, <1>3 DEF WalkInv, PageInHand, PageSettled, Settles
<1>6. CompletedIsTrue(v)'
  BY <1>1, <1>2, <1>3 DEF WalkInv, CompletedIsTrue, Archived
<1> QED
  BY <1>4, <1>5, <1>6 DEF WalkInv

(* A checkpoint that is not rewritten stays true. *)
LEMMA OtherRows ==
    ASSUME TypeOK, CoverageInv, NEW w \in Workers, Step(w),
           NEW s \in Streams, rows'[s] = rows[s]
    PROVE  RowIsTrue(s)'
<1>1. After' = After /\ stored \subseteq stored'
  BY StepFrame
<1> QED
  BY <1>1 DEF CoverageInv, RowsInv, RowIsTrue, Archived

(* A worker's own step, when it writes no checkpoint. *)
LEMMA OwnWalk ==
    ASSUME TypeOK, CoverageInv, NEW w \in Workers, Step(w),
           pc[w] \notin {"checkpoint", "close"}
    PROVE  WalkInv(w)'
<1> USE DEF TypeOK, GoTo
<1>1. /\ run' = run /\ After' = After /\ Before' = Before
      /\ stored \subseteq stored'
  BY StepFrame
<1>2. WalkInv(w) /\ RowsInv
  BY DEF CoverageInv
<1>3. StreamOf(w) \in Streams /\ After \in Nat /\ Before \in Nat
  BY Constants
<1>4. CASE pc'[w] \in {"open", "depths", "done"}
  BY <1>4 DEF WalkInv, BehindCursor, PageInHand, CompletedIsTrue
<1>5. CASE Start(w) \/ SkipComplete(w) \/ RecomputeDepths(w) \/ DepthsUnread(w)
  BY <1>4, <1>5 DEF Start, SkipComplete, RecomputeDepths, DepthsUnread, LeaveWalk, BeginComments
<1>6. CASE Resume(w)
  <2>1. pc'[w] = "head" /\ kind'[w] = kind[w] /\ ~completed'[w] /\ stored' = stored
    BY <1>6 DEF Resume, files
  <2>2. StreamOf(w)' = StreamOf(w)
    BY <2>1 DEF StreamOf
  <2>3. cursor'[w] = IF rows[StreamOf(w)].cursor # 0
                       THEN rows[StreamOf(w)].cursor ELSE After
    BY <1>6 DEF Resume, ResumePoint
  <2>4. Archived(StreamOf(w), After, cursor'[w])
    <3>1. /\ rows[StreamOf(w)].start <= After
          /\ Archived(StreamOf(w), rows[StreamOf(w)].start, rows[StreamOf(w)].cursor)
          /\ rows[StreamOf(w)].start \in Nat
      BY <1>2, <1>3 DEF RowsInv, RowIsTrue, RowType
    <3>2. \A r \in Common : Created[r] \in Nat
      BY Constants, DataAssumption
    <3> QED
      BY <1>3, <2>3, <3>1, <3>2 DEF Archived
  <2>5. BehindCursor(w)'
    BY <1>1, <2>1, <2>2, <2>4 DEF BehindCursor, Archived
  <2> QED
    BY <2>1, <2>5 DEF WalkInv, PageInHand, CompletedIsTrue
<1>7. CASE LoopHead(w)
  <2>1. /\ pc'[w] \in {"close", "fetch"}
        /\ pc'[w] = "fetch" => ~completed'[w]
        /\ completed'[w] => cursor[w] >= Before
        /\ pc[w] = "head"
        /\ kind'[w] = kind[w] /\ cursor' = cursor /\ stored' = stored
    BY <1>7 DEF LoopHead, files
  <2>2. StreamOf(w)' = StreamOf(w)
    BY <2>1 DEF StreamOf
  <2>3. Archived(StreamOf(w), After, cursor[w])
    BY <1>2, <2>1 DEF WalkInv, BehindCursor
  <2>4. completed'[w] => Archived(StreamOf(w), After, Before)
    <3>1. \A r \in Common : Created[r] \in Nat
      BY Constants, DataAssumption
    <3> QED
      BY <1>3, <2>1, <2>3, <3>1 DEF Archived
  <2> QED
    BY <1>1, <2>1, <2>2, <2>3, <2>4
       DEF WalkInv, BehindCursor, PageInHand, CompletedIsTrue, Archived
<1>8. CASE FetchPage(w)
  <2> DEFINE M(b, unseen) == Matching(b, StreamOf(w), cursor[w], Before) \ unseen
  <2>1. /\ pc[w] = "fetch" /\ pc'[w] = "persist" /\ kind'[w] = kind[w]
        /\ cursor' = cursor /\ completed' = completed /\ stored' = stored
    BY <1>8 DEF FetchPage, files
  <2>2. StreamOf(w)' = StreamOf(w)
    BY <2>1 DEF StreamOf
  <2>3. PICK b \in Backends, unseen \in SUBSET Late :
          \E size \in PageSizes[b], P \in SUBSET M(b, unseen),
             t \in {Created[r] : r \in M(b, unseen)} \cup {None} :
            Answer(w, b, M(b, unseen), size, P, t)
    BY <1>8 DEF FetchPage
  <2>4. PICK size \in PageSizes[b], P \in SUBSET M(b, unseen),
             t \in {Created[r] : r \in M(b, unseen)} \cup {None} :
            Answer(w, b, M(b, unseen), size, P, t)
    BY <2>3
  <2>5. t \in Nat \cup {None}
    BY DataAssumption DEF Matching
  <2>6. page'[w] = [items |-> P, next |-> t,
          exhausted |-> P = {} \/ (b \in ShortPageEnds /\ Cardinality(P) < size)]
    BY <2>4 DEF Answer
  <2>7. IsPage(P, M(b, unseen), size) /\ IsLastEpoch(t, P)
    BY <2>4 DEF Answer
  <2>8. \A r \in Common :
          Stream[r] = StreamOf(w) /\ cursor[w] <= Created[r] /\ Created[r] < Before
            => (Settles(page'[w], cursor[w], Created[r]) => r \in P)
    BY <1>3, <2>5, <2>6, <2>7, PageContent
  <2>9. PageSettled(w, page[w].items)'
    BY <1>1, <2>1, <2>2, <2>6, <2>8 DEF PageSettled, Settles
  <2>11. t # None => cursor[w] <= t /\ t < Before
    BY <2>7 DEF IsLastEpoch, Matching, None
  <2>12. PageInHand(w)'
    BY <1>1, <2>1, <2>6, <2>9, <2>11 DEF PageInHand
  <2> QED
    BY <1>1, <1>2, <2>1, <2>2, <2>12
       DEF WalkInv, BehindCursor, CompletedIsTrue, Archived
<1>9. CASE FetchFails(w)
  <2>1. /\ pc[w] = "fetch" /\ pc'[w] = "close" /\ kind'[w] = kind[w]
        /\ cursor' = cursor /\ completed' = completed /\ stored' = stored
    BY <1>9 DEF FetchFails, files
  <2>2. StreamOf(w)' = StreamOf(w)
    BY <2>1 DEF StreamOf
  <2> QED
    BY <1>1, <1>2, <2>1, <2>2
       DEF WalkInv, BehindCursor, PageInHand, CompletedIsTrue, Archived
<1>10. CASE Persist(w)
  <2>1. /\ pc[w] = "persist" /\ pc'[w] = "checkpoint" /\ kind'[w] = kind[w]
        /\ cursor' = cursor /\ completed' = completed /\ page' = page
        /\ stored' = stored \cup (page[w].items \cap Kept)
    BY <1>10 DEF Persist, StoredAfter
  <2>2. StreamOf(w)' = StreamOf(w)
    BY <2>1 DEF StreamOf
  <2>3. Common \subseteq Kept
    BY DEF Common
  <2>4. PageSettled(w, stored)'
    BY <1>1, <1>2, <2>1, <2>2, <2>3 DEF WalkInv, PageInHand, PageSettled, Settles
  <2>5. PageInHand(w)'
    BY <1>1, <1>2, <2>1, <2>4 DEF WalkInv, PageInHand
  <2> QED
    BY <1>1, <1>2, <2>1, <2>2, <2>5
       DEF WalkInv, BehindCursor, CompletedIsTrue, Archived
<1>11. CASE Checkpoint(w) \/ Close(w)
  BY <1>11 DEF Checkpoint, Close
<1> QED
  BY <1>5, <1>6, <1>7, <1>8, <1>9, <1>10, <1>11 DEF Step

(* Saving a checkpoint behind a stored page. *)
LEMMA CheckpointStep ==
    ASSUME TypeOK, CoverageInv, NEW w \in Workers, Checkpoint(w)
    PROVE  CoverageInv'
<1> USE DEF TypeOK, GoTo
<1> DEFINE s == StreamOf(w)
<1>1. /\ run' = run /\ After' = After /\ Before' = Before /\ stored' = stored
  BY StepFrame DEF Step, Checkpoint
<1>2. WalkInv(w) /\ RowsInv
  BY DEF CoverageInv
<1>3. s \in Streams /\ After \in Nat /\ Before \in Nat /\ cursor[w] \in Nat
  BY Constants
<1>4. \A r \in Common : Created[r] \in Nat
  BY Constants, DataAssumption
<1>5. page[w].next \in Nat \cup {None} /\ pages[w] \in Nat
  BY DEF PageType
<1>6. /\ pc[w] = "checkpoint" /\ kind'[w] = kind[w]
      /\ pc'[w] \in {"close", "head"}
      /\ pc'[w] = "head" => ~(page[w].exhausted \/ page[w].next = None)
  BY DEF Checkpoint
<1>7. StreamOf(w)' = s
  BY <1>6 DEF StreamOf
<1>8. Archived(s, After, cursor[w]) /\ PageSettled(w, stored)
  BY <1>2, <1>6 DEF WalkInv, BehindCursor, PageInHand
<1>9. page[w].next # None =>
        cursor[w] <= page[w].next /\ page[w].next < Before
  BY <1>2, <1>6 DEF WalkInv, PageInHand
<1>10. page[w].next # None => Archived(s, After, page[w].next)
  <2> SUFFICES ASSUME page[w].next # None, NEW r \in Common,
                      Stream[r] = s, After <= Created[r], Created[r] < page[w].next
               PROVE  r \in stored
    BY DEF Archived
  <2>1. CASE Created[r] < cursor[w]
    BY <1>8, <2>1 DEF Archived
  <2>2. CASE cursor[w] <= Created[r]
    <3>1. Created[r] < Before
      BY <1>3, <1>4, <1>5, <1>9
    <3> QED
      BY <1>8, <2>2, <3>1 DEF PageSettled, Settles
  <2> QED
    BY <1>3, <1>4, <2>1, <2>2
<1>11. page[w].exhausted \/ page[w].next = None => Archived(s, After, Before)
  <2> SUFFICES ASSUME page[w].exhausted \/ page[w].next = None, NEW r \in Common,
                      Stream[r] = s, After <= Created[r], Created[r] < Before
               PROVE  r \in stored
    BY DEF Archived
  <2>1. CASE Created[r] < cursor[w]
    BY <1>8, <2>1 DEF Archived
  <2>2. CASE cursor[w] <= Created[r]
    BY <1>8, <2>2 DEF PageSettled, Settles
  <2> QED
    BY <1>3, <1>4, <2>1, <2>2
<1>12. WalkInv(w)'
  <2>1. CASE page[w].exhausted \/ page[w].next = None
    <3>1. pc'[w] = "close" /\ cursor' = cursor
      BY <2>1 DEF Checkpoint
    <3> QED
      BY <3>1, <2>1, <1>1, <1>7, <1>8, <1>11
         DEF WalkInv, BehindCursor, PageInHand, CompletedIsTrue, Archived
  <2>2. CASE ~(page[w].exhausted \/ page[w].next = None)
    <3>1. cursor'[w] = NextCursor(w) /\ ~completed'[w]
      <4>1. cursor'[w] = NextCursor(w) /\ completed' = completed
        BY <2>2 DEF Checkpoint
      <4>2. ~completed[w]
        BY <1>2, <1>6 DEF WalkInv, CompletedIsTrue
      <4> QED
        BY <4>1, <4>2
    <3>2. Archived(s, After, cursor'[w])
      <4>1. CASE pages[w] > 0 /\ page[w].next <= cursor[w]
        <5>1. cursor'[w] = cursor[w] + 1 /\ page[w].next = cursor[w]
          BY <1>3, <1>5, <1>9, <2>2, <3>1, <4>1 DEF NextCursor
        <5> SUFFICES ASSUME NEW r \in Common,
                            Stream[r] = s, After <= Created[r], Created[r] < cursor'[w]
                     PROVE  r \in stored
          BY DEF Archived
        <5>2. Created[r] < cursor[w] \/ Created[r] = cursor[w]
          BY <1>3, <1>4, <5>1
        <5>3. CASE Created[r] = cursor[w]
          <6>1. cursor[w] <= Created[r] /\ Created[r] < Before
            BY <1>3, <1>9, <2>2, <5>1, <5>3
          <6>2. Settles(page[w], cursor[w], Created[r])
            BY <1>3, <5>1, <5>3 DEF Settles
          <6> QED
            BY <1>8, <6>1, <6>2 DEF PageSettled
        <5> QED
          BY <1>8, <5>2, <5>3 DEF Archived
      <4>2. CASE ~(pages[w] > 0 /\ page[w].next <= cursor[w])
        BY <1>10, <2>2, <3>1, <4>2 DEF NextCursor
      <4> QED
        BY <4>1, <4>2
    <3> QED
      BY <1>1, <1>6, <1>7, <3>1, <3>2
         DEF WalkInv, BehindCursor, PageInHand, CompletedIsTrue, Archived
  <2> QED
    BY <2>1, <2>2
<1>13. \A v \in Workers : WalkInv(v)'
  BY <1>12, OtherWalks DEF Step
<1>14. RowsInv'
  <2>1. rows'[s] = Row(SavedCursor(w), "in_progress")
    BY <1>3 DEF Checkpoint
  <2>2. Archived(s, After, SavedCursor(w))
    BY <1>8, <1>10 DEF SavedCursor
  <2>3. /\ rows'[s].start = After /\ rows'[s].cursor = SavedCursor(w)
        /\ rows'[s].status # "complete"
    BY <2>1 DEF Row
  <2>4. \A q \in Streams \ {s} : RowIsTrue(q)'
    BY StepFrame, OtherRows DEF Step
  <2>5. RowIsTrue(s)'
    BY <1>1, <1>3, <1>7, <2>2, <2>3 DEF RowIsTrue, Archived
  <2> QED
    BY <2>4, <2>5, <1>7 DEF RowsInv
<1> QED
  BY <1>13, <1>14 DEF CoverageInv

(* The final checkpoint of a walk. *)
LEMMA CloseStep ==
    ASSUME TypeOK, CoverageInv, NEW w \in Workers, Close(w)
    PROVE  CoverageInv'
<1> USE DEF TypeOK, GoTo
<1> DEFINE s == StreamOf(w)
<1>1. /\ run' = run /\ After' = After /\ Before' = Before /\ stored' = stored
  BY StepFrame DEF Step, Close
<1>2. WalkInv(w) /\ RowsInv
  BY DEF CoverageInv
<1>3. s \in Streams /\ After \in Nat /\ Before \in Nat /\ cursor[w] \in Nat
  BY Constants
<1>4. \A r \in Common : Created[r] \in Nat
  BY Constants, DataAssumption
<1>5. pc[w] = "close" /\ pc'[w] \in {"open", "depths", "done"}
  BY DEF Close, LeaveWalk, BeginComments
<1>6. \A v \in Workers : WalkInv(v)'
  BY <1>5, OtherWalks
     DEF Step, WalkInv, BehindCursor, PageInHand, CompletedIsTrue
<1>7. Archived(s, After, Earlier(cursor[w], Before))
  <2>1. Archived(s, After, cursor[w])
    BY <1>2, <1>5 DEF WalkInv, BehindCursor
  <2> QED
    BY <2>1, <1>3, <1>4 DEF Archived, Earlier
<1>8. completed[w] => Archived(s, After, Before)
  BY <1>2, <1>5 DEF WalkInv, CompletedIsTrue
<1>9. rows'[s] = Row(Earlier(cursor[w], Before),
                     IF completed[w] THEN "complete" ELSE "in_progress")
  BY <1>3 DEF Close, FinalStatus
<1>10. /\ rows'[s].start = After /\ rows'[s].end = Before
       /\ rows'[s].cursor = Earlier(cursor[w], Before)
       /\ rows'[s].status = "complete" => completed[w]
  BY <1>9 DEF Row
<1>11. \A q \in Streams \ {s} : RowIsTrue(q)'
  BY StepFrame, OtherRows DEF Step
<1>12. ASSUME NEW q \in Streams, q = s
       PROVE  RowIsTrue(q)'
  BY <1>1, <1>3, <1>7, <1>8, <1>10, <1>12 DEF RowIsTrue, Archived
<1>13. RowsInv'
  BY <1>11, <1>12 DEF RowsInv
<1> QED
  BY <1>6, <1>13 DEF CoverageInv

(* A new process starts with no walk, and its window starts no earlier. *)
LEMMA NextRunStep ==
    ASSUME TypeOK, CoverageInv, ForwardWindows, NextRun
    PROVE  CoverageInv'
<1>1. \A w \in Workers : pc'[w] = "queued"
  BY DEF NextRun, FreshProcess
<1>2. \A w \in Workers : WalkInv(w)'
  BY <1>1 DEF WalkInv, BehindCursor, PageInHand, CompletedIsTrue
<1>3. After <= After'
  <2>1. run \in 1 .. Len(Runs) /\ run' \in 1 .. Len(Runs) /\ run <= run'
    BY FreshValues DEF NextRun, TypeOK
  <2> QED
    BY <2>1 DEF ForwardWindows, After
<1>4. After \in Nat /\ After' \in Nat
  <2>1. run' \in 1 .. Len(Runs)
    BY FreshValues DEF NextRun, TypeOK
  <2>2. Runs[run'] \in RunType
    BY <2>1, RunsAssumption
  <2> QED
    BY <2>2, Constants DEF After, RunType
<1>5. \A s \in Streams : rows[s].start \in Nat
  BY DEF TypeOK, RowType
<1>6. RowsInv'
  BY <1>3, <1>4, <1>5 DEF CoverageInv, RowsInv, RowIsTrue, Archived, NextRun, files
<1> QED
  BY <1>2, <1>6 DEF CoverageInv

(* Every step keeps the invariant. *)
LEMMA CoverageStep ==
    ASSUME TypeOK, CoverageInv, ForwardWindows, [Next]_vars
    PROVE  CoverageInv'
<1>1. ASSUME NEW w \in Workers, Step(w), pc[w] \notin {"checkpoint", "close"}
      PROVE  CoverageInv'
  <2>1. \A v \in Workers : WalkInv(v)'
    BY <1>1, OwnWalk, OtherWalks
  <2>2. rows' = rows
    BY <1>1, StepFrame
  <2>3. After' = After /\ stored \subseteq stored'
    BY <1>1, StepFrame
  <2>4. RowsInv'
    BY <2>2, <2>3 DEF CoverageInv, RowsInv, RowIsTrue, Archived
  <2> QED
    BY <2>1, <2>4 DEF CoverageInv
<1>2. ASSUME NEW w \in Workers, Step(w), pc[w] \in {"checkpoint", "close"}
      PROVE  CoverageInv'
  <2>1. Checkpoint(w) \/ Close(w)
    BY <1>2 DEF Step, Start, SkipComplete, Resume, LoopHead, FetchPage, FetchFails,
                Persist, RecomputeDepths, DepthsUnread
  <2> QED
    BY <2>1, CheckpointStep, CloseStep
<1>3. CASE NextRun
  BY <1>3, NextRunStep
<1>4. CASE RequestShutdown \/ Finished \/ UNCHANGED vars
  <2>1. /\ UNCHANGED <<pc, kind, cursor, page, completed, stored, rows, run>>
    BY <1>4 DEF RequestShutdown, Finished, vars, process, files
  <2> QED
    BY <2>1 DEF CoverageInv, WalkInv, RowsInv, RowIsTrue, BehindCursor, PageInHand, PageSettled,
                CompletedIsTrue, Archived, StreamOf, After, Before, Settles
<1> QED
  BY <1>1, <1>2, <1>3, <1>4 DEF Next

(* Checkpoints and the walks that write them claim stored records only.    *)
THEOREM CoverageInvariant ==
    ASSUME ForwardWindows
    PROVE  Spec => []CoverageInv
<1>1. Init => CoverageInv
  <2> SUFFICES ASSUME Init PROVE CoverageInv
    OBVIOUS
  <2>1. After \in Nat
    <3>1. Runs[1] \in RunType
      BY FreshValues, RunsAssumption
    <3> QED
      BY <3>1 DEF Init, After, RunType
  <2>2. \A w \in Workers : WalkInv(w)
    BY DEF Init, WalkInv, BehindCursor, PageInHand, CompletedIsTrue
  <2>3. \A r \in Common : Created[r] \in Nat
    BY DataAssumption DEF Common
  <2>4. RowsInv
    BY <2>1, <2>3 DEF Init, RowsInv, RowIsTrue, NoRow, Archived
  <2> QED
    BY <2>2, <2>4 DEF CoverageInv
<1>2. TypeOK /\ CoverageInv /\ [Next]_vars => CoverageInv'
  BY CoverageStep
<1> QED
  BY <1>1, <1>2, TypeCorrect, PTL DEF Spec

(* "An interrupted run resumes exactly where it stopped": whenever the     *)
(* process stops, a checkpoint claims stored records only.                 *)
THEOREM CheckpointsCover ==
    ASSUME ForwardWindows
    PROVE  Spec => []CheckpointCovers
<1>1. CoverageInv => CheckpointCovers
  BY DEF CoverageInv, RowsInv, RowIsTrue, CheckpointCovers
<1> QED
  BY <1>1, CoverageInvariant, PTL

(* A checkpoint that says complete has its whole window archived. *)
THEOREM CompleteIsArchived ==
    ASSUME ForwardWindows
    PROVE  Spec => []CompleteMeansArchived
<1>1. CoverageInv => CompleteMeansArchived
  BY DEF CoverageInv, RowsInv, RowIsTrue, CompleteMeansArchived
<1> QED
  BY <1>1, CoverageInvariant, PTL

-----------------------------------------------------------------------------
(* What a finished run has archived *)

(* A complete row that reaches the end of the window covers the window. *)
LEMMA CompleteCovers ==
    ASSUME TypeOK, CoverageInv, RowsReachEnd,
           NEW s \in Streams, rows[s].status = "complete"
    PROVE  Archived(s, After, Before)
<1>1. rows[s].start <= After /\ Archived(s, rows[s].start, rows[s].end)
  BY DEF CoverageInv, RowsInv, RowIsTrue
<1>2. Before <= rows[s].end
  BY DEF RowsReachEnd
<1>3. rows[s].start \in Nat /\ rows[s].end \in Nat /\ After \in Nat /\ Before \in Nat
  BY Constants DEF TypeOK, RowType
<1>4. \A r \in Common : Created[r] \in Nat
  BY Constants, DataAssumption
<1> QED
  BY <1>1, <1>2, <1>3, <1>4 DEF Archived

(* A worker's step makes a row complete only up to the window's end. *)
LEMMA RowsReachStep ==
    ASSUME TypeOK, RowsReachEnd, NEW w \in Workers, Step(w)
    PROVE  RowsReachEnd'
<1>1. /\ Before' = Before
      /\ \A s \in Streams \ {StreamOf(w)} : rows'[s] = rows[s]
      /\ pc[w] \notin {"checkpoint", "close"} => rows' = rows
  BY StepFrame
<1>2. StreamOf(w) \in Streams /\ Before \in Nat
  BY Constants
<1>3. CASE pc[w] \notin {"checkpoint", "close"}
  BY <1>1, <1>3 DEF RowsReachEnd
<1>4. CASE pc[w] \in {"checkpoint", "close"}
  <2>1. Checkpoint(w) \/ Close(w)
    BY <1>4 DEF Step, Start, SkipComplete, Resume, LoopHead, FetchPage, FetchFails,
                Persist, RecomputeDepths, DepthsUnread
  <2>2. \E at, status : rows'[StreamOf(w)] = Row(at, status)
    BY <1>2, <2>1 DEF Checkpoint, Close, TypeOK
  <2>3. rows'[StreamOf(w)].end = Before
    BY <2>2 DEF Row
  <2> QED
    BY <1>1, <1>2, <2>3 DEF RowsReachEnd
<1> QED
  BY <1>3, <1>4

(* What a worker has behind it is not touched by the step of another. *)
LEMMA OtherPassed ==
    ASSUME TypeOK, NEW w \in Workers, Step(w),
           NEW v \in Workers \ {w}, PassedIsArchived(v)
    PROVE  PassedIsArchived(v)'
<1>1. /\ run' = run /\ After' = After /\ Before' = Before
      /\ stored \subseteq stored'
      /\ pc'[v] = pc[v] /\ kind'[v] = kind[v] /\ completed'[v] = completed[v]
  BY StepFrame
<1>2. Undisturbed' => Undisturbed
  BY <1>1 DEF Undisturbed, Step, Start, SkipComplete, Resume, LoopHead, FetchPage,
              FetchFails, Persist, Checkpoint, Close, RecomputeDepths, DepthsUnread
<1> QED
  BY <1>1, <1>2 DEF PassedIsArchived, Passed, Archived

(***************************************************************************)
(* A worker leaves a walk in an undisturbed run only with its window       *)
(* archived: by Close after the walk completed, or by SkipComplete.        *)
(***************************************************************************)
LEMMA OwnPassed ==
    ASSUME TypeOK, CoverageInv, RowsReachEnd, NEW w \in Workers, Step(w),
           PassedIsArchived(w)
    PROVE  PassedIsArchived(w)'
<1> USE DEF TypeOK, GoTo
<1>1. run' = run /\ After' = After /\ Before' = Before /\ stored \subseteq stored'
  BY StepFrame
<1>2. SUFFICES ASSUME Undisturbed'
               PROVE  /\ \A k \in FetchKinds : Passed(w, k)' =>
                            Archived(<<Subreddit[w], k>>, After, Before)
                      /\ pc'[w] = "close" => completed'[w]
                      /\ pc'[w] = "depths" => kind'[w] = "comments"
  BY <1>1 DEF PassedIsArchived, Archived
<1>3. Undisturbed /\ ~FetchFails(w)
  BY <1>1, <1>2 DEF Undisturbed, Step, Start, SkipComplete, Resume, LoopHead, FetchPage,
              FetchFails, Persist, Checkpoint, Close, RecomputeDepths, DepthsUnread
<1>4. /\ \A k \in FetchKinds : Passed(w, k) => Archived(<<Subreddit[w], k>>, After, Before)
      /\ pc[w] = "close" => completed[w]
      /\ pc[w] = "depths" => kind[w] = "comments"
  BY <1>3 DEF PassedIsArchived
<1>5. FetchKinds \subseteq {"posts", "comments"} /\ kind[w] \in {"posts", "comments"}
  BY DataAssumption DEF Kinds
<1>6. CASE Start(w)
  <2>1. ~shutdown /\ pc[w] = "queued"
    BY <1>3, <1>6 DEF Undisturbed, Start
  <2>2. CASE "posts" \in FetchKinds
    BY <1>6, <2>1, <2>2 DEF Start, Wanted, Passed
  <2>3. CASE "posts" \notin FetchKinds
    BY <1>5, <1>6, <2>1, <2>3 DEF Start, Wanted, Passed, BeginComments
  <2> QED
    BY <2>2, <2>3
<1>7. CASE SkipComplete(w) \/ Close(w)
  <2>1. Archived(StreamOf(w), After, Before)
    <3>1. CASE SkipComplete(w)
      BY <3>1, CompleteCovers, Constants DEF SkipComplete
    <3>2. CASE Close(w)
      <4>1. pc[w] = "close" /\ completed[w]
        BY <1>4, <3>2 DEF Close
      <4> QED
        BY <4>1 DEF CoverageInv, WalkInv, CompletedIsTrue
    <3> QED
      BY <1>7, <3>1, <3>2
  <2>2. ~shutdown /\ pc[w] \notin {"queued", "depths", "done"} /\ LeaveWalk(w)
    BY <1>3, <1>7 DEF Undisturbed, SkipComplete, Close
  <2>3. CASE kind[w] = "posts"
    <3>1. Archived(<<Subreddit[w], "posts">>, After, Before)
      BY <2>1, <2>3 DEF StreamOf
    <3> QED
      BY <1>5, <2>2, <2>3, <3>1 DEF LeaveWalk, BeginComments, Wanted, Passed
  <2>4. CASE kind[w] = "comments"
    <3>1. Archived(<<Subreddit[w], "comments">>, After, Before)
      BY <2>1, <2>4 DEF StreamOf
    <3>2. "posts" \in FetchKinds => Archived(<<Subreddit[w], "posts">>, After, Before)
      BY <1>4, <2>2, <2>4 DEF Passed
    <3>3. pc'[w] = "depths" /\ kind'[w] = "comments"
      BY <2>2, <2>4 DEF LeaveWalk
    <3> QED
      BY <1>5, <3>1, <3>2, <3>3
  <2> QED
    BY <1>5, <2>3, <2>4
<1>8. CASE Resume(w) \/ LoopHead(w) \/ FetchPage(w) \/ Persist(w) \/ Checkpoint(w)
  <2>1. /\ kind'[w] = kind[w]
        /\ pc[w] \notin {"queued", "depths", "done"}
        /\ pc'[w] \notin {"depths", "done"}
    BY <1>8 DEF Resume, LoopHead, FetchPage, Persist, Checkpoint
  <2>2. \A k \in FetchKinds : Passed(w, k)' => Passed(w, k)
    BY <2>1 DEF Passed
  <2>3. pc'[w] = "close" => completed'[w]
    <3>1. CASE LoopHead(w)
      BY <1>3, <3>1 DEF LoopHead, Undisturbed
    <3>2. CASE Checkpoint(w)
      BY <1>3, <3>2 DEF Checkpoint, Undisturbed
    <3>3. CASE Resume(w) \/ FetchPage(w) \/ Persist(w)
      BY <3>3 DEF Resume, FetchPage, Persist
    <3> QED
      BY <1>8, <3>1, <3>2, <3>3
  <2> QED
    BY <1>4, <2>1, <2>2, <2>3
<1>9. CASE RecomputeDepths(w) \/ DepthsUnread(w)
  BY <1>4, <1>9 DEF RecomputeDepths, DepthsUnread, Passed
<1> QED
  BY <1>3, <1>6, <1>7, <1>8, <1>9 DEF Step

(* Every step keeps the invariant of undisturbed runs; a new run begins    *)
(* with nothing behind it, and its window ends no later.                   *)
LEMMA FinishStep ==
    ASSUME TypeOK, CoverageInv, FinishInv, NarrowingWindows, [Next]_vars
    PROVE  FinishInv'
<1>1. ASSUME NEW w \in Workers, Step(w)
      PROVE  FinishInv'
  <2>1. \A v \in Workers : PassedIsArchived(v)'
    BY <1>1, OwnPassed, OtherPassed DEF FinishInv
  <2>2. RowsReachEnd'
    BY <1>1, RowsReachStep DEF FinishInv
  <2> QED
    BY <2>1, <2>2 DEF FinishInv
<1>2. CASE NextRun
  <2>1. \A w \in Workers : pc'[w] = "queued"
    BY <1>2 DEF NextRun, FreshProcess
  <2>2. \A w \in Workers : PassedIsArchived(w)'
    <3>1. ASSUME NEW w \in Workers, NEW k
          PROVE  ~Passed(w, k)'
      BY <2>1, <3>1 DEF Passed
    <3> QED
      BY <2>1, <3>1 DEF PassedIsArchived
  <2>3. Before' <= Before /\ Before \in Nat /\ Before' \in Nat
    <3>1. run \in 1 .. Len(Runs) /\ run' \in 1 .. Len(Runs) /\ run <= run'
      BY <1>2, FreshValues DEF NextRun, TypeOK
    <3>2. Runs[run] \in RunType /\ Runs[run'] \in RunType
      BY <3>1, RunsAssumption
    <3> QED
      BY <3>1, <3>2 DEF NarrowingWindows, Before, RunType
  <2>4. \A s \in Streams : rows'[s] = rows[s] /\ rows[s].end \in Nat
    BY <1>2 DEF NextRun, files, TypeOK, RowType
  <2>5. RowsReachEnd'
    BY <2>3, <2>4 DEF FinishInv, RowsReachEnd
  <2> QED
    BY <2>2, <2>5 DEF FinishInv
<1>3. CASE RequestShutdown
  <2>1. ~Undisturbed' /\ rows' = rows /\ Before' = Before
    BY <1>3 DEF RequestShutdown, Undisturbed, files, Before
  <2> QED
    BY <2>1 DEF FinishInv, PassedIsArchived, RowsReachEnd
<1>4. CASE Finished \/ UNCHANGED vars
  <2>1. UNCHANGED <<pc, kind, completed, shutdown, gaveUp, stored, rows, run>>
    BY <1>4 DEF Finished, vars, process, files
  <2> QED
    BY <2>1 DEF FinishInv, PassedIsArchived, Undisturbed, Passed, RowsReachEnd,
                Archived, After, Before
<1> QED
  BY <1>1, <1>2, <1>3, <1>4 DEF Next

(***************************************************************************)
(* A run that ended by itself, with no shutdown, failure or page cap, has  *)
(* archived all of its window for every kind the configuration asks for,   *)
(* whatever interrupted the runs before it, if windows do not grow.        *)
(***************************************************************************)
THEOREM FinishedRunsArchived ==
    ASSUME NarrowingWindows
    PROVE  Spec => []FinishedRunArchived
<1>1. Init => FinishInv
  <2> SUFFICES ASSUME Init PROVE FinishInv
    OBVIOUS
  <2>1. \A w \in Workers : pc[w] = "queued"
    BY DEF Init
  <2>2. \A w \in Workers : PassedIsArchived(w)
    BY <2>1 DEF PassedIsArchived, Passed
  <2>3. RowsReachEnd
    BY DEF Init, RowsReachEnd, NoRow
  <2> QED
    BY <2>2, <2>3 DEF FinishInv
<1>2. TypeOK /\ CoverageInv /\ FinishInv /\ [Next]_vars => FinishInv'
  BY FinishStep
<1>3. FinishInv => FinishedRunArchived
  <2> SUFFICES ASSUME FinishInv, AllDone, Undisturbed,
                      NEW s \in Subreddits \X FetchKinds
               PROVE  Archived(s, After, Before)
    BY DEF FinishedRunArchived, Undisturbed
  <2>1. PICK w \in Workers : s[1] = Subreddit[w]
    BY DEF Subreddits
  <2>2. s[2] \in FetchKinds /\ s = <<Subreddit[w], s[2]>>
    BY <2>1
  <2>3. Passed(w, s[2])
    BY DEF AllDone, Passed
  <2> QED
    BY <2>2, <2>3 DEF FinishInv, PassedIsArchived
<1>4. ForwardWindows
  BY DEF NarrowingWindows, ForwardWindows
<1> QED
  BY <1>1, <1>2, <1>3, <1>4, TypeCorrect, CoverageInvariant, PTL DEF Spec

-----------------------------------------------------------------------------
(* Records *)

(* No step of any run, and no crash, removes a stored record. *)
THEOREM RecordsAreKept == Spec => NothingLost
<1>1. TypeOK /\ [Next]_vars => [stored \subseteq stored']_vars
  <2> SUFFICES ASSUME TypeOK, Next
               PROVE  stored \subseteq stored'
    BY DEF vars
  <2>1. CASE \E w \in Workers : Step(w)
    BY <2>1, StepFrame
  <2>2. CASE RequestShutdown \/ NextRun \/ Finished
    BY <2>2 DEF RequestShutdown, NextRun, Finished, vars, files
  <2> QED
    BY <2>1, <2>2 DEF Next
<1> QED
  BY <1>1, TypeCorrect, PTL DEF Spec, NothingLost

-----------------------------------------------------------------------------
(* Depths *)

(* What no root leads to stays so in a file that grows. *)
LEMMA RootlessGrows ==
    ASSUME NEW S, NEW T, S \subseteq T
    PROVE  Rootless(S) \subseteq Rootless(T)
BY DEF Rootless

(* A worker's step leaves no comment without a depth that is within reach  *)
(* of the pass and that nobody of its subreddit will pass over.            *)
LEMMA DepthsStep ==
    ASSUME TypeOK, DepthsInv, NEW w \in Workers, Step(w)
    PROVE  DepthsInv'
<1> USE DEF TypeOK, GoTo
<1>1. \A v \in Workers \ {w} :
        pc'[v] = pc[v] /\ page'[v] = page[v] /\ StreamOf(v)' = StreamOf(v)
  BY StepFrame DEF StreamOf
<1>2. shutdown' = shutdown
  BY DEF Step, Start, SkipComplete, Resume, LoopHead, FetchPage, FetchFails, Persist,
         Checkpoint, Close, RecomputeDepths, DepthsUnread
<1>3. pc'[w] = "persist" => \A r \in page'[w].items : Stream[r] = StreamOf(w)'
  <2>1. CASE FetchPage(w)
    <3> DEFINE M(b, unseen) == Matching(b, StreamOf(w), cursor[w], Before) \ unseen
    <3>1. PICK b \in Backends, unseen \in SUBSET Late :
            \E size \in PageSizes[b], P \in SUBSET M(b, unseen),
               t \in {Created[r] : r \in M(b, unseen)} \cup {None} :
              Answer(w, b, M(b, unseen), size, P, t)
      BY <2>1 DEF FetchPage
    <3>2. page'[w].items \subseteq M(b, unseen)
      BY <3>1 DEF Answer
    <3>3. StreamOf(w)' = StreamOf(w)
      BY <2>1 DEF FetchPage, StreamOf
    <3> QED
      BY <3>2, <3>3 DEF Matching
  <2>2. CASE ~FetchPage(w)
    <3>1. pc'[w] # "persist"
      BY <2>2 DEF Step, Start, SkipComplete, Resume, LoopHead, FetchFails, Persist,
                  Checkpoint, Close, RecomputeDepths, DepthsUnread, LeaveWalk, BeginComments
    <3> QED
      BY <3>1
  <2> QED
    BY <2>1, <2>2
<1>4. pc'[w] = "done" /\ ~RecomputeDepths(w) /\ ~DepthsUnread(w) =>
        shutdown \/ "comments" \notin FetchKinds
  <2>1. CASE Start(w)
    BY <2>1 DEF Start, BeginComments, Wanted
  <2>2. CASE SkipComplete(w)
    BY <2>2 DEF SkipComplete, LeaveWalk, BeginComments, Wanted
  <2>3. CASE Close(w)
    BY <2>3 DEF Close, LeaveWalk, BeginComments, Wanted
  <2>4. CASE Resume(w) \/ LoopHead(w) \/ FetchPage(w) \/ FetchFails(w)
               \/ Persist(w) \/ Checkpoint(w)
    BY <2>4 DEF Resume, LoopHead, FetchPage, FetchFails, Persist, Checkpoint
  <2> QED
    BY <2>1, <2>2, <2>3, <2>4 DEF Step
<1>5. flat' \subseteq stored'
  <2>1. CASE Persist(w)
    BY <2>1 DEF Persist, StoredAfter, DepthsInv
  <2>2. CASE ~Persist(w)
    <3>1. flat' \subseteq flat /\ stored' = stored
      BY <2>2 DEF Step, Start, SkipComplete, Resume, LoopHead, FetchPage, FetchFails,
                  Checkpoint, Close, RecomputeDepths, DepthsUnread, files
    <3> QED
      BY <3>1 DEF DepthsInv
  <2> QED
    BY <2>1, <2>2
<1>6. ASSUME NEW r \in flat', r \notin flat
      PROVE  (Stream[r][2] = "comments" /\ (WillBePassed(r) \/ OutOfReach(r)))'
  <2>1. Persist(w)
    BY <1>6 DEF Step, Start, SkipComplete, Resume, LoopHead, FetchPage, FetchFails,
                Checkpoint, Close, RecomputeDepths, DepthsUnread, files
  <2>2. /\ pc'[w] = "checkpoint" /\ pc[w] = "persist" /\ kind[w] = "comments"
        /\ r \in page[w].items
    BY <1>6, <2>1 DEF Persist
  <2>3. Stream[r] = <<Subreddit[w], "comments">>
    BY <2>2 DEF DepthsInv, StreamOf
  <2> QED
    BY <2>2, <2>3 DEF WillBePassed
<1>7. ASSUME NEW r \in flat', r \in flat
      PROVE  (Stream[r][2] = "comments" /\ (WillBePassed(r) \/ OutOfReach(r)))'
  <2>1. Stream[r][2] = "comments" /\ (WillBePassed(r) \/ OutOfReach(r)) /\ r \in stored
    BY <1>7 DEF DepthsInv
  <2>2. Stream[r] = <<Stream[r][1], "comments">>
    <3>1. Stream[r] \in Streams
      BY <1>7, DataAssumption
    <3> QED
      BY <2>1, <3>1 DEF Streams
  <2>3. CASE RecomputeDepths(w) /\ Stream[r][1] = Subreddit[w]
    <3>1. r \in CommentsFile(Subreddit[w])
      BY <2>1, <2>2, <2>3 DEF CommentsFile
    <3>2. r \in Rootless(CommentsFile(Subreddit[w]))
      BY <1>7, <2>3, <3>1 DEF RecomputeDepths, Rooted
    <3>3. stored' = stored
      BY <2>3 DEF RecomputeDepths
    <3> QED
      BY <2>1, <2>3, <3>2, <3>3 DEF OutOfReach, CommentsFile
  <2>4. CASE DepthsUnread(w) /\ Stream[r][1] = Subreddit[w]
    BY <2>1, <2>4 DEF DepthsUnread, OutOfReach
  <2>5. CASE /\ ~(RecomputeDepths(w) /\ Stream[r][1] = Subreddit[w])
             /\ ~(DepthsUnread(w) /\ Stream[r][1] = Subreddit[w])
    <3>1. CASE OutOfReach(r)
      <4>1. CommentsFile(Stream[r][1]) \subseteq CommentsFile(Stream[r][1])'
        BY StepFrame DEF CommentsFile
      <4>2. Rootless(CommentsFile(Stream[r][1])) \subseteq Rootless(CommentsFile(Stream[r][1])')
        BY <4>1, RootlessGrows
      <4>3. Rootless(CommentsFile(Stream[r][1]))' = Rootless(CommentsFile(Stream[r][1])')
        BY DEF Rootless
      <4>4. Stream[r][1] \in unread => Stream[r][1] \in unread'
        <5>1. CASE RecomputeDepths(w) \/ DepthsUnread(w)
          BY <2>5, <5>1 DEF RecomputeDepths, DepthsUnread
        <5>2. CASE ~(RecomputeDepths(w) \/ DepthsUnread(w))
          <6>1. unread' = unread
            BY <5>2 DEF Step, Start, SkipComplete, Resume, LoopHead, FetchPage, FetchFails,
                        Persist, Checkpoint, Close, files
          <6> QED
            BY <6>1
        <5> QED
          BY <5>1, <5>2
      <4> QED
        BY <2>1, <3>1, <4>2, <4>3, <4>4 DEF OutOfReach
    <3>2. CASE shutdown \/ "comments" \notin FetchKinds
      BY <1>2, <2>1, <3>2 DEF WillBePassed
    <3>3. CASE WillBePassed(r) /\ ~(shutdown \/ "comments" \notin FetchKinds)
      <4>1. PICK v \in Workers : Subreddit[v] = Stream[r][1] /\ pc[v] # "done"
        BY <3>3 DEF WillBePassed
      <4>2. pc'[v] # "done"
        BY <1>1, <1>4, <2>5, <3>3, <4>1
      <4> QED
        BY <2>1, <4>1, <4>2 DEF WillBePassed
    <3> QED
      BY <2>1, <3>1, <3>2, <3>3
  <2> QED
    BY <2>3, <2>4, <2>5
<1>8. ASSUME NEW v \in Workers
      PROVE  (pc[v] = "persist" => \A r \in page[v].items : Stream[r] = StreamOf(v))'
  <2>1. CASE v = w
    BY <1>3, <2>1
  <2>2. CASE v # w
    BY <1>1, <2>2 DEF DepthsInv
  <2> QED
    BY <2>1, <2>2
<1> QED
  BY <1>5, <1>6, <1>7, <1>8 DEF DepthsInv

(* When a run has ended without a shutdown, the comments that are left     *)
(* with a null depth are those recompute_comment_depths cannot reach from  *)
(* the roots of the file, or could not read, whoever wrote them and in     *)
(* whichever run.                                                          *)
THEOREM DepthsAreMaterialized == Spec => []DepthsMaterialized
<1>1. Init => DepthsInv
  BY DEF Init, DepthsInv
<1>2. TypeOK /\ DepthsInv /\ [Next]_vars => DepthsInv'
  <2> SUFFICES ASSUME TypeOK, DepthsInv, [Next]_vars
               PROVE  DepthsInv'
    OBVIOUS
  <2>1. CASE \E w \in Workers : Step(w)
    BY <2>1, DepthsStep
  <2>2. CASE RequestShutdown
    <3>1. /\ shutdown' /\ flat' = flat /\ stored' = stored
          /\ \A w \in Workers : pc'[w] = pc[w] /\ page'[w] = page[w]
                                /\ StreamOf(w)' = StreamOf(w)
      BY <2>2 DEF RequestShutdown, StreamOf, files
    <3> QED
      BY <3>1 DEF DepthsInv, WillBePassed
  <2>3. CASE NextRun
    <3>1. /\ flat' = flat /\ stored' = stored
          /\ \A w \in Workers : pc'[w] = "queued"
      BY <2>3 DEF NextRun, FreshProcess, files
    <3>2. \A r \in flat : Stream[r] \in Streams
      BY DataAssumption DEF TypeOK
    <3>3. \A r \in flat : \E w \in Workers : Subreddit[w] = Stream[r][1]
      BY <3>2 DEF Streams, Subreddits
    <3> QED
      BY <3>1, <3>3 DEF DepthsInv, WillBePassed
  <2>4. CASE Finished \/ UNCHANGED vars
    <3>1. /\ UNCHANGED <<shutdown, pc, kind, page, flat, stored, unread>>
          /\ \A w \in Workers : StreamOf(w)' = StreamOf(w)
      BY <2>4 DEF Finished, vars, process, files, StreamOf
    <3>2. \A r \in flat : OutOfReach(r)' <=> OutOfReach(r)
      BY <3>1 DEF OutOfReach, CommentsFile
    <3>3. \A r \in flat : WillBePassed(r)' <=> WillBePassed(r)
      BY <3>1 DEF WillBePassed
    <3> QED
      BY <3>1, <3>2, <3>3 DEF DepthsInv
  <2> QED
    BY <2>1, <2>2, <2>3, <2>4 DEF Next
<1>3. DepthsInv => DepthsMaterialized
  BY DEF DepthsInv, WillBePassed, DepthsMaterialized, AllDone
<1> QED
  BY <1>1, <1>2, <1>3, TypeCorrect, PTL DEF Spec

-----------------------------------------------------------------------------
(* Ending *)

(* Where a step of a worker takes it there are fewer steps left, whatever  *)
(* it walks next, if an iteration lowers the number of those left.         *)
LEMMA StepsFall ==
    ASSUME NEW k \in Kinds, NEW j \in Kinds, NEW walk \in Nat,
           NEW n \in Nat, NEW m \in Nat
    PROVE  /\ StepsFrom("open", j, m, walk) < StepsFrom("queued", k, n, walk)
           /\ StepsFrom("done", j, m, walk) < StepsFrom("queued", k, n, walk)
           /\ \A from \in {"open", "close"} : walk >= 7 =>
                /\ StepsFrom("open", "comments", m, walk) < StepsFrom(from, "posts", n, walk)
                /\ StepsFrom("done", j, m, walk) < StepsFrom(from, k, n, walk)
                /\ StepsFrom("depths", j, m, walk) < StepsFrom(from, k, n, walk)
           /\ 4 * m + 2 < walk => StepsFrom("head", k, m, walk) < StepsFrom("open", k, n, walk)
           /\ StepsFrom("close", k, m, walk) < StepsFrom("head", k, n, walk)
           /\ StepsFrom("fetch", k, n, walk) < StepsFrom("head", k, n, walk)
           /\ StepsFrom("persist", k, n, walk) < StepsFrom("fetch", k, n, walk)
           /\ n >= 1 => StepsFrom("close", k, m, walk) < StepsFrom("fetch", k, n, walk)
           /\ StepsFrom("checkpoint", k, n, walk) < StepsFrom("persist", k, n, walk)
           /\ n >= 1 => StepsFrom("close", k, m, walk) < StepsFrom("checkpoint", k, n, walk)
           /\ m < n => StepsFrom("head", k, m, walk) < StepsFrom("checkpoint", k, n, walk)
           /\ StepsFrom("done", j, m, walk) < StepsFrom("depths", k, n, walk)
  BY DEF StepsFrom, Kinds

(* The steps left are a number, and at no place more than at the start.    *)
LEMMA StepsBounded ==
    ASSUME NEW place \in PCs, NEW k \in Kinds, NEW walk \in Nat, NEW n \in Nat,
           4 * n + 3 <= walk, place \in {"fetch", "persist", "checkpoint"} => n >= 1
    PROVE  StepsFrom(place, k, n, walk) \in 0 .. 2 * walk + 2
<1>1. CASE place = "queued"
  BY <1>1 DEF StepsFrom
<1>2. CASE place = "open"
  BY <1>2 DEF StepsFrom
<1>3. CASE place = "head"
  BY <1>3 DEF StepsFrom
<1>4. CASE place = "fetch"
  BY <1>4 DEF StepsFrom
<1>5. CASE place = "persist"
  BY <1>5 DEF StepsFrom
<1>6. CASE place = "checkpoint"
  BY <1>6 DEF StepsFrom
<1>7. CASE place = "close"
  BY <1>7 DEF StepsFrom
<1>8. CASE place = "depths"
  BY <1>8 DEF StepsFrom
<1>9. CASE place = "done"
  BY <1>9 DEF StepsFrom
<1> QED
  BY <1>1, <1>2, <1>3, <1>4, <1>5, <1>6, <1>7, <1>8, <1>9 DEF PCs

(* A walk has as many iterations left as there are seconds before the end  *)
(* of its window, and one more before its first page.                      *)
LEMMA IterationsType ==
    ASSUME TypeOK, NEW w \in Workers
    PROVE  /\ Iterations(w) \in Nat /\ Iterations(w) <= Before + 1
           /\ cursor[w] < Before => Iterations(w) >= 1
           /\ StepsOfWalk \in Nat /\ StepsOfWalk = 4 * Before + 7 /\ Before \in Nat
<1>1. Before \in Nat /\ cursor[w] \in Nat
  BY Constants DEF TypeOK
<1> QED
  BY <1>1 DEF Iterations, StepsOfWalk

(* A step of a worker keeps the pages of all walks ahead of their cursors. *)
LEMMA AheadStep ==
    ASSUME TypeOK, AheadInv, NEW w \in Workers, Step(w)
    PROVE  AheadInv'
<1>1. /\ Before' = Before
      /\ \A v \in Workers \ {w} :
           pc'[v] = pc[v] /\ cursor'[v] = cursor[v] /\ page'[v] = page[v]
  BY StepFrame
<1>2. ASSUME NEW v \in Workers \ {w}
      PROVE  WalkAhead(v)'
  BY <1>1 DEF AheadInv, WalkAhead
<1>3. WalkAhead(w)'
  <2> USE DEF TypeOK, GoTo, AheadInv, WalkAhead
  <2>0. Before \in Nat /\ cursor[w] \in Nat
    BY Constants
  <2>1. CASE Start(w) \/ SkipComplete(w) \/ Close(w)
    BY <2>1 DEF Start, SkipComplete, Close, LeaveWalk, BeginComments
  <2>2. CASE Resume(w) \/ FetchFails(w) \/ RecomputeDepths(w) \/ DepthsUnread(w)
    BY <2>2 DEF Resume, FetchFails, RecomputeDepths, DepthsUnread
  <2>3. CASE LoopHead(w)
    BY <1>1, <2>0, <2>3 DEF LoopHead
  <2>4. CASE FetchPage(w)
    <3> DEFINE M(b, unseen) == Matching(b, StreamOf(w), cursor[w], Before) \ unseen
    <3>1. PICK b \in Backends, unseen \in SUBSET Late :
            \E size \in PageSizes[b], P \in SUBSET M(b, unseen),
               t \in {Created[r] : r \in M(b, unseen)} \cup {None} :
              Answer(w, b, M(b, unseen), size, P, t)
      BY <2>4 DEF FetchPage
    <3>2. PICK size \in PageSizes[b], P \in SUBSET M(b, unseen),
               t \in {Created[r] : r \in M(b, unseen)} \cup {None} :
              Answer(w, b, M(b, unseen), size, P, t)
      BY <3>1
    <3>3. t = None \/ cursor[w] <= t
      BY DEF Matching
    <3>4. page'[w].next = t
      BY <3>2 DEF Answer
    <3> QED
      BY <1>1, <2>4, <3>3, <3>4 DEF FetchPage
  <2>5. CASE Persist(w)
    BY <1>1, <2>5 DEF Persist
  <2>6. CASE Checkpoint(w)
    BY <2>6 DEF Checkpoint
  <2> QED
    BY <2>1, <2>2, <2>3, <2>4, <2>5, <2>6 DEF Step
<1> QED
  BY <1>2, <1>3 DEF AheadInv

(* Each iteration but the first moves the cursor on, and none moves it     *)
(* back: the guard of the cursor, for pages that are ahead of it.          *)
LEMMA CheckpointIterates ==
    ASSUME TypeOK, AheadInv, NEW w \in Workers, Checkpoint(w)
    PROVE  /\ Iterations(w)' \in Nat
           /\ \/ pc'[w] = "close"
              \/ pc'[w] = "head" /\ Iterations(w)' < Iterations(w)
<1> USE DEF TypeOK, GoTo
<1>1. /\ Before' = Before /\ Before \in Nat /\ cursor[w] \in Nat /\ pages[w] \in Nat
      /\ cursor'[w] \in Nat /\ pages'[w] \in Nat /\ page[w].next \in Nat \cup {None}
  <2>1. Step(w)
    BY DEF Step
  <2>2. Before' = Before /\ TypeOK'
    BY <2>1, StepFrame, StepType
  <2> QED
    BY <2>2, Constants DEF PageType
<1>2. pages'[w] # 0
  <2>1. PagesCounted \in Nat /\ PagesCounted # 0
    BY Constants DEF PagesCounted, NoCap
  <2>2. pages'[w] = Earlier(pages[w] + 1, PagesCounted)
    BY DEF Checkpoint
  <2> QED
    BY <1>1, <2>1, <2>2 DEF Earlier
<1>3. Iterations(w)' = IF cursor'[w] < Before THEN Before - cursor'[w] ELSE 0
  BY <1>1, <1>2 DEF Iterations
<1>4. cursor[w] < Before /\ (page[w].next = None \/ cursor[w] <= page[w].next)
  BY DEF AheadInv, WalkAhead, Checkpoint
<1>5. CASE page[w].exhausted \/ page[w].next = None
  <2>1. pc'[w] = "close"
    BY <1>5 DEF Checkpoint
  <2> QED
    BY <1>1, <2>1 DEF Iterations
<1>6. CASE ~(page[w].exhausted \/ page[w].next = None)
  <2>1. cursor'[w] = NextCursor(w) /\ pc'[w] \in {"close", "head"}
    BY <1>6 DEF Checkpoint
  <2>2. /\ cursor[w] <= cursor'[w]
        /\ pages[w] # 0 => cursor[w] < cursor'[w]
    BY <1>1, <1>4, <1>6, <2>1 DEF NextCursor
  <2>3. Iterations(w)' < Iterations(w)
    BY <1>1, <1>3, <1>4, <2>2 DEF Iterations
  <2> QED
    BY <1>1, <1>3, <2>1, <2>3
<1> QED
  BY <1>5, <1>6

(* A worker that takes a step has fewer left. *)
LEMMA OwnStepsFall ==
    ASSUME TypeOK, AheadInv, NEW w \in Workers, Step(w)
    PROVE  StepsLeft(w)' < StepsLeft(w)
<1> DEFINE walk == StepsOfWalk
           n == Iterations(w)
           m == Iterations(w)'
           F(place, k, i) == StepsFrom(place, k, i, walk)
<1>1. /\ n \in Nat /\ n <= Before + 1 /\ (cursor[w] < Before => n >= 1)
      /\ walk \in Nat /\ walk = 4 * Before + 7 /\ Before \in Nat
  BY IterationsType
<1>2. Before' = Before /\ walk' = walk
  BY StepFrame DEF StepsOfWalk
<1>3. kind[w] \in Kinds /\ cursor'[w] \in Nat /\ pages'[w] \in Nat /\ kind'[w] \in Kinds
  BY StepType DEF TypeOK
<1>4. StepsLeft(w) = F(pc[w], kind[w], n) /\ StepsLeft(w)' = F(pc'[w], kind'[w], m)
  BY <1>2 DEF StepsLeft
<1>5. cursor[w] < Before \/ pc[w] \notin {"fetch", "persist", "checkpoint"}
  BY DEF AheadInv, WalkAhead
<1>6. cursor' = cursor /\ pages' = pages => m = n
  BY <1>2 DEF Iterations
<1>7. m \in Nat
  BY <1>2, <1>1, <1>3 DEF Iterations
<1> HIDE DEF walk, n, m, F
<1> USE DEF GoTo, TypeOK
<1>8. CASE Start(w)
  <2>1. /\ pc[w] = "queued"
        /\ \/ pc'[w] = "open" /\ kind'[w] \in Kinds
           \/ pc'[w] = "done" /\ kind'[w] \in Kinds
    BY <1>3, <1>8 DEF Start, BeginComments
  <2> QED
    BY <1>1, <1>3, <1>4, <1>7, <2>1, StepsFall DEF F, Kinds
<1>9. ASSUME pc[w] \in {"open", "close"}, LeaveWalk(w)
      PROVE  F(pc'[w], kind'[w], m) < F(pc[w], kind[w], n)
  <2>1. \/ kind[w] = "posts" /\ pc'[w] = "open" /\ kind'[w] = "comments"
        \/ kind[w] = "posts" /\ pc'[w] = "done" /\ kind'[w] = "posts"
        \/ kind[w] = "comments" /\ pc'[w] = "depths" /\ kind'[w] = "comments"
    BY <1>3, <1>9 DEF LeaveWalk, BeginComments, Kinds
  <2> QED
    BY <1>1, <1>3, <1>7, <1>9, <2>1, StepsFall DEF F, Kinds
<1>10. CASE SkipComplete(w) \/ Close(w)
  BY <1>4, <1>9, <1>10 DEF SkipComplete, Close
<1>11. CASE Resume(w)
  <2>1. pc[w] = "open" /\ pc'[w] = "head" /\ kind'[w] = kind[w]
    BY <1>11 DEF Resume
  <2>2. m <= Before + 1
    BY <1>1, <1>2, <1>3 DEF m, Iterations
  <2> QED
    BY <1>1, <1>3, <1>4, <1>7, <2>1, <2>2, StepsFall DEF F
<1>12. CASE LoopHead(w)
  <2>1. /\ pc[w] = "head" /\ pc'[w] \in {"close", "fetch"} /\ kind'[w] = kind[w] /\ m = n
    BY <1>6, <1>12 DEF LoopHead
  <2> QED
    BY <1>1, <1>3, <1>4, <2>1, StepsFall DEF F
<1>13. CASE FetchPage(w) \/ FetchFails(w)
  <2>1. /\ pc[w] = "fetch" /\ pc'[w] \in {"persist", "close"} /\ kind'[w] = kind[w] /\ m = n
    BY <1>6, <1>13 DEF FetchPage, FetchFails
  <2> QED
    BY <1>1, <1>3, <1>4, <1>5, <2>1, StepsFall DEF F
<1>14. CASE Persist(w)
  <2>1. pc[w] = "persist" /\ pc'[w] = "checkpoint" /\ kind'[w] = kind[w] /\ m = n
    BY <1>6, <1>14 DEF Persist
  <2> QED
    BY <1>1, <1>3, <1>4, <2>1, StepsFall DEF F
<1>15. CASE Checkpoint(w)
  <2>1. pc[w] = "checkpoint" /\ kind'[w] = kind[w]
    BY <1>15 DEF Checkpoint
  <2>2. \/ pc'[w] = "close"
        \/ pc'[w] = "head" /\ m < n
    BY <1>15, CheckpointIterates DEF m, n
  <2>3. n >= 1
    BY <1>1, <1>5, <2>1
  <2>4. CASE pc'[w] = "close"
    BY <1>1, <1>3, <1>4, <1>7, <2>1, <2>3, <2>4, StepsFall DEF F
  <2>5. CASE pc'[w] = "head" /\ m < n
    BY <1>1, <1>3, <1>4, <1>7, <2>1, <2>5, StepsFall DEF F
  <2> QED
    BY <2>2, <2>4, <2>5
<1>16. CASE RecomputeDepths(w) \/ DepthsUnread(w)
  <2>1. pc[w] = "depths" /\ pc'[w] = "done" /\ kind'[w] = kind[w]
    BY <1>16 DEF RecomputeDepths, DepthsUnread
  <2>2. F("done", kind[w], m) < F("depths", kind[w], n)
    BY <1>1, <1>3, <1>7, StepsFall DEF F
  <2> QED
    BY <1>4, <2>1, <2>2
<1> QED
  BY <1>8, <1>10, <1>11, <1>12, <1>13, <1>14, <1>15, <1>16 DEF Step

(* A run cannot go on for ever: whatever the backends answer, in whatever  *)
(* order the workers are scheduled, each step of a worker leaves it fewer  *)
(* steps, and no other step of the run gives it more.  A run of n workers  *)
(* takes at most n (8 before + 16) steps, the cursor's guard being what    *)
(* bounds those of _walk.                                                  *)
THEOREM StepsAreBounded == Spec => StepsRunOut
<1>1. Init => AheadInv
  BY DEF Init, AheadInv, WalkAhead
<1>2. TypeOK /\ AheadInv /\ [Next]_vars => AheadInv'
  <2> SUFFICES ASSUME TypeOK, AheadInv, [Next]_vars
               PROVE  AheadInv'
    OBVIOUS
  <2>1. CASE \E w \in Workers : Step(w)
    BY <2>1, AheadStep
  <2>2. CASE NextRun
    BY <2>2 DEF NextRun, FreshProcess, AheadInv, WalkAhead
  <2>3. CASE UNCHANGED <<pc, cursor, page, run>>
    BY <2>3 DEF AheadInv, WalkAhead, Before
  <2> QED
    BY <2>1, <2>2, <2>3 DEF Next, RequestShutdown, Finished, vars, process
<1> DEFINE Bounded == \A w \in Workers : StepsLeft(w) \in 0 .. 2 * StepsOfWalk + 2
<1>3. TypeOK /\ AheadInv => Bounded
  <2> SUFFICES ASSUME TypeOK, AheadInv, NEW w \in Workers
               PROVE  StepsLeft(w) \in 0 .. 2 * StepsOfWalk + 2
    OBVIOUS
  <2>1. pc[w] \in PCs /\ kind[w] \in Kinds
    BY DEF TypeOK
  <2>2. cursor[w] < Before \/ pc[w] \notin {"fetch", "persist", "checkpoint"}
    BY DEF AheadInv, WalkAhead
  <2> QED
    BY <2>1, <2>2, IterationsType, StepsBounded DEF StepsLeft
<1>4. ASSUME TypeOK, AheadInv, Bounded, Bounded', [Next]_vars, NEW w \in Workers
      PROVE  /\ StepsLeft(w) \in 0 .. 2 * StepsOfWalk + 2
             /\ Step(w) => StepsLeft(w)' < StepsLeft(w)
             /\ run' = run => StepsLeft(w)' <= StepsLeft(w)
  <2>1. StepsLeft(w) \in 0 .. 2 * StepsOfWalk + 2 /\ StepsLeft(w)' \in Int
    <3>1. StepsLeft(w)' \in (0 .. 2 * StepsOfWalk + 2)'
      BY <1>4
    <3> QED
      BY <1>4, <3>1
  <2>2. Step(w) => StepsLeft(w)' < StepsLeft(w)
    BY <1>4, OwnStepsFall
  <2>3. ASSUME run' = run
        PROVE  StepsLeft(w)' <= StepsLeft(w)
    <3>0. StepsLeft(w) \in Int
      BY <2>1
    <3>1. CASE Step(w)
      BY <2>1, <2>2, <3>0, <3>1
    <3>2. CASE /\ pc'[w] = pc[w] /\ kind'[w] = kind[w]
               /\ cursor'[w] = cursor[w] /\ pages'[w] = pages[w]
      <4>1. StepsLeft(w)' = StepsLeft(w)
        BY <2>3, <3>2 DEF StepsLeft, Iterations, StepsOfWalk, Before
      <4> QED
        BY <3>0, <4>1
    <3>3. CASE \E v \in Workers \ {w} : Step(v)
      BY <1>4, <3>2, <3>3, StepFrame
    <3>4. CASE UNCHANGED <<pc, kind, cursor, pages>>
      BY <3>2, <3>4
    <3>5. ~NextRun
      BY <1>4, <2>3 DEF NextRun, TypeOK
    <3> QED
      BY <1>4, <3>1, <3>3, <3>4, <3>5 DEF Next, RequestShutdown, Finished, vars, process
  <2> QED
    BY <2>1, <2>2, <2>3
<1>5. TypeOK /\ AheadInv /\ Bounded /\ Bounded' /\ [Next]_vars =>
        [\A w \in Workers :
         /\ StepsLeft(w) \in 0 .. 2 * StepsOfWalk + 2
         /\ Step(w) => StepsLeft(w)' < StepsLeft(w)
         /\ run' = run => StepsLeft(w)' <= StepsLeft(w)]_vars
  BY <1>4
<1> HIDE DEF Bounded
<1> QED
  BY <1>1, <1>2, <1>3, <1>5, TypeCorrect, PTL DEF Spec, StepsRunOut
=============================================================================
