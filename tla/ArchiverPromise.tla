-------------------------- MODULE ArchiverPromise ---------------------------
(***************************************************************************)
(* The archiving run implements Archive: each of its steps adds records,   *)
(* or makes a true claim that is no smaller than the one before, or leaves *)
(* both alone.  This is for a list that names a subreddit once: two walks  *)
(* of one stream may set its checkpoint back.                              *)
(***************************************************************************)
EXTENDS ArchiverProofs

(* A step of one worker does not disturb another one's checkpoint. *)
LEMMA OthersMoveOn ==
    ASSUME TypeOK, MovesInv, SoleWalks, NEW w \in Workers, Step(w),
           NEW v \in Workers \ {w}
    PROVE  WalkMovesOn(v)'
<1>1. /\ pc'[v] = pc[v] /\ cursor'[v] = cursor[v] /\ completed'[v] = completed[v]
      /\ kind'[v] = kind[v] /\ Before' = Before
  BY StepFrame
<1>2. StreamOf(v)' = StreamOf(v)
  BY <1>1 DEF StreamOf
<1>3. StreamOf(v) # StreamOf(w) /\ StreamOf(v) \in Streams
  BY Constants DEF StreamOf, SoleWalks
<1>4. rows'[StreamOf(v)] = rows[StreamOf(v)]
  BY <1>3, StepFrame
<1> QED
  BY <1>1, <1>2, <1>4 DEF MovesInv, WalkMovesOn

(* Nor does its own step, when it writes no checkpoint. *)
LEMMA OwnMoveOn ==
    ASSUME TypeOK, MovesInv, NEW w \in Workers, Step(w),
           pc[w] \notin {"checkpoint", "close"}
    PROVE  WalkMovesOn(w)'
<1> USE DEF TypeOK, GoTo
<1>1. rows' = rows /\ Before' = Before
  BY StepFrame
<1>2. WalkMovesOn(w) /\ Before \in Nat /\ After \in Nat /\ StreamOf(w) \in Streams
  BY Constants DEF MovesInv
<1>3. CASE Start(w) \/ SkipComplete(w) \/ RecomputeDepths(w) \/ DepthsUnread(w)
  BY <1>3 DEF Start, SkipComplete, RecomputeDepths, DepthsUnread, LeaveWalk, BeginComments, WalkMovesOn
<1>4. CASE Resume(w)
  <2>1. /\ pc'[w] = "head" /\ kind'[w] = kind[w]
        /\ cursor'[w] = ResumePoint(w)
        /\ rows[StreamOf(w)].status # "complete"
    BY <1>4 DEF Resume
  <2>2. rows[StreamOf(w)].cursor \in Nat
    BY <1>2 DEF RowType
  <2>3. rows[StreamOf(w)].cursor <= cursor'[w]
    BY <1>2, <2>1, <2>2 DEF ResumePoint
  <2>4. StreamOf(w)' = StreamOf(w)
    BY <2>1 DEF StreamOf
  <2> QED
    BY <1>1, <2>1, <2>3, <2>4 DEF WalkMovesOn
<1>5. CASE LoopHead(w)
  <2>1. /\ pc[w] = "head" /\ pc'[w] \in {"close", "fetch"}
        /\ kind'[w] = kind[w] /\ cursor' = cursor
        /\ pc'[w] = "fetch" => ~(cursor[w] >= Before)
    BY <1>5 DEF LoopHead
  <2>2. StreamOf(w)' = StreamOf(w)
    BY <2>1 DEF StreamOf
  <2> QED
    BY <1>1, <1>2, <2>1, <2>2 DEF WalkMovesOn
<1>6. CASE FetchPage(w) \/ FetchFails(w) \/ Persist(w)
  <2>1. /\ pc[w] \in {"fetch", "persist"}
        /\ pc'[w] \in {"persist", "checkpoint", "close"}
        /\ kind'[w] = kind[w] /\ cursor' = cursor /\ completed' = completed
    BY <1>6 DEF FetchPage, FetchFails, Persist
  <2>2. StreamOf(w)' = StreamOf(w)
    BY <2>1 DEF StreamOf
  <2> QED
    BY <1>1, <1>2, <2>1, <2>2 DEF WalkMovesOn
<1>7. CASE Checkpoint(w) \/ Close(w)
  BY <1>7 DEF Checkpoint, Close
<1> QED
  BY <1>3, <1>4, <1>5, <1>6, <1>7 DEF Step

(* Saving a checkpoint moves it on, and the walk stays at or past it. *)
LEMMA CheckpointMoves ==
    ASSUME TypeOK, CoverageInv, MovesInv, NEW w \in Workers, Checkpoint(w)
    PROVE  /\ rows[StreamOf(w)].status # "complete"
           /\ rows' = [rows EXCEPT ![StreamOf(w)] = Row(SavedCursor(w), "in_progress")]
           /\ rows[StreamOf(w)].cursor <= SavedCursor(w)
           /\ SavedCursor(w) <= Before
           /\ WalkMovesOn(w)'
<1> USE DEF TypeOK, GoTo
<1>1. /\ pc[w] = "checkpoint" /\ pc'[w] \in {"close", "head"} /\ kind'[w] = kind[w]
      /\ rows' = [rows EXCEPT ![StreamOf(w)] = Row(SavedCursor(w), "in_progress")]
  BY DEF Checkpoint
<1>2. /\ rows[StreamOf(w)].status # "complete"
      /\ rows[StreamOf(w)].cursor <= cursor[w]
      /\ cursor[w] < Before
  BY <1>1 DEF MovesInv, WalkMovesOn
<1>3. /\ StreamOf(w) \in Streams /\ Before \in Nat /\ cursor[w] \in Nat
      /\ page[w].next \in Nat \cup {None} /\ rows[StreamOf(w)].cursor \in Nat
  <2>1. page[w] \in PageType
    OBVIOUS
  <2> QED
    BY <2>1, Constants DEF PageType, RowType
<1>4. page[w].next # None => cursor[w] <= page[w].next /\ page[w].next < Before
  BY <1>1 DEF CoverageInv, WalkInv, PageInHand
<1>5. rows[StreamOf(w)].cursor <= SavedCursor(w) /\ SavedCursor(w) <= Before
  BY <1>2, <1>3, <1>4 DEF SavedCursor
<1>6. /\ StreamOf(w)' = StreamOf(w)
      /\ rows'[StreamOf(w)].cursor = SavedCursor(w)
      /\ rows'[StreamOf(w)].status # "complete"
  BY <1>1, <1>3 DEF StreamOf, Row
<1>7. WalkMovesOn(w)'
  <2>1. CASE page[w].exhausted \/ page[w].next = None
    <3>1. pc'[w] = "close" /\ completed'[w]
      BY <2>1 DEF Checkpoint
    <3> QED
      BY <3>1, <1>6 DEF WalkMovesOn
  <2>2. CASE ~(page[w].exhausted \/ page[w].next = None)
    <3>1. cursor'[w] = NextCursor(w)
      BY <2>2 DEF Checkpoint
    <3>2. SavedCursor(w) <= cursor'[w]
      BY <1>3, <1>4, <2>2, <3>1 DEF SavedCursor, NextCursor
    <3> QED
      BY <1>1, <1>6, <3>2 DEF WalkMovesOn
  <2> QED
    BY <2>1, <2>2
<1> QED
  BY <1>1, <1>2, <1>5, <1>7

(* So does closing a walk, unless it closes it as complete. *)
LEMMA CloseMoves ==
    ASSUME TypeOK, MovesInv, NEW w \in Workers, Close(w)
    PROVE  /\ rows[StreamOf(w)].status # "complete"
           /\ rows' = [rows EXCEPT ![StreamOf(w)] =
                         Row(Earlier(cursor[w], Before), FinalStatus(w))]
           /\ FinalStatus(w) = "complete"
                \/ rows[StreamOf(w)].cursor <= Earlier(cursor[w], Before)
           /\ Earlier(cursor[w], Before) <= Before
           /\ rows[StreamOf(w)].cursor <= Before
           /\ WalkMovesOn(w)'
<1> USE DEF TypeOK, GoTo
<1>1. /\ pc[w] = "close" /\ pc'[w] \in {"open", "depths", "done"}
      /\ rows' = [rows EXCEPT ![StreamOf(w)] =
                    Row(Earlier(cursor[w], Before), FinalStatus(w))]
  BY DEF Close, LeaveWalk, BeginComments
<1>2. /\ rows[StreamOf(w)].status # "complete"
      /\ completed[w] \/ rows[StreamOf(w)].cursor <= cursor[w]
  BY <1>1 DEF MovesInv, WalkMovesOn
<1>3. /\ StreamOf(w) \in Streams /\ Before \in Nat /\ cursor[w] \in Nat
      /\ rows[StreamOf(w)].cursor \in Nat
  BY Constants DEF RowType
<1>4. rows[StreamOf(w)].cursor <= Before
  BY <1>2, <1>3 DEF MovesInv
<1>5. WalkMovesOn(w)'
  BY <1>1 DEF WalkMovesOn
<1> QED
  BY <1>1, <1>2, <1>3, <1>4, <1>5 DEF Earlier, FinalStatus

(* Every step keeps the invariant. *)
LEMMA MovesStep ==
    ASSUME TypeOK, CoverageInv, MovesInv, SoleWalks, ForwardEnds, [Next]_vars
    PROVE  MovesInv'
<1> USE DEF TypeOK
<1>1. ASSUME NEW w \in Workers, Step(w)
      PROVE  MovesInv'
  <2>1. Before' = Before
    BY <1>1, StepFrame
  <2>2. WalkMovesOn(w)'
    <3>1. CASE pc[w] \notin {"checkpoint", "close"}
      BY <1>1, <3>1, OwnMoveOn
    <3>2. CASE pc[w] \in {"checkpoint", "close"}
      <4>1. Checkpoint(w) \/ Close(w)
        BY <1>1, <3>2 DEF Step, Start, SkipComplete, Resume, LoopHead, FetchPage,
                          FetchFails, Persist, RecomputeDepths, DepthsUnread
      <4> QED
        BY <4>1, CheckpointMoves, CloseMoves
    <3> QED
      BY <3>1, <3>2
  <2>3. \A v \in Workers : WalkMovesOn(v)'
    BY <1>1, <2>2, OthersMoveOn
  <2>4. ASSUME NEW s \in Streams, rows'[s].status # "complete"
        PROVE  rows'[s].cursor <= Before
    <3>1. CASE rows'[s] = rows[s]
      BY <2>4, <3>1 DEF MovesInv
    <3>2. CASE rows'[s] # rows[s]
      <4>1. s = StreamOf(w) /\ (Checkpoint(w) \/ Close(w))
        <5>1. s = StreamOf(w) /\ pc[w] \in {"checkpoint", "close"}
          BY <1>1, <3>2, StepFrame
        <5> QED
          BY <1>1, <5>1 DEF Step, Start, SkipComplete, Resume, LoopHead, FetchPage,
                            FetchFails, Persist, RecomputeDepths, DepthsUnread
      <4>2. CASE Checkpoint(w)
        BY <4>1, <4>2, CheckpointMoves DEF Row
      <4>3. CASE Close(w)
        BY <4>1, <4>3, CloseMoves DEF Row
      <4> QED
        BY <4>1, <4>2, <4>3
    <3> QED
      BY <3>1, <3>2
  <2> QED
    BY <2>1, <2>3, <2>4 DEF MovesInv
<1>2. CASE NextRun
  <2>1. \A w \in Workers : WalkMovesOn(w)'
    BY <1>2 DEF NextRun, FreshProcess, WalkMovesOn
  <2>2. Before <= Before' /\ Before \in Nat /\ Before' \in Nat
    <3>1. run \in 1 .. Len(Runs) /\ run' \in 1 .. Len(Runs) /\ run <= run'
      BY <1>2, FreshValues DEF NextRun
    <3>2. Runs[run] \in RunType /\ Runs[run'] \in RunType
      BY <3>1, RunsAssumption
    <3> QED
      BY <3>1, <3>2 DEF ForwardEnds, Before, RunType
  <2>3. rows' = rows
    BY <1>2 DEF NextRun, files
  <2>4. \A s \in Streams : rows[s].cursor \in Nat
    BY DEF RowType
  <2> QED
    BY <2>1, <2>2, <2>3, <2>4 DEF MovesInv
<1>3. CASE RequestShutdown \/ Finished \/ UNCHANGED vars
  <2>1. UNCHANGED <<pc, kind, cursor, completed, rows, run>>
    BY <1>3 DEF RequestShutdown, Finished, vars, process, files
  <2> QED
    BY <2>1 DEF MovesInv, WalkMovesOn, StreamOf, Before
<1> QED
  BY <1>1, <1>2, <1>3 DEF Next

(* Walks never work on a complete checkpoint, nor behind an unfinished one. *)
THEOREM MovesInvariant ==
    ASSUME ForwardWindows, ForwardEnds, SoleWalks
    PROVE  Spec => []MovesInv
<1>1. Init => MovesInv
  <2> SUFFICES ASSUME Init PROVE MovesInv
    OBVIOUS
  <2>1. Runs[1] \in RunType
    BY FreshValues, RunsAssumption
  <2>2. Before \in Nat
    BY <2>1 DEF Init, Before, RunType
  <2> QED
    BY <2>2 DEF Init, MovesInv, WalkMovesOn, NoRow
<1>2. TypeOK /\ CoverageInv /\ MovesInv /\ [Next]_vars => MovesInv'
  BY MovesStep
<1> QED
  BY <1>1, <1>2, TypeCorrect, CoverageInvariant, PTL DEF Spec

(***************************************************************************)
(* What any step does to the checkpoints: nothing, or a worker rewrites an *)
(* unfinished row of its stream with a cursor that is no smaller, or marks *)
(* it complete, for the current window.                                    *)
(***************************************************************************)
LEMMA RowsStep ==
    ASSUME TypeOK, CoverageInv, MovesInv, SoleWalks, Next
    PROVE  \/ rows' = rows
           \/ \E s \in Streams, at \in Nat, st \in {"in_progress", "complete"} :
                /\ rows[s].status # "complete"
                /\ rows' = [rows EXCEPT ![s] = Row(at, st)]
                /\ st = "complete" \/ rows[s].cursor <= at
                /\ rows[s].cursor <= Before
                /\ stored' = stored
<1>1. CASE \E w \in Workers : Step(w)
  <2> SUFFICES ASSUME NEW w \in Workers, Step(w), rows' # rows
               PROVE  \E s \in Streams, at \in Nat, st \in {"in_progress", "complete"} :
                        /\ rows[s].status # "complete"
                        /\ rows' = [rows EXCEPT ![s] = Row(at, st)]
                        /\ st = "complete" \/ rows[s].cursor <= at
                        /\ rows[s].cursor <= Before
                        /\ stored' = stored
    BY <1>1
  <2>1. Checkpoint(w) \/ Close(w)
    <3>1. pc[w] \in {"checkpoint", "close"}
      BY StepFrame
    <3> QED
      BY <3>1 DEF Step, Start, SkipComplete, Resume, LoopHead, FetchPage, FetchFails,
                  Persist, RecomputeDepths, DepthsUnread
  <2>2. StreamOf(w) \in Streams /\ Before \in Nat /\ cursor[w] \in Nat
    BY Constants DEF TypeOK
  <2>3. CASE Checkpoint(w)
    <3>1. SavedCursor(w) \in Nat
      <4>1. page[w] \in PageType
        BY DEF TypeOK
      <4> QED
        BY <2>2, <4>1 DEF SavedCursor, PageType
    <3>2. rows[StreamOf(w)].cursor <= Before
      BY <2>2, <2>3, CheckpointMoves DEF MovesInv
    <3>3. stored' = stored
      BY <2>3 DEF Checkpoint
    <3> QED
      BY <2>2, <2>3, <3>1, <3>2, <3>3, CheckpointMoves
  <2>4. CASE Close(w)
    <3>1. Earlier(cursor[w], Before) \in Nat
      BY <2>2 DEF Earlier
    <3>2. FinalStatus(w) \in {"in_progress", "complete"}
      BY DEF FinalStatus
    <3>3. stored' = stored
      BY <2>4 DEF Close
    <3> QED
      BY <2>2, <2>4, <3>1, <3>2, <3>3, CloseMoves
  <2> QED
    BY <2>1, <2>3, <2>4
<1>2. CASE RequestShutdown \/ NextRun \/ Finished
  BY <1>2 DEF RequestShutdown, NextRun, Finished, vars, files
<1> QED
  BY <1>1, <1>2 DEF Next

(* A complete checkpoint is final and an unfinished one never goes back. *)
THEOREM CheckpointsMoveOn ==
    ASSUME ForwardWindows, ForwardEnds, SoleWalks
    PROVE  Spec => CheckpointMovesOn
<1> DEFINE Forward(s) == /\ rows[s].status = "complete" => rows'[s] = rows[s]
                         /\ rows'[s].status # "complete" => rows[s].cursor <= rows'[s].cursor
<1>1. TypeOK /\ CoverageInv /\ MovesInv /\ [Next]_vars
        => [\A s \in Streams : Forward(s)]_vars
  <2> SUFFICES ASSUME TypeOK, CoverageInv, MovesInv, Next
               PROVE  \A s \in Streams : Forward(s)
    OBVIOUS
  <2>1. \A s \in Streams : rows[s].cursor \in Nat
    BY DEF TypeOK, RowType
  <2>2. CASE rows' = rows
    BY <2>1, <2>2
  <2>3. CASE rows' # rows
    <3>1. PICK s \in Streams, at \in Nat, st \in {"in_progress", "complete"} :
            /\ rows[s].status # "complete"
            /\ rows' = [rows EXCEPT ![s] = Row(at, st)]
            /\ st = "complete" \/ rows[s].cursor <= at
      BY <2>3, RowsStep
    <3>2. rows'[s].cursor = at /\ rows'[s].status = st
      BY <3>1 DEF TypeOK, Row
    <3>3. \A q \in Streams : q # s => rows'[q] = rows[q]
      BY <3>1 DEF TypeOK
    <3> QED
      BY <2>1, <3>1, <3>2, <3>3
  <2> QED
    BY <2>2, <2>3
<1> QED
  BY <1>1, TypeCorrect, CoverageInvariant, MovesInvariant, PTL DEF Spec, CheckpointMovesOn

(* The run implements the promise of an archive. *)
THEOREM PromiseKept ==
    ASSUME ForwardWindows, ForwardEnds, SoleWalks
    PROVE  Spec => KeepsPromise
<1>1. Init => Promise!Init
  BY DEF Init, Promise!Init, Promise!NothingClaimed, Claims, NoRow
<1>2. TypeOK /\ TypeOK' /\ CoverageInv /\ CoverageInv' /\ MovesInv /\ [Next]_vars
        => [Promise!Next]_<<stored, Claims>>
  <2> SUFFICES ASSUME TypeOK, TypeOK', CoverageInv, CoverageInv', MovesInv, [Next]_vars
               PROVE  [Promise!Next]_<<stored, Claims>>
    OBVIOUS
  <2>1. CASE UNCHANGED vars
    BY <2>1 DEF vars, files, Claims
  <2>2. CASE Next /\ rows' = rows
    <3>1. Claims' = Claims
      BY <2>2 DEF Claims
    <3>2. stored \subseteq stored'
      <4>1. CASE \E w \in Workers : Step(w)
        BY <4>1, StepFrame
      <4>2. CASE RequestShutdown \/ NextRun \/ Finished
        BY <4>2 DEF RequestShutdown, NextRun, Finished, vars, files
      <4> QED
        BY <2>2, <4>1, <4>2 DEF Next
    <3>3. Promise!Save
      BY <3>1, <3>2 DEF Promise!Save, TypeOK
    <3> QED
      BY <3>3 DEF Promise!Next
  <2>3. CASE Next /\ rows' # rows
    <3>1. PICK s \in Streams, at \in Nat, st \in {"in_progress", "complete"} :
            /\ rows[s].status # "complete"
            /\ rows' = [rows EXCEPT ![s] = Row(at, st)]
            /\ st = "complete" \/ rows[s].cursor <= at
            /\ rows[s].cursor <= Before
            /\ stored' = stored
      BY <2>3, RowsStep
    <3>2. rows'[s] = Row(at, st) /\ \A q \in Streams \ {s} : rows'[q] = rows[q]
      BY <3>1 DEF TypeOK
    <3>3. /\ Claims'[s].from = After
          /\ Claims'[s].to = IF st = "complete" THEN Before ELSE at
          /\ Claims[s].from = rows[s].start /\ Claims[s].to = rows[s].cursor
      BY <3>1, <3>2 DEF Claims, Row
    <3>4. Claims' = [Claims EXCEPT ![s] = Claims'[s]]
      BY <3>2 DEF Claims
    <3>5. rows[s].start <= After
      BY DEF CoverageInv, RowsInv, RowIsTrue
    <3>6. Claims[s].from <= Claims'[s].from /\ Claims[s].to <= Claims'[s].to
      BY <3>1, <3>3, <3>5
    <3>7. Promise!Holds(s, Claims[s].from, Claims[s].to)'
      <4>1. RowIsTrue(s)'
        BY DEF CoverageInv, RowsInv
      <4> QED
        BY <4>1 DEF RowIsTrue, Archived, Promise!Holds, Claims
    <3>8. Promise!Claim(s)
      BY <3>1, <3>4, <3>6, <3>7 DEF Promise!Claim, Promise!Holds
    <3> QED
      BY <3>8 DEF Promise!Next
  <2> QED
    BY <2>1, <2>2, <2>3
<1> QED
  BY <1>1, <1>2, TypeCorrect, CoverageInvariant, MovesInvariant, PTL
     DEF Spec, KeepsPromise, Promise!Spec

(* What the promise is worth to a reader of progress.json: whatever keeps  *)
(* it claims archived records only, at every moment, since records that    *)
(* were stored when a claim was made are stored still.                     *)
THEOREM PromiseIsTruthful == KeepsPromise => []Promise!Truthful
<1>1. Promise!Init => Promise!Truthful
  <2> SUFFICES ASSUME Promise!Init, NEW s \in Streams
               PROVE  Promise!Holds(s, Claims[s].from, Claims[s].to)
    BY DEF Promise!Truthful
  <2>1. Claims[s].from = 0 /\ Claims[s].to = 0
    BY DEF Promise!Init, Promise!NothingClaimed
  <2>2. \A r \in Common : Created[r] \in Nat
    BY DataAssumption DEF Common
  <2> QED
    BY <2>1, <2>2 DEF Promise!Holds
<1>2. Promise!Truthful /\ [Promise!Next]_<<stored, Claims>> => Promise!Truthful'
  <2> SUFFICES ASSUME Promise!Truthful, [Promise!Next]_<<stored, Claims>>,
                      NEW s \in Streams
               PROVE  Promise!Holds(s, Claims[s].from, Claims[s].to)'
    BY DEF Promise!Truthful
  <2>1. Promise!Holds(s, Claims[s].from, Claims[s].to)
    BY DEF Promise!Truthful
  <2>2. CASE stored \subseteq stored' /\ Claims' = Claims
    BY <2>1, <2>2 DEF Promise!Holds
  <2>3. ASSUME NEW q \in Streams, Promise!Claim(q)
        PROVE  Promise!Holds(s, Claims[s].from, Claims[s].to)'
    <3>1. stored' = stored /\ Claims' = [Claims EXCEPT ![q] = Claims'[q]]
      BY <2>3 DEF Promise!Claim
    <3>2. CASE s = q
      BY <2>3, <3>1, <3>2 DEF Promise!Claim, Promise!Holds
    <3>3. CASE s # q
      <4>1. Claims'[s] = Claims[s]
        BY <3>1, <3>3 DEF Claims
      <4> QED
        BY <2>1, <3>1, <4>1 DEF Promise!Holds
    <3> QED
      BY <3>2, <3>3
  <2> QED
    BY <2>2, <2>3 DEF Promise!Next, Promise!Save
<1> QED
  BY <1>1, <1>2, PTL DEF KeepsPromise, Promise!Spec
=============================================================================
