------------------------------ MODULE Archiver ------------------------------
(***************************************************************************)
(* The archiving run of reddit_archiver (runner.py), with the page         *)
(* contract of its backends (sources/), the record and checkpoint files it *)
(* keeps (store/), and the runs that follow one another over the same      *)
(* output directory.                                                       *)
(*                                                                         *)
(* A run starts one worker per configured subreddit.  A worker walks the   *)
(* posts of its subreddit and then its comments.  A walk pages through the *)
(* window with a moving cursor: fetch a page, store its records, save the  *)
(* cursor in progress.json, advance.  Storing and saving are two separate  *)
(* file writes, and the process may die between any two steps.  Only the   *)
(* files survive.                                                          *)
(***************************************************************************)
EXTENDS Integers, Sequences, FiniteSets

CONSTANTS
    Workers,     \* positions of the configured subreddit list
    Records,     \* every record some backend has
    Backends,    \* backends of the chain that answer searches (not the stubs)
    Subreddit,   \* worker -> the subreddit it archives
    Stream,      \* record -> <<subreddit, kind>>
    Created,     \* record -> created_utc
    Parent,      \* record -> the comment it replies to, or what is not a record
    Served,      \* backend -> the records it has
    Late,        \* records a backend may not have when it is asked
    PageSizes,   \* backend -> the page sizes it may choose
    ShortPageEnds, \* backends that take a short page for the end of the window
    Kept,        \* records that normalize and pass the content filter
    FetchKinds,  \* the kinds config.fetch asks for
    MaxWorkers,  \* size of the run's semaphore
    Unreadable,  \* subreddits whose comments.json a depth pass may fail to read
    Runs         \* the runs over this output directory, in order

Kinds == {"posts", "comments"}
Subreddits == {Subreddit[w] : w \in Workers}
Streams == Subreddits \X Kinds

(***************************************************************************)
(* A run is [after, before, maxPages]: the window its configuration        *)
(* resolves to and the page cap of a dry run, NoCap for a full run.        *)
(***************************************************************************)
NoCap == 0
RunType == [after : Nat, before : Nat, maxPages : Nat]

ASSUME DataAssumption ==
    /\ IsFiniteSet(Records)
    /\ Workers # {}
    /\ Created \in [Records -> Nat]
    /\ Stream \in [Records -> Streams]
    /\ Served \in [Backends -> SUBSET Records]
    /\ Late \subseteq Records
    /\ PageSizes \in [Backends -> SUBSET (Nat \ {0})]
    /\ ShortPageEnds \subseteq Backends
    /\ Kept \subseteq Records
    /\ FetchKinds \subseteq Kinds
    /\ Unreadable \subseteq Subreddits
    /\ MaxWorkers \in Nat \ {0}

ASSUME RunsAssumption == Runs \in Seq(RunType) /\ Runs # <<>>

VARIABLES
    pc,        \* where each worker stands
    kind,      \* the kind it is walking
    cursor,    \* local variable cursor of _walk
    pages,     \* local variable pages of _walk
    page,      \* the page it holds
    completed, \* local variable completed of _walk
    shutdown,  \* the shutdown event of the run
    gaveUp,    \* some walk of this run ended because every backend failed
    run,       \* index of the current run
    stored,    \* records in posts.json and comments.json
    flat,      \* stored comments whose depth is null
    unread,    \* subreddits whose last depth pass could not read its file
    rows       \* progress.json: stream -> checkpoint

process == <<pc, kind, cursor, pages, page, completed, shutdown, gaveUp>>
files == <<stored, flat, unread, rows>>
vars == <<process, files, run>>

-----------------------------------------------------------------------------
(* Types *)

None == -1     \* Python's None where an epoch is expected

PCs == {"queued", "open", "head", "fetch", "persist", "checkpoint", "close",
        "depths", "done"}
PageType == [items : SUBSET Records, next : Nat \cup {None}, exhausted : BOOLEAN]
RowType == [start : Nat, end : Nat, cursor : Nat,
            status : {"absent", "in_progress", "complete"}]

NoPage == [items |-> {}, next |-> None, exhausted |-> FALSE]
NoRow == [start |-> 0, end |-> 0, cursor |-> 0, status |-> "absent"]

TypeOK ==
    /\ pc \in [Workers -> PCs]
    /\ kind \in [Workers -> Kinds]
    /\ cursor \in [Workers -> Nat]
    /\ pages \in [Workers -> Nat]
    /\ page \in [Workers -> PageType]
    /\ completed \in [Workers -> BOOLEAN]
    /\ shutdown \in BOOLEAN
    /\ gaveUp \in BOOLEAN
    /\ run \in 1 .. Len(Runs)
    /\ stored \in SUBSET Records
    /\ flat \in SUBSET Records
    /\ unread \in SUBSET Unreadable
    /\ rows \in [Streams -> RowType]

-----------------------------------------------------------------------------
(* What the operations read *)

After == Runs[run].after
Before == Runs[run].before
StreamOf(w) == <<Subreddit[w], kind[w]>>

(* The records a backend has for a search of stream s over [from, to). *)
Matching(b, s, from, to) ==
    {r \in Served[b] : Stream[r] = s /\ from <= Created[r] /\ Created[r] < to}

(***************************************************************************)
(* A page is the oldest part of the matching records, sort=asc, cut at the *)
(* page size.  Records of one timestamp come in any order.                 *)
(***************************************************************************)
IsPage(P, matching, size) ==
    /\ P \subseteq matching
    /\ \A r \in P, q \in matching \ P : Created[r] <= Created[q]
    /\ \/ P = matching /\ Cardinality(matching) <= size
       \/ Cardinality(P) = size

(* _last_epoch: the timestamp of the last item, None without items. *)
IsLastEpoch(t, P) ==
    \/ P = {} /\ t = None
    \/ \E r \in P : t = Created[r] /\ \A q \in P : Created[q] <= t

(* min *)
Earlier(a, b) == IF a <= b THEN a ELSE b

(* Workers that hold a slot of the run's semaphore. *)
ActiveLeaky == {w \in Workers : pc[w] # "queued"}   \* mutant: slots are not released
Active == {w \in Workers : pc[w] \notin {"queued", "done"}}

(***************************************************************************)
(* _process_subreddit decides what a worker does next: the walks the       *)
(* configuration asks for, in order, each only while no shutdown was       *)
(* requested.                                                              *)
(***************************************************************************)
Wanted(k) == k \in FetchKinds /\ ~shutdown

GoTo(w, place, k) ==
    /\ pc' = [pc EXCEPT ![w] = place]
    /\ kind' = [kind EXCEPT ![w] = k]

BeginComments(w) ==
    IF Wanted("comments") THEN GoTo(w, "open", "comments")
                          ELSE GoTo(w, "done", kind[w])

LeaveWalk(w) ==
    IF kind[w] = "posts" THEN BeginComments(w) ELSE GoTo(w, "depths", kind[w])

-----------------------------------------------------------------------------
(* A worker's steps *)

(* Take a slot of the semaphore and start the subreddit. *)
Start(w) ==
    /\ pc[w] = "queued"
    /\ Cardinality(Active) < MaxWorkers
    /\ IF Wanted("posts") THEN GoTo(w, "open", "posts") ELSE BeginComments(w)
    /\ UNCHANGED <<cursor, pages, page, completed, shutdown, gaveUp, files, run>>

(* Mutant: the skip leaves the subreddit, without the depth pass. *)
SkipCompleteEarly(w) ==
    /\ pc[w] = "open"
    /\ rows[StreamOf(w)].status = "complete"
    /\ IF kind[w] = "posts" THEN BeginComments(w) ELSE GoTo(w, "done", kind[w])
    /\ UNCHANGED <<cursor, pages, page, completed, shutdown, gaveUp, files, run>>

(* A complete checkpoint ends the walk before it begins. *)
SkipComplete(w) ==
    /\ pc[w] = "open"
    /\ rows[StreamOf(w)].status = "complete"
    /\ LeaveWalk(w)
    /\ UNCHANGED <<cursor, pages, page, completed, shutdown, gaveUp, files, run>>

(* Resume from the checkpoint's cursor; a cursor of 0 is falsy. *)
ResumePointAtStart(w) == After   \* mutant: every run starts its window again
ResumePoint(w) ==
    IF rows[StreamOf(w)].cursor # 0 THEN rows[StreamOf(w)].cursor ELSE After

Resume(w) ==
    /\ pc[w] = "open"
    /\ rows[StreamOf(w)].status # "complete"
    /\ cursor' = [cursor EXCEPT ![w] = ResumePoint(w)]
    /\ pages' = [pages EXCEPT ![w] = 0]
    /\ completed' = [completed EXCEPT ![w] = FALSE]
    /\ GoTo(w, "head", kind[w])
    /\ UNCHANGED <<page, shutdown, gaveUp, files, run>>

(* Head of the loop: stop on shutdown, finish at the window's end, or ask. *)
LoopHead(w) ==
    /\ pc[w] = "head"
    /\ completed' = [completed EXCEPT ![w] = ~shutdown /\ cursor[w] >= Before]
    /\ GoTo(w, IF shutdown \/ cursor[w] >= Before THEN "close" ELSE "fetch", kind[w])
    /\ UNCHANGED <<cursor, pages, page, shutdown, gaveUp, files, run>>

(* Backend b answers a search over matching with the page P. *)
Answer(w, b, matching, size, P, t) ==
    /\ IsPage(P, matching, size)
    /\ IsLastEpoch(t, P)
    /\ page' = [page EXCEPT ![w] =
         [items |-> P, next |-> t,
          exhausted |-> P = {} \/ (b \in ShortPageEnds /\ Cardinality(P) < size)]]

(***************************************************************************)
(* Some backend of the chain answers.  Which one is not determined: every  *)
(* backend before it may have failed.  Nor is it which of the late records *)
(* the backend has by now.                                                 *)
(***************************************************************************)
FetchPage(w) ==
    /\ pc[w] = "fetch"
    /\ \E b \in Backends, unseen \in SUBSET Late :
         LET matching == Matching(b, StreamOf(w), cursor[w], Before) \ unseen IN
         \E size \in PageSizes[b], P \in SUBSET matching,
            t \in {Created[r] : r \in matching} \cup {None} :
           Answer(w, b, matching, size, P, t)
    /\ GoTo(w, "persist", kind[w])
    /\ UNCHANGED <<cursor, pages, completed, shutdown, gaveUp, files, run>>

(* Every backend of the chain failed: the walk ends, to be resumed later. *)
FetchFails(w) ==
    /\ pc[w] = "fetch"
    /\ gaveUp' = TRUE
    /\ GoTo(w, "close", kind[w])
    /\ UNCHANGED <<cursor, pages, page, completed, shutdown, files, run>>

(* The records on disk after an upsert: the file is read, merged, replaced. *)
StoredAfterOverwrite(w) ==   \* mutant: the page replaces the file
    {r \in stored : Stream[r] # StreamOf(w)} \cup (page[w].items \cap Kept)
StoredAfter(w) == stored \cup (page[w].items \cap Kept)

(* Store the page.  A comment is (re)written with a null depth. *)
Persist(w) ==
    /\ pc[w] = "persist"
    /\ stored' = StoredAfter(w)
    /\ flat' = IF kind[w] = "comments" THEN flat \cup (page[w].items \cap Kept) ELSE flat
    /\ GoTo(w, "checkpoint", kind[w])
    /\ UNCHANGED <<cursor, pages, page, completed, shutdown, gaveUp, unread, rows, run>>

(* The row a walk writes to progress.json. *)
Row(at, status) ==
    [start |-> After, end |-> Before, cursor |-> at, status |-> status]

(* The cursor saved after a page: its last timestamp, if it has one. *)
SavedCursorRaw(w) == page[w].next         \* mutant: None is saved
SavedCursorPast(w) == page[w].next + 1    \* mutant: past the last timestamp
SavedCursor(w) == IF page[w].next # None THEN page[w].next ELSE cursor[w]

(***************************************************************************)
(* The cursor of the next iteration.  prev_cursor is None exactly in the   *)
(* first iteration of a walk (pages[w] = 0), where the guard against a     *)
(* page of one timestamp is not armed.                                     *)
(***************************************************************************)
NextCursorUnguarded(w) == page[w].next      \* mutant: no guard
NextCursorPast(w) == page[w].next + 1       \* mutant: the guard is always on
NextCursor(w) ==
    IF pages[w] > 0 /\ page[w].next <= cursor[w] THEN cursor[w] + 1 ELSE page[w].next

(* pages is counted only as far as a walk looks at it. *)
PagesCounted == IF Runs[run].maxPages = NoCap THEN 1 ELSE Runs[run].maxPages

(* Save the checkpoint, then advance, finish, or stop at the page cap. *)
Checkpoint(w) ==
    /\ pc[w] = "checkpoint"
    /\ rows' = [rows EXCEPT ![StreamOf(w)] = Row(SavedCursor(w), "in_progress")]
    /\ pages' = [pages EXCEPT ![w] = Earlier(@ + 1, PagesCounted)]
    /\ page' = [page EXCEPT ![w] = NoPage]
    /\ IF page[w].exhausted \/ page[w].next = None
         THEN /\ completed' = [completed EXCEPT ![w] = TRUE]
              /\ GoTo(w, "close", kind[w])
              /\ UNCHANGED cursor
         ELSE /\ cursor' = [cursor EXCEPT ![w] = NextCursor(w)]
              /\ GoTo(w, IF Runs[run].maxPages # NoCap /\ pages[w] + 1 >= Runs[run].maxPages
                           THEN "close" ELSE "head", kind[w])
              /\ UNCHANGED completed
    /\ UNCHANGED <<shutdown, gaveUp, stored, flat, unread, run>>

(* The final checkpoint of a walk. *)
FinalStatusAlways(w) == "complete"   \* mutant: however the walk ended
FinalStatus(w) == IF completed[w] THEN "complete" ELSE "in_progress"

Close(w) ==
    /\ pc[w] = "close"
    /\ rows' = [rows EXCEPT ![StreamOf(w)] = Row(Earlier(cursor[w], Before), FinalStatus(w))]
    /\ LeaveWalk(w)
    /\ UNCHANGED <<cursor, pages, page, completed, shutdown, gaveUp, stored, flat, unread, run>>

(***************************************************************************)
(* _assign_depths walks down from the roots of the file: comments on a     *)
(* post, and those whose parent is not in the file.  It does not come to a *)
(* comment whose chain of parents runs into a cycle.                       *)
(***************************************************************************)
CommentsFile(sub) == {r \in stored : Stream[r] = <<sub, "comments">>}
Rootless(S) == UNION {C \in SUBSET S : \A r \in C : Parent[r] \in C}
Rooted(S) == S \ Rootless(S)

(* recompute_comment_depths over the subreddit's comments.json. *)
RecomputeDepths(w) ==
    /\ pc[w] = "depths"
    /\ flat' = flat \ Rooted(CommentsFile(Subreddit[w]))
    /\ unread' = unread \ {Subreddit[w]}
    /\ GoTo(w, "done", kind[w])
    /\ UNCHANGED <<cursor, pages, page, completed, shutdown, gaveUp, stored, rows, run>>

(* A file that cannot be read counts as empty: nothing is changed. *)
DepthsUnread(w) ==
    /\ pc[w] = "depths"
    /\ Subreddit[w] \in Unreadable
    /\ unread' = unread \cup {Subreddit[w]}
    /\ GoTo(w, "done", kind[w])
    /\ UNCHANGED <<cursor, pages, page, completed, shutdown, gaveUp, stored, flat, rows, run>>

Step(w) ==
    \/ Start(w)
    \/ SkipComplete(w)
    \/ Resume(w)
    \/ LoopHead(w)
    \/ FetchPage(w)
    \/ FetchFails(w)
    \/ Persist(w)
    \/ Checkpoint(w)
    \/ Close(w)
    \/ RecomputeDepths(w)
    \/ DepthsUnread(w)

-----------------------------------------------------------------------------
(* The process *)

AllDone == \A w \in Workers : pc[w] = "done"

(* SIGINT or SIGTERM asks for a graceful stop. *)
RequestShutdown ==
    /\ ~shutdown
    /\ ~AllDone
    /\ shutdown' = TRUE
    /\ UNCHANGED <<pc, kind, cursor, pages, page, completed, gaveUp, files, run>>

FreshProcess ==
    /\ pc' = [w \in Workers |-> "queued"]
    /\ kind' = [w \in Workers |-> "posts"]
    /\ cursor' = [w \in Workers |-> 0]
    /\ pages' = [w \in Workers |-> 0]
    /\ page' = [w \in Workers |-> NoPage]
    /\ completed' = [w \in Workers |-> FALSE]
    /\ shutdown' = FALSE
    /\ gaveUp' = FALSE

(***************************************************************************)
(* The next run begins when the last one ended, or after the process died  *)
(* in the middle of it: killed, or stopped by an error the walk does not   *)
(* catch (an unreadable body escapes get_json and ends the event loop).    *)
(***************************************************************************)
NextRun ==
    /\ run < Len(Runs)
    /\ run' = run + 1
    /\ FreshProcess
    /\ UNCHANGED files

(* The last run has ended: the system stops. *)
Finished ==
    /\ AllDone
    /\ run = Len(Runs)
    /\ UNCHANGED vars

Init ==
    /\ pc = [w \in Workers |-> "queued"]
    /\ kind = [w \in Workers |-> "posts"]
    /\ cursor = [w \in Workers |-> 0]
    /\ pages = [w \in Workers |-> 0]
    /\ page = [w \in Workers |-> NoPage]
    /\ completed = [w \in Workers |-> FALSE]
    /\ shutdown = FALSE
    /\ gaveUp = FALSE
    /\ run = 1
    /\ stored = {}
    /\ flat = {}
    /\ unread = {}
    /\ rows = [s \in Streams |-> NoRow]

Next ==
    \/ \E w \in Workers : Step(w)
    \/ RequestShutdown
    \/ NextRun
    \/ Finished

Spec == Init /\ [][Next]_vars

(***************************************************************************)
(* A worker's step is always scheduled: each await of the walk returns (a  *)
(* request has a timeout and a bounded number of retries).  Shutdowns,     *)
(* crashes and new runs are never required.                                *)
(***************************************************************************)
FairSpec == Spec /\ \A w \in Workers : WF_vars(Step(w))

-----------------------------------------------------------------------------
(* Properties *)

(***************************************************************************)
(* The records the walk promises: every backend of the chain has them, and *)
(* in time, they normalize and pass the filter, and on every backend the   *)
(* records of their stream and timestamp fit on a page.  Where they do     *)
(* not, the walk cannot ask for the rest: a search starts at a timestamp.  *)
(***************************************************************************)
FitsPages(b, r) ==
    \A size \in PageSizes[b] :
      Cardinality({q \in Served[b] : Stream[q] = Stream[r] /\ Created[q] = Created[r]}) <= size

Common == {r \in Kept \ Late : \A b \in Backends : r \in Served[b] /\ FitsPages(b, r)}

Archived(s, from, to) ==
    \A r \in Common :
      Stream[r] = s /\ from <= Created[r] /\ Created[r] < to => r \in stored

(***************************************************************************)
(* "An interrupted run resumes exactly where it stopped": a checkpoint in  *)
(* progress.json never claims a record that is not in posts.json or        *)
(* comments.json, whenever the process dies.                               *)
(***************************************************************************)
CheckpointCovers ==
    \A s \in Streams : rows[s].status # "absent" =>
        Archived(s, rows[s].start, rows[s].cursor)

(* A checkpoint marked complete, which no later run looks at again, means  *)
(* that its whole window is archived.                                      *)
CompleteMeansArchived ==
    \A s \in Streams : rows[s].status = "complete" =>
        Archived(s, rows[s].start, rows[s].end)

(* A run that ended by itself, with no shutdown, failure or page cap, has  *)
(* archived all of its window for what the configuration asks for.         *)
FinishedRunArchived ==
    AllDone /\ ~shutdown /\ ~gaveUp /\ Runs[run].maxPages = NoCap =>
        \A s \in Subreddits \X FetchKinds : Archived(s, After, Before)

(***************************************************************************)
(* The inductive invariant behind the last three.  ForwardWindows is what  *)
(* it needs of the configuration: a later run does not ask for an earlier  *)
(* start than the runs before it.                                          *)
(***************************************************************************)
ForwardWindows ==
    \A i, j \in 1 .. Len(Runs) : i <= j => Runs[i].after <= Runs[j].after

(* What is behind the cursor of a walk is archived. *)
BehindCursor(w) ==
    pc[w] \in {"head", "fetch", "persist", "checkpoint", "close"} =>
        Archived(StreamOf(w), After, cursor[w])

(* The records a page settles: those before its last timestamp, all of a   *)
(* last page, and a timestamp the page does not get past.                  *)
Settles(pg, from, t) ==
    \/ pg.exhausted
    \/ pg.next = None
    \/ t < pg.next
    \/ pg.next <= from /\ t = from

PageSettled(w, have) ==
    \A r \in Common :
      Stream[r] = StreamOf(w) /\ cursor[w] <= Created[r] /\ Created[r] < Before
        => (Settles(page[w], cursor[w], Created[r]) => r \in have)

(* A fetched page holds what it settles, and once persisted it is stored. *)
PageInHand(w) ==
    /\ pc[w] = "persist" => PageSettled(w, page[w].items)
    /\ pc[w] = "checkpoint" => PageSettled(w, stored)
    /\ pc[w] \in {"persist", "checkpoint"} =>
         (page[w].next # None => cursor[w] <= page[w].next /\ page[w].next < Before)

(* completed is set at the end of a walk only, and then truthfully. *)
CompletedIsTrue(w) ==
    /\ pc[w] \in {"head", "fetch", "persist", "checkpoint"} => ~completed[w]
    /\ pc[w] = "close" /\ completed[w] => Archived(StreamOf(w), After, Before)

WalkInv(w) == BehindCursor(w) /\ PageInHand(w) /\ CompletedIsTrue(w)

RowIsTrue(s) ==
    /\ rows[s].start <= After
    /\ Archived(s, rows[s].start, rows[s].cursor)
    /\ rows[s].status = "complete" => Archived(s, rows[s].start, rows[s].end)

RowsInv == \A s \in Streams : RowIsTrue(s)

(* A checkpoint in progress.json, and the local state of every walk that   *)
(* will write one, claim no record that is not stored.                     *)
CoverageInv == (\A w \in Workers : WalkInv(w)) /\ RowsInv

(***************************************************************************)
(* The inductive invariant behind FinishedRunArchived, for runs whose      *)
(* windows do not grow, such as the same dates again.  Without that a      *)
(* complete row of an earlier run ends before the window does, and the     *)
(* walk that it skips leaves the rest of the window out.                   *)
(***************************************************************************)
NarrowingWindows ==
    \A i, j \in 1 .. Len(Runs) : i <= j =>
        Runs[i].after <= Runs[j].after /\ Runs[j].before <= Runs[i].before

Undisturbed == ~shutdown /\ ~gaveUp /\ Runs[run].maxPages = NoCap

(* Worker w has its walk of kind k behind it. *)
Passed(w, k) ==
    \/ pc[w] \in {"depths", "done"}
    \/ k = "posts" /\ kind[w] = "comments" /\ pc[w] # "queued"

(* In a run that nothing disturbs, a walk is left only when it completed,  *)
(* or was skipped because a row says so.                                   *)
PassedIsArchived(w) ==
    Undisturbed =>
        /\ \A k \in FetchKinds : Passed(w, k) => Archived(<<Subreddit[w], k>>, After, Before)
        /\ pc[w] = "close" => completed[w]
        /\ pc[w] = "depths" => kind[w] = "comments"

(* A complete row reaches the end of the window. *)
RowsReachEnd == \A s \in Streams : rows[s].status = "complete" => Before <= rows[s].end

FinishInv == (\A w \in Workers : PassedIsArchived(w)) /\ RowsReachEnd

(* A comment no depth pass reaches: its chain of parents runs into a cycle *)
(* of the file, or the last pass could not read the file.                  *)
OutOfReach(r) ==
    \/ r \in Rootless(CommentsFile(Stream[r][1]))
    \/ Stream[r][1] \in unread

(* recompute_comment_depths materializes the tree, whoever wrote a comment *)
(* and in whichever run: when a run has ended without a shutdown, only     *)
(* comments that are out of its reach are left with a null depth.          *)
DepthsMaterialized ==
    AllDone /\ ~shutdown /\ "comments" \in FetchKinds => \A r \in flat : OutOfReach(r)

(* A comment that some worker of its subreddit will still pass over,       *)
(* unless a shutdown makes the workers leave early.                        *)
WillBePassed(r) ==
    \/ shutdown
    \/ "comments" \notin FetchKinds
    \/ \E w \in Workers : Subreddit[w] = Stream[r][1] /\ pc[w] # "done"

(* The inductive invariant behind DepthsMaterialized. *)
DepthsInv ==
    /\ \A w \in Workers : pc[w] = "persist" =>
         \A r \in page[w].items : Stream[r] = StreamOf(w)
    /\ flat \subseteq stored
    /\ \A r \in flat :
         Stream[r][2] = "comments" /\ (WillBePassed(r) \/ OutOfReach(r))

(* The records on disk are never fewer, across runs and crashes: a rerun   *)
(* refreshes them and a shorter page or a smaller window removes none.     *)
NothingLost == [][stored \subseteq stored']_vars

(* With one worker per subreddit a checkpoint only moves on: complete is   *)
(* final, and the cursor of an unfinished row never goes back.             *)
CheckpointMovesOn ==
    [][\A s \in Streams :
         /\ rows[s].status = "complete" => rows'[s] = rows[s]
         /\ rows'[s].status # "complete" => rows[s].cursor <= rows'[s].cursor]_vars

(***************************************************************************)
(* The inductive invariant behind CheckpointMovesOn and KeepsPromise, for  *)
(* a list that names each subreddit once and windows that end no earlier   *)
(* than those of the runs before: a walk never works on a complete row,    *)
(* and works at or past the cursor it would overwrite.                     *)
(***************************************************************************)
SoleWalks == \A v, w \in Workers : Subreddit[v] = Subreddit[w] => v = w

ForwardEnds ==
    \A i, j \in 1 .. Len(Runs) : i <= j => Runs[i].before <= Runs[j].before

WalkMovesOn(w) ==
    /\ pc[w] \in {"head", "fetch", "persist", "checkpoint", "close"} =>
         /\ rows[StreamOf(w)].status # "complete"
         /\ \/ pc[w] = "close" /\ completed[w]
            \/ rows[StreamOf(w)].cursor <= cursor[w]
    /\ pc[w] \in {"fetch", "persist", "checkpoint"} => cursor[w] < Before

(* Every walk moves its checkpoint on, and no unfinished checkpoint is     *)
(* past the end of the window.                                             *)
MovesInv ==
    /\ \A w \in Workers : WalkMovesOn(w)
    /\ \A s \in Streams : rows[s].status # "complete" => rows[s].cursor <= Before

(***************************************************************************)
(* The run implements the archive's promise: the claim on a stream is the  *)
(* whole window of a complete checkpoint, and the part of it behind the    *)
(* cursor of an unfinished one.                                            *)
(***************************************************************************)
Claims ==
    [s \in Streams |->
        [from |-> rows[s].start,
         to |-> IF rows[s].status = "complete" THEN rows[s].end ELSE rows[s].cursor]]

Promise == INSTANCE Archive WITH archived <- stored, claims <- Claims

KeepsPromise == Promise!Spec

(***************************************************************************)
(* Why it ends: a bound on the steps a worker has left in its run.  An     *)
(* iteration takes four, and moves the cursor on, but for the first, whose *)
(* page may end where it began.                                            *)
(***************************************************************************)
Iterations(w) ==
    (IF cursor[w] < Before THEN Before - cursor[w] ELSE 0) + (IF pages[w] = 0 THEN 1 ELSE 0)
StepsOfWalk == 4 * Before + 7
StepsFrom(place, k, iterations, walk) ==
    LET after == 1 + (IF k = "posts" THEN walk ELSE 0)
    IN  CASE place = "queued" -> 2 * walk + 2
          [] place = "open" -> walk + after
          [] place = "head" -> 4 * iterations + 2 + after
          [] place = "fetch" -> 4 * iterations + 1 + after
          [] place = "persist" -> 4 * iterations + after
          [] place = "checkpoint" -> 4 * iterations - 1 + after
          [] place = "close" -> 1 + after
          [] place = "depths" -> 1
          [] place = "done" -> 0
StepsLeft(w) == StepsFrom(pc[w], kind[w], Iterations(w), StepsOfWalk)

StepsRunOut ==
    [][\A w \in Workers :
         /\ StepsLeft(w) \in 0 .. 2 * StepsOfWalk + 2
         /\ Step(w) => StepsLeft(w)' < StepsLeft(w)
         /\ run' = run => StepsLeft(w)' <= StepsLeft(w)]_vars

(* The page a walk works on lies in the window, at or past its cursor.     *)
WalkAhead(w) ==
    /\ pc[w] \in {"fetch", "persist", "checkpoint"} => cursor[w] < Before
    /\ pc[w] \in {"persist", "checkpoint"} =>
         page[w].next = None \/ cursor[w] <= page[w].next

AheadInv == \A w \in Workers : WalkAhead(w)

(* Every run ends by itself, whatever the backends do: the cursor of a     *)
(* walk cannot be stuck on a page of one timestamp, and every worker gets  *)
(* its turn with the semaphore.                                            *)
RunEnds == \A w \in Workers : []<>(pc[w] = "done")
=============================================================================
