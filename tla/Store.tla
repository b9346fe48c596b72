------------------------------- MODULE Store --------------------------------
(***************************************************************************)
(* The record files of one subreddit (store/storage.py, store/_io.py) and  *)
(* the two programs that rewrite them: the archiver, which merges pages    *)
(* into them and materializes comment depths, and the phase-2 keyword      *)
(* filter (phase2/keyword_filter.py), which annotates records in place.    *)
(*                                                                         *)
(* Every change reads a whole file and replaces a whole file.  The replace *)
(* is atomic (a temporary file and os.replace), so a crash leaves the old  *)
(* file; but nothing is locked between two processes, and whatever one     *)
(* writes between the other's read and replace of the same file is gone.   *)
(***************************************************************************)
EXTENDS Integers, FiniteSets

CONSTANTS
    Posts,       \* the subreddit's posts
    Comments,    \* the subreddit's comments
    Plain,       \* records whose text never matches the filter's keywords
    MaxClock,    \* bound on the clock of fetched_at
    ReadErrors   \* the programs whose reads of a file may fail

Programs == {"archiver", "filter"}
Kinds == {"posts", "comments"}
Records == Posts \cup Comments
RecordsOf(k) == IF k = "posts" THEN Posts ELSE Comments

(* Whether a record's text matches the filter's keywords. *)
Texts == {"hit", "miss"}

ASSUME StoreAssumption ==
    /\ Posts \cap Comments = {}
    /\ MaxClock \in Nat
    /\ ReadErrors \subseteq Programs

VARIABLES
    file,      \* kind -> what its file holds, a function on some records
    archiver,  \* what the archiver is doing, with the file it has read
    filter,    \* what the filter is doing, with the files it has read
    now,       \* the clock
    exported,  \* rows of the workbook the filter wrote last
    upserted,  \* history: the records a finished upsert has stored
    stale,     \* history: <<program, kind>> whose copy is older than the file
    crossed    \* history: the kinds whose file was replaced by an older copy

history == <<upserted, stale, crossed>>
vars == <<file, archiver, filter, now, exported, history>>

(* A stored record: fetched_at, its text, flagged.  The depths of comments *)
(* are in Archiver and CommentTree; here only who rewrites the file counts.*)
Record == [fetched : 0 .. MaxClock, text : Texts, flagged : BOOLEAN]
FileOf(k) == UNION {[S -> Record] : S \in SUBSET RecordsOf(k)}
NoFile == [r \in {} |-> {}]
Flagged(f) == {r \in DOMAIN f : f[r].flagged}

(* A page to be merged: the text its records have at the source. *)
PageOf(k) ==
    {P \in UNION {[S -> Texts] : S \in (SUBSET RecordsOf(k)) \ {{}}} :
       \A r \in DOMAIN P \cap Plain : P[r] = "miss"}

Off == [op |-> "off", kind |-> "posts", held |-> NoFile, page |-> NoFile]
Idle == [Off EXCEPT !.op = "idle"]
NoScan == [at |-> "off", posts |-> NoFile, comments |-> NoFile]

TypeOK ==
    /\ DOMAIN file = Kinds
    /\ \A k \in Kinds : file[k] \in FileOf(k)
    /\ archiver.op \in {"off", "idle", "upsert", "depths"}
    /\ archiver.kind \in Kinds
    /\ archiver.held \in FileOf(archiver.kind)
    /\ archiver.op = "upsert" => archiver.page \in PageOf(archiver.kind)
    /\ archiver.op = "depths" => archiver.kind = "comments"
    /\ filter \in [at : {"off", "scan", "posts", "comments", "export"},
                   posts : FileOf("posts"), comments : FileOf("comments")]
    /\ now \in 0 .. MaxClock
    /\ exported \subseteq Records
    /\ upserted \subseteq Records
    /\ stale \subseteq Programs \X Kinds
    /\ crossed \subseteq Kinds

(* load_json: a file that cannot be read is an empty one. *)
Loaded(program, k) ==
    {file[k]} \cup (IF program \in ReadErrors THEN {NoFile} ELSE {})

(* The program has read the file and may still replace it.                 *)
Holds(program, k) ==
    IF program = "archiver"
      THEN archiver.op \in {"upsert", "depths"} /\ archiver.kind = k
      ELSE filter.at \in (IF k = "posts" THEN {"scan", "posts"} ELSE {"posts", "comments"})

(* write_json_atomic: the file becomes f, whatever it was.                 *)
Replace(program, k, f) ==
    /\ file' = [file EXCEPT ![k] = f]
    /\ crossed' = IF <<program, k>> \in stale THEN crossed \cup {k} ELSE crossed
    /\ stale' = (stale \ {<<program, k>>})
                   \cup {<<q, k>> : q \in {x \in Programs \ {program} : Holds(x, k)}}

(* A program that ends drops its copies.                                   *)
Drop(program) ==
    /\ stale' = stale \ ({program} \X Kinds)
    /\ UNCHANGED <<upserted, crossed>>

-----------------------------------------------------------------------------
(* The archiver *)

Tick == now' = IF now < MaxClock THEN now + 1 ELSE now

ArchiverStarts ==
    /\ archiver.op = "off"
    /\ archiver' = Idle
    /\ Tick
    /\ UNCHANGED <<file, filter, exported, history>>

(* upsert_posts / upsert_comments read the file under the subreddit's lock *)
UpsertReads ==
    /\ archiver.op = "idle"
    /\ \E k \in Kinds : \E f \in Loaded("archiver", k), P \in PageOf(k) :
         archiver' = [op |-> "upsert", kind |-> k, held |-> f, page |-> P]
    /\ UNCHANGED <<file, filter, now, exported, history>>

(* _post_to_dict / _comment_to_dict *)
Fresh(text) == [fetched |-> now, text |-> text, flagged |-> FALSE]

(***************************************************************************)
(* _merge: all of the new record, with the old one's fetched_at and phase-2*)
(* annotations.                                                            *)
(***************************************************************************)
MergeRefetched(old, text) ==   \* mutant: fetched_at is refreshed too
    [Fresh(text) EXCEPT !.flagged = old.flagged]
MergeUnflagged(old, text) ==   \* mutant: annotations are not carried over
    [Fresh(text) EXCEPT !.fetched = old.fetched]
Merge(old, text) ==
    [Fresh(text) EXCEPT !.fetched = old.fetched, !.flagged = old.flagged]

(* The file an upsert writes: the records of the page, merged, among those *)
(* that were in it.                                                        *)
MergedPageOnly(f, P) ==   \* mutant: the page replaces the file
    [r \in DOMAIN P |-> IF r \in DOMAIN f THEN Merge(f[r], P[r]) ELSE Fresh(P[r])]
Merged(f, P) ==
    [r \in DOMAIN f \cup DOMAIN P |->
       IF r \notin DOMAIN P THEN f[r]
       ELSE IF r \in DOMAIN f THEN Merge(f[r], P[r]) ELSE Fresh(P[r])]

UpsertWrites ==
    /\ archiver.op = "upsert"
    /\ Replace("archiver", archiver.kind, Merged(archiver.held, archiver.page))
    /\ archiver' = Idle
    /\ upserted' = upserted \cup DOMAIN archiver.page
    /\ UNCHANGED <<filter, now, exported>>

(* recompute_comment_depths: nothing to do for an empty file. *)
DepthsRead ==
    /\ archiver.op = "idle"
    /\ \E f \in Loaded("archiver", "comments") :
         /\ f # NoFile
         /\ archiver' = [Idle EXCEPT !.op = "depths", !.kind = "comments", !.held = f]
    /\ UNCHANGED <<file, filter, now, exported, history>>

(* The copy is written back, with the depths of its comments set. *)
DepthsWrite ==
    /\ archiver.op = "depths"
    /\ Replace("archiver", archiver.kind, archiver.held)
    /\ archiver' = Idle
    /\ UNCHANGED <<filter, now, exported, upserted>>

(* The archiver ends, or is killed: a file not yet replaced stays as it is.*)
ArchiverStops ==
    /\ archiver.op # "off"
    /\ archiver' = Off
    /\ Drop("archiver")
    /\ UNCHANGED <<file, filter, now, exported>>

-----------------------------------------------------------------------------
(* The filter *)

(* _scan_and_flag: a match is flagged, nothing is ever unflagged. *)
Scan(f) == [r \in DOMAIN f |->
              [f[r] EXCEPT !.flagged = f[r].flagged \/ f[r].text = "hit"]]

FilterReadsPosts ==
    /\ filter.at = "off"
    /\ \E f \in Loaded("filter", "posts") :
         filter' = [filter EXCEPT !.at = "scan", !.posts = Scan(f)]
    /\ UNCHANGED <<file, archiver, now, exported, history>>

(* Mutant: the posts file is read again. *)
FilterReadsPostsAgain ==
    /\ filter.at = "scan"
    /\ \E f \in Loaded("filter", "posts") :
         filter' = [filter EXCEPT !.at = "posts", !.comments = Scan(f)]
    /\ UNCHANGED <<file, archiver, now, exported, history>>

FilterReadsComments ==
    /\ filter.at = "scan"
    /\ \E f \in Loaded("filter", "comments") :
         filter' = [filter EXCEPT !.at = "posts", !.comments = Scan(f)]
    /\ UNCHANGED <<file, archiver, now, exported, history>>

(* An empty file, or one that could not be read, is not written back. *)
WriteBack(k, f) ==
    IF f = NoFile THEN UNCHANGED <<file, stale, crossed>> ELSE Replace("filter", k, f)

FilterWritesPosts ==
    /\ filter.at = "posts"
    /\ WriteBack("posts", filter.posts)
    /\ filter' = [filter EXCEPT !.at = "comments"]
    /\ UNCHANGED <<archiver, now, exported, upserted>>

(* Mutant: the comments are exported but not written. *)
FilterWritesCommentsNot ==
    /\ filter.at = "comments"
    /\ filter' = [filter EXCEPT !.at = "export"]
    /\ UNCHANGED <<file, archiver, now, exported, history>>

FilterWritesComments ==
    /\ filter.at = "comments"
    /\ WriteBack("comments", filter.comments)
    /\ filter' = [filter EXCEPT !.at = "export"]
    /\ UNCHANGED <<archiver, now, exported, upserted>>

FilterExports ==
    /\ filter.at = "export"
    /\ exported' = Flagged(filter.posts) \cup Flagged(filter.comments)
    /\ filter' = NoScan
    /\ Drop("filter")
    /\ UNCHANGED <<file, archiver, now>>

FilterCrashes ==
    /\ filter.at # "off"
    /\ filter' = NoScan
    /\ Drop("filter")
    /\ UNCHANGED <<file, archiver, now, exported>>

Init ==
    /\ file = [k \in Kinds |-> NoFile]
    /\ archiver = Off
    /\ filter = NoScan
    /\ now = 0
    /\ exported = {}
    /\ upserted = {}
    /\ stale = {}
    /\ crossed = {}

Next ==
    \/ ArchiverStarts
    \/ UpsertReads
    \/ UpsertWrites
    \/ DepthsRead
    \/ DepthsWrite
    \/ ArchiverStops
    \/ FilterReadsPosts
    \/ FilterReadsComments
    \/ FilterWritesPosts
    \/ FilterWritesComments
    \/ FilterExports
    \/ FilterCrashes

Spec == Init /\ [][Next]_vars

-----------------------------------------------------------------------------
(* Properties *)

(***************************************************************************)
(* The two programs may interleave in any way.  What follows holds of      *)
(* every file that was never replaced by a copy older than itself: of both *)
(* files when the programs take turns, and of each one they happen not to  *)
(* hold at once.                                                           *)
(***************************************************************************)
Uncrossed == Kinds \ crossed

(* Records once stored stay stored, whoever rewrites the files, wherever a *)
(* program dies, and when the filter cannot read what it is to annotate.   *)
RecordsKept ==
    \A k \in Uncrossed : upserted \cap RecordsOf(k) \subseteq DOMAIN file[k]

(* "fetched_at is preserved from the first insert", over refreshes,        *)
(* depth passes, filter runs and crashes.                                  *)
FetchedAtKept ==
    [][\A k \in Uncrossed' : \A r \in DOMAIN file[k] :
         r \in DOMAIN file'[k] /\ file'[k][r].fetched = file[k][r].fetched]_vars

(* "Phase-2 fields are deliberately not touched here so the filter can own *)
(* them": no refresh of a record takes its flag away.                      *)
FlagsKept ==
    [][\A k \in Uncrossed' : \A r \in Flagged(file[k]) : r \in Flagged(file'[k])]_vars

(* Every row of the workbook is flagged on disk, also after a crash of the *)
(* filter between its two writes and after the archive was refreshed.      *)
ExportIsOnDisk ==
    \A k \in Uncrossed : exported \cap RecordsOf(k) \subseteq Flagged(file[k])

(***************************************************************************)
(* The inductive invariant behind them, for an archiver whose reads do not *)
(* fail.  A copy that is not stale is what the file holds, with the        *)
(* filter's annotations if it is the filter's; what the filter wrote back  *)
(* and is about to export is flagged in a file that was not crossed.       *)
(***************************************************************************)
CopiesCurrent ==
    /\ Holds("archiver", archiver.kind) /\ <<"archiver", archiver.kind>> \notin stale =>
         archiver.held = file[archiver.kind]
    /\ Holds("filter", "posts") /\ <<"filter", "posts">> \notin stale =>
         filter.posts \in {NoFile, Scan(file["posts"])}
    /\ Holds("filter", "comments") /\ <<"filter", "comments">> \notin stale =>
         filter.comments \in {NoFile, Scan(file["comments"])}

WrittenIsFlagged ==
    /\ filter.at \in {"comments", "export"} /\ "posts" \in Uncrossed =>
         Flagged(filter.posts) \subseteq Flagged(file["posts"])
    /\ filter.at = "export" /\ "comments" \in Uncrossed =>
         Flagged(filter.comments) \subseteq Flagged(file["comments"])

StoreInv ==
    /\ TypeOK
    /\ CopiesCurrent
    /\ WrittenIsFlagged
    /\ RecordsKept
    /\ ExportIsOnDisk
=============================================================================
