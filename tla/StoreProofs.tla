---------------------------- MODULE StoreProofs -----------------------------
(***************************************************************************)
(* Theorems about Store, for any number of posts and comments and any      *)
(* clock: whatever two programs do at once, a file that was not replaced   *)
(* by a copy older than itself keeps its records, their fetched_at and     *)
(* their flags.                                                            *)
(***************************************************************************)
EXTENDS Store, TLAPS

(* An archiver that can read the files it wrote.                           *)
ArchiverReads == "archiver" \notin ReadErrors

(* What one content of a file keeps of an earlier one.                     *)
Kept(f, g) ==
    \A r \in DOMAIN f :
      /\ r \in DOMAIN g
      /\ g[r].fetched = f[r].fetched
      /\ f[r].flagged => g[r].flagged

-----------------------------------------------------------------------------
(* Contents of files *)

LEMMA FileType ==
    ASSUME NEW k, NEW f
    PROVE  f \in FileOf(k) <=> DOMAIN f \subseteq RecordsOf(k) /\ f \in [DOMAIN f -> Record]
<1>1. ASSUME f \in FileOf(k)
      PROVE  DOMAIN f \subseteq RecordsOf(k) /\ f \in [DOMAIN f -> Record]
  <2>1. PICK S \in SUBSET RecordsOf(k) : f \in [S -> Record]
    BY <1>1 DEF FileOf
  <2> QED
    BY <2>1
<1>2. ASSUME DOMAIN f \subseteq RecordsOf(k), f \in [DOMAIN f -> Record]
      PROVE  f \in FileOf(k)
  <2>1. DOMAIN f \in SUBSET RecordsOf(k)
    BY <1>2
  <2> QED
    BY <1>2, <2>1 DEF FileOf
<1> QED
  BY <1>1, <1>2

LEMMA PageType ==
    ASSUME NEW k, NEW P \in PageOf(k)
    PROVE  DOMAIN P \subseteq RecordsOf(k) /\ P \in [DOMAIN P -> Texts]
<1>1. PICK S \in (SUBSET RecordsOf(k)) \ {{}} : P \in [S -> Texts]
  BY DEF PageOf
<1> QED
  BY <1>1

LEMMA EmptyFile ==
    ASSUME NEW k
    PROVE  /\ NoFile \in FileOf(k)
           /\ Flagged(NoFile) = {}
           /\ \A f \in FileOf(k) : DOMAIN f = {} => f = NoFile
<1>1. DOMAIN NoFile = {} /\ NoFile \in [{} -> Record]
  BY DEF NoFile
<1>2. NoFile \in FileOf(k)
  BY <1>1, FileType
<1>3. Flagged(NoFile) = {}
  BY <1>1 DEF Flagged
<1>4. ASSUME NEW f \in FileOf(k), DOMAIN f = {}
      PROVE  f = NoFile
  BY <1>4, FileType DEF NoFile
<1> QED
  BY <1>2, <1>3, <1>4

LEMMA FreshType ==
    ASSUME NEW text \in Texts, now \in 0 .. MaxClock
    PROVE  Fresh(text) \in Record
  BY DEF Fresh, Record

(* A refreshed record is a record with the first fetched_at and the flag.  *)
LEMMA MergeKeeps ==
    ASSUME NEW old \in Record, NEW text \in Texts, now \in 0 .. MaxClock
    PROVE  /\ Merge(old, text) \in Record
           /\ Merge(old, text).fetched = old.fetched
           /\ Merge(old, text).flagged = old.flagged
  BY DEF Merge, Fresh, Record

LEMMA MergedKeeps ==
    ASSUME NEW k, NEW f \in FileOf(k), NEW P \in PageOf(k), now \in 0 .. MaxClock
    PROVE  /\ Merged(f, P) \in FileOf(k)
           /\ Kept(f, Merged(f, P))
           /\ DOMAIN P \subseteq DOMAIN Merged(f, P)
<1> DEFINE g == Merged(f, P)
<1>1. DOMAIN g = DOMAIN f \cup DOMAIN P
  BY DEF Merged
<1>2. ASSUME NEW r \in DOMAIN g
      PROVE  /\ g[r] \in Record
             /\ r \in DOMAIN f => g[r].fetched = f[r].fetched /\ g[r].flagged = f[r].flagged
  <2>1. CASE r \notin DOMAIN P
    BY <1>1, <2>1, FileType DEF Merged
  <2>2. CASE r \in DOMAIN P /\ r \in DOMAIN f
    <3>1. g[r] = Merge(f[r], P[r])
      BY <1>1, <2>2 DEF Merged
    <3>2. f[r] \in Record /\ P[r] \in Texts
      BY <2>2, FileType, PageType
    <3> QED
      BY <3>1, <3>2, MergeKeeps
  <2>3. CASE r \in DOMAIN P /\ r \notin DOMAIN f
    <3>1. g[r] = Fresh(P[r])
      BY <1>1, <2>3 DEF Merged
    <3>2. P[r] \in Texts
      BY <2>3, PageType
    <3> QED
      BY <3>1, <3>2, <2>3, FreshType
  <2> QED
    BY <1>1, <2>1, <2>2, <2>3
<1>3. g \in [DOMAIN g -> Record]
  BY <1>2 DEF Merged
<1>4. DOMAIN g \subseteq RecordsOf(k)
  BY <1>1, FileType, PageType
<1>5. g \in FileOf(k)
  BY <1>3, <1>4, FileType
<1>6. Kept(f, g)
  BY <1>1, <1>2 DEF Kept
<1> QED
  BY <1>1, <1>5, <1>6

LEMMA ScanKeeps ==
    ASSUME NEW k, NEW f \in FileOf(k)
    PROVE  Scan(f) \in FileOf(k) /\ Kept(f, Scan(f))
<1>1. DOMAIN Scan(f) = DOMAIN f /\ DOMAIN f \subseteq RecordsOf(k)
  BY FileType DEF Scan
<1>2. ASSUME NEW r \in DOMAIN f
      PROVE  /\ Scan(f)[r] \in Record
             /\ Scan(f)[r].fetched = f[r].fetched
             /\ f[r].flagged => Scan(f)[r].flagged
  <2>1. f[r] \in Record
    BY FileType
  <2>2. Scan(f)[r] = [f[r] EXCEPT !.flagged = f[r].flagged \/ f[r].text = "hit"]
    BY DEF Scan
  <2> QED
    BY <2>1, <2>2 DEF Record
<1>3. Scan(f) \in [DOMAIN Scan(f) -> Record]
  BY <1>1, <1>2 DEF Scan
<1> QED
  BY <1>1, <1>2, <1>3, FileType DEF Kept

LEMMA KeptFlags ==
    ASSUME NEW f, NEW g, Kept(f, g)
    PROVE  Flagged(f) \subseteq Flagged(g) /\ DOMAIN f \subseteq DOMAIN g
  BY DEF Kept, Flagged

LEMMA KeptSame == ASSUME NEW f PROVE Kept(f, f)
  BY DEF Kept

-----------------------------------------------------------------------------
(* Types *)

LEMMA KindOfRecords ==
    /\ RecordsOf("posts") = Posts /\ RecordsOf("comments") = Comments
    /\ Kinds = {"posts", "comments"} /\ Records = Posts \cup Comments
    /\ \A k \in Kinds : RecordsOf(k) \subseteq Records
  BY DEF RecordsOf, Kinds, Records

LEMMA LoadedType ==
    ASSUME TypeOK, NEW k \in Kinds, NEW program, NEW f \in Loaded(program, k)
    PROVE  f \in FileOf(k)
  BY EmptyFile DEF Loaded, TypeOK

LEMMA ReplaceType ==
    ASSUME TypeOK, NEW program \in Programs, NEW k \in Kinds, NEW f \in FileOf(k),
           Replace(program, k, f)
    PROVE  /\ \A j \in Kinds : file'[j] \in FileOf(j)
           /\ stale' \subseteq Programs \X Kinds
           /\ crossed' \subseteq Kinds
<1>1. \A j \in Kinds : file'[j] \in FileOf(j)
  <2> SUFFICES ASSUME NEW j \in Kinds PROVE file'[j] \in FileOf(j)
    OBVIOUS
  <2>1. j = k \/ file'[j] = file[j]
    BY DEF Replace
  <2> QED
    BY <2>1 DEF Replace, TypeOK
<1> QED
  BY <1>1 DEF Replace, TypeOK

LEMMA InitType == Init => TypeOK
<1> SUFFICES ASSUME Init PROVE TypeOK
  OBVIOUS
<1>1. NoFile \in FileOf("posts") /\ NoFile \in FileOf("comments")
  BY EmptyFile
<1>2. archiver.op = "off" /\ archiver.kind = "posts" /\ archiver.held = NoFile
  BY DEF Init, Off
<1>3. filter = [at |-> "off", posts |-> NoFile, comments |-> NoFile]
  BY DEF Init, NoScan
<1>4. DOMAIN file = Kinds /\ \A k \in Kinds : file[k] \in FileOf(k)
  BY <1>1 DEF Init, Kinds
<1>5. now \in 0 .. MaxClock
  BY StoreAssumption DEF Init
<1> QED
  BY <1>1, <1>2, <1>3, <1>4, <1>5 DEF Init, TypeOK, Kinds

(* One step keeps the types, action by action.                             *)
LEMMA NextType == TypeOK /\ [Next]_vars => TypeOK'
<1> SUFFICES ASSUME TypeOK, [Next]_vars PROVE TypeOK'
  OBVIOUS
<1> USE DEF history
<1>0. NoFile \in FileOf("posts") /\ NoFile \in FileOf("comments")
  BY EmptyFile
<1>1. CASE UNCHANGED vars
  BY <1>1 DEF TypeOK, vars
<1>2. CASE ArchiverStarts
  <2>1. now' \in 0 .. MaxClock
    BY <1>2, StoreAssumption DEF ArchiverStarts, Tick, TypeOK
  <2>2. archiver' = [op |-> "idle", kind |-> "posts", held |-> NoFile, page |-> NoFile]
    BY <1>2 DEF ArchiverStarts, Idle, Off
  <2> QED
    BY <1>0, <1>2, <2>1, <2>2 DEF ArchiverStarts, TypeOK, Kinds
<1>3. CASE UpsertReads
  <2>1. PICK k \in Kinds : \E f \in Loaded("archiver", k), P \in PageOf(k) :
          archiver' = [op |-> "upsert", kind |-> k, held |-> f, page |-> P]
    BY <1>3 DEF UpsertReads
  <2>2. PICK f \in Loaded("archiver", k), P \in PageOf(k) :
          archiver' = [op |-> "upsert", kind |-> k, held |-> f, page |-> P]
    BY <2>1
  <2>3. f \in FileOf(k)
    BY LoadedType
  <2> QED
    BY <1>3, <2>2, <2>3 DEF UpsertReads, TypeOK
<1>4. CASE UpsertWrites
  <2>1. archiver.page \in PageOf(archiver.kind) /\ archiver.held \in FileOf(archiver.kind)
    BY <1>4 DEF UpsertWrites, TypeOK
  <2>2. Merged(archiver.held, archiver.page) \in FileOf(archiver.kind)
    BY <2>1, MergedKeeps DEF TypeOK
  <2>3. /\ \A j \in Kinds : file'[j] \in FileOf(j)
        /\ stale' \subseteq Programs \X Kinds /\ crossed' \subseteq Kinds
    BY <1>4, <2>2, ReplaceType DEF UpsertWrites, TypeOK, Programs
  <2>4. DOMAIN file' = Kinds
    BY <1>4 DEF UpsertWrites, Replace, TypeOK
  <2>5. archiver' = [op |-> "idle", kind |-> "posts", held |-> NoFile, page |-> NoFile]
    BY <1>4 DEF UpsertWrites, Idle, Off
  <2>6. upserted' \subseteq Records
    BY <1>4, <2>1, PageType, KindOfRecords DEF UpsertWrites, TypeOK
  <2> QED
    BY <1>0, <1>4, <2>3, <2>4, <2>5, <2>6 DEF UpsertWrites, TypeOK, Kinds
<1>5. CASE DepthsRead
  <2>1. PICK f \in Loaded("archiver", "comments") :
          archiver' = [Idle EXCEPT !.op = "depths", !.kind = "comments", !.held = f]
    BY <1>5 DEF DepthsRead
  <2>2. f \in FileOf("comments")
    BY LoadedType DEF Kinds
  <2>3. archiver' = [op |-> "depths", kind |-> "comments", held |-> f, page |-> NoFile]
    BY <2>1 DEF Idle, Off
  <2> QED
    BY <1>5, <2>2, <2>3 DEF DepthsRead, TypeOK, Kinds
<1>6. CASE DepthsWrite
  <2>1. archiver.held \in FileOf(archiver.kind)
    BY DEF TypeOK
  <2>2. /\ \A j \in Kinds : file'[j] \in FileOf(j)
        /\ stale' \subseteq Programs \X Kinds /\ crossed' \subseteq Kinds
    BY <1>6, <2>1, ReplaceType DEF DepthsWrite, TypeOK, Programs
  <2>3. DOMAIN file' = Kinds
    BY <1>6 DEF DepthsWrite, Replace, TypeOK
  <2>4. archiver' = [op |-> "idle", kind |-> "posts", held |-> NoFile, page |-> NoFile]
    BY <1>6 DEF DepthsWrite, Idle, Off
  <2> QED
    BY <1>0, <1>6, <2>2, <2>3, <2>4 DEF DepthsWrite, TypeOK, Kinds
<1>7. CASE ArchiverStops
  <2>1. archiver' = [op |-> "off", kind |-> "posts", held |-> NoFile, page |-> NoFile]
    BY <1>7 DEF ArchiverStops, Off
  <2> QED
    BY <1>0, <1>7, <2>1 DEF ArchiverStops, Drop, TypeOK, Kinds
<1>8. CASE FilterReadsPosts
  <2>1. PICK f \in Loaded("filter", "posts") :
          filter' = [filter EXCEPT !.at = "scan", !.posts = Scan(f)]
    BY <1>8 DEF FilterReadsPosts
  <2>2. Scan(f) \in FileOf("posts")
    BY LoadedType, ScanKeeps DEF Kinds
  <2> QED
    BY <1>8, <2>1, <2>2 DEF FilterReadsPosts, TypeOK
<1>9. CASE FilterReadsComments
  <2>1. PICK f \in Loaded("filter", "comments") :
          filter' = [filter EXCEPT !.at = "posts", !.comments = Scan(f)]
    BY <1>9 DEF FilterReadsComments
  <2>2. Scan(f) \in FileOf("comments")
    BY LoadedType, ScanKeeps DEF Kinds
  <2> QED
    BY <1>9, <2>1, <2>2 DEF FilterReadsComments, TypeOK
<1>10. ASSUME NEW k \in Kinds, NEW f \in FileOf(k), WriteBack(k, f)
       PROVE  /\ DOMAIN file' = Kinds
              /\ \A j \in Kinds : file'[j] \in FileOf(j)
              /\ stale' \subseteq Programs \X Kinds /\ crossed' \subseteq Kinds
  <2>1. CASE f = NoFile
    BY <1>10, <2>1 DEF WriteBack, TypeOK
  <2>2. CASE f # NoFile
    <3>1. Replace("filter", k, f) /\ "filter" \in Programs
      BY <1>10, <2>2 DEF WriteBack, Programs
    <3> QED
      BY <3>1, ReplaceType DEF Replace, TypeOK
  <2> QED
    BY <2>1, <2>2
<1>11. CASE FilterWritesPosts
  <2>1. WriteBack("posts", filter.posts) /\ filter.posts \in FileOf("posts") /\ "posts" \in Kinds
    BY <1>11 DEF FilterWritesPosts, TypeOK, Kinds
  <2>2. /\ DOMAIN file' = Kinds
        /\ \A j \in Kinds : file'[j] \in FileOf(j)
        /\ stale' \subseteq Programs \X Kinds /\ crossed' \subseteq Kinds
    BY <1>10, <2>1
  <2> QED
    BY <1>11, <2>2 DEF FilterWritesPosts, TypeOK
<1>12. CASE FilterWritesComments
  <2>1. /\ WriteBack("comments", filter.comments)
        /\ filter.comments \in FileOf("comments") /\ "comments" \in Kinds
    BY <1>12 DEF FilterWritesComments, TypeOK, Kinds
  <2>2. /\ DOMAIN file' = Kinds
        /\ \A j \in Kinds : file'[j] \in FileOf(j)
        /\ stale' \subseteq Programs \X Kinds /\ crossed' \subseteq Kinds
    BY <1>10, <2>1
  <2> QED
    BY <1>12, <2>2 DEF FilterWritesComments, TypeOK
<1>13. CASE FilterExports
  <2>1. Flagged(filter.posts) \subseteq Posts /\ Flagged(filter.comments) \subseteq Comments
    BY FileType, KindOfRecords DEF Flagged, TypeOK
  <2>2. exported' \subseteq Records
    BY <1>13, <2>1 DEF FilterExports, Records
  <2> QED
    BY <1>0, <1>13, <2>2 DEF FilterExports, Drop, NoScan, TypeOK
<1>14. CASE FilterCrashes
  BY <1>0, <1>14 DEF FilterCrashes, Drop, NoScan, TypeOK
<1> QED
  BY <1>1, <1>2, <1>3, <1>4, <1>5, <1>6, <1>7, <1>8, <1>9, <1>11, <1>12, <1>13, <1>14 DEF Next

(* Files, programs and history always have their types, also after reads   *)
(* that failed.                                                            *)
THEOREM TypeCorrect == Spec => []TypeOK
BY InitType, NextType, PTL DEF Spec

-----------------------------------------------------------------------------
(* What a step does to the files *)

(* A program that replaces a file by its current copy, with something      *)
(* added, keeps what the file has; with an older copy it crosses the file. *)
Crosses(k) == k \in crossed'

LEMMA ArchiverReplaces ==
    ASSUME TypeOK, CopiesCurrent, NEW f, archiver.op \in {"upsert", "depths"},
           Kept(archiver.held, f), Replace("archiver", archiver.kind, f)
    PROVE  /\ \A k \in Kinds : Crosses(k) \/ Kept(file[k], file'[k])
           /\ \A k \in Kinds : k # archiver.kind => file'[k] = file[k]
           /\ file'[archiver.kind] = f
           /\ crossed \subseteq crossed'
           /\ Holds("filter", archiver.kind) => <<"filter", archiver.kind>> \in stale'
           /\ \A k \in Kinds : k # archiver.kind =>
                (<<"filter", k>> \in stale' <=> <<"filter", k>> \in stale)
<1> DEFINE j == archiver.kind
<1>1. j \in Kinds /\ file'[j] = f /\ \A k \in Kinds : k # j => file'[k] = file[k]
  BY DEF Replace, TypeOK
<1>2. <<"archiver", j>> \in stale => Crosses(j)
  BY DEF Replace, Crosses
<1>3. <<"archiver", j>> \notin stale => Kept(file[j], file'[j])
  BY <1>1 DEF CopiesCurrent, Holds
<1>6. \A k \in Kinds : Crosses(k) \/ Kept(file[k], file'[k])
  <2> SUFFICES ASSUME NEW k \in Kinds PROVE Crosses(k) \/ Kept(file[k], file'[k])
    OBVIOUS
  <2>1. k # j => Kept(file[k], file'[k])
    BY <1>1, KeptSame
  <2> QED
    BY <2>1, <1>2, <1>3
<1>4. crossed \subseteq crossed'
  BY DEF Replace
<1>5. /\ Holds("filter", j) => <<"filter", j>> \in stale'
      /\ \A k \in Kinds : k # j => (<<"filter", k>> \in stale' <=> <<"filter", k>> \in stale)
  BY <1>1 DEF Replace, Programs
<1> QED
  BY <1>1, <1>4, <1>5, <1>6

LEMMA FilterReplaces ==
    ASSUME TypeOK, NEW k \in Kinds, NEW f \in FileOf(k), Holds("filter", k),
           <<"filter", k>> \in stale \/ f \in {NoFile, Scan(file[k])},
           WriteBack(k, f)
    PROVE  /\ \A i \in Kinds : Crosses(i) \/ Kept(file[i], file'[i])
           /\ \A i \in Kinds : i # k => file'[i] = file[i]
           /\ Crosses(k) \/ Flagged(f) \subseteq Flagged(file'[k])
           /\ crossed \subseteq crossed'
           /\ Holds("archiver", k) => <<"archiver", k>> \in stale' \/ file'[k] = file[k]
           /\ \A i \in Kinds : i # k \/ f = NoFile =>
                \A q \in Programs : <<q, i>> \in stale' <=> <<q, i>> \in stale
<1>1. CASE f = NoFile
  BY <1>1, KeptSame, EmptyFile DEF WriteBack
<1>2. CASE f # NoFile
  <2>1. Replace("filter", k, f)
    BY <1>2 DEF WriteBack
  <2>2. file'[k] = f /\ \A i \in Kinds : i # k => file'[i] = file[i]
    BY <2>1 DEF Replace, TypeOK
  <2>3. <<"filter", k>> \in stale => Crosses(k)
    BY <2>1 DEF Replace, Crosses
  <2>4. <<"filter", k>> \notin stale => Kept(file[k], file'[k])
    <3> SUFFICES ASSUME <<"filter", k>> \notin stale PROVE Kept(file[k], file'[k])
      OBVIOUS
    <3>1. f = Scan(file[k]) /\ file[k] \in FileOf(k)
      BY <1>2 DEF TypeOK
    <3>2. Kept(file[k], f)
      BY <3>1, ScanKeeps
    <3> QED
      BY <2>2, <3>2
  <2>7. \A i \in Kinds : Crosses(i) \/ Kept(file[i], file'[i])
    <3> SUFFICES ASSUME NEW i \in Kinds PROVE Crosses(i) \/ Kept(file[i], file'[i])
      OBVIOUS
    <3>1. i # k => Kept(file[i], file'[i])
      BY <2>2, KeptSame
    <3> QED
      BY <3>1, <2>3, <2>4
  <2>5. crossed \subseteq crossed'
    BY <2>1 DEF Replace
  <2>6. /\ Holds("archiver", k) => <<"archiver", k>> \in stale'
        /\ \A i \in Kinds : i # k =>
             \A q \in Programs : <<q, i>> \in stale' <=> <<q, i>> \in stale
    BY <2>1 DEF Replace, Programs
  <2> QED
    BY <1>2, <2>2, <2>5, <2>6, <2>7
<1> QED
  BY <1>1, <1>2

(* Both of them, for what the archiver writes and the filter writes.       *)
LEMMA UpsertWritesWhat ==
    ASSUME TypeOK, UpsertWrites
    PROVE  /\ Kept(archiver.held, Merged(archiver.held, archiver.page))
           /\ DOMAIN archiver.page \subseteq DOMAIN Merged(archiver.held, archiver.page)
           /\ DOMAIN archiver.page \subseteq RecordsOf(archiver.kind)
           /\ archiver.kind \in Kinds /\ archiver.op \in {"upsert", "depths"}
<1>1. /\ archiver.held \in FileOf(archiver.kind) /\ archiver.page \in PageOf(archiver.kind)
      /\ now \in 0 .. MaxClock /\ archiver.kind \in Kinds /\ archiver.op = "upsert"
  BY DEF TypeOK, UpsertWrites
<1> QED
  BY <1>1, MergedKeeps, PageType

LEMMA DepthsWriteWhat ==
    ASSUME TypeOK, DepthsWrite
    PROVE  /\ Kept(archiver.held, archiver.held)
           /\ archiver.kind \in Kinds /\ archiver.op \in {"upsert", "depths"}
<1>1. archiver.held \in FileOf(archiver.kind) /\ archiver.kind \in Kinds /\ archiver.op = "depths"
  BY DEF TypeOK, DepthsWrite
<1> QED
  BY <1>1, KeptSame

LEMMA FilterWritesWhat ==
    ASSUME TypeOK, CopiesCurrent
    PROVE  /\ FilterWritesPosts =>
                /\ "posts" \in Kinds /\ filter.posts \in FileOf("posts")
                /\ Holds("filter", "posts")
                /\ <<"filter", "posts">> \in stale \/ filter.posts \in {NoFile, Scan(file["posts"])}
           /\ FilterWritesComments =>
                /\ "comments" \in Kinds /\ filter.comments \in FileOf("comments")
                /\ Holds("filter", "comments")
                /\ \/ <<"filter", "comments">> \in stale
                   \/ filter.comments \in {NoFile, Scan(file["comments"])}
  BY DEF TypeOK, CopiesCurrent, Kinds, Holds, FilterWritesPosts, FilterWritesComments

(* No step takes a record, its fetched_at or its flag from a file that is  *)
(* not crossed, and crossed files stay so.                                 *)
LEMMA StepKeeps ==
    ASSUME TypeOK, CopiesCurrent, [Next]_vars
    PROVE  /\ \A k \in Kinds : Crosses(k) \/ Kept(file[k], file'[k])
           /\ crossed \subseteq crossed'
<1>1. CASE UpsertWrites
  BY <1>1, UpsertWritesWhat, ArchiverReplaces DEF UpsertWrites
<1>2. CASE DepthsWrite
  BY <1>2, DepthsWriteWhat, ArchiverReplaces DEF DepthsWrite
<1>3. CASE FilterWritesPosts
  BY <1>3, FilterWritesWhat, FilterReplaces DEF FilterWritesPosts
<1>4. CASE FilterWritesComments
  BY <1>4, FilterWritesWhat, FilterReplaces DEF FilterWritesComments
<1>5. CASE UNCHANGED <<file, crossed>>
  BY <1>5, KeptSame
<1>6. \/ UpsertWrites \/ DepthsWrite \/ FilterWritesPosts \/ FilterWritesComments
      \/ UNCHANGED <<file, crossed>>
  BY DEF Next, vars, history, Drop, ArchiverStarts, UpsertReads, DepthsRead, ArchiverStops,
         FilterReadsPosts, FilterReadsComments, FilterExports, FilterCrashes
<1> QED
  BY <1>1, <1>2, <1>3, <1>4, <1>5, <1>6

-----------------------------------------------------------------------------
(* Copies *)

LEMMA CopiesStayCurrent ==
    ASSUME TypeOK, CopiesCurrent, ArchiverReads, [Next]_vars
    PROVE  CopiesCurrent'
<1> USE DEF history
<1>0. "posts" \in Kinds /\ "comments" \in Kinds /\ "archiver" \in Programs /\ "filter" \in Programs
  BY DEF Kinds, Programs
<1>1. CASE UNCHANGED vars
  BY <1>1 DEF CopiesCurrent, Holds, vars
<1>2. CASE ArchiverStarts
  BY <1>2 DEF ArchiverStarts, CopiesCurrent, Holds, Idle, Off
<1>3. CASE UpsertReads
  <2>1. PICK k \in Kinds : \E f \in Loaded("archiver", k), P \in PageOf(k) :
          archiver' = [op |-> "upsert", kind |-> k, held |-> f, page |-> P]
    BY <1>3 DEF UpsertReads
  <2>2. PICK f \in Loaded("archiver", k), P \in PageOf(k) :
          archiver' = [op |-> "upsert", kind |-> k, held |-> f, page |-> P]
    BY <2>1
  <2>3. f = file[k]
    BY DEF Loaded, ArchiverReads
  <2> QED
    BY <1>3, <2>2, <2>3 DEF UpsertReads, CopiesCurrent, Holds
<1>4. CASE DepthsRead
  <2>1. PICK f \in Loaded("archiver", "comments") :
          archiver' = [Idle EXCEPT !.op = "depths", !.kind = "comments", !.held = f]
    BY <1>4 DEF DepthsRead
  <2>2. f = file["comments"]
    BY DEF Loaded, ArchiverReads
  <2> QED
    BY <1>4, <2>1, <2>2 DEF DepthsRead, CopiesCurrent, Holds, Idle, Off
<1>5. ASSUME UpsertWrites \/ DepthsWrite
      PROVE  CopiesCurrent'
  <2>1. archiver' = Idle /\ UNCHANGED filter
    BY <1>5 DEF UpsertWrites, DepthsWrite
  <2>2. /\ \A k \in Kinds : k # archiver.kind => file'[k] = file[k]
        /\ Holds("filter", archiver.kind) => <<"filter", archiver.kind>> \in stale'
        /\ \A k \in Kinds : k # archiver.kind =>
             (<<"filter", k>> \in stale' <=> <<"filter", k>> \in stale)
    BY <1>5, UpsertWritesWhat, DepthsWriteWhat, ArchiverReplaces DEF UpsertWrites, DepthsWrite
  <2> QED
    BY <1>0, <2>1, <2>2 DEF CopiesCurrent, Holds, Idle, Off
<1>6. CASE ArchiverStops
  BY <1>6 DEF ArchiverStops, CopiesCurrent, Holds, Drop, Off, Programs, Kinds
<1>7. CASE FilterReadsPosts
  <2>1. PICK f \in Loaded("filter", "posts") :
          filter' = [filter EXCEPT !.at = "scan", !.posts = Scan(f)]
    BY <1>7 DEF FilterReadsPosts
  <2>2. Scan(f) \in {NoFile, Scan(file["posts"])}
    BY DEF Loaded, Scan, NoFile
  <2> QED
    BY <1>7, <2>1, <2>2 DEF FilterReadsPosts, CopiesCurrent, Holds, TypeOK
<1>8. CASE FilterReadsComments
  <2>1. PICK f \in Loaded("filter", "comments") :
          filter' = [filter EXCEPT !.at = "posts", !.comments = Scan(f)]
    BY <1>8 DEF FilterReadsComments
  <2>2. Scan(f) \in {NoFile, Scan(file["comments"])}
    BY DEF Loaded, Scan, NoFile
  <2> QED
    BY <1>8, <2>1, <2>2 DEF FilterReadsComments, CopiesCurrent, Holds, TypeOK
<1>9. CASE FilterWritesPosts
  <2>1. /\ file'["comments"] = file["comments"]
        /\ Holds("archiver", "posts") => <<"archiver", "posts">> \in stale' \/ file'["posts"] = file["posts"]
        /\ filter.posts = NoFile => stale' = stale /\ file' = file
        /\ \A q \in Programs : <<q, "comments">> \in stale' <=> <<q, "comments">> \in stale
    BY <1>0, <1>9, FilterWritesWhat, FilterReplaces DEF FilterWritesPosts, WriteBack
  <2> QED
    BY <1>0, <1>9, <2>1 DEF FilterWritesPosts, CopiesCurrent, Holds, TypeOK, Kinds, WriteBack, Replace
<1>10. CASE FilterWritesComments
  <2>1. /\ file'["posts"] = file["posts"]
        /\ Holds("archiver", "comments") => <<"archiver", "comments">> \in stale' \/ file'["comments"] = file["comments"]
        /\ \A q \in Programs : <<q, "posts">> \in stale' <=> <<q, "posts">> \in stale
    BY <1>0, <1>10, FilterWritesWhat, FilterReplaces DEF FilterWritesComments
  <2> QED
    BY <1>0, <1>10, <2>1 DEF FilterWritesComments, CopiesCurrent, Holds, TypeOK, Kinds, WriteBack, Replace
<1>11. CASE FilterExports \/ FilterCrashes
  BY <1>11 DEF FilterExports, FilterCrashes, CopiesCurrent, Holds, Drop, NoScan, TypeOK, Programs
<1> QED
  BY <1>1, <1>2, <1>3, <1>4, <1>5, <1>6, <1>7, <1>8, <1>9, <1>10, <1>11 DEF Next

-----------------------------------------------------------------------------
(* Files, flags and the workbook *)

LEMMA UncrossedBefore ==
    ASSUME crossed \subseteq crossed', NEW k \in Kinds, k \in Uncrossed'
    PROVE  k \in Uncrossed /\ ~Crosses(k)
  BY DEF Uncrossed, Crosses

LEMMA RecordsStayKept ==
    ASSUME TypeOK, CopiesCurrent, RecordsKept, [Next]_vars
    PROVE  RecordsKept'
<1> SUFFICES ASSUME NEW k \in Uncrossed'
             PROVE  upserted' \cap RecordsOf(k) \subseteq DOMAIN file'[k]
  BY DEF RecordsKept
<1>1. k \in Kinds /\ k \in Uncrossed /\ Kept(file[k], file'[k])
  BY StepKeeps, UncrossedBefore DEF Uncrossed
<1>2. upserted \cap RecordsOf(k) \subseteq DOMAIN file'[k]
  BY <1>1, KeptFlags DEF RecordsKept
<1>3. CASE UpsertWrites
  <2>1. file'[archiver.kind] = Merged(archiver.held, archiver.page)
    BY <1>3, UpsertWritesWhat, ArchiverReplaces DEF UpsertWrites
  <2>2. upserted' = upserted \cup DOMAIN archiver.page
    BY <1>3 DEF UpsertWrites
  <2>3. DOMAIN archiver.page \cap RecordsOf(k) \subseteq DOMAIN file'[k]
    <3>1. CASE k = archiver.kind
      BY <1>3, <2>1, <3>1, UpsertWritesWhat
    <3>2. CASE k # archiver.kind
      <4>1. RecordsOf(archiver.kind) \cap RecordsOf(k) = {}
        BY <1>1, <1>3, <3>2, UpsertWritesWhat, StoreAssumption DEF RecordsOf, Kinds
      <4> QED
        BY <1>3, <4>1, UpsertWritesWhat
    <3> QED
      BY <3>1, <3>2
  <2> QED
    BY <1>2, <2>2, <2>3
<1>4. CASE upserted' = upserted
  BY <1>2, <1>4
<1>5. UpsertWrites \/ upserted' = upserted
  BY DEF Next, vars, history, Drop, ArchiverStarts, UpsertReads, DepthsRead, DepthsWrite,
         ArchiverStops, FilterReadsPosts, FilterReadsComments, FilterWritesPosts,
         FilterWritesComments, FilterExports, FilterCrashes
<1> QED
  BY <1>3, <1>4, <1>5

(* What the filter wrote is flagged until it exports it.                   *)
LEMMA WrittenStaysFlagged ==
    ASSUME TypeOK, CopiesCurrent, WrittenIsFlagged, [Next]_vars
    PROVE  WrittenIsFlagged'
<1>0. "posts" \in Kinds /\ "comments" \in Kinds
  BY DEF Kinds
<1>1. /\ "posts" \in Uncrossed' => "posts" \in Uncrossed /\ ~Crosses("posts")
      /\ "comments" \in Uncrossed' => "comments" \in Uncrossed /\ ~Crosses("comments")
      /\ "posts" \in Uncrossed' => Flagged(file["posts"]) \subseteq Flagged(file'["posts"])
      /\ "comments" \in Uncrossed' => Flagged(file["comments"]) \subseteq Flagged(file'["comments"])
  BY <1>0, StepKeeps, UncrossedBefore, KeptFlags
<1>2. CASE filter' = filter
  BY <1>1, <1>2 DEF WrittenIsFlagged
<1>3. CASE filter'.at \in {"off", "scan", "posts"}
  BY <1>3 DEF WrittenIsFlagged
<1>4. CASE FilterWritesPosts
  <2>1. filter'.at = "comments" /\ filter'.posts = filter.posts
    BY <1>4 DEF FilterWritesPosts, TypeOK
  <2>2. Crosses("posts") \/ Flagged(filter.posts) \subseteq Flagged(file'["posts"])
    BY <1>4, FilterWritesWhat, FilterReplaces DEF FilterWritesPosts
  <2> QED
    BY <1>1, <2>1, <2>2 DEF WrittenIsFlagged
<1>5. CASE FilterWritesComments
  <2>1. /\ filter.at = "comments" /\ filter'.at = "export"
        /\ filter'.posts = filter.posts /\ filter'.comments = filter.comments
    BY <1>5 DEF FilterWritesComments, TypeOK
  <2>2. Crosses("comments") \/ Flagged(filter.comments) \subseteq Flagged(file'["comments"])
    BY <1>5, FilterWritesWhat, FilterReplaces DEF FilterWritesComments
  <2> QED
    BY <1>1, <2>1, <2>2 DEF WrittenIsFlagged
<1>6. \/ filter' = filter \/ filter'.at \in {"off", "scan", "posts"}
      \/ FilterWritesPosts \/ FilterWritesComments
  <2>1. FilterReadsPosts => filter'.at = "scan"
    BY DEF FilterReadsPosts, TypeOK
  <2>2. FilterReadsComments => filter'.at = "posts"
    BY DEF FilterReadsComments, TypeOK
  <2>3. FilterExports \/ FilterCrashes => filter'.at = "off"
    BY DEF FilterExports, FilterCrashes, NoScan
  <2> QED
    BY <2>1, <2>2, <2>3 DEF Next, vars, ArchiverStarts, UpsertReads, UpsertWrites, DepthsRead,
       DepthsWrite, ArchiverStops
<1> QED
  BY <1>2, <1>3, <1>4, <1>5, <1>6

LEMMA ExportStaysOnDisk ==
    ASSUME TypeOK, CopiesCurrent, WrittenIsFlagged, ExportIsOnDisk, [Next]_vars
    PROVE  ExportIsOnDisk'
<1> SUFFICES ASSUME NEW k \in Uncrossed'
             PROVE  exported' \cap RecordsOf(k) \subseteq Flagged(file'[k])
  BY DEF ExportIsOnDisk, Flagged
<1>1. k \in Kinds /\ k \in Uncrossed /\ Flagged(file[k]) \subseteq Flagged(file'[k])
  BY StepKeeps, UncrossedBefore, KeptFlags DEF Uncrossed
<1>2. CASE FilterExports
  <2>1. /\ filter.at = "export" /\ file' = file
        /\ exported' = Flagged(filter.posts) \cup Flagged(filter.comments)
    BY <1>2 DEF FilterExports
  <2>2. Flagged(filter.posts) \subseteq Posts /\ Flagged(filter.comments) \subseteq Comments
    BY FileType, KindOfRecords DEF Flagged, TypeOK
  <2>3. CASE k = "posts"
    BY <1>1, <2>1, <2>2, <2>3, KindOfRecords, StoreAssumption DEF WrittenIsFlagged
  <2>4. CASE k = "comments"
    BY <1>1, <2>1, <2>2, <2>4, KindOfRecords, StoreAssumption DEF WrittenIsFlagged
  <2> QED
    BY <1>1, <2>3, <2>4 DEF Kinds
<1>3. CASE exported' = exported
  BY <1>1, <1>3 DEF ExportIsOnDisk
<1>4. FilterExports \/ exported' = exported
  BY DEF Next, vars, ArchiverStarts, UpsertReads, UpsertWrites, DepthsRead, DepthsWrite,
         ArchiverStops, FilterReadsPosts, FilterReadsComments, FilterWritesPosts,
         FilterWritesComments, FilterCrashes
<1> QED
  BY <1>2, <1>3, <1>4

-----------------------------------------------------------------------------
(* The theorems *)

LEMMA StoreInit == Init => StoreInv
<1> SUFFICES ASSUME Init PROVE StoreInv
  OBVIOUS
<1>1. TypeOK
  BY InitType
<1>2. archiver.op = "off" /\ filter.at = "off" /\ upserted = {} /\ exported = {}
  BY DEF Init, Off, NoScan
<1>3. CopiesCurrent /\ WrittenIsFlagged
  BY <1>2 DEF CopiesCurrent, WrittenIsFlagged, Holds
<1>4. RecordsKept /\ ExportIsOnDisk
  BY <1>2 DEF RecordsKept, ExportIsOnDisk
<1> QED
  BY <1>1, <1>3, <1>4 DEF StoreInv

LEMMA StoreNext == ArchiverReads /\ StoreInv /\ [Next]_vars => StoreInv'
  BY NextType, CopiesStayCurrent, WrittenStaysFlagged, RecordsStayKept, ExportStaysOnDisk
     DEF StoreInv

(* The inductive invariant: a program's copy is what the file holds, or is *)
(* known to be older, and what the filter wrote back is flagged on disk.   *)
THEOREM StoreInvariant == ASSUME ArchiverReads PROVE Spec => []StoreInv
BY StoreInit, StoreNext, PTL DEF Spec

(* What an upsert stored is never lost from a file that no older copy      *)
(* replaced, whatever the two programs interleave and wherever they die    *)
(* (storage.py upsert, keyword_filter.py write-back).                      *)
THEOREM RecordsAreKept == ASSUME ArchiverReads PROVE Spec => []RecordsKept
<1>1. StoreInv => RecordsKept
  BY DEF StoreInv
<1> QED
  BY <1>1, StoreInvariant, PTL

(* Every row of the workbook stays flagged in the files (keyword_filter.py *)
(* writes both files before it exports).                                   *)
THEOREM ExportsAreOnDisk == ASSUME ArchiverReads PROVE Spec => []ExportIsOnDisk
<1>1. StoreInv => ExportIsOnDisk
  BY DEF StoreInv
<1> QED
  BY <1>1, StoreInvariant, PTL

LEMMA StepKeepsFetchedAndFlags ==
    ASSUME StoreInv, Next
    PROVE  /\ \A k \in Uncrossed' : \A r \in DOMAIN file[k] :
                r \in DOMAIN file'[k] /\ file'[k][r].fetched = file[k][r].fetched
           /\ \A k \in Uncrossed' : \A r \in Flagged(file[k]) : r \in Flagged(file'[k])
<1>1. ASSUME NEW k \in Uncrossed'
      PROVE  Kept(file[k], file'[k])
  BY StepKeeps, UncrossedBefore DEF StoreInv, Uncrossed
<1> QED
  BY <1>1, KeptFlags DEF Kept

(* "fetched_at is preserved from the first insert" by every later step of  *)
(* either program (storage.py _merge).                                     *)
THEOREM FetchedAtIsKept == ASSUME ArchiverReads PROVE Spec => FetchedAtKept
<1>1. StoreInv /\ [Next]_vars =>
        [\A k \in Uncrossed' : \A r \in DOMAIN file[k] :
           r \in DOMAIN file'[k] /\ file'[k][r].fetched = file[k][r].fetched]_vars
  BY StepKeepsFetchedAndFlags
<1> QED
  BY <1>1, StoreInvariant, PTL DEF Spec, FetchedAtKept

(* A flag the filter set is never taken away by a refresh of the record    *)
(* (storage.py _merge: "the filter can own them").                         *)
THEOREM FlagsAreKept == ASSUME ArchiverReads PROVE Spec => FlagsKept
<1>1. StoreInv /\ [Next]_vars =>
        [\A k \in Uncrossed' : \A r \in Flagged(file[k]) : r \in Flagged(file'[k])]_vars
  BY StepKeepsFetchedAndFlags
<1> QED
  BY <1>1, StoreInvariant, PTL DEF Spec, FlagsKept
=============================================================================
