---------------------------- MODULE BatchProofs -----------------------------
(***************************************************************************)
(* Theorems about Batch, for any list of entries, any number of launches   *)
(* and any clock: what a batch tells the manager, by its exit code, by     *)
(* gata.txt and by its callbacks, agrees with the folders on disk.         *)
(***************************************************************************)
EXTENDS Batch, SequenceTheorems, TLAPS

-----------------------------------------------------------------------------
(* The stages of a batch; nothing is assumed of the entries *)

Opened(e) == folder[e] # NoFolder

(* Which stages have an entry, and which have its folder.                  *)
StagesInOrder ==
    /\ pc \in {"prepare", "archive", "export", "mark", "post", "status", "fail"} => at \in Jobs
    /\ pc \in {"archive", "export", "mark", "post", "status"} => Opened(at)
    /\ pc \in {"post", "status"} => disk[Here].flag
    /\ pc = "start" => at = 1
    /\ pc # "exited" => exit = "none"
    /\ pc = "exited" /\ ~shutdown => Jobs = {} \/ at > Len(Entries)

(* An open folder is that of an entry the batch is past, or at, and bears  *)
(* the entry's id and a time that was.                                     *)
FoldersInOrder ==
    \A e \in Jobs : Opened(e) =>
      /\ folder[e] \in Names
      /\ folder[e][1] = Entries[e].id
      /\ folder[e][2] <= now
      /\ e < at \/ (e = at /\ pc \notin {"start", "entry", "prepare", "exited"})

(* The entries the batch is past, and no others, have had a status sent.   *)
VerdictsInOrder ==
    \A e \in Jobs :
      /\ tried[e] # {} => e < at
      /\ e < at /\ StatusUrl /\ Entries[e].id \in Numeric => tried[e] # {}

StageInv ==
    /\ TypeOK
    /\ StagesInOrder
    /\ FoldersInOrder
    /\ VerdictsInOrder
    /\ ReportsAreBacked

(* Constants. *)
LEMMA EntryType ==
    /\ Len(Entries) \in Nat
    /\ MaxSeconds \in Nat
    /\ \A e \in Jobs : e \in Nat /\ e >= 1 /\ e <= Len(Entries)
    /\ \A e \in Jobs : Entries[e].id \in Ids /\ Entries[e].good \in BOOLEAN
    /\ \A f \in Names : f # NoFolder /\ f[1] \in Ids /\ f[2] \in Nat /\ f = <<f[1], f[2]>>
<1>1. Entries \in Seq([id : Ids, good : BOOLEAN, capped : BOOLEAN])
  BY BatchAssumption
<1>2. \A e \in Jobs : Entries[e] \in [id : Ids, good : BOOLEAN, capped : BOOLEAN]
  BY <1>1, ElementOfSeq DEF Jobs
<1>3. \A f \in Names : f # NoFolder /\ f[1] \in Ids /\ f[2] \in Nat /\ f = <<f[1], f[2]>>
  BY BatchAssumption DEF Names, Seconds
<1> QED
  BY <1>1, <1>2, <1>3, BatchAssumption DEF Jobs

(* The folder of the entry in hand. *)
LEMMA HereType ==
    ASSUME TypeOK, at \in Jobs, Opened(at)
    PROVE  Here \in Names /\ disk[Here] \in Content
  BY DEF TypeOK, Opened, Here

LEMMA StartType == Init => TypeOK
<1> SUFFICES ASSUME Init PROVE TypeOK
  OBVIOUS
<1>1. Empty \in Content
  BY DEF Empty, Content, Nothing, Some, Whole, NotExported
<1>2. disk \in [Names -> Content]
  BY <1>1 DEF Init
<1>3. /\ folder \in [Jobs -> Names \cup {NoFolder}]
      /\ tried \in [Jobs -> SUBSET {"DONE", "FAILED"}]
      /\ told \in [Jobs -> {"none", "DONE", "FAILED"}]
  BY DEF Init
<1>4. now \in Seconds /\ launch \in 1 .. MaxLaunches /\ at \in 1 .. Len(Entries) + 1
  BY EntryType, BatchAssumption DEF Init, Seconds
<1> QED
  BY <1>2, <1>3, <1>4 DEF Init, TypeOK

LEMMA StageStart == Init => StageInv
<1> SUFFICES ASSUME Init PROVE StageInv
  OBVIOUS
<1>1. TypeOK
  BY StartType
<1>2. StagesInOrder
  BY DEF Init, StagesInOrder
<1>3. FoldersInOrder
  BY DEF Init, FoldersInOrder, Opened
<1>4. VerdictsInOrder
  BY EntryType DEF Init, VerdictsInOrder
<1>5. ReportsAreBacked
  BY DEF Init, ReportsAreBacked
<1> QED
  BY <1>1, <1>2, <1>3, <1>4, <1>5 DEF StageInv

(* A folder whose content is replaced by c. *)
LEMMA FolderChanges ==
    ASSUME TypeOK, NEW f \in Names, NEW c \in Content, disk' = [disk EXCEPT ![f] = c],
           disk[f].flag => c.flag
    PROVE  /\ disk' \in [Names -> Content]
           /\ \A g \in Names : disk[g].flag => disk'[g].flag
           /\ c.flag = disk[f].flag => \A g \in Names : disk'[g].flag = disk[g].flag
           /\ \A g \in Names : g # f => disk'[g] = disk[g]
<1>1. disk \in [Names -> Content]
  BY DEF TypeOK
<1>2. \A g \in Names : disk'[g] = IF g = f THEN c ELSE disk[g]
  BY <1>1
<1> QED
  BY <1>1, <1>2

(* What a step does to the folders: contents stay contents, and no flag is *)
(* taken away.                                                             *)
LEMMA FlagsStay ==
    ASSUME TypeOK, StagesInOrder, [Next]_vars
    PROVE  /\ disk' \in [Names -> Content]
           /\ \A f \in Names : disk[f].flag => disk'[f].flag
           /\ Mark \/ \A f \in Names : disk'[f].flag = disk[f].flag
           /\ \A f \in Names : disk'[f] # disk[f] =>
                \/ f = Here /\ (Archive \/ Export \/ Mark)
                \/ f \in orphans /\ OrphanStores
<1>1. CASE disk' = disk
  BY <1>1 DEF TypeOK
<1>2. CASE Archive
  <2>1. Here \in Names /\ disk[Here] \in Content
    BY <1>2, HereType DEF Archive, StagesInOrder
  <2> DEFINE c == [disk[Here] EXCEPT !.level = disk[Here].level + 1]
  <2>2. disk' = [disk EXCEPT ![Here] = c]
    BY <1>2 DEF Archive
  <2>3. c \in Content /\ c.flag = disk[Here].flag
    BY <1>2, <2>1 DEF Archive, Content, Nothing, Some, Whole
  <2> QED
    BY <1>2, <2>1, <2>2, <2>3, FolderChanges
<1>3. CASE Export
  <2>1. Here \in Names /\ disk[Here] \in Content
    BY <1>3, HereType DEF Export, StagesInOrder
  <2> DEFINE c == [disk[Here] EXCEPT !.exported = disk[Here].level]
  <2>2. disk' = [disk EXCEPT ![Here] = c]
    BY <1>3 DEF Export
  <2>3. c \in Content /\ c.flag = disk[Here].flag
    BY <2>1 DEF Content, Nothing, Some, Whole
  <2> QED
    BY <1>3, <2>1, <2>2, <2>3, FolderChanges
<1>4. CASE Mark
  <2>1. Here \in Names /\ disk[Here] \in Content
    BY <1>4, HereType DEF Mark, StagesInOrder
  <2> DEFINE c == [disk[Here] EXCEPT !.flag = TRUE]
  <2>2. disk' = [disk EXCEPT ![Here] = c]
    BY <1>4 DEF Mark
  <2>3. c \in Content /\ c.flag
    BY <2>1 DEF Content
  <2> QED
    BY <1>4, <2>1, <2>2, <2>3, FolderChanges
<1>5. CASE OrphanStores
  <2>1. PICK f \in orphans :
          disk' = [disk EXCEPT ![f].level = IF @ = Nothing THEN Some ELSE @]
    BY <1>5 DEF OrphanStores
  <2>2. f \in Names /\ disk[f] \in Content
    BY DEF TypeOK
  <2> DEFINE c == [disk[f] EXCEPT !.level = IF disk[f].level = Nothing THEN Some ELSE disk[f].level]
  <2>3. disk' = [disk EXCEPT ![f] = c]
    BY <2>1
  <2>4. c \in Content /\ c.flag = disk[f].flag
    BY <2>2 DEF Content, Nothing, Some, Whole
  <2> QED
    BY <1>5, <2>2, <2>3, <2>4, FolderChanges
<1>6. disk' = disk \/ Archive \/ Export \/ Mark \/ OrphanStores
  BY DEF Next, Proceed, vars, LoadEnv, EndBatch, SkipTheRest, Begin, Refuse, Raise, Prepare,
         RunnerReturns, RunnerRaises, ExportRaises, PostResults, ReportDone, ReportFailed,
         RequestShutdown, Tick, Relaunch, Stopped
<1> QED
  BY <1>1, <1>2, <1>3, <1>4, <1>5, <1>6

(* A status that is sent, received or lost. *)
LEMMA StatusSent ==
    ASSUME TypeOK, at \in Jobs, NEW status \in {"DONE", "FAILED"}, SendStatus(status)
    PROVE  /\ tried' \in [Jobs -> SUBSET {"DONE", "FAILED"}]
           /\ told' \in [Jobs -> {"none", "DONE", "FAILED"}]
           /\ \A e \in Jobs : e # at => tried'[e] = tried[e] /\ told'[e] = told[e]
           /\ tried'[at] \in {tried[at], tried[at] \cup {status}}
           /\ told'[at] \in {told[at], status}
           /\ StatusUrl /\ Entry.id \in Numeric => status \in tried'[at]
<1>1. CASE StatusUrl /\ Entry.id \in Numeric
  <2>1. tried' = [tried EXCEPT ![at] = @ \cup {status}]
    BY <1>1 DEF SendStatus
  <2>2. told' = told \/ told' = [told EXCEPT ![at] = status]
    BY <1>1 DEF SendStatus
  <2>3. tried[at] \cup {status} \in SUBSET {"DONE", "FAILED"}
    BY DEF TypeOK
  <2> QED
    BY <2>1, <2>2, <2>3 DEF TypeOK
<1>2. CASE ~(StatusUrl /\ Entry.id \in Numeric)
  BY <1>2 DEF SendStatus, TypeOK
<1> QED
  BY <1>1, <1>2

LEMMA NextIndex ==
    ASSUME at \in Jobs
    PROVE  at + 1 \in 1 .. Len(Entries) + 1 /\ at < at + 1
  BY EntryType DEF Jobs

LEMMA TypeStep ==
    ASSUME TypeOK, StagesInOrder, [Next]_vars
    PROVE  TypeOK'
<1> USE DEF batch, manager
<1>0. disk' \in [Names -> Content]
  BY FlagsStay
<1>1. CASE UNCHANGED vars
  BY <1>1 DEF TypeOK, vars
<1>2. CASE LoadEnv \/ EndBatch \/ SkipTheRest \/ Begin
  BY <1>2 DEF TypeOK, LoadEnv, EndBatch, SkipTheRest, Begin, ExitCode, Skipped
<1>3. CASE Refuse \/ ExportRaises \/ RunnerReturns
  BY <1>3 DEF TypeOK, Refuse, ExportRaises, RunnerReturns, Raise
<1>4. CASE Prepare
  <2>1. at \in Jobs /\ FolderName \in Names
    BY <1>4, EntryType DEF Prepare, StagesInOrder, FolderName, Names, Entry, TypeOK
  <2> QED
    BY <1>4, <2>1 DEF TypeOK, Prepare
<1>5. CASE Archive \/ Export \/ Mark
  BY <1>0, <1>5 DEF TypeOK, Archive, Export, Mark
<1>6. CASE RunnerRaises
  <2>1. Here \in Names
    BY <1>6, HereType DEF RunnerRaises, StagesInOrder
  <2> QED
    BY <1>6, <2>1 DEF TypeOK, RunnerRaises, Raise
<1>7. CASE OrphanStores
  <2>1. orphans' \subseteq orphans
    BY <1>7 DEF OrphanStores
  <2> QED
    BY <1>0, <1>7, <2>1 DEF TypeOK, OrphanStores
<1>8. CASE PostResults
  <2>1. at \in Jobs /\ at + 1 \in 1 .. Len(Entries) + 1
    BY <1>8, NextIndex DEF PostResults, StagesInOrder
  <2>2. received' \subseteq Jobs
    BY <1>8, <2>1 DEF PostResults, TypeOK
  <2>3. pc' \in {"status", "entry"} /\ at' \in {at, at + 1}
    BY <1>8 DEF PostResults, NextEntry
  <2> QED
    BY <1>8, <2>1, <2>2, <2>3 DEF TypeOK, PostResults
<1>9. CASE ReportDone
  <2>1. at \in Jobs /\ at + 1 \in 1 .. Len(Entries) + 1
    BY <1>9, NextIndex DEF ReportDone, StagesInOrder
  <2>2. SendStatus("DONE")
    BY <1>9 DEF ReportDone
  <2> QED
    BY <1>9, <2>1, <2>2, StatusSent DEF TypeOK, ReportDone, NextEntry
<1>10. CASE ReportFailed
  <2>1. at \in Jobs /\ at + 1 \in 1 .. Len(Entries) + 1
    BY <1>10, NextIndex DEF ReportFailed, StagesInOrder
  <2>2. SendStatus("FAILED")
    BY <1>10 DEF ReportFailed
  <2> QED
    BY <1>10, <2>1, <2>2, StatusSent DEF TypeOK, ReportFailed, NextEntry
<1>11. CASE RequestShutdown
  BY <1>11 DEF TypeOK, RequestShutdown
<1>12. CASE Tick
  BY <1>12, EntryType DEF TypeOK, Tick, Seconds
<1>13. CASE Relaunch
  <2>1. now' \in Seconds /\ launch' \in 1 .. MaxLaunches /\ at' \in 1 .. Len(Entries) + 1
    BY <1>13, EntryType, BatchAssumption DEF Relaunch, TypeOK, Seconds
  <2> QED
    BY <1>13, <2>1 DEF TypeOK, Relaunch
<1> QED
  BY <1>1, <1>2, <1>3, <1>4, <1>5, <1>6, <1>7, <1>8, <1>9, <1>10, <1>11, <1>12, <1>13
     DEF Next, Proceed, Stopped

(* A step keeps the stages in order.                                       *)
LEMMA StagesStep ==
    ASSUME StageInv, [Next]_vars
    PROVE  StagesInOrder'
<1> USE DEF batch, manager
<1>0. TypeOK /\ StagesInOrder
  BY DEF StageInv
<1>1. \A f \in Names : disk[f].flag => disk'[f].flag
  BY <1>0, FlagsStay
<1>2. at \in Jobs /\ Opened(at) => Here \in Names
  BY <1>0, HereType
<1>3. CASE UNCHANGED vars
  BY <1>0, <1>3 DEF StagesInOrder, vars, Opened, Here
<1>4. CASE LoadEnv
  BY <1>0, <1>4 DEF StagesInOrder, LoadEnv, Opened, Here
<1>5. CASE EndBatch \/ SkipTheRest
  BY <1>0, <1>5 DEF StagesInOrder, EndBatch, SkipTheRest
<1>6. CASE Begin
  BY <1>0, <1>6 DEF StagesInOrder, Begin, Jobs, TypeOK
<1>7. CASE Refuse \/ ExportRaises \/ RunnerRaises
  BY <1>0, <1>7 DEF StagesInOrder, Refuse, ExportRaises, RunnerRaises, Raise
<1>8. CASE Prepare
  <2>1. at \in Jobs /\ FolderName \in Names
    BY <1>0, <1>8, EntryType DEF Prepare, StagesInOrder, FolderName, Names, Entry, TypeOK
  <2>2. folder'[at] # NoFolder
    BY <1>0, <1>8, <2>1, EntryType DEF Prepare, TypeOK
  <2> QED
    BY <1>0, <1>8, <2>1, <2>2 DEF StagesInOrder, Prepare, Opened
<1>9. CASE Archive \/ RunnerReturns \/ Export
  BY <1>0, <1>9 DEF StagesInOrder, Archive, RunnerReturns, Export, Opened
<1>10. CASE Mark
  <2>1. Here \in Names /\ at \in Jobs /\ Opened(at)
    BY <1>0, <1>2, <1>10 DEF Mark, StagesInOrder
  <2>2. disk'[Here].flag
    BY <1>0, <1>10, <2>1 DEF Mark, TypeOK, Content
  <2> QED
    BY <1>0, <1>10, <2>1, <2>2 DEF StagesInOrder, Mark, Opened, Here
<1>11. CASE OrphanStores \/ RequestShutdown \/ Tick
  <2>1. UNCHANGED <<pc, at, folder, exit>> /\ (shutdown => shutdown') /\ (pc = "exited" => UNCHANGED shutdown)
    BY <1>11 DEF OrphanStores, RequestShutdown, Tick
  <2>2. pc \in {"post", "status"} => disk'[Here].flag
    BY <1>0, <1>1, <1>2 DEF StagesInOrder
  <2> QED
    BY <1>0, <2>1, <2>2 DEF StagesInOrder, Opened, Here
<1>12. CASE PostResults \/ ReportDone \/ ReportFailed
  BY <1>0, <1>12 DEF StagesInOrder, PostResults, ReportDone, ReportFailed, NextEntry, Opened, Here
<1>13. CASE Relaunch
  BY <1>0, <1>13 DEF StagesInOrder, Relaunch
<1> QED
  BY <1>3, <1>4, <1>5, <1>6, <1>7, <1>8, <1>9, <1>10, <1>11, <1>12, <1>13
     DEF Next, Proceed, Stopped

(* A step opens folders in the order of the entries only.                  *)
LEMMA FoldersStep ==
    ASSUME StageInv, [Next]_vars
    PROVE  FoldersInOrder'
<1> USE DEF batch, manager
<1>0. TypeOK /\ StagesInOrder /\ FoldersInOrder
  BY DEF StageInv
<1>1. now \in Int /\ now' \in Int /\ now <= now' /\ at \in Int /\ \A e \in Jobs : e \in Int
  <2>1. TypeOK'
    BY <1>0, TypeStep
  <2>2. now' = now \/ now' = now + 1
    BY DEF Next, Proceed, vars, LoadEnv, EndBatch, SkipTheRest, Begin, Refuse, Raise, Prepare,
         Archive, RunnerReturns, RunnerRaises, Export, ExportRaises, Mark, PostResults,
         ReportDone, ReportFailed, OrphanStores, RequestShutdown, Tick, Relaunch, Stopped
  <2> QED
    BY <1>0, <2>1, <2>2, EntryType DEF TypeOK, Seconds
<1>2. CASE Prepare
  <2>1. at \in Jobs /\ FolderName \in Names
    BY <1>0, <1>2, EntryType DEF Prepare, StagesInOrder, FolderName, Names, Entry, TypeOK
  <2>2. \A e \in Jobs : folder'[e] = IF e = at THEN FolderName ELSE folder[e]
    BY <1>0, <1>2 DEF Prepare, TypeOK
  <2>3. FolderName[1] = Entries[at].id /\ FolderName[2] <= now
    BY <1>1 DEF FolderName, Entry
  <2> QED
    BY <1>0, <1>1, <1>2, <2>1, <2>2, <2>3 DEF Prepare, FoldersInOrder, Opened
<1>3. CASE Relaunch
  BY <1>3 DEF Relaunch, FoldersInOrder, Opened
<1>4. CASE folder' = folder /\ ~Relaunch
  <2>1. \A e \in Jobs : e < at \/ (e = at /\ pc \notin {"start", "entry", "prepare", "exited"})
          => e < at' \/ (e = at' /\ pc' \notin {"start", "entry", "prepare", "exited"})
    BY <1>0, <1>1, <1>4 DEF Next, Proceed, vars, LoadEnv, EndBatch, SkipTheRest, Begin, Refuse,
         Raise, Prepare, Archive, RunnerReturns, RunnerRaises, Export, ExportRaises, Mark,
         PostResults, ReportDone, ReportFailed, OrphanStores, RequestShutdown, Tick, Stopped,
         NextEntry, StagesInOrder
  <2>2. \A e \in Jobs : Opened(e) /\ folder[e] \in Names => folder[e][2] \in Int
    BY EntryType
  <2> QED
    BY <1>0, <1>1, <1>4, <2>1, <2>2 DEF FoldersInOrder, Opened
<1>5. Prepare \/ Relaunch \/ folder' = folder
  BY DEF Next, Proceed, vars, LoadEnv, EndBatch, SkipTheRest, Begin, Refuse, Raise,
         Archive, RunnerReturns, RunnerRaises, Export, ExportRaises, Mark, PostResults,
         ReportDone, ReportFailed, OrphanStores, RequestShutdown, Tick, Stopped
<1> QED
  BY <1>2, <1>3, <1>4, <1>5

(* A step past an entry sends its status, where there is one to send.      *)
LEMMA VerdictsStep ==
    ASSUME StageInv, [Next]_vars
    PROVE  VerdictsInOrder'
<1> USE DEF batch, manager
<1>0. TypeOK /\ StagesInOrder /\ VerdictsInOrder
  BY DEF StageInv
<1>1. at \in Int /\ \A e \in Jobs : e \in Int
  BY <1>0, EntryType DEF TypeOK
<1>2. CASE ReportDone \/ ReportFailed
  <2>1. PICK status \in {"DONE", "FAILED"} : SendStatus(status)
    BY <1>2 DEF ReportDone, ReportFailed
  <2>2. at \in Jobs /\ at' = at + 1
    BY <1>0, <1>2 DEF ReportDone, ReportFailed, NextEntry, StagesInOrder
  <2>3. /\ \A e \in Jobs : e # at => tried'[e] = tried[e]
        /\ StatusUrl /\ Entry.id \in Numeric => status \in tried'[at]
    BY <1>0, <2>1, <2>2, StatusSent
  <2> SUFFICES ASSUME NEW e \in Jobs
               PROVE  /\ tried'[e] # {} => e < at'
                      /\ e < at' /\ StatusUrl /\ Entries[e].id \in Numeric => tried'[e] # {}
    BY DEF VerdictsInOrder
  <2>4. CASE e = at
    BY <1>1, <2>2, <2>3, <2>4 DEF Entry
  <2>5. CASE e # at
    BY <1>0, <1>1, <2>2, <2>3, <2>5 DEF VerdictsInOrder
  <2> QED
    BY <2>4, <2>5
<1>3. CASE PostResults
  <2>1. tried' = tried /\ at \in Jobs
    BY <1>0, <1>3 DEF PostResults, StagesInOrder
  <2>2. at' = at \/ (at' = at + 1 /\ ~StatusUrl)
    BY <1>3 DEF PostResults, NextEntry, Configured
  <2> QED
    BY <1>0, <1>1, <2>1, <2>2 DEF VerdictsInOrder
<1>4. CASE Relaunch
  BY <1>1, <1>4, EntryType DEF Relaunch, VerdictsInOrder
<1>5. CASE tried' = tried /\ at' = at
  BY <1>0, <1>5 DEF VerdictsInOrder
<1>6. ReportDone \/ ReportFailed \/ PostResults \/ Relaunch \/ (tried' = tried /\ at' = at)
  BY DEF Next, Proceed, vars, LoadEnv, EndBatch, SkipTheRest, Begin, Refuse, Raise, Prepare,
         Archive, RunnerReturns, RunnerRaises, Export, ExportRaises, Mark,
         OrphanStores, RequestShutdown, Tick, Stopped
<1> QED
  BY <1>2, <1>3, <1>4, <1>5, <1>6

(* A report that is received is one of a folder flagged before.            *)
LEMMA BackedStep ==
    ASSUME StageInv, [Next]_vars
    PROVE  ReportsAreBacked'
<1> USE DEF batch, manager
<1>0. TypeOK /\ StagesInOrder /\ FoldersInOrder /\ ReportsAreBacked
  BY DEF StageInv
<1>1. \A f \in Names : disk[f].flag => disk'[f].flag
  BY <1>0, FlagsStay
<1>2. \A e \in Jobs, s \in Seconds : <<Entries[e].id, s>> \in Names
  BY EntryType DEF Names
<1>3. ASSUME pc \in {"post", "status"}
      PROVE  at \in Jobs /\ \E s \in Seconds : disk'[<<Entries[at].id, s>>].flag
  <2>1. at \in Jobs /\ Opened(at) /\ disk[Here].flag
    BY <1>0, <1>3 DEF StagesInOrder
  <2>2. Here \in Names /\ Here[1] = Entries[at].id
    BY <1>0, <2>1 DEF FoldersInOrder, Here
  <2>3. Here[2] \in Seconds /\ Here = <<Here[1], Here[2]>>
    BY <2>2 DEF Names
  <2>4. disk'[Here].flag
    BY <1>1, <2>1, <2>2
  <2> QED
    BY <2>1, <2>2, <2>3, <2>4
<1>4. ASSUME NEW e \in Jobs, e \in received' \/ told'[e] = "DONE"
      PROVE  \/ e \in received \/ told[e] = "DONE"
             \/ e = at /\ pc \in {"post", "status"}
  <2>1. CASE ReportDone \/ ReportFailed
    <3>1. PICK status \in {"DONE", "FAILED"} :
            SendStatus(status) /\ (status = "DONE" => pc = "status")
      BY <2>1 DEF ReportDone, ReportFailed
    <3>2. at \in Jobs
      BY <1>0, <2>1 DEF ReportDone, ReportFailed, StagesInOrder
    <3>3. \A d \in Jobs : d # at => told'[d] = told[d]
      BY <1>0, <3>1, <3>2, StatusSent
    <3>4. told'[at] \in {told[at], status}
      BY <1>0, <3>1, <3>2, StatusSent
    <3>5. received' = received
      BY <2>1 DEF ReportDone, ReportFailed
    <3> QED
      BY <1>4, <3>1, <3>3, <3>4, <3>5
  <2>2. CASE PostResults
    BY <1>4, <2>2 DEF PostResults
  <2>3. CASE told' = told /\ received' = received
    BY <1>4, <2>3
  <2> QED
    BY <2>1, <2>2, <2>3 DEF Next, Proceed, vars, LoadEnv, EndBatch, SkipTheRest, Begin, Refuse,
       Raise, Prepare, Archive, RunnerReturns, RunnerRaises, Export, ExportRaises, Mark,
       OrphanStores, RequestShutdown, Tick, Stopped, Relaunch
<1> SUFFICES ASSUME NEW e \in Jobs, e \in received' \/ told'[e] = "DONE"
             PROVE  \E s \in Seconds : disk'[<<Entries[e].id, s>>].flag
  BY DEF ReportsAreBacked
<1>5. CASE e \in received \/ told[e] = "DONE"
  <2>1. PICK s \in Seconds : disk[<<Entries[e].id, s>>].flag
    BY <1>0, <1>5 DEF ReportsAreBacked
  <2> QED
    BY <1>1, <1>2, <2>1
<1> QED
  BY <1>3, <1>4, <1>5

(* The inductive invariant that needs no assumption: stages, folders and   *)
(* verdicts come in the order of the entries (run_manager's loop).         *)
THEOREM StageInvariant == Spec => []StageInv
<1>1. StageInv /\ [Next]_vars => StageInv'
  BY TypeStep, StagesStep, FoldersStep, VerdictsStep, BackedStep DEF StageInv
<1> QED
  BY <1>1, StageStart, PTL DEF Spec

(* The batch, its folders and what the manager knows keep their types.     *)
THEOREM TypeCorrect == Spec => []TypeOK
<1>1. StageInv => TypeOK
  BY DEF StageInv
<1> QED
  BY <1>1, StageInvariant, PTL

(* Whatever fails, crashes or is launched again: results or a DONE the     *)
(* manager received belong to a folder flagged on disk (run_scraping_job   *)
(* flags before it reports).                                               *)
THEOREM ReportsBacked == Spec => []ReportsAreBacked
<1>1. StageInv => ReportsAreBacked
  BY DEF StageInv
<1> QED
  BY <1>1, StageInvariant, PTL

(* A batch that nobody shut down has sent a status for every entry whose   *)
(* id is a number, whatever its entries raised (the handlers of            *)
(* run_manager go on with the next one).                                   *)
THEOREM EveryEntryIsReported == Spec => []EveryEntryReported
<1>1. ASSUME StageInv, pc = "exited", ~shutdown, StatusUrl, NEW e \in Jobs, Entries[e].id \in Numeric
      PROVE  tried[e] # {}
  <2>1. at > Len(Entries) /\ at \in Int
    BY <1>1 DEF StageInv, StagesInOrder, TypeOK
  <2>2. e < at
    BY <2>1, EntryType
  <2> QED
    BY <1>1, <2>2 DEF StageInv, VerdictsInOrder
<1>2. StageInv => EveryEntryReported
  BY <1>1 DEF EveryEntryReported
<1> QED
  BY <1>2, StageInvariant, PTL

-----------------------------------------------------------------------------
(* What a batch reports is true, if its entries have ids of their own *)

(* The manager gives every entry of a batch an id of its own.              *)
DistinctIds ==
    \A d, e \in Jobs : Entries[d].id = Entries[e].id => d = e

(* What has been written to was opened before this second, or is open.     *)
WrittenIsDated ==
    \A f \in Names : disk[f] # Empty => f[2] < now \/ \E e \in Jobs : folder[e] = f

(* Workers that are left over belong to an entry that failed.              *)
OrphansFailed ==
    \A f \in orphans : \E e \in Jobs :
      /\ folder[e] = f
      /\ ~Flagged(e)
      /\ e < at \/ (e = at /\ pc = "fail")

(* The flag of the entry in hand, and of those the batch is past.          *)
FlagsInOrder ==
    /\ pc \in {"archive", "export", "mark", "fail"} => ~Flagged(at)
    /\ pc = "mark" => disk[Here].exported = disk[Here].level
    /\ \A e \in Jobs : e < at => hadFailure \/ Flagged(e)
    /\ hadFailure /\ pc # "exited" => \E e \in Jobs : e < at /\ ~Flagged(e)

BatchInv ==
    /\ StageInv
    /\ WrittenIsDated
    /\ OrphansFailed
    /\ FlagsInOrder
    /\ FlagIsLast
    /\ ExitCodeTrue
    /\ VerdictTrue

LEMMA BatchStart == Init => BatchInv
<1> SUFFICES ASSUME Init PROVE BatchInv
  OBVIOUS
<1>1. StageInv
  BY StageStart
<1>2. WrittenIsDated /\ OrphansFailed /\ FlagIsLast
  BY DEF Init, WrittenIsDated, OrphansFailed, FlagIsLast, Empty
<1>3. FlagsInOrder
  BY EntryType DEF Init, FlagsInOrder
<1>4. ExitCodeTrue /\ VerdictTrue
  BY DEF Init, ExitCodeTrue, VerdictTrue
<1> QED
  BY <1>1, <1>2, <1>3, <1>4 DEF BatchInv

(* Two open folders are two folders.                                       *)
LEMMA FoldersDiffer ==
    ASSUME DistinctIds, FoldersInOrder, NEW d \in Jobs, NEW e \in Jobs,
           Opened(d), Opened(e), d # e
    PROVE  folder[d] # folder[e]
  BY DEF DistinctIds, FoldersInOrder

(* The folder of an entry that is prepared is new.                         *)
LEMMA PreparedIsNew ==
    ASSUME DistinctIds, BatchInv, Prepare
    PROVE  /\ at \in Jobs
           /\ FolderName \in Names /\ disk[FolderName] = Empty
           /\ ~Opened(at)
           /\ \A e \in Jobs : folder'[e] = IF e = at THEN FolderName ELSE folder[e]
<1>0. TypeOK /\ StagesInOrder /\ FoldersInOrder
  BY DEF BatchInv, StageInv
<1>1. at \in Jobs /\ FolderName \in Names
  BY <1>0, EntryType DEF Prepare, StagesInOrder, FolderName, Names, Entry, TypeOK
<1>2. ~Opened(at)
  BY <1>0, <1>1, EntryType DEF FoldersInOrder, Prepare
<1>3. \A e \in Jobs : folder[e] # FolderName
  <2> SUFFICES ASSUME NEW e \in Jobs, folder[e] = FolderName PROVE FALSE
    OBVIOUS
  <2>1. Opened(e)
    BY <1>1, EntryType DEF Opened
  <2>2. Entries[e].id = Entries[at].id
    BY <1>0, <2>1 DEF FoldersInOrder, FolderName, Entry
  <2> QED
    BY <1>1, <1>2, <2>1, <2>2 DEF DistinctIds
<1>4. ~(FolderName[2] < now)
  BY <1>0, EntryType DEF FolderName, TypeOK, Seconds
<1>5. disk[FolderName] = Empty
  BY <1>1, <1>3, <1>4 DEF BatchInv, WrittenIsDated
<1>6. \A e \in Jobs : folder'[e] = IF e = at THEN FolderName ELSE folder[e]
  BY <1>0, <1>1 DEF Prepare, TypeOK
<1> QED
  BY <1>1, <1>2, <1>5, <1>6

(* A step of this launch opens the folder of the entry in hand or flags    *)
(* it; the folders and the flags of the others stay.                       *)
LEMMA OthersStay ==
    ASSUME DistinctIds, StageInv, [Next]_vars, ~Relaunch, NEW e \in Jobs,
           e # at \/ ~(Prepare \/ Mark)
    PROVE  folder'[e] = folder[e] /\ (Flagged(e)' <=> Flagged(e))
<1> USE DEF batch, manager
<1>0. TypeOK /\ StagesInOrder /\ FoldersInOrder
  BY DEF StageInv
<1>1. CASE Mark
  <2>1. at \in Jobs /\ Opened(at) /\ folder' = folder
    BY <1>0, <1>1 DEF StagesInOrder, Mark
  <2>2. \A f \in Names : f # Here => disk'[f] = disk[f]
    BY <1>1 DEF Mark
  <2>3. Opened(e) => folder[e] \in Names /\ folder[e] # Here
    BY <1>0, <1>1, <2>1, FoldersDiffer DEF Here, FoldersInOrder
  <2> QED
    BY <2>1, <2>2, <2>3 DEF Flagged, Opened
<1>2. CASE Prepare
  <2>1. folder'[e] = folder[e] /\ disk' = disk
    BY <1>0, <1>2 DEF Prepare, TypeOK
  <2> QED
    BY <2>1 DEF Flagged
<1>3. CASE ~Mark /\ ~Prepare
  <2>1. folder' = folder
    BY <1>3 DEF Next, Proceed, vars, LoadEnv, EndBatch, SkipTheRest, Begin, Refuse, Raise,
         Archive, RunnerReturns, RunnerRaises, Export, ExportRaises, Mark, PostResults,
         ReportDone, ReportFailed, OrphanStores, RequestShutdown, Tick, Stopped
  <2>2. \A f \in Names : disk'[f].flag = disk[f].flag
    BY <1>0, <1>3, FlagsStay
  <2>3. Opened(e) => folder[e] \in Names
    BY <1>0 DEF FoldersInOrder
  <2> QED
    BY <2>1, <2>2, <2>3 DEF Flagged, Opened
<1> QED
  BY <1>1, <1>2, <1>3

(* A step writes to open folders only, and a launch begins a later second. *)
LEMMA WrittenStep ==
    ASSUME DistinctIds, BatchInv, [Next]_vars
    PROVE  WrittenIsDated'
<1> USE DEF batch, manager
<1>0. TypeOK /\ StagesInOrder /\ FoldersInOrder /\ WrittenIsDated /\ OrphansFailed
  BY DEF BatchInv, StageInv
<1>1. now \in Int /\ now' \in Int /\ now <= now'
  <2>1. TypeOK'
    BY <1>0, TypeStep
  <2>2. now' = now \/ now' = now + 1
    BY DEF Next, Proceed, vars, LoadEnv, EndBatch, SkipTheRest, Begin, Refuse, Raise, Prepare,
         Archive, RunnerReturns, RunnerRaises, Export, ExportRaises, Mark, PostResults,
         ReportDone, ReportFailed, OrphanStores, RequestShutdown, Tick, Relaunch, Stopped
  <2> QED
    BY <1>0, <2>1, <2>2, EntryType DEF TypeOK, Seconds
<1>2. CASE Relaunch
  <2>1. now' = now + 1 /\ disk' = disk
    BY <1>2 DEF Relaunch
  <2>2. \A f \in Names : \A e \in Jobs : folder[e] = f => f[2] <= now
    BY <1>0, EntryType DEF FoldersInOrder, Opened
  <2> QED
    BY <1>0, <1>1, <2>1, <2>2, EntryType DEF WrittenIsDated
<1>3. CASE Prepare
  <2>1. disk' = disk /\ now' = now
    BY <1>3 DEF Prepare
  <2>2. \A f \in Names : \A e \in Jobs : folder[e] = f => folder'[e] = f
    BY <1>0, <1>3, PreparedIsNew, EntryType DEF Opened
  <2> QED
    BY <1>0, <2>1, <2>2 DEF WrittenIsDated
<1>4. CASE folder' = folder
  <2>1. ASSUME NEW f \in Names, disk'[f] # disk[f]
        PROVE  \E e \in Jobs : folder[e] = f
    <3>1. \/ f = Here /\ (Archive \/ Export \/ Mark)
          \/ f \in orphans
      BY <1>0, <2>1, FlagsStay
    <3>2. Archive \/ Export \/ Mark => at \in Jobs
      BY <1>0 DEF StagesInOrder, Archive, Export, Mark
    <3> QED
      BY <1>0, <3>1, <3>2 DEF OrphansFailed, Here
  <2>2. \A f \in Names : f[2] < now => f[2] < now'
    BY <1>1, EntryType
  <2> QED
    BY <1>0, <1>4, <2>1, <2>2 DEF WrittenIsDated
<1>5. Prepare \/ Relaunch \/ folder' = folder
  BY DEF Next, Proceed, vars, LoadEnv, EndBatch, SkipTheRest, Begin, Refuse, Raise,
         Archive, RunnerReturns, RunnerRaises, Export, ExportRaises, Mark, PostResults,
         ReportDone, ReportFailed, OrphanStores, RequestShutdown, Tick, Stopped
<1> QED
  BY <1>2, <1>3, <1>4, <1>5

(* A step leaves workers behind only in the folder of an entry it fails.   *)
LEMMA OrphansStep ==
    ASSUME DistinctIds, BatchInv, [Next]_vars
    PROVE  OrphansFailed'
<1> USE DEF batch, manager
<1>0. TypeOK /\ StagesInOrder /\ FoldersInOrder /\ OrphansFailed /\ FlagsInOrder /\ StageInv
  BY DEF BatchInv, StageInv
<1>1. at \in Int /\ \A e \in Jobs : e \in Int
  BY <1>0, EntryType DEF TypeOK
<1>2. CASE orphans' = {}
  BY <1>2 DEF OrphansFailed
<1>3. ASSUME NEW f \in orphans, f \in orphans', orphans' # {}
      PROVE  \E e \in Jobs : /\ folder'[e] = f
                             /\ ~Flagged(e)'
                             /\ e < at' \/ (e = at' /\ pc' = "fail")
  <2>1. PICK e \in Jobs : /\ folder[e] = f
                          /\ ~Flagged(e)
                          /\ e < at \/ (e = at /\ pc = "fail")
    BY <1>0 DEF OrphansFailed
  <2>2. ~Relaunch
    BY <1>3 DEF Relaunch
  <2>3. e # at \/ ~(Prepare \/ Mark)
    BY <1>1, <2>1 DEF Prepare, Mark
  <2>4. folder'[e] = f /\ ~Flagged(e)'
    BY <1>0, <2>1, <2>2, <2>3, OthersStay
  <2>5. e < at' \/ (e = at' /\ pc' = "fail")
    BY <1>1, <2>1, <2>2 DEF Next, Proceed, vars, LoadEnv, EndBatch, SkipTheRest, Begin, Refuse,
         Raise, Prepare, Archive, RunnerReturns, RunnerRaises, Export, ExportRaises, Mark,
         PostResults, ReportDone, ReportFailed, OrphanStores, RequestShutdown, Tick, Stopped,
         NextEntry
  <2> QED
    BY <2>4, <2>5
<1>4. CASE RunnerRaises
  <2>1. at \in Jobs /\ ~Flagged(at) /\ folder' = folder /\ disk' = disk /\ at' = at /\ pc' = "fail"
    BY <1>0, <1>4 DEF RunnerRaises, Raise, StagesInOrder, FlagsInOrder
  <2>2. orphans' = orphans \cup {folder[at]}
    BY <1>4 DEF RunnerRaises, Here
  <2>3. folder'[at] = folder[at] /\ ~Flagged(at)' /\ at = at'
    BY <2>1 DEF Flagged
  <2> SUFFICES ASSUME NEW f \in orphans'
               PROVE  \E e \in Jobs : /\ folder'[e] = f
                                      /\ ~Flagged(e)'
                                      /\ e < at' \/ (e = at' /\ pc' = "fail")
    BY DEF OrphansFailed, Flagged
  <2> QED
    BY <1>3, <2>1, <2>2, <2>3
<1>5. CASE orphans' \subseteq orphans /\ orphans' # {}
  BY <1>3, <1>5 DEF OrphansFailed, Flagged
<1>6. orphans' = {} \/ RunnerRaises \/ orphans' \subseteq orphans
  BY DEF Next, Proceed, vars, LoadEnv, EndBatch, SkipTheRest, Begin, Refuse, Raise, Prepare,
         Archive, RunnerReturns, Export, ExportRaises, Mark, PostResults,
         ReportDone, ReportFailed, OrphanStores, RequestShutdown, Tick, Relaunch, Stopped
<1> QED
  BY <1>2, <1>4, <1>5, <1>6

(* A step does not write to a flagged folder.                              *)
LEMMA FlagIsLastStep ==
    ASSUME DistinctIds, BatchInv, [Next]_vars, OrphansFailed'
    PROVE  FlagIsLast'
<1> USE DEF batch, manager
<1>0. TypeOK /\ StagesInOrder /\ OrphansFailed /\ FlagsInOrder /\ FlagIsLast
  BY DEF BatchInv, StageInv
<1>1. TypeOK'
  BY <1>0, TypeStep
<1>2. \A f \in orphans : f \in Names /\ ~disk[f].flag
  BY <1>0 DEF FlagIsLast, TypeOK
<1>3. \A f \in orphans' : ~disk'[f].flag
  <2> SUFFICES ASSUME NEW f \in orphans' PROVE ~disk'[f].flag
    OBVIOUS
  <2>1. f \in Names
    BY <1>1 DEF TypeOK
  <2>2. PICK e \in Jobs : folder'[e] = f /\ ~(folder'[e] # NoFolder /\ disk'[folder'[e]].flag)
    BY DEF OrphansFailed, Flagged
  <2> QED
    BY <2>1, <2>2, EntryType
<1>4. ASSUME NEW f \in Names, disk'[f].flag
      PROVE  disk'[f].exported = disk'[f].level
  <2>1. CASE disk'[f] = disk[f]
    BY <1>0, <1>4, <2>1 DEF FlagIsLast
  <2>2. CASE f = Here /\ Mark
    <3>1. disk[f].exported = disk[f].level
      BY <1>0, <2>2 DEF FlagsInOrder, Mark
    <3>2. disk' = [disk EXCEPT ![f].flag = TRUE] /\ disk[f] \in Content
      BY <1>0, <1>4, <2>2 DEF Mark, TypeOK
    <3> QED
      BY <1>0, <3>1, <3>2 DEF TypeOK, Content
  <2>3. CASE ~Mark /\ f = Here /\ (Archive \/ Export)
    <3>1. ~disk[f].flag
      BY <1>0, <2>3 DEF FlagsInOrder, StagesInOrder, Flagged, Opened, Here, Archive, Export
    <3> QED
      BY <1>0, <1>4, <2>3, <3>1, FlagsStay
  <2>4. CASE ~Mark /\ f \in orphans
    BY <1>0, <1>2, <1>4, <2>4, FlagsStay
  <2>5. CASE Mark /\ f \in orphans /\ OrphanStores
    BY <1>0, <2>5 DEF Mark, OrphanStores
  <2> QED
    BY <1>0, <2>1, <2>2, <2>3, <2>4, <2>5, FlagsStay
<1> QED
  BY <1>3, <1>4 DEF FlagIsLast

(* A step past an entry leaves it flagged, or the batch failed.            *)
LEMMA FlagsStep ==
    ASSUME DistinctIds, BatchInv, [Next]_vars
    PROVE  FlagsInOrder'
<1> USE DEF batch, manager
<1>0. TypeOK /\ StagesInOrder /\ FoldersInOrder /\ FlagsInOrder /\ StageInv
  BY DEF BatchInv, StageInv
<1>1. at \in Int /\ \A e \in Jobs : e \in Int /\ e >= 1
  BY <1>0, EntryType DEF TypeOK
<1>2. CASE Relaunch
  BY <1>1, <1>2 DEF Relaunch, FlagsInOrder
<1> SUFFICES ASSUME ~Relaunch PROVE FlagsInOrder'
  BY <1>2
<1>3. ASSUME NEW e \in Jobs, e < at
      PROVE  Flagged(e)' <=> Flagged(e)
  BY <1>0, <1>1, <1>3, OthersStay
<1>4. CASE Prepare
  <2>1. /\ ~Flagged(at)' /\ at' = at /\ hadFailure' = hadFailure
        /\ pc' \in {"archive", "fail"}
    BY <1>4, PreparedIsNew DEF Prepare, Flagged, Empty
  <2> QED
    BY <1>0, <1>3, <1>4, <2>1 DEF FlagsInOrder, Prepare
<1>5. CASE Mark
  <2>1. at' = at /\ hadFailure' = hadFailure /\ pc' = "post"
    BY <1>5 DEF Mark
  <2> QED
    BY <1>0, <1>3, <1>5, <2>1 DEF FlagsInOrder, Mark
<1>6. CASE Export
  <2>1. at \in Jobs /\ Here \in Names /\ disk[Here] \in Content /\ ~Flagged(at)
    BY <1>0, <1>6, HereType DEF Export, StagesInOrder, FlagsInOrder
  <2>2. ~Flagged(at)'
    BY <1>0, <1>6, <2>1, OthersStay DEF Export, Prepare, Mark
  <2>3. disk'[Here].exported = disk'[Here].level
    BY <1>0, <1>6, <2>1 DEF Export, TypeOK, Content
  <2>4. at' = at /\ hadFailure' = hadFailure /\ pc' = "mark" /\ Here' = Here
    BY <1>6 DEF Export, Here
  <2> QED
    BY <1>0, <1>3, <1>6, <2>2, <2>3, <2>4 DEF FlagsInOrder, Export
<1>7. ASSUME ~Prepare, ~Mark, at \in Jobs, at' = at
      PROVE  Flagged(at)' <=> Flagged(at)
  BY <1>0, <1>7, OthersStay
<1>8. CASE PostResults \/ ReportDone
  <2>1. at \in Jobs /\ Flagged(at) /\ at' \in {at, at + 1} /\ hadFailure' = hadFailure
    BY <1>0, <1>8 DEF PostResults, ReportDone, StagesInOrder, NextEntry, Flagged, Opened, Here
  <2>2. pc' \in {"status", "entry"} /\ pc \in {"post", "status"}
    BY <1>8 DEF PostResults, ReportDone, NextEntry
  <2>3. \A e \in Jobs : (e < at' => e < at \/ e = at) /\ (e < at => e < at')
    BY <1>1, <2>1
  <2>4. folder' = folder /\ disk' = disk
    BY <1>8 DEF PostResults, ReportDone
  <2> QED
    BY <1>0, <2>1, <2>2, <2>3, <2>4 DEF FlagsInOrder, Flagged
<1>9. CASE ReportFailed
  <2>1. at \in Jobs /\ ~Flagged(at) /\ at' = at + 1 /\ hadFailure' = TRUE /\ pc' = "entry"
    BY <1>0, <1>9 DEF ReportFailed, StagesInOrder, NextEntry, FlagsInOrder
  <2>2. folder' = folder /\ disk' = disk
    BY <1>9 DEF ReportFailed
  <2> QED
    BY <1>1, <2>1, <2>2 DEF FlagsInOrder, Flagged
<1>10. CASE LoadEnv \/ EndBatch \/ SkipTheRest \/ Begin
  <2>1. /\ folder' = folder /\ disk' = disk /\ at' = at
        /\ pc' \in {"exited", "entry", "prepare"} /\ pc # "exited"
        /\ hadFailure => hadFailure'
        /\ pc' = "exited" \/ hadFailure' = hadFailure
    BY <1>10 DEF LoadEnv, EndBatch, SkipTheRest, Begin, Skipped
  <2> QED
    BY <1>0, <2>1 DEF FlagsInOrder, Flagged
<1>11. CASE Refuse \/ ExportRaises \/ RunnerRaises
  <2>1. /\ folder' = folder /\ disk' = disk /\ at' = at /\ hadFailure' = hadFailure
        /\ pc' = "fail" /\ pc # "exited" /\ at \in Jobs
        /\ pc \in {"prepare", "archive", "export", "mark"}
    BY <1>0, <1>11 DEF Refuse, ExportRaises, RunnerRaises, Raise, StagesInOrder
  <2>2. ~Flagged(at)
    BY <1>0, <1>1, <2>1 DEF FlagsInOrder, FoldersInOrder, Flagged, Opened
  <2> QED
    BY <1>0, <2>1, <2>2 DEF FlagsInOrder, Flagged
<1>12. CASE Archive \/ RunnerReturns
  <2>1. /\ at' = at /\ hadFailure' = hadFailure /\ at \in Jobs
        /\ pc' \in {"archive", "export"} /\ pc = "archive"
    BY <1>0, <1>12 DEF Archive, RunnerReturns, StagesInOrder
  <2>2. ~Flagged(at)'
    BY <1>0, <1>7, <2>1 DEF FlagsInOrder, Prepare, Mark
  <2> QED
    BY <1>0, <1>3, <2>1, <2>2 DEF FlagsInOrder
<1>13. CASE OrphanStores \/ RequestShutdown \/ Tick \/ UNCHANGED vars
  <2>1. at' = at /\ hadFailure' = hadFailure /\ pc' = pc /\ folder' = folder
    BY <1>13 DEF OrphanStores, RequestShutdown, Tick, vars
  <2>2. \A f \in Names : f \notin orphans => disk'[f] = disk[f]
    <3>1. CASE OrphanStores
      <4>1. PICK g \in orphans :
              disk' = [disk EXCEPT ![g].level = IF @ = Nothing THEN Some ELSE @]
        BY <3>1 DEF OrphanStores
      <4> QED
        BY <1>0, <4>1 DEF TypeOK
    <3> QED
      BY <1>13, <3>1 DEF RequestShutdown, Tick, vars
  <2>3. pc = "mark" => Here \in Names /\ Here \notin orphans
    <3> SUFFICES ASSUME pc = "mark" PROVE Here \in Names /\ Here \notin orphans
      OBVIOUS
    <3>1. at \in Jobs /\ Opened(at) /\ Here \in Names
      BY <1>0, HereType DEF StagesInOrder
    <3>2. ASSUME NEW e \in Jobs, folder[e] = Here, e < at \/ (e = at /\ pc = "fail")
          PROVE  FALSE
      <4>1. e # at
        BY <1>1, <3>2
      <4> QED
        BY <1>0, <3>1, <3>2, <4>1, FoldersDiffer DEF Opened, Here
    <3> QED
      BY <3>1, <3>2 DEF BatchInv, OrphansFailed
  <2>4. \A e \in Jobs : Flagged(e)' <=> Flagged(e)
    <3>1. \A f \in Names : disk'[f].flag = disk[f].flag
      BY <1>13 DEF OrphanStores, RequestShutdown, Tick, vars, BatchInv, StageInv, TypeOK, Content
    <3>2. \A e \in Jobs : Opened(e) => folder[e] \in Names
      BY <1>0 DEF FoldersInOrder
    <3> QED
      BY <2>1, <3>1, <3>2 DEF Flagged, Opened
  <2>5. pc = "fail" => at \in Jobs
    BY <1>0 DEF StagesInOrder
  <2>6. pc \in {"archive", "export", "mark", "fail"} => ~Flagged(at)'
    <3>1. at \in Jobs => (Flagged(at)' <=> Flagged(at))
      BY <2>1, <2>4 DEF Flagged
    <3> QED
      BY <1>0, <2>5, <3>1 DEF FlagsInOrder, StagesInOrder
  <2>7. Here' = Here
    BY <2>1 DEF Here
  <2> QED
    BY <1>0, <2>1, <2>2, <2>3, <2>4, <2>6, <2>7 DEF FlagsInOrder
<1> QED
  BY <1>4, <1>5, <1>6, <1>8, <1>9, <1>10, <1>11, <1>12, <1>13 DEF Next, Proceed, Stopped

(* A step that exits does so with the code of the whole batch.             *)
LEMMA ExitCodeStep ==
    ASSUME DistinctIds, BatchInv, [Next]_vars
    PROVE  ExitCodeTrue'
<1> USE DEF batch, manager
<1>0. TypeOK /\ StagesInOrder /\ FoldersInOrder /\ FlagsInOrder /\ StageInv /\ ExitCodeTrue
  BY DEF BatchInv, StageInv
<1>1. at \in Int /\ \A e \in Jobs : e \in Int
  BY <1>0, EntryType DEF TypeOK
<1>2. CASE exit' = "none"
  BY <1>2 DEF ExitCodeTrue
<1>3. CASE LoadEnv
  BY <1>3 DEF LoadEnv, ExitCodeTrue
<1>4. CASE EndBatch
  <2>1. folder' = folder /\ disk' = disk /\ exit' = ExitCode /\ pc # "exited"
    BY <1>4 DEF EndBatch
  <2>2. ASSUME NEW e \in Jobs PROVE e < at
    BY <1>0, <1>4, EntryType DEF EndBatch, TypeOK
  <2>3. ~hadFailure => \A e \in Jobs : Flagged(e)
    BY <1>0, <2>2 DEF FlagsInOrder
  <2>4. hadFailure => \E e \in Jobs : ~Flagged(e)
    BY <1>0, <2>1 DEF FlagsInOrder
  <2> QED
    BY <2>1, <2>3, <2>4 DEF ExitCode, ExitCodeTrue, Flagged
<1>5. CASE SkipTheRest
  <2>1. folder' = folder /\ disk' = disk /\ exit' = "one" /\ pc = "entry"
    BY <1>5 DEF SkipTheRest, Skipped
  <2>2. at \in Jobs
    BY <1>0, <1>5, EntryType DEF SkipTheRest, TypeOK, Jobs
  <2>3. ~Flagged(at)
    BY <1>0, <1>1, <2>1, <2>2 DEF FoldersInOrder, Flagged, Opened
  <2> QED
    BY <2>1, <2>2, <2>3 DEF ExitCodeTrue, Flagged
<1>6. CASE UNCHANGED <<exit, folder, disk>>
  BY <1>0, <1>6 DEF ExitCodeTrue, Flagged
<1>7. CASE pc # "exited" /\ exit' = exit
  BY <1>0, <1>2, <1>7 DEF StagesInOrder
<1>8. \/ exit' = "none" \/ LoadEnv \/ EndBatch \/ SkipTheRest
      \/ UNCHANGED <<exit, folder, disk>> \/ (pc # "exited" /\ exit' = exit)
  BY DEF Next, Proceed, vars, Begin, Refuse, Raise, Prepare,
         Archive, RunnerReturns, RunnerRaises, Export, ExportRaises, Mark, PostResults,
         ReportDone, ReportFailed, OrphanStores, RequestShutdown, Tick, Relaunch, Stopped
<1> QED
  BY <1>2, <1>3, <1>4, <1>5, <1>6, <1>7, <1>8

(* A step sends the verdict the folder of the entry bears out.             *)
LEMMA VerdictTrueStep ==
    ASSUME DistinctIds, BatchInv, [Next]_vars
    PROVE  VerdictTrue'
<1> USE DEF batch, manager
<1>0. TypeOK /\ StagesInOrder /\ VerdictsInOrder /\ FlagsInOrder /\ StageInv /\ VerdictTrue
  BY DEF BatchInv, StageInv
<1>1. at \in Int /\ \A e \in Jobs : e \in Int
  BY <1>0, EntryType DEF TypeOK
<1>2. CASE Relaunch
  BY <1>2 DEF Relaunch, VerdictTrue
<1> SUFFICES ASSUME ~Relaunch, NEW e \in Jobs
             PROVE  /\ "DONE" \in tried'[e] => Flagged(e)'
                    /\ "FAILED" \in tried'[e] => ~Flagged(e)'
  BY <1>2 DEF VerdictTrue, Flagged
<1>3. CASE ReportDone \/ ReportFailed
  <2>1. PICK status \in {"DONE", "FAILED"} :
          SendStatus(status) /\ pc = (IF status = "DONE" THEN "status" ELSE "fail")
    BY <1>3 DEF ReportDone, ReportFailed
  <2>2. at \in Jobs /\ folder' = folder /\ disk' = disk
    BY <1>0, <1>3 DEF ReportDone, ReportFailed, StagesInOrder
  <2>3. CASE e = at
    <3>1. tried[at] = {}
      BY <1>0, <1>1, <2>2 DEF VerdictsInOrder
    <3>2. tried'[at] \subseteq {status}
      BY <1>0, <2>1, <2>2, <3>1, StatusSent
    <3>3. Flagged(at) <=> status = "DONE"
      BY <1>0, <2>1 DEF FlagsInOrder, StagesInOrder, Flagged, Opened, Here
    <3>4. Flagged(e)' <=> Flagged(e)
      BY <2>2 DEF Flagged
    <3> QED
      BY <2>3, <3>2, <3>3, <3>4
  <2>4. CASE e # at
    <3>1. tried'[e] = tried[e]
      BY <1>0, <2>1, <2>2, <2>4, StatusSent
    <3> QED
      BY <1>0, <2>2, <3>1 DEF VerdictTrue, Flagged
  <2> QED
    BY <2>3, <2>4
<1>4. CASE tried' = tried
  <2>1. tried[e] # {} => e # at
    BY <1>0, <1>1 DEF VerdictsInOrder
  <2> QED
    BY <1>0, <1>4, <2>1, OthersStay DEF VerdictTrue
<1>5. ReportDone \/ ReportFailed \/ tried' = tried
  BY DEF Next, Proceed, vars, LoadEnv, EndBatch, SkipTheRest, Begin, Refuse, Raise, Prepare,
         Archive, RunnerReturns, RunnerRaises, Export, ExportRaises, Mark, PostResults,
         OrphanStores, RequestShutdown, Tick, Stopped
<1> QED
  BY <1>3, <1>4, <1>5

LEMMA BatchStep ==
    ASSUME DistinctIds, BatchInv, [Next]_vars
    PROVE  BatchInv'
<1>1. StageInv'
  BY TypeStep, StagesStep, FoldersStep, VerdictsStep, BackedStep DEF BatchInv, StageInv
<1>2. OrphansFailed'
  BY OrphansStep
<1> QED
  BY <1>1, <1>2, WrittenStep, FlagsStep, FlagIsLastStep, ExitCodeStep, VerdictTrueStep DEF BatchInv

(* The inductive invariant for entries with ids of their own: what was     *)
(* written to was opened, left-over workers belong to failed entries, and  *)
(* the batch failed or has flagged all it is past.                         *)
THEOREM BatchInvariant == ASSUME DistinctIds PROVE Spec => []BatchInv
<1>1. BatchInv /\ [Next]_vars => BatchInv'
  BY BatchStep
<1> QED
  BY <1>1, BatchStart, PTL DEF Spec

(* gata.txt is written last: a flagged folder has exported all its records *)
(* and no left-over worker writes to it (mark_finished_scraping).          *)
THEOREM FlagsAreLast == ASSUME DistinctIds PROVE Spec => []FlagIsLast
<1>1. BatchInv => FlagIsLast
  BY DEF BatchInv
<1> QED
  BY <1>1, BatchInvariant, PTL

(* The process exits with 0 only with every folder flagged and with 1 only *)
(* without (had_failure of run_manager), for any list of entries.          *)
THEOREM ExitCodesAreTrue == ASSUME DistinctIds PROVE Spec => []ExitCodeTrue
<1>1. BatchInv => ExitCodeTrue
  BY DEF BatchInv
<1> QED
  BY <1>1, BatchInvariant, PTL

(* DONE is sent for a flagged folder only, FAILED only without one, so     *)
(* never both in a launch (send_status_update in run_manager).             *)
THEOREM VerdictsAreTrue == ASSUME DistinctIds PROVE Spec => []VerdictTrue
<1>1. BatchInv => VerdictTrue
  BY DEF BatchInv
<1> QED
  BY <1>1, BatchInvariant, PTL

(* No job starts in a folder that was written to, over launches and        *)
(* crashes (generate_results_folder).                                      *)
THEOREM FoldersAreNew == ASSUME DistinctIds PROVE Spec => FolderIsNew
<1>1. ASSUME BatchInv, [Next]_vars, NEW e \in Jobs, folder'[e] # folder[e], folder'[e] # NoFolder
      PROVE  disk[folder'[e]] = Empty
  <2>1. CASE Prepare
    BY <1>1, <2>1, PreparedIsNew
  <2>2. CASE Relaunch
    BY <1>1, <2>2 DEF Relaunch
  <2>3. folder' = folder \/ Prepare \/ Relaunch
    BY <1>1 DEF Next, Proceed, vars, batch, LoadEnv, EndBatch, SkipTheRest, Begin, Refuse, Raise,
       Archive, RunnerReturns, RunnerRaises, Export, ExportRaises, Mark, PostResults,
       ReportDone, ReportFailed, OrphanStores, RequestShutdown, Tick, Stopped
  <2> QED
    BY <1>1, <2>1, <2>2, <2>3
<1>2. BatchInv /\ [Next]_vars =>
        [\A e \in Jobs : folder'[e] # folder[e] /\ folder'[e] # NoFolder
                           => disk[folder'[e]] = Empty]_vars
  BY <1>1
<1> QED
  BY <1>2, BatchInvariant, PTL DEF Spec, FolderIsNew

-----------------------------------------------------------------------------
(* Ending; nothing is assumed of the entries *)

(* The steps that are left are a natural number, from one to nine of them  *)
(* for the entry in hand.                                                  *)
LEMMA StepsType ==
    ASSUME TypeOK, StagesInOrder
    PROVE  /\ Len(Entries) \in Nat /\ at \in Nat /\ at <= Len(Entries) + 1
           /\ pc = "archive" => Here \in Names /\ disk[Here].level \in 0 .. 2
           /\ StepsOfEntry \in 1 .. 9
           /\ StepsLeft \in Nat
<1>1. Len(Entries) \in Nat /\ at \in Nat /\ at <= Len(Entries) + 1
  BY EntryType DEF TypeOK
<1>2. pc = "archive" => Here \in Names /\ disk[Here].level \in 0 .. 2
  BY HereType DEF StagesInOrder, Content, Nothing, Some, Whole
<1>3. StepsOfEntry \in 1 .. 9
  <2>1. CASE pc = "archive"
    <3>1. StepsOfEntry = 5 + 2 - disk[Here].level
      BY <2>1 DEF StepsOfEntry, Whole
    <3> QED
      BY <1>2, <2>1, <3>1
  <2>2. CASE pc # "archive"
    BY <2>2 DEF StepsOfEntry
  <2> QED
    BY <2>1, <2>2
<1>4. StepsLeft \in Nat
  <2>1. CASE pc \in {"start", "exited"}
    BY <1>1, <2>1 DEF StepsLeft
  <2>2. CASE pc \notin {"start", "exited"}
    <3>1. StepsLeft = 9 * (Len(Entries) - at) + StepsOfEntry + 1
      BY <2>2 DEF StepsLeft
    <3>2. at <= Len(Entries) \/ StepsOfEntry = 9
      <4>1. CASE pc = "entry"
        BY <4>1 DEF StepsOfEntry
      <4>2. CASE pc # "entry"
        <5>1. at \in Jobs
          BY <2>2, <4>2 DEF StagesInOrder, TypeOK
        <5> QED
          BY <5>1, EntryType
      <4> QED
        BY <4>1, <4>2
    <3>3. CASE at <= Len(Entries)
      BY <1>1, <1>3, <3>1, <3>3
    <3>4. CASE StepsOfEntry = 9
      BY <1>1, <3>1, <3>4
    <3> QED
      BY <3>2, <3>3, <3>4
  <2> QED
    BY <2>1, <2>2
<1> QED
  BY <1>1, <1>2, <1>3, <1>4

(* A step within an entry, or on to the next one.                          *)
LEMMA EntryLowers ==
    ASSUME TypeOK, StagesInOrder, pc \notin {"start", "exited"}, pc' \notin {"start", "exited"},
           StepsOfEntry' \in 1 .. 9,
           \/ at' = at /\ StepsOfEntry' < StepsOfEntry
           \/ at' = at + 1
    PROVE  StepsLeft' \in Int /\ StepsLeft' < StepsLeft
<1>1. /\ Len(Entries) \in Nat /\ at \in Nat /\ StepsOfEntry \in 1 .. 9
  BY StepsType
<1>2. /\ StepsLeft = 9 * (Len(Entries) - at) + StepsOfEntry + 1
      /\ StepsLeft' = 9 * (Len(Entries) - at') + StepsOfEntry' + 1
  BY DEF StepsLeft
<1>3. CASE at' = at /\ StepsOfEntry' < StepsOfEntry
  BY <1>1, <1>2, <1>3
<1>4. CASE at' = at + 1
  BY <1>1, <1>2, <1>4
<1> QED
  BY <1>3, <1>4

(* Each step of the batch itself leaves fewer.                             *)
LEMMA ProceedLowers ==
    ASSUME TypeOK, StagesInOrder, Proceed
    PROVE  StepsLeft' \in Int /\ StepsLeft' < StepsLeft
<1> USE DEF batch
<1>0. /\ Len(Entries) \in Nat /\ at \in Nat /\ at <= Len(Entries) + 1
      /\ pc = "archive" => Here \in Names /\ disk[Here].level \in 0 .. 2
      /\ StepsOfEntry \in 1 .. 9 /\ StepsLeft \in Nat
  BY StepsType
<1>1. CASE LoadEnv
  <2>1. pc = "start" /\ at = 1 /\ at' = at /\ pc' \in {"exited", "entry"}
    BY <1>1 DEF LoadEnv, StagesInOrder
  <2>2. StepsLeft = 9 * Len(Entries) + 2
    BY <2>1 DEF StepsLeft
  <2>3. CASE pc' = "exited"
    BY <1>0, <2>2, <2>3 DEF StepsLeft
  <2>4. CASE pc' = "entry"
    <3>1. StepsLeft' = 9 * (Len(Entries) - 1) + 9 + 1
      BY <2>1, <2>4 DEF StepsLeft, StepsOfEntry
    <3> QED
      BY <1>0, <2>2, <3>1
  <2> QED
    BY <2>1, <2>3, <2>4
<1>2. CASE EndBatch \/ SkipTheRest
  <2>1. pc = "entry" /\ pc' = "exited"
    BY <1>2 DEF EndBatch, SkipTheRest
  <2>2. StepsLeft = 9 * (Len(Entries) - at) + 9 + 1 /\ StepsLeft' = 0
    BY <2>1 DEF StepsLeft, StepsOfEntry
  <2> QED
    BY <1>0, <2>2
<1>3. CASE Begin
  <2>1. pc = "entry" /\ pc' = "prepare" /\ at' = at
    BY <1>3 DEF Begin
  <2>2. StepsOfEntry = 9 /\ StepsOfEntry' = 8
    BY <2>1 DEF StepsOfEntry
  <2> QED
    BY <2>1, <2>2, EntryLowers
<1>4. CASE Refuse \/ RunnerRaises \/ ExportRaises
  <2>1. /\ pc \in {"prepare", "archive", "export", "mark"}
        /\ pc' = "fail" /\ at' = at
    BY <1>4 DEF Refuse, RunnerRaises, ExportRaises, Raise
  <2>2. StepsOfEntry' = 1
    BY <2>1 DEF StepsOfEntry
  <2>3. StepsOfEntry > 1
    <3>1. CASE pc = "archive"
      <4>1. StepsOfEntry = 5 + 2 - disk[Here].level
        BY <3>1 DEF StepsOfEntry, Whole
      <4> QED
        BY <1>0, <3>1, <4>1
    <3>2. CASE pc # "archive"
      BY <2>1, <3>2 DEF StepsOfEntry
    <3> QED
      BY <3>1, <3>2
  <2> QED
    BY <2>1, <2>2, <2>3, EntryLowers
<1>5. CASE Prepare
  <2>1. pc = "prepare" /\ pc' \in {"archive", "fail"} /\ at' = at /\ disk' = disk
    BY <1>5 DEF Prepare
  <2>2. at \in Jobs /\ FolderName \in Names
    BY <2>1, EntryType DEF StagesInOrder, FolderName, Names, Entry, TypeOK
  <2>3. Here' = FolderName
    BY <1>5, <2>1, <2>2 DEF Prepare, Here, TypeOK
  <2>4. disk[FolderName].level \in 0 .. 2
    BY <2>2 DEF TypeOK, Content, Nothing, Some, Whole
  <2>5. StepsOfEntry = 8
    BY <2>1 DEF StepsOfEntry
  <2>6. StepsOfEntry' \in 1 .. 7
    <3>1. CASE pc' = "archive"
      <4>1. StepsOfEntry' = 5 + 2 - disk[FolderName].level
        BY <2>1, <2>3, <3>1 DEF StepsOfEntry, Whole
      <4> QED
        BY <2>4, <4>1
    <3>2. CASE pc' = "fail"
      BY <3>2 DEF StepsOfEntry
    <3> QED
      BY <2>1, <3>1, <3>2
  <2> QED
    BY <2>1, <2>5, <2>6, EntryLowers
<1>6. CASE Archive
  <2>1. /\ pc = "archive" /\ pc' = "archive" /\ at' = at /\ Here' = Here
        /\ disk[Here].level < 2
        /\ disk' = [disk EXCEPT ![Here].level = @ + 1]
    BY <1>6 DEF Archive, Here, Whole
  <2>2. disk[Here] \in Content /\ Here \in DOMAIN disk
    BY <1>0, <2>1 DEF TypeOK
  <2>3. disk'[Here].level = disk[Here].level + 1
    BY <2>1, <2>2 DEF Content
  <2>4. /\ StepsOfEntry = 5 + 2 - disk[Here].level
        /\ StepsOfEntry' = 5 + 2 - disk'[Here].level
    BY <2>1 DEF StepsOfEntry, Whole
  <2>5. StepsOfEntry' \in 1 .. 9 /\ StepsOfEntry' < StepsOfEntry
    BY <1>0, <2>1, <2>3, <2>4
  <2> QED
    BY <2>1, <2>5, EntryLowers
<1>7. CASE RunnerReturns
  <2>1. pc = "archive" /\ pc' = "export" /\ at' = at
    BY <1>7 DEF RunnerReturns
  <2>2. StepsOfEntry = 5 + 2 - disk[Here].level /\ StepsOfEntry' = 4
    BY <2>1 DEF StepsOfEntry, Whole
  <2>3. StepsOfEntry' < StepsOfEntry
    BY <1>0, <2>1, <2>2
  <2> QED
    BY <2>1, <2>2, <2>3, EntryLowers
<1>8. CASE Export
  <2>1. pc = "export" /\ pc' = "mark" /\ at' = at
    BY <1>8 DEF Export
  <2>2. StepsOfEntry = 4 /\ StepsOfEntry' = 3
    BY <2>1 DEF StepsOfEntry
  <2> QED
    BY <2>1, <2>2, EntryLowers
<1>9. CASE Mark
  <2>1. pc = "mark" /\ pc' = "post" /\ at' = at
    BY <1>9 DEF Mark
  <2>2. StepsOfEntry = 3 /\ StepsOfEntry' = 2
    BY <2>1 DEF StepsOfEntry
  <2> QED
    BY <2>1, <2>2, EntryLowers
<1>10. CASE PostResults
  <2>1. /\ pc = "post"
        /\ \/ pc' = "status" /\ at' = at
           \/ pc' = "entry" /\ at' = at + 1
    BY <1>10 DEF PostResults, NextEntry
  <2>2. /\ StepsOfEntry = 2
        /\ pc' = "status" => StepsOfEntry' = 1
        /\ pc' = "entry" => StepsOfEntry' = 9
    BY <2>1 DEF StepsOfEntry
  <2> QED
    BY <2>1, <2>2, EntryLowers
<1>11. CASE ReportDone \/ ReportFailed
  <2>1. pc \in {"status", "fail"} /\ pc' = "entry" /\ at' = at + 1
    BY <1>11 DEF ReportDone, ReportFailed, NextEntry
  <2>2. StepsOfEntry' = 9
    BY <2>1 DEF StepsOfEntry
  <2> QED
    BY <2>1, <2>2, EntryLowers
<1> QED
  BY <1>1, <1>2, <1>3, <1>4, <1>5, <1>6, <1>7, <1>8, <1>9, <1>10, <1>11 DEF Proceed

(* Nothing that happens around the batch adds steps: what a worker left    *)
(* behind stores in the folder in hand need not be stored there again.     *)
LEMMA OthersAddNone ==
    ASSUME TypeOK, StagesInOrder,
           OrphanStores \/ RequestShutdown \/ Tick \/ UNCHANGED vars
    PROVE  StepsLeft' <= StepsLeft
<1> USE DEF batch
<1>1. UNCHANGED <<pc, at, folder>> /\ Here' = Here
  BY DEF OrphanStores, RequestShutdown, Tick, vars, Here
<1>2. /\ StepsLeft \in Nat /\ StepsOfEntry \in 1 .. 9
      /\ Len(Entries) \in Nat /\ at \in Nat
      /\ pc = "archive" => Here \in Names /\ disk[Here].level \in 0 .. 2
  BY StepsType
<1>3. CASE pc # "archive"
  <2>1. StepsOfEntry' = StepsOfEntry
    BY <1>1, <1>3 DEF StepsOfEntry
  <2>2. StepsLeft' = StepsLeft
    BY <1>1, <2>1 DEF StepsLeft
  <2> QED
    BY <1>2, <2>2
<1>4. CASE pc = "archive"
  <2>1. disk'[Here].level \in 0 .. 2 /\ disk'[Here].level >= disk[Here].level
    <3>1. CASE UNCHANGED disk
      BY <1>2, <1>4, <3>1
    <3>2. CASE OrphanStores
      <4>1. PICK f \in orphans :
              disk' = [disk EXCEPT ![f].level = IF @ = Nothing THEN Some ELSE @]
        BY <3>2 DEF OrphanStores
      <4>2. disk[Here] \in Content /\ Here \in DOMAIN disk
        BY <1>2, <1>4 DEF TypeOK
      <4>3. \/ disk'[Here] = disk[Here]
            \/ disk'[Here].level = IF disk[Here].level = Nothing THEN Some ELSE disk[Here].level
        BY <4>1, <4>2 DEF Content
      <4> QED
        BY <1>2, <1>4, <4>3 DEF Nothing, Some
    <3> QED
      BY <3>1, <3>2 DEF RequestShutdown, Tick, vars
  <2>2. /\ StepsOfEntry = 5 + 2 - disk[Here].level
        /\ StepsOfEntry' = 5 + 2 - disk'[Here].level
    BY <1>1, <1>4 DEF StepsOfEntry, Whole
  <2>3. /\ StepsLeft = 9 * (Len(Entries) - at) + StepsOfEntry + 1
        /\ StepsLeft' = 9 * (Len(Entries) - at) + StepsOfEntry' + 1
    BY <1>1, <1>4 DEF StepsLeft
  <2>4. StepsOfEntry' \in Int /\ StepsOfEntry' <= StepsOfEntry
    BY <1>2, <1>4, <2>1, <2>2
  <2> QED
    BY <1>2, <2>3, <2>4
<1> QED
  BY <1>3, <1>4

(* A launch of run_manager ends after at most nine steps for each entry    *)
(* and two besides, whatever its jobs and callbacks come to and whatever   *)
(* happens meanwhile: no entry is tried again, and no loop is left but the *)
(* one over the entries.                                                   *)
THEOREM BatchIsBounded == Spec => StepsRunOut
<1> DEFINE A == /\ StepsLeft \in Nat
                /\ Proceed => StepsLeft' < StepsLeft
                /\ launch' = launch => StepsLeft' <= StepsLeft
<1>1. StageInv /\ [Next]_vars => [A]_vars
  <2> SUFFICES ASSUME StageInv, Next PROVE A
    OBVIOUS
  <2>1. TypeOK /\ StagesInOrder
    BY DEF StageInv
  <2>2. StepsLeft \in Nat
    BY <2>1, StepsType
  <2>3. Proceed => StepsLeft' < StepsLeft
    BY <2>1, ProceedLowers
  <2>4. ASSUME launch' = launch
        PROVE  StepsLeft' <= StepsLeft
    <3>1. CASE Proceed
      <4>1. StepsLeft' \in Int /\ StepsLeft' < StepsLeft
        BY <2>1, <3>1, ProceedLowers
      <4> QED
        BY <2>2, <4>1
    <3>2. CASE OrphanStores \/ RequestShutdown \/ Tick \/ Stopped
      BY <2>1, <3>2, OthersAddNone DEF Stopped
    <3>3. ~Relaunch
      <4>1. launch \in Int
        BY <2>1 DEF TypeOK
      <4> QED
        BY <2>4, <4>1 DEF Relaunch
    <3> QED
      BY <3>1, <3>2, <3>3 DEF Next
  <2> QED
    BY <2>2, <2>3, <2>4
<1> QED
  BY <1>1, StageInvariant, PTL DEF Spec, StepsRunOut
=============================================================================
