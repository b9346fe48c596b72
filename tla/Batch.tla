------------------------------- MODULE Batch --------------------------------
(***************************************************************************)
(* A scraper-manager batch (manager/job.py): the entries of scraping_args  *)
(* are archived one after the other, each into a folder of its own         *)
(* (manager/paths.py), exported (manager/results.py), flagged with         *)
(* gata.txt, and reported to the manager (manager/client.py), whose        *)
(* answers are never waited for twice and never fail a job.                *)
(*                                                                         *)
(* The archiving of one entry is the Runner of module Archiver; here it is *)
(* how much of its window a folder holds, and the ways the Runner may end. *)
(* A Runner that ends with an exception leaves its other workers running   *)
(* in the event loop (asyncio.gather does not cancel them).                *)
(***************************************************************************)
EXTENDS Integers, Sequences, FiniteSets

CONSTANTS
    Entries,     \* the entries of scraping_args, in order
    Numeric,     \* the entry ids that int() accepts
    ResultsUrl,  \* URL_SCRAPER_MANAGER_RESULTS is set
    StatusUrl,   \* URL_SCRAPER_MANAGER_UPDATE_ARGS_STATUS is set
    BackendsFail,\* all backends of the chain may fail for a page
    MaxSeconds,  \* bound on the clock that names the folders
    MaxLaunches  \* bound on the times the manager starts the container

(***************************************************************************)
(* An entry is [id, good, capped]: its id as it names the folder, whether  *)
(* all its parameters are good, and whether they cap the pages.            *)
(***************************************************************************)
Jobs == 1 .. Len(Entries)
Ids == {Entries[e].id : e \in Jobs}
Seconds == 0 .. MaxSeconds

(* A folder's name: the id (label and window follow from it) and a second. *)
Names == Ids \X Seconds
NoFolder == <<"none", 0>>

ASSUME BatchAssumption ==
    /\ Entries \in Seq([id : Ids, good : BOOLEAN, capped : BOOLEAN])
    /\ MaxSeconds \in Nat
    /\ MaxLaunches \in Nat \ {0}
    /\ {ResultsUrl, StatusUrl, BackendsFail} \subseteq BOOLEAN
    /\ NoFolder \notin Names

VARIABLES
    pc,         \* where run_manager stands
    at,         \* index of the entry it is at
    shutdown,   \* the shutdown event
    hadFailure, \* local variable had_failure
    exit,       \* exit code of the process, or "none"
    launch,     \* how many times the container was started
    now,        \* the clock, in seconds
    folder,     \* entry -> results folder of its job in this launch
    orphans,    \* folders that workers of a failed Runner may still write to
    disk,       \* folder -> what it holds
    tried,      \* entry -> the statuses sent for it in this launch
    told,       \* entry -> the last status the manager received
    received    \* entries whose results the manager received

batch == <<pc, at, shutdown, hadFailure, exit>>
manager == <<tried, told, received>>
vars == <<batch, launch, now, folder, orphans, disk, manager>>

(* How much of its window a folder holds, and results.json and gata.txt.   *)
Nothing == 0
Some == 1
Whole == 2
NotExported == -1
Content == [level : {Nothing, Some, Whole}, exported : -1 .. Whole, flag : BOOLEAN]
Empty == [level |-> Nothing, exported |-> NotExported, flag |-> FALSE]

TypeOK ==
    /\ pc \in {"start", "entry", "prepare", "archive", "export", "mark", "post",
               "status", "fail", "exited"}
    /\ at \in 1 .. Len(Entries) + 1
    /\ shutdown \in BOOLEAN
    /\ hadFailure \in BOOLEAN
    /\ exit \in {"none", "zero", "one"}
    /\ launch \in 1 .. MaxLaunches
    /\ now \in Seconds
    /\ folder \in [Jobs -> Names \cup {NoFolder}]
    /\ orphans \subseteq Names
    /\ disk \in [Names -> Content]
    /\ tried \in [Jobs -> SUBSET {"DONE", "FAILED"}]
    /\ told \in [Jobs -> {"none", "DONE", "FAILED"}]
    /\ received \subseteq Jobs

Entry == Entries[at]
Here == folder[at]
Configured == ResultsUrl \/ StatusUrl

-----------------------------------------------------------------------------
(* The loop over the entries *)

(* load_manager_env: without entries the batch is over before it starts. *)
LoadEnv ==
    /\ pc = "start"
    /\ pc' = IF Jobs = {} THEN "exited" ELSE "entry"
    /\ exit' = IF Jobs = {} THEN "one" ELSE "none"
    /\ UNCHANGED <<at, shutdown, hadFailure, launch, now, folder, orphans, disk, manager>>

(* The exit code is that of the batch, not of its last entry. *)
ExitCode == IF hadFailure THEN "one" ELSE "zero"

(* All entries are done, or those that are left are skipped by a shutdown. *)
EndBatch ==
    /\ pc = "entry"
    /\ at > Len(Entries)
    /\ pc' = "exited"
    /\ exit' = ExitCode
    /\ orphans' = {}
    /\ UNCHANGED <<at, shutdown, hadFailure, launch, now, folder, disk, manager>>

SkippedFails == FALSE   \* mutant: a skipped entry is no failure
Skipped == TRUE

SkipTheRest ==
    /\ pc = "entry"
    /\ at <= Len(Entries)
    /\ shutdown
    /\ pc' = "exited"
    /\ hadFailure' = Skipped
    /\ exit' = IF hadFailure \/ Skipped THEN "one" ELSE "zero"
    /\ orphans' = {}
    /\ UNCHANGED <<at, shutdown, launch, now, folder, disk, manager>>

Begin ==
    /\ pc = "entry"
    /\ at <= Len(Entries)
    /\ ~shutdown
    /\ pc' = "prepare"
    /\ UNCHANGED <<at, shutdown, hadFailure, exit, launch, now, folder, orphans, disk, manager>>

(* Mutants: an entry is passed over, or tried again. *)
NextEntryPast ==
    /\ pc' = "entry"
    /\ at' = at + 2

NextEntrySame ==
    /\ pc' = "entry"
    /\ at' = at

NextEntry ==
    /\ pc' = "entry"
    /\ at' = at + 1

(* An exception of the job ends in the handlers of run_manager. *)
Raise ==
    /\ pc' = "fail"
    /\ UNCHANGED <<at, shutdown, hadFailure, exit, launch, now, manager>>

-----------------------------------------------------------------------------
(* run_scraping_job *)

(* Bad parameters are refused before there is a folder, if it is the       *)
(* window, the list of subreddits or the like that is bad.                 *)
Refuse ==
    /\ pc = "prepare"
    /\ ~Entry.good
    /\ Raise
    /\ UNCHANGED <<folder, orphans, disk>>

(* generate_results_folder: a name with a resolution of one second, and    *)
(* mkdir with exist_ok.  Bad settings of a backend are found only then.    *)
FolderFixed == <<Entry.id, 0>>    \* mutant: no timestamp in the name
FolderName == <<Entry.id, now>>

Prepare ==
    /\ pc = "prepare"
    /\ folder' = [folder EXCEPT ![at] = FolderName]
    /\ pc' = IF Entry.good THEN "archive" ELSE "fail"
    /\ UNCHANGED <<at, shutdown, hadFailure, exit, launch, now, orphans, disk, manager>>

(* The Runner stores records in the folder. *)
Archive ==
    /\ pc = "archive"
    /\ disk[Here].level < Whole
    /\ disk' = [disk EXCEPT ![Here].level = @ + 1]
    /\ UNCHANGED <<batch, launch, now, folder, orphans, manager>>

(* Runner.run returns: its window is archived, or its walks ended early    *)
(* for a shutdown, a page cap or a page no backend has.  It does not say.  *)
RunnerReturns ==
    /\ pc = "archive"
    /\ disk[Here].level = Whole \/ shutdown \/ Entry.capped \/ BackendsFail
    /\ pc' = "export"
    /\ UNCHANGED <<at, shutdown, hadFailure, exit, launch, now, folder, orphans, disk, manager>>

(* Runner.run raises: the other workers go on. *)
RunnerRaises ==
    /\ pc = "archive"
    /\ Raise
    /\ orphans' = orphans \cup {Here}
    /\ UNCHANGED <<folder, disk>>

(* A left-over worker stores the page it already has; its next request     *)
(* finds the client closed and ends it.                                    *)
OrphanStores ==
    /\ pc \notin {"start", "exited"}
    /\ \E f \in orphans :
         /\ orphans' = orphans \ {f}
         /\ disk' = [disk EXCEPT ![f].level = IF @ = Nothing THEN Some ELSE @]
    /\ UNCHANGED <<batch, launch, now, folder, manager>>

(* export_results: results.json holds what the folder holds now. *)
Export ==
    /\ pc = "export"
    /\ disk' = [disk EXCEPT ![Here].exported = disk[Here].level]
    /\ pc' = "mark"
    /\ UNCHANGED <<at, shutdown, hadFailure, exit, launch, now, folder, orphans, manager>>

(* Mutant: an exception of the callbacks fails the job as well. *)
ExportRaisesLate ==
    /\ pc \in {"export", "mark", "post"}
    /\ Raise
    /\ UNCHANGED <<folder, orphans, disk>>

ExportRaises ==
    /\ pc \in {"export", "mark"}
    /\ Raise
    /\ UNCHANGED <<folder, orphans, disk>>

(* Mutant: no flag is written. *)
MarkNothing ==
    /\ pc = "mark"
    /\ pc' = "post"
    /\ UNCHANGED <<at, shutdown, hadFailure, exit, launch, now, folder, orphans, disk, manager>>

(* mark_finished_scraping *)
Mark ==
    /\ pc = "mark"
    /\ disk' = [disk EXCEPT ![Here].flag = TRUE]
    /\ pc' = "post"
    /\ UNCHANGED <<at, shutdown, hadFailure, exit, launch, now, folder, orphans, manager>>

-----------------------------------------------------------------------------
(* Reports *)

(* send_results: delivered or lost, the job goes on. *)
PostResults ==
    /\ pc = "post"
    /\ \/ received' = received
       \/ ResultsUrl /\ received' = received \cup {at}
    /\ IF Configured THEN pc' = "status" /\ UNCHANGED at ELSE NextEntry
    /\ UNCHANGED <<shutdown, hadFailure, exit, launch, now, folder, orphans, disk, tried, told>>

(* send_status_update: only with a URL and an id that is a number. *)
SendStatus(status) ==
    IF StatusUrl /\ Entry.id \in Numeric
      THEN /\ tried' = [tried EXCEPT ![at] = @ \cup {status}]
           /\ \/ told' = told
              \/ told' = [told EXCEPT ![at] = status]
      ELSE UNCHANGED <<tried, told>>

ReportDone ==
    /\ pc = "status"
    /\ SendStatus("DONE")
    /\ NextEntry
    /\ UNCHANGED <<shutdown, hadFailure, exit, launch, now, folder, orphans, disk, received>>

(* Mutant: a failing entry ends the batch. *)
ReportFailedAborts ==
    /\ pc = "fail"
    /\ SendStatus("FAILED")
    /\ hadFailure' = TRUE
    /\ pc' = "exited"
    /\ exit' = "one"
    /\ UNCHANGED <<at, shutdown, launch, now, folder, orphans, disk, received>>

(* The handlers of run_manager: report, remember, go on. *)
ReportFailed ==
    /\ pc = "fail"
    /\ SendStatus("FAILED")
    /\ hadFailure' = TRUE
    /\ NextEntry
    /\ UNCHANGED <<shutdown, exit, launch, now, folder, orphans, disk, received>>

-----------------------------------------------------------------------------
(* The environment *)

RequestShutdown ==
    /\ pc # "exited"
    /\ ~shutdown
    /\ shutdown' = TRUE
    /\ UNCHANGED <<pc, at, hadFailure, exit, launch, now, folder, orphans, disk, manager>>

Tick ==
    /\ now < MaxSeconds
    /\ now' = now + 1
    /\ UNCHANGED <<batch, launch, folder, orphans, disk, manager>>

(* The manager starts the container again, after it exited or was killed;  *)
(* a container does not start twice in one second.                         *)
Relaunch ==
    /\ launch < MaxLaunches
    /\ now < MaxSeconds
    /\ pc # "start"
    /\ launch' = launch + 1
    /\ now' = now + 1
    /\ pc' = "start"
    /\ at' = 1
    /\ shutdown' = FALSE
    /\ hadFailure' = FALSE
    /\ exit' = "none"
    /\ folder' = [e \in Jobs |-> NoFolder]
    /\ orphans' = {}
    /\ tried' = [e \in Jobs |-> {}]
    /\ UNCHANGED <<disk, told, received>>

Stopped ==
    /\ pc = "exited"
    /\ UNCHANGED vars

Init ==
    /\ pc = "start"
    /\ at = 1
    /\ shutdown = FALSE
    /\ hadFailure = FALSE
    /\ exit = "none"
    /\ launch = 1
    /\ now = 0
    /\ folder = [e \in Jobs |-> NoFolder]
    /\ orphans = {}
    /\ disk = [f \in Names |-> Empty]
    /\ tried = [e \in Jobs |-> {}]
    /\ told = [e \in Jobs |-> "none"]
    /\ received = {}

Proceed ==
    \/ LoadEnv
    \/ EndBatch
    \/ SkipTheRest
    \/ Begin
    \/ Refuse
    \/ Prepare
    \/ Archive
    \/ RunnerReturns
    \/ RunnerRaises
    \/ Export
    \/ ExportRaises
    \/ Mark
    \/ PostResults
    \/ ReportDone
    \/ ReportFailed

Next ==
    \/ Proceed
    \/ OrphanStores
    \/ RequestShutdown
    \/ Tick
    \/ Relaunch
    \/ Stopped

Spec == Init /\ [][Next]_vars

(* Every await of the batch returns: a walk ends (module Archiver) and a   *)
(* callback answers or times out.                                          *)
FairSpec == Spec /\ WF_vars(Proceed)

-----------------------------------------------------------------------------
(* Properties *)

(* The entries of this launch that went through the job to the end. *)
Flagged(e) == folder[e] # NoFolder /\ disk[folder[e]].flag

(* "gata.txt is written last": a flagged folder has its results.json, that *)
(* holds all its records, and nothing is written there any more.           *)
FlagIsLast ==
    /\ \A f \in Names : disk[f].flag => disk[f].exported = disk[f].level
    /\ \A f \in orphans : ~disk[f].flag

(* "Exits 1 if any entry failed, 0 when all succeeded": with exit code 0   *)
(* every entry's folder is flagged, with exit code 1 some entry's is not.  *)
ExitCodeTrue ==
    /\ exit = "zero" => \A e \in Jobs : Flagged(e)
    /\ exit = "one" => Jobs = {} \/ \E e \in Jobs : ~Flagged(e)

(* The manager is told at most one of DONE and FAILED in a launch, DONE    *)
(* only with the folder flagged and FAILED only without.                   *)
VerdictTrue ==
    \A e \in Jobs :
      /\ "DONE" \in tried[e] => Flagged(e)
      /\ "FAILED" \in tried[e] => ~Flagged(e)

(* What the manager was given is on disk: an entry whose results or DONE   *)
(* it received has a flagged folder, over crashes and later launches.      *)
ReportsAreBacked ==
    \A e \in Jobs :
      e \in received \/ told[e] = "DONE" =>
        \E s \in Seconds : disk[<<Entries[e].id, s>>].flag

(* No entry is left without a verdict: when a batch ends that nobody shut  *)
(* down, every entry with a numeric id has had a status sent, whatever     *)
(* happened to the entries before it.                                      *)
EveryEntryReported ==
    pc = "exited" /\ ~shutdown /\ StatusUrl =>
        \A e \in Jobs : Entries[e].id \in Numeric => tried[e] # {}

(* "The folder is new on every run": a job never starts in a folder that   *)
(* some job has written to.                                                *)
FolderIsNew ==
    [][\A e \in Jobs : folder'[e] # folder[e] /\ folder'[e] # NoFolder
                         => disk[folder'[e]] = Empty]_vars

(* "gata.txt: the folder is complete": a flagged folder holds the whole    *)
(* window of its entry, unless the entry asked for a page cap.             *)
FlagMeansComplete ==
    \A e \in Jobs : Flagged(e) /\ ~Entries[e].capped => disk[folder[e]].level = Whole

(***************************************************************************)
(* Why it ends: a launch has at most nine steps for each entry and two     *)
(* besides.  Each of its own steps leaves fewer, and nothing that happens  *)
(* around it but a relaunch adds to them.                                  *)
(***************************************************************************)
StepsOfEntry ==
    CASE pc = "entry" -> 9
      [] pc = "prepare" -> 8
      [] pc = "archive" -> 5 + Whole - disk[Here].level
      [] pc = "export" -> 4
      [] pc = "mark" -> 3
      [] pc = "post" -> 2
      [] OTHER -> 1

StepsLeft ==
    CASE pc = "start" -> 9 * Len(Entries) + 2
      [] pc = "exited" -> 0
      [] OTHER -> 9 * (Len(Entries) - at) + StepsOfEntry + 1

StepsRunOut ==
    [][/\ StepsLeft \in Nat
       /\ Proceed => StepsLeft' < StepsLeft
       /\ launch' = launch => StepsLeft' <= StepsLeft]_vars

(* Every batch ends, by itself. *)
BatchEnds == pc = "entry" ~> pc \in {"exited", "start"}
=============================================================================
