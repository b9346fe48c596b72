----------------------------- MODULE Container ------------------------------
(***************************************************************************)
(* One container (docker-entrypoint.sh): it picks a command, and runs the  *)
(* program in its place or, when a merge is to follow, as a child of the   *)
(* script; merge_output.py then rewrites each subreddit's merged file.     *)
(*                                                                         *)
(* tini forwards a stop signal to the process it started, the script or    *)
(* what the script has replaced itself with, and ends the container when   *)
(* that process ends; whatever still runs in it is killed.                 *)
(***************************************************************************)
EXTENDS Integers, FiniteSets

CONSTANTS
    Folders,       \* subreddit folders under the output directory
    MergeAfterRun  \* values MERGE_AFTER_RUN may have

ASSUME ContainerAssumption == IsFiniteSet(Folders) /\ MergeAfterRun \subseteq BOOLEAN

(* The command a container is started with; none leaves it to the script. *)
Commands == {"none", "run", "filter", "manager", "merge"}

VARIABLES
    given,    \* how the container was started, see Settings
    program,  \* what it is doing
    child,    \* the program is a child of the script, to be merged after
    signalled,\* a stop signal was sent
    result,   \* how the program ended
    exit,     \* exit code of the container
    data,     \* folder -> state of its posts.json and comments.json
    merged,   \* folder -> what its merged file was made from
    todo,     \* folders merge_output.py has yet to merge
    failed,   \* local variable failed of merge_output.main
    unwritten \* history: a merged file could not be written

vars ==
    <<given, program, child, signalled, result, exit, data, merged, todo, failed, unwritten>>

Settings == [command : Commands, scraping_args : BOOLEAN, config : BOOLEAN,
             merge : MergeAfterRun]

(* none: no such file; old, new: before and after this run; corrupt *)
DataStates == {"none", "old", "new", "corrupt"}

TypeOK ==
    /\ given \in Settings
    /\ program \in {"script", "archiver", "filter", "merge", "gone"}
    /\ child \in BOOLEAN
    /\ signalled \in BOOLEAN
    /\ result \in {"running", "returned", "raised", "killed"}
    /\ exit \in {"none", "zero", "one", "two", "signal"}
    /\ data \in [Folders -> DataStates]
    /\ merged \in [Folders -> {"none", "old", "new"}]
    /\ todo \subseteq Folders
    /\ failed \in BOOLEAN
    /\ unwritten \in BOOLEAN

-----------------------------------------------------------------------------
(* The script *)

(* With no arguments the environment decides. *)
Command ==
    IF given.command # "none" THEN given.command
    ELSE IF given.scraping_args THEN "manager" ELSE "run"

(* find_subreddit_dirs *)
Found == {f \in Folders : data[f] # "none"}

Exit(code) == program' = "gone" /\ exit' = code

(* merge_output.main begins: there must be something to merge. *)
BeginMerge ==
    /\ todo' = Found
    /\ failed' = FALSE
    /\ IF Found = {} THEN Exit("two") ELSE program' = "merge" /\ UNCHANGED exit

ExecMerge ==
    /\ program = "script"
    /\ Command = "merge"
    /\ BeginMerge
    /\ UNCHANGED <<given, child, signalled, result, data, merged, unwritten>>

NeedsConfig == Command # "manager"

NoConfig ==
    /\ program = "script"
    /\ Command # "merge"
    /\ NeedsConfig
    /\ ~given.config
    /\ Exit("one")
    /\ UNCHANGED <<given, child, signalled, result, data, merged, unwritten, todo, failed>>

(* Only `run` is followed by a merge, and then it is not exec'ed. *)
Chained == Command = "run" /\ given.merge

StartProgram ==
    /\ program = "script"
    /\ Command # "merge"
    /\ given.config \/ ~NeedsConfig
    /\ program' = IF Command = "filter" THEN "filter" ELSE "archiver"
    /\ child' = Chained
    /\ UNCHANGED <<given, signalled, result, exit, data, merged, unwritten, todo, failed>>

(* What follows the end of the program: `set -e` stops the script when it  *)
(* failed; a child that returned 0 is followed by the merge.               *)
AfterAnyway(code) ==    \* mutant: no set -e
    IF child THEN BeginMerge ELSE Exit(code) /\ UNCHANGED <<todo, failed>>
After(code) ==
    IF child /\ code = "zero"
      THEN BeginMerge
      ELSE Exit(code) /\ UNCHANGED <<todo, failed>>

-----------------------------------------------------------------------------
(* The program *)

(* The archiver stores into a folder; what it cannot read it starts anew.  *)
ArchiverStores(f) ==
    /\ program = "archiver"
    /\ data[f] # "new"
    /\ data' = [data EXCEPT ![f] = "new"]
    /\ UNCHANGED <<given, program, child, signalled, result, exit, merged, unwritten, todo, failed>>

(* _run returns 0 whatever its walks achieved: all of the window, a part   *)
(* of it, or nothing where no backend answered.                            *)
ArchiverReturns ==
    /\ program = "archiver"
    /\ result' = "returned"
    /\ After("zero")
    /\ UNCHANGED <<given, child, signalled, data, merged, unwritten>>

(* An exception, or a manager batch with a failure. *)
ArchiverRaises ==
    /\ program = "archiver"
    /\ result' = "raised"
    /\ After("one")
    /\ UNCHANGED <<given, child, signalled, data, merged, unwritten>>

FilterEnds ==
    /\ program = "filter"
    /\ \E code \in {"zero", "one"} : After(code)
    /\ UNCHANGED <<given, child, signalled, result, data, merged, unwritten>>

(***************************************************************************)
(* merge_folder, one folder after the other.  A folder whose files cannot  *)
(* be read, or do not parse, is reported as a ValueError and the next one  *)
(* is merged.                                                              *)
(***************************************************************************)
RestStopping(f) == {}    \* mutant: the first failure ends the loop
Rest(f) == todo \ {f}

ReadableAnyhow(f) == TRUE    \* mutant: as the store does, an empty file instead
Readable(f) == data[f] # "corrupt"

MergeFolder(f) ==
    /\ program = "merge"
    /\ f \in todo
    /\ IF Readable(f)
         THEN /\ merged' = [merged EXCEPT ![f] = data[f]]
              /\ todo' = todo \ {f}
              /\ UNCHANGED failed
         ELSE failed' = TRUE /\ todo' = Rest(f) /\ UNCHANGED merged
    /\ UNCHANGED <<given, program, child, signalled, result, exit, data, unwritten>>

(* A merged file that cannot be written, on a full disk say: the OSError   *)
(* of _write_json_atomic is no ValueError, and ends the merge before the   *)
(* folders that are left.  The old merged file stays.                      *)
MergeWriteFails(f) ==
    /\ program = "merge"
    /\ f \in todo
    /\ Readable(f)
    /\ unwritten' = TRUE
    /\ Exit("one")
    /\ UNCHANGED <<given, child, signalled, result, data, merged, todo, failed>>

MergeExit == IF failed THEN "one" ELSE "zero"

MergeEnds ==
    /\ program = "merge"
    /\ todo = {}
    /\ Exit(MergeExit)
    /\ UNCHANGED <<given, child, signalled, result, data, merged, unwritten, todo, failed>>

-----------------------------------------------------------------------------
(* docker stop *)

(* The archiver has a handler and goes on to its next checkpoint; the      *)
(* script, the filter and the merge have none and are ended.               *)
Handles == program = "archiver" /\ ~child

Stop ==
    /\ program # "gone"
    /\ ~signalled
    /\ signalled' = TRUE
    /\ IF Handles
         THEN UNCHANGED <<program, exit, result>>
         ELSE /\ Exit("signal")
              /\ result' = IF program = "archiver" THEN "killed" ELSE result
    /\ UNCHANGED <<given, child, data, merged, unwritten, todo, failed>>

(* stop_grace_period is over before the archiver came to its checkpoint.   *)
Kill ==
    /\ signalled
    /\ program # "gone"
    /\ Exit("signal")
    /\ result' = "killed"
    /\ UNCHANGED <<given, child, signalled, data, merged, unwritten, todo, failed>>

Gone == program = "gone" /\ UNCHANGED vars

Init ==
    /\ given \in Settings
    /\ program = "script"
    /\ child = FALSE
    /\ signalled = FALSE
    /\ result = "running"
    /\ exit = "none"
    /\ data \in [Folders -> DataStates \ {"new"}]
    /\ merged \in [Folders -> {"none", "old"}]
    /\ todo = {}
    /\ failed = FALSE
    /\ unwritten = FALSE

Next ==
    \/ ExecMerge
    \/ NoConfig
    \/ StartProgram
    \/ \E f \in Folders : ArchiverStores(f)
    \/ ArchiverReturns
    \/ ArchiverRaises
    \/ FilterEnds
    \/ \E f \in Folders : MergeFolder(f)
    \/ \E f \in Folders : MergeWriteFails(f)
    \/ MergeEnds
    \/ Stop
    \/ Kill
    \/ Gone

Spec == Init /\ [][Next]_vars

-----------------------------------------------------------------------------
(* Properties *)

(* "A failed archive never merges, the run's exit code stands": once the   *)
(* program has failed no merged file changes and the container exits with  *)
(* the program's code.                                                     *)
FailureStands ==
    [][result = "raised" => merged' = merged /\ exit' = "one"]_vars

(***************************************************************************)
(* "The other folders are still merged", as far as it is true: with exit   *)
(* code 0 of the merge every folder's merged file is made from what the    *)
(* folder holds now, and with exit code 1 every one but those that are     *)
(* corrupt; but when a merged file could not be written, the folders after *)
(* it are left as they were.                                               *)
(***************************************************************************)
MergedIsCurrent ==
    [][program = "merge" /\ exit' \in {"zero", "one"} =>
         \A f \in Found :
           \/ merged[f] = data[f]
           \/ /\ exit' = "one"
              /\ data[f] = "corrupt" \/ (unwritten' /\ f \in todo)]_vars

(* The inductive invariant behind both: a container has an exit code only  *)
(* when it is gone, and is gone once the program failed; and what a merge  *)
(* has behind it is current, or corrupt and remembered as a failure.       *)
EndsOnce ==
    /\ program # "gone" => exit = "none"
    /\ result = "raised" => program = "gone" /\ exit = "one"

MergeSoFar ==
    program = "merge" =>
        /\ todo \subseteq Found
        /\ \A f \in Found \ todo :
             \/ merged[f] = data[f]
             \/ data[f] = "corrupt" /\ failed

ContainerInv == EndsOnce /\ MergeSoFar

(* "docker stop reaches the app and it checkpoints": the signal itself     *)
(* never ends the archiver.                                                *)
StopReachesArchiver == [][~signalled /\ signalled' => result' # "killed"]_vars
=============================================================================
