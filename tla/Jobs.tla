-------------------------------- MODULE Jobs --------------------------------
(***************************************************************************)
(* What a launch of the program archives: how the environment, the .env    *)
(* files, the config file, the manager's variables and a job's parameters  *)
(* become a window and a list of subreddits (cli.py, config.py,            *)
(* manager/env.py, manager/args.py, manager/job.py), and what the manager  *)
(* is told of each subreddit (manager/stats.py).                           *)
(*                                                                         *)
(* Launches follow one another in time.  The manager sends a recurrent job *)
(* a window per cycle, which continues the window of the cycle before it;  *)
(* each cycle writes a folder of its own, and the manager has them all.    *)
(* How a window is walked, and what happens when a walk does not finish,   *)
(* is module Archiver's; here a job that is not refused gets what there is *)
(* in its window.                                                          *)
(***************************************************************************)
EXTENDS Integers, SequencesExt

CONSTANTS
    Day,          \* seconds in a day
    Horizon,      \* bound on the clock
    DefaultDays,  \* last_days by default, 365 in the code
    DryRunDays,   \* dry_run.last_days
    Fold,         \* a subreddit as somebody spells it -> its name
    Foreign,      \* <<subreddit, second>> whose record bears another name
    Setups        \* the ways the program may be set up

(***************************************************************************)
(* Dates, numbers of days and settings are integers.  What is blank or     *)
(* null is Unset, what does not parse is Bad, and a variable that a source *)
(* does not mention is Absent there.                                       *)
(***************************************************************************)
Unset == -1
Bad == -2
Absent == -3

Seconds == 0 .. Horizon
Midnight(t) == (t \div Day) * Day
Midnights == {Midnight(t) : t \in Seconds}
Spellings == DOMAIN Fold
Malformed == "malformed"    \* what a target that names no subreddit folds to
Names == {Fold[x] : x \in Spellings} \ {Malformed}
Elsewhere == "elsewhere"    \* the name a foreign record bears

Variables == {"LAST_DAYS", "START_DATE", "END_DATE"}
Source == [Variables -> Int]
Dates == [start : Int, end : Int]
NoDates == [start |-> Unset, end |-> Unset]
Payload == [targets : Seq(Spellings), dates : Dates, lastDays : Int]

(* environ, the .env of the working directory and the one beside the       *)
(* config file; whether that file exists; the subreddits it lists; the     *)
(* job's parameters.                                                       *)
Setup == [environ : Source, cwdEnv : Source, configEnv : Source,
          hasConfig : BOOLEAN, subreddits : Seq(Spellings), payload : Payload]

ASSUME JobsAssumption ==
    /\ Day \in Nat \ {0} /\ Horizon \in Nat
    /\ DefaultDays \in Nat \ {0} /\ DryRunDays \in Nat \ {0}
    /\ Names \subseteq Spellings
    /\ {Malformed, Elsewhere} \cap Spellings = {}
    /\ Foreign \subseteq Names \X Seconds
    /\ Setups \subseteq Setup

VARIABLES
    setup,     \* how the program is set up
    now,       \* the clock
    launch,    \* the last launch and what became of it
    cycles,    \* the manager's account of its recurrent job
    collected  \* history: what the folders of all its cycles hold

vars == <<setup, now, launch, cycles, collected>>

Window == [after : Int, before : Int]
NoWindow == [after |-> 0, before |-> 0]
Report == [records : Nat, oldest : Seconds \cup {Unset}]

(* By whom and when it was launched, with which dates of the manager's;    *)
(* the verdict; window and subreddits; what a job archived and reported.   *)
NoLaunch == [by |-> "none", at |-> 0, sent |-> NoDates, verdict |-> "refused",
             window |-> NoWindow, subs |-> <<>>, archived |-> {}, reports |-> <<>>]

(* The first date asked for, the last end date, all of them, the last time.*)
Cycles == [first : Int, last : Int, ends : SUBSET Midnights, at : Int]
NoCycles == [first |-> Unset, last |-> Unset, ends |-> {}, at |-> Unset]

TypeOK ==
    /\ setup \in Setups
    /\ now \in Seconds
    /\ launch.by \in {"none", "run", "dry run", "manager"}
    /\ launch.at \in Seconds /\ launch.sent \in Dates
    /\ launch.verdict \in {"ok", "refused", "raised"}
    /\ launch.window \in Window
    /\ launch.subs \in Seq(Spellings)
    /\ launch.archived \subseteq Names \X Seconds
    /\ DOMAIN launch.reports \subseteq Names \cup {Elsewhere}
    /\ \A n \in DOMAIN launch.reports : launch.reports[n] \in Report
    /\ cycles \in Cycles
    /\ collected \subseteq Names \X Seconds

-----------------------------------------------------------------------------
(* The settings *)

(* _load_dotenv: a key that is there already stays, even if it is blank.   *)
KeepMentioned(f, g) == [v \in Variables |-> IF f[v] # Absent THEN f[v] ELSE g[v]]

EnvironOfFiles ==    \* mutant: a file overrides the environment
    KeepMentioned(setup.configEnv, KeepMentioned(setup.cwdEnv, setup.environ))
Environ ==
    KeepMentioned(KeepMentioned(setup.environ, setup.cwdEnv), setup.configEnv)

(* A date_range: relative to now, or from a start to an end.               *)
Relative(days) == [lastDays |-> days, dates |-> NoDates]
Absolute(start, end) ==
    [lastDays |-> Unset, dates |-> [start |-> start, end |-> end]]

(* An unset ${VAR} expands to nothing and is pruned: the field gets its    *)
(* default.                                                                *)
Expanded(v) == IF Environ[v] = Absent THEN Unset ELSE Environ[v]
ConfigRange ==
    [lastDays |-> IF Expanded("LAST_DAYS") = Unset THEN DefaultDays
                  ELSE Expanded("LAST_DAYS"),
     dates |-> [start |-> Expanded("START_DATE"), end |-> Expanded("END_DATE")]]

(* load_config raises: a value does not validate, or no subreddit is left. *)
ConfigInvalid ==
    \/ \E v \in Variables : Environ[v] = Bad
    \/ setup.subreddits = <<>>

(* DateRangeConfig.resolve, which raises for a window without a second.    *)
Resolved(range) ==
    IF Unset \notin {range.dates.start, range.dates.end}
      THEN [after |-> range.dates.start, before |-> range.dates.end]
      ELSE [after |-> now - Day * range.lastDays, before |-> now]
Resolves(range) == Resolved(range).after < Resolved(range).before

-----------------------------------------------------------------------------
(* The parameters of a job *)

(* _parse_targets: names are folded, and each is kept once.                *)
Targets ==
    LET add(names, x) ==
          IF Contains(names, Fold[x]) THEN names ELSE Append(names, Fold[x])
    IN FoldLeft(add, <<>>, setup.payload.targets)

(* The manager's dates count only for a job that names none.               *)
JobDatesOwn(sent) == setup.payload.dates    \* mutant: they never count
JobDates(sent) == IF setup.payload.dates = NoDates THEN sent ELSE setup.payload.dates

(* parse_scraping_args raises InvalidScrapingParameters.                   *)
BadTargetEmpty == Targets = <<>>    \* mutant: malformed names pass
BadTarget == Targets = <<>> \/ Contains(Targets, Malformed)
BadDates(d) ==
    \/ Bad \in {d.start, d.end}
    \/ (d.start = Unset) # (d.end = Unset)
    \/ d.start > d.end
BadLastDays == setup.payload.lastDays # Unset /\ setup.payload.lastDays <= 0
Invalid(sent) == BadTarget \/ BadDates(JobDates(sent)) \/ BadLastDays

(* ScrapingArgs.window: end_date is inclusive.                             *)
JobWindowExclusive(d) == Absolute(d.start, d.end)    \* mutant: it is not
JobWindow(d) == Absolute(d.start, d.end + Day - 1)

(* _date_range of job.py.                                                  *)
JobRange(sent) ==
    IF JobDates(sent) # NoDates THEN JobWindow(JobDates(sent))
    ELSE IF setup.payload.lastDays # Unset THEN Relative(setup.payload.lastDays)
    ELSE IF setup.hasConfig THEN ConfigRange
    ELSE Relative(DefaultDays)

-----------------------------------------------------------------------------
(* What a job reports *)

(* A subreddit has a record per second, as far as time has come.           *)
Archived(subs, window) ==
    {r \in ToSet(subs) \X Seconds :
       window.after <= r[2] /\ r[2] < window.before /\ r[2] < now}

(* build_target_stats: a bucket for each subreddit of the job, also for    *)
(* one without a record, and one for each other name that records bear.    *)
NameOn(r) == IF r \in Foreign THEN Elsewhere ELSE r[1]
BucketsAsked(subs, records) == ToSet(subs)    \* mutant: other names are dropped
Buckets(subs, records) == ToSet(subs) \cup {NameOn(r) : r \in records}

Oldest(times) == IF times = {} THEN Unset ELSE Min(times)
Reports(subs, records) ==
    [n \in Buckets(subs, records) |->
       LET bucket == {r \in records : NameOn(r) = n}
       IN [records |-> Cardinality(bucket), oldest |-> Oldest({r[2] : r \in bucket})]]

-----------------------------------------------------------------------------
(* Launches *)

Launched(by, sent) == [NoLaunch EXCEPT !.by = by, !.at = now, !.sent = sent]
Raised(by, sent) == [Launched(by, sent) EXCEPT !.verdict = "raised"]
Archives(by, range, subs) ==
    IF Resolves(range)
      THEN [Launched(by, NoDates) EXCEPT !.verdict = "ok", !.window = Resolved(range),
                                         !.subs = subs]
      ELSE Raised(by, NoDates)

(* reddit-archiver run, and run --dry-run.                                 *)
Run ==
    /\ launch' = IF ~setup.hasConfig \/ ConfigInvalid THEN Raised("run", NoDates)
                 ELSE Archives("run", ConfigRange, setup.subreddits)
    /\ UNCHANGED <<setup, now, cycles, collected>>

DryRun ==
    /\ launch' = IF ~setup.hasConfig \/ ConfigInvalid THEN Raised("dry run", NoDates)
                 ELSE Archives("dry run", Relative(DryRunDays), SubSeq(setup.subreddits, 1, 1))
    /\ UNCHANGED <<setup, now, cycles, collected>>

(* A job that is carried out, with its reports.                            *)
Job(sent) ==
    LET window == Resolved(JobRange(sent))
        records == Archived(Targets, window)
    IN [Launched("manager", sent) EXCEPT
          !.verdict = "ok", !.window = window, !.subs = Targets,
          !.archived = records, !.reports = Reports(Targets, records)]

(***************************************************************************)
(* The manager's start_date and end_date: none, one of them, one that does *)
(* not parse, or for a recurrent job a window up to a day that has begun.  *)
(* The window starts at any day, then where the last cycle's ended: on its *)
(* end date, or on the next day if that date was over when the cycle ran.  *)
(***************************************************************************)
NextStarts ==
    IF cycles = NoCycles THEN Midnights
    ELSE {cycles.last} \cup {d \in Midnights : d = cycles.last + Day /\ d <= cycles.at}
CycleWindows ==
    {d \in [start : NextStarts, end : Midnights] : d.start <= d.end /\ d.end <= now}
Sent ==
    CycleWindows \cup {NoDates, [start |-> Midnight(now), end |-> Unset],
                       [start |-> Bad, end |-> Midnight(now)]}

(* A cycle of the recurrent job was carried out.                           *)
Cycled(sent) == setup.payload.dates = NoDates /\ sent # NoDates /\ launch'.verdict = "ok"

(* reddit-archiver manager, for one entry.                                 *)
Manage ==
    \E sent \in Sent :
      /\ launch' = IF setup.hasConfig /\ ConfigInvalid THEN Raised("manager", sent)
                   ELSE IF Invalid(sent) \/ ~Resolves(JobRange(sent))
                          THEN Launched("manager", sent)
                   ELSE Job(sent)
      /\ IF Cycled(sent)
           THEN /\ cycles' = [first |-> IF cycles = NoCycles THEN sent.start ELSE cycles.first,
                              last |-> sent.end,
                              ends |-> cycles.ends \cup {sent.end},
                              at |-> now]
                /\ collected' = collected \cup launch'.archived
           ELSE UNCHANGED <<cycles, collected>>
      /\ UNCHANGED <<setup, now>>

Tick ==
    /\ now < Horizon
    /\ now' = now + 1
    /\ UNCHANGED <<setup, launch, cycles, collected>>

Init ==
    /\ setup \in Setups
    /\ now = 0
    /\ launch = NoLaunch
    /\ cycles = NoCycles
    /\ collected = {}

Next ==
    \/ Run
    \/ DryRun
    \/ Manage
    \/ Tick

Spec == Init /\ [][Next]_vars

-----------------------------------------------------------------------------
(* Properties *)

(* "endDate is inclusive of the whole day", over the cycles of a recurrent *)
(* job: between its first date and the last one, as far as time had come,  *)
(* only the last seconds of end dates are missing from what was archived   *)
(* (an end date's 23:59:59 is where the walk ends, and it ends before it). *)
OnlyLastSecondsMissed ==
    \A n \in ToSet(Targets), t \in cycles.first .. cycles.last + Day - 1 :
       t < cycles.at /\ <<n, t>> \notin collected =>
         \E d \in cycles.ends : t = d + Day - 1

(* Why it holds: the end date of the last cycle had begun when it ran.     *)
CyclesInv ==
    /\ cycles # NoCycles => 0 <= cycles.first /\ 0 <= cycles.last /\ cycles.last <= cycles.at
    /\ OnlyLastSecondsMissed

(* What was asked for in one place is not undone in another.  A job stays  *)
(* within its own dates, or else within those the manager sent, and never  *)
(* reaches back lastDays on a cycle; a variable of the environment is not  *)
(* overridden by a .env file, nor a blank one filled in; a dry run looks   *)
(* at its own few days whatever the config's dates are; and what has no    *)
(* second in it is refused.                                                *)
Within(w, d) == d.start <= w.after /\ w.before <= d.end + Day
LastDays(n) == [after |-> launch.at - n * Day, before |-> launch.at]
WindowAsAsked ==
    LET p == setup.payload
        e == setup.environ
        w == launch.window
        asked(by) == launch.by = by /\ launch.verdict = "ok"
    IN /\ launch.verdict = "ok" => w.after < w.before
       /\ asked("manager") =>
            /\ p.dates # NoDates => Within(w, p.dates)
            /\ p.dates = NoDates /\ launch.sent # NoDates => Within(w, launch.sent)
            /\ p.dates = NoDates /\ launch.sent = NoDates /\ p.lastDays # Unset =>
                 w = LastDays(p.lastDays)
       /\ asked("run") =>
            /\ e["START_DATE"] >= 0 /\ e["END_DATE"] >= 0 =>
                 w = [after |-> e["START_DATE"], before |-> e["END_DATE"]]
            /\ Unset \in {e["START_DATE"], e["END_DATE"]} /\ e["LAST_DAYS"] >= 0 =>
                 w = LastDays(e["LAST_DAYS"])
       /\ asked("dry run") => w = LastDays(DryRunDays)

(* What a run would archive now, and that one set-up's runs never go back: *)
(* each looks at a window that starts and ends no earlier than those of    *)
(* the runs before it, which is what module Archiver assumes of Runs.      *)
NextWindow == Resolved(ConfigRange)
RunsMoveOn ==
    [][/\ NextWindow.after <= NextWindow'.after
       /\ NextWindow.before <= NextWindow'.before
       /\ launch'.by = "run" /\ launch'.verdict = "ok" /\ launch' # launch =>
            launch'.window = NextWindow]_vars

(* "The manager wants one report per subreddit", also for one that has     *)
(* nothing and however it was spelled, and together the reports account    *)
(* for every record: their numbers add up, and each oldest is the first    *)
(* second of the subreddit that was archived under its name.               *)
ReportsAddUp ==
    launch.by = "manager" /\ launch.verdict = "ok" =>
      LET reports == launch.reports
          asked == {Fold[x] : x \in ToSet(setup.payload.targets)}
      IN /\ asked \subseteq DOMAIN reports
         /\ MapThenSumSet(LAMBDA n : reports[n].records, DOMAIN reports)
              = Cardinality(launch.archived)
         /\ \A n \in asked : reports[n].oldest =
              Oldest({r[2] : r \in {q \in launch.archived \ Foreign : q[1] = n}})

(* "No config.yaml and no subcommand are needed: with scraping_args present*)
(* the entrypoint selects manager mode, and every job parameter comes from *)
(* the payload": a job the manager starts is never stopped by a config.    *)
ManagerNeedsNoConfig ==
    launch.by = "manager" => launch.verdict # "raised"
=============================================================================
