----------------------------- MODULE JobsProofs -----------------------------
(***************************************************************************)
(* Theorems about Jobs, for every way of setting the program up, every     *)
(* spelling of the subreddits, every length of a day and every history of  *)
(* launches.                                                               *)
(***************************************************************************)
EXTENDS Jobs, FiniteSetTheorems, SequenceTheorems, TLAPS

-----------------------------------------------------------------------------
(* Least and greatest elements *)

(* Among finite sets there is one that includes none of the others: what   *)
(* holds of every finite set is shown by looking at a least one of which   *)
(* it would not.                                                           *)
LEMMA LeastSet ==
    ASSUME NEW T, T # {}, \A t \in T : IsFiniteSet(t)
    PROVE  \E t \in T : \A u \in T : u \subseteq t => u = t
<1>1. T \subseteq FiniteSubsetsOf(UNION T)
  BY DEF FiniteSubsetsOf
<1>2. IsWellFoundedOn(StrictSubsetOrdering(UNION T), FiniteSubsetsOf(UNION T))
  BY FS_StrictSubsetOrderingWellFounded
<1>3. PICK t \in T : \A u \in T : ~(<<u, t>> \in StrictSubsetOrdering(UNION T))
  BY <1>1, <1>2, WFMin
<1> QED
  BY <1>3 DEF StrictSubsetOrdering

(* The same of natural numbers. *)
LEMMA LeastNatural ==
    ASSUME NEW T \in SUBSET Nat, T # {}
    PROVE  \E n \in T : \A m \in T : n <= m
<1> DEFINE U == {0 .. n : n \in T}
<1>1. \A n \in T : IsFiniteSet(0 .. n)
  <2>1. \A n \in T : n \in Int /\ 0 \in Int
    OBVIOUS
  <2> QED
    BY <2>1, FS_Interval
<1>2. U # {} /\ \A u \in U : IsFiniteSet(u)
  BY <1>1, Zenon
<1> HIDE DEF U
<1>3. PICK u \in U : \A v \in U : v \subseteq u => v = u
  BY <1>2, LeastSet
<1> USE DEF U
<1>4. PICK n \in T : u = 0 .. n
  BY <1>3
<1>5. ASSUME NEW m \in T, m < n
      PROVE  FALSE
  <2>1. 0 .. m \in U /\ 0 .. m \subseteq u /\ n \in u /\ n \notin 0 .. m
    BY <1>4, <1>5
  <2> QED
    BY <1>3, <2>1
<1> QED
  BY <1>5

(* The least second of a set is Min of it. *)
LEMMA MinOfSet ==
    ASSUME NEW T \in SUBSET Nat, T # {}
    PROVE  Min(T) \in T
<1>1. \E n \in T : \A m \in T : n <= m
  BY LeastNatural
<1> QED
  BY <1>1 DEF Min

(* The last position of a set of positions is Max of it. *)
LEMMA MaxOfPositions ==
    ASSUME NEW n \in Nat, NEW s \in SUBSET (1 .. n), s # {}
    PROVE  Max(s) \in s /\ \A i \in s : i <= Max(s)
<1> DEFINE T == {n - i : i \in s}
<1>1. T \in SUBSET Nat /\ T # {}
  OBVIOUS
<1>2. PICK k \in T : \A m \in T : k <= m
  BY <1>1, LeastNatural
<1>3. PICK i \in s : k = n - i
  BY <1>2
<1>4. ASSUME NEW j \in s
      PROVE  j <= i
  <2>1. n - j \in T
    OBVIOUS
  <2>2. n - i <= n - j
    BY <1>2, <1>3, <2>1
  <2>3. i \in Int /\ j \in Int
    OBVIOUS
  <2> QED
    BY <2>2, <2>3
<1>5. \A j \in s : i >= j
  BY <1>4
<1> QED
  BY <1>5 DEF Max

-----------------------------------------------------------------------------
(* The subreddits of a job *)

Asked == setup.payload.targets
Folded == {Fold[x] : x \in Spellings}

(* What a target does to the names so far. *)
AddName(names, x) ==
    IF Contains(names, Fold[x]) THEN names ELSE Append(names, Fold[x])

(* The fold over the positions of a set, its last one first. *)
FoldStep(h, s) ==
    IF s = {} THEN <<>> ELSE AddName(h[s \ {Max(s)}], Asked[Max(s)])
FoldSolves(h) == h = [s \in SUBSET DOMAIN Asked |-> FoldStep(h, s)]

(* The targets are a sequence of spellings. *)
LEMMA AskedType ==
    ASSUME setup \in Setup
    PROVE  /\ Asked \in Seq(Spellings)
           /\ Len(Asked) \in Nat /\ DOMAIN Asked = 1 .. Len(Asked)
           /\ \A i \in DOMAIN Asked : Asked[i] \in Spellings
           /\ IsFiniteSet(DOMAIN Asked)
<1>1. Asked \in Seq(Spellings)
  BY DEF Setup, Payload, Asked
<1>2. Len(Asked) \in Nat /\ DOMAIN Asked = 1 .. Len(Asked)
  BY <1>1, LenProperties
<1>3. IsFiniteSet(1 .. Len(Asked))
  BY <1>2, FS_Interval
<1> QED
  BY <1>1, <1>2, <1>3, ElementOfSeq

(* The fold has a solution: one over the positions before the last of a    *)
(* set extends to one over the set.                                        *)
LEMMA FoldExists ==
    ASSUME setup \in Setup
    PROVE  \E h : FoldSolves(h)
<1> DEFINE D == DOMAIN Asked
           Approx(h, s) == \A t \in SUBSET s : h[t] = FoldStep(h, t)
           T == {s \in SUBSET D : ~ \E h : Approx(h, s)}
<1>1. \A s \in SUBSET D : IsFiniteSet(s)
  BY AskedType, FS_Subset
<1>2. \A s \in SUBSET D : s # {} => Max(s) \in s /\ \A i \in s : i <= Max(s)
  BY AskedType, MaxOfPositions
<1>3. T = {}
  <2> SUFFICES ASSUME T # {} PROVE FALSE
    OBVIOUS
  <2>0. \A s \in T : IsFiniteSet(s)
    BY <1>1
  <2> HIDE DEF T
  <2>1. PICK s \in T : \A u \in T : u \subseteq s => u = s
    BY <2>0, LeastSet
  <2> USE DEF T
  <2>2. s \in SUBSET D /\ ~ \E h : Approx(h, s)
    OBVIOUS
  <2>3. CASE s = {}
    <3> DEFINE h == [t \in {{}} |-> <<>>]
    <3>1. Approx(h, s)
      BY <2>3 DEF FoldStep
    <3> QED
      BY <2>2, <3>1
  <2>4. CASE s # {}
    <3> DEFINE m == Max(s)
               r == s \ {m}
    <3>1. m \in s /\ \A i \in s : i <= m
      BY <1>2, <2>2, <2>4
    <3>2. r \in SUBSET D /\ r \subseteq s /\ r # s
      BY <2>2, <3>1
    <3>3. PICK h : Approx(h, r)
      BY <2>1, <3>2
    <3> DEFINE g == [t \in SUBSET s |->
                       IF m \in t THEN AddName(h[t \ {m}], Asked[m]) ELSE h[t]]
    <3>4. ASSUME NEW t \in SUBSET s
          PROVE  g[t] = FoldStep(g, t)
      <4>1. CASE m \in t
        <5>1. Max(t) \in t /\ m <= Max(t) /\ Max(t) <= m
          BY <1>2, <2>2, <3>1, <4>1
        <5>2. Max(t) = m
          <6>1. m \in Int /\ Max(t) \in Int
            BY <2>2, <3>1, <5>1, AskedType
          <6> QED
            BY <5>1, <6>1
        <5>3. g[t] = AddName(h[t \ {m}], Asked[m]) /\ g[t \ {m}] = h[t \ {m}]
          BY <4>1
        <5> HIDE DEF g, m
        <5> QED
          BY <4>1, <5>2, <5>3 DEF FoldStep
      <4>2. CASE m \notin t
        <5>1. t \in SUBSET r
          BY <4>2
        <5>2. h[t] = FoldStep(h, t)
          BY <3>3, <5>1
        <5>3. g[t] = h[t] /\ g[t \ {Max(t)}] = h[t \ {Max(t)}]
          BY <4>2
        <5> HIDE DEF g, m, r
        <5> QED
          BY <5>2, <5>3 DEF FoldStep
      <4> QED
        BY <4>1, <4>2
    <3> HIDE DEF g
    <3>5. Approx(g, s)
      BY <3>4
    <3> QED
      BY <2>2, <3>5
  <2> QED
    BY <2>3, <2>4
<1>4. PICK h : Approx(h, D)
  BY <1>3
<1> DEFINE g == [s \in SUBSET D |-> h[s]]
<1>5. ASSUME NEW s \in SUBSET D
      PROVE  g[s] = FoldStep(g, s)
  <2>1. g[s] = h[s] /\ g[s \ {Max(s)}] = h[s \ {Max(s)}] /\ h[s] = FoldStep(h, s)
    BY <1>4
  <2> HIDE DEF g
  <2> QED
    BY <2>1 DEF FoldStep
<1>6. FoldSolves(g)
  BY <1>5 DEF FoldSolves
<1> QED
  BY <1>6

(* A target adds its name, once. *)
LEMMA AddNameType ==
    ASSUME NEW names \in Seq(Folded), NEW x \in Spellings
    PROVE  /\ AddName(names, x) \in Seq(Folded)
           /\ ToSet(AddName(names, x)) = ToSet(names) \cup {Fold[x]}
<1>0. Fold[x] \in Folded /\ Len(names) \in Nat /\ DOMAIN names = 1 .. Len(names)
  BY LenProperties DEF Folded
<1>1. CASE Contains(names, Fold[x])
  BY <1>0, <1>1 DEF AddName, Contains, ToSet
<1>2. CASE ~Contains(names, Fold[x])
  <2> DEFINE a == Append(names, Fold[x])
             n == Len(names)
  <2>1. /\ a \in Seq(Folded) /\ Len(a) = n + 1
        /\ \A i \in 1 .. n : a[i] = names[i]
        /\ a[n + 1] = Fold[x]
    BY <1>0, AppendProperties
  <2>2. DOMAIN a = 1 .. n + 1
    BY <2>1, LenProperties
  <2>3. AddName(names, x) = a
    BY <1>2 DEF AddName
  <2> HIDE DEF a
  <2>4. \A i \in 1 .. n + 1 : i \in 1 .. n \/ i = n + 1
    BY <1>0
  <2>5. 1 .. n \subseteq 1 .. n + 1 /\ n + 1 \in 1 .. n + 1
    BY <1>0
  <2>6. ToSet(a) \subseteq ToSet(names) \cup {Fold[x]}
    BY <1>0, <2>1, <2>2, <2>4 DEF ToSet
  <2>7. ToSet(names) \cup {Fold[x]} \subseteq ToSet(a)
    BY <1>0, <2>1, <2>2, <2>5 DEF ToSet
  <2> QED
    BY <2>1, <2>3, <2>6, <2>7
<1> QED
  BY <1>1, <1>2

(* A solution of the fold gives the names of the targets at its positions. *)
LEMMA FoldNames ==
    ASSUME setup \in Setup, NEW h, FoldSolves(h), NEW s \in SUBSET DOMAIN Asked
    PROVE  /\ h[s] \in Seq(Folded)
           /\ ToSet(h[s]) = {Fold[Asked[i]] : i \in s}
<1> DEFINE D == DOMAIN Asked
           Right(t) == h[t] \in Seq(Folded) /\ ToSet(h[t]) = {Fold[Asked[i]] : i \in t}
           T == {t \in SUBSET D : ~Right(t)}
<1>1. SUFFICES ASSUME T # {} PROVE FALSE
  BY <1>1
<1>2. \A t \in SUBSET D : h[t] = FoldStep(h, t)
  BY DEF FoldSolves
<1>3. PICK t \in T : \A u \in T : u \subseteq t => u = t
  <2>1. \A u \in T : IsFiniteSet(u)
    BY AskedType, FS_Subset
  <2> HIDE DEF T
  <2> QED
    BY <1>1, <2>1, LeastSet
<1>4. CASE t = {}
  <2>1. h[t] = <<>>
    BY <1>2, <1>4 DEF FoldStep
  <2>2. <<>> \in Seq(Folded) /\ ToSet(<<>>) = {}
    BY EmptySeq DEF ToSet
  <2> QED
    BY <1>3, <1>4, <2>1, <2>2
<1>5. CASE t # {}
  <2> DEFINE m == Max(t)
             r == t \ {m}
  <2>1. m \in t /\ t \in SUBSET D
    BY <1>3, <1>5, AskedType, MaxOfPositions
  <2>2. r \in SUBSET D /\ r \notin T
    BY <1>3, <2>1
  <2>3. Right(r)
    BY <2>2
  <2>4. h[t] = AddName(h[r], Asked[m])
    BY <1>2, <1>5, <2>1 DEF FoldStep
  <2>5. Asked[m] \in Spellings
    BY <2>1, AskedType
  <2>6. /\ h[t] \in Seq(Folded)
        /\ ToSet(h[t]) = ToSet(h[r]) \cup {Fold[Asked[m]]}
    BY <2>3, <2>4, <2>5, AddNameType
  <2>7. ToSet(h[t]) = {Fold[Asked[i]] : i \in t}
    BY <2>1, <2>3, <2>6
  <2> QED
    BY <1>3, <2>6, <2>7
<1> QED
  BY <1>4, <1>5

(* _parse_targets: the names of a job are those its targets fold to. *)
LEMMA TargetsAreNames ==
    ASSUME setup \in Setup
    PROVE  /\ Targets \in Seq(Folded)
           /\ ToSet(Targets) = {Fold[x] : x \in ToSet(Asked)}
<1>1. Targets = (CHOOSE g : FoldSolves(g))[DOMAIN Asked]
  BY DEF Targets, FoldLeft, MapThenFoldSet, FoldSolves, FoldStep, AddName, Asked
<1>2. PICK h : FoldSolves(h) /\ Targets = h[DOMAIN Asked]
  <2>1. FoldSolves(CHOOSE g : FoldSolves(g))
    BY FoldExists, Zenon
  <2> QED
    BY <1>1, <2>1
<1>3. /\ Targets \in Seq(Folded)
      /\ ToSet(Targets) = {Fold[Asked[i]] : i \in DOMAIN Asked}
  BY <1>2, FoldNames
<1> QED
  BY <1>3 DEF ToSet

(* There are finitely many, and a job with a malformed one is not started. *)
LEMMA TargetsChecked ==
    ASSUME setup \in Setup
    PROVE  /\ Targets \in Seq(Folded) /\ IsFiniteSet(ToSet(Targets))
           /\ ~BadTarget => Targets \in Seq(Spellings) /\ ToSet(Targets) \subseteq Names
<1> DEFINE n == Len(Targets)
<1>1. Targets \in Seq(Folded) /\ n \in Nat /\ DOMAIN Targets = 1 .. n
  BY TargetsAreNames, LenProperties
<1>2. \A i \in 1 .. n : Targets[i] \in Folded
  BY <1>1, ElementOfSeq
<1>3. IsFiniteSet(ToSet(Targets))
  <2>1. IsFiniteSet(1 .. n)
    BY <1>1, FS_Interval
  <2>2. [i \in 1 .. n |-> Targets[i]] \in Surjection(1 .. n, ToSet(Targets))
    BY <1>1 DEF ToSet, Surjection
  <2> QED
    BY <2>1, <2>2, FS_Surjection
<1>4. ASSUME ~BadTarget
      PROVE  \A i \in 1 .. n : Targets[i] \in Names
  <2>1. ~Contains(Targets, Malformed)
    BY <1>4 DEF BadTarget
  <2> QED
    BY <1>2, <2>1 DEF Contains, Names, Folded
<1>5. ASSUME ~BadTarget
      PROVE  Targets \in Seq(Spellings) /\ ToSet(Targets) \subseteq Names
  <2>1. ToSet(Targets) \subseteq Names
    BY <1>1, <1>4, <1>5 DEF ToSet
  <2>2. \A i \in 1 .. n : Targets[i] \in Spellings
    BY <1>4, <1>5, JobsAssumption
  <2>3. Targets \in Seq(Spellings)
    BY <1>1, <2>2, IsASeq
  <2> QED
    BY <2>1, <2>3
<1> QED
  BY <1>1, <1>3, <1>5

-----------------------------------------------------------------------------
(* Types *)

RangeType == [lastDays : Int, dates : Dates]

(* A day has begun at a second of the clock. *)
LEMMA MidnightsAreSeconds ==
    /\ Day \in Nat /\ Day >= 1
    /\ \A t \in Seconds : Midnight(t) \in Nat /\ Midnight(t) \in Midnights
    /\ Midnights \subseteq Nat
<1>1. Day \in Nat /\ Day >= 1 /\ Horizon \in Nat
  BY JobsAssumption
<1>2. ASSUME NEW t \in Seconds
      PROVE  Midnight(t) \in Nat
  <2>1. t \in Nat
    BY <1>1 DEF Seconds
  <2>2. t \div Day \in Nat
    BY <1>1, <2>1
  <2>3. \A k \in Nat, d \in Nat : k * d \in Nat
    OBVIOUS
  <2> QED
    BY <1>1, <2>2, <2>3 DEF Midnight
<1> QED
  BY <1>1, <1>2 DEF Midnights

(* The settings are integers, and so are the dates and days of a range.    *)
LEMMA SettingsType ==
    ASSUME setup \in Setup
    PROVE  /\ Environ \in [Variables -> Int]
           /\ ConfigRange \in RangeType
           /\ setup.payload.dates \in Dates
           /\ setup.payload.lastDays \in Int
           /\ setup.subreddits \in Seq(Spellings)
           /\ setup.environ \in [Variables -> Int]
<1>1. /\ setup.environ \in [Variables -> Int] /\ setup.cwdEnv \in [Variables -> Int]
      /\ setup.configEnv \in [Variables -> Int]
      /\ setup.payload \in Payload /\ setup.subreddits \in Seq(Spellings)
  BY DEF Setup, Source
<1>2. Environ \in [Variables -> Int]
  BY <1>1 DEF Environ, KeepMentioned
<1>3. \A v \in Variables : Expanded(v) \in Int
  BY <1>2 DEF Expanded, Unset
<1>4. /\ Expanded("LAST_DAYS") \in Int /\ Expanded("START_DATE") \in Int
      /\ Expanded("END_DATE") \in Int
  BY <1>3 DEF Variables
<1>5. ConfigRange \in RangeType
  BY <1>4, JobsAssumption DEF ConfigRange, RangeType, Dates
<1> QED
  BY <1>1, <1>2, <1>5 DEF Payload

LEMMA RangeOfJob ==
    ASSUME setup \in Setup, NEW sent \in Dates
    PROVE  JobRange(sent) \in RangeType /\ JobDates(sent) \in Dates
<1>1. JobDates(sent) \in Dates
  BY SettingsType DEF JobDates
<1>2. JobWindow(JobDates(sent)) \in RangeType
  BY <1>1, MidnightsAreSeconds DEF JobWindow, Absolute, RangeType, Dates, Unset
<1>3. /\ Relative(setup.payload.lastDays) \in RangeType
      /\ Relative(DefaultDays) \in RangeType /\ Relative(DryRunDays) \in RangeType
  BY SettingsType, JobsAssumption DEF Relative, NoDates, RangeType, Dates, Unset
<1> QED
  BY <1>1, <1>2, <1>3, SettingsType DEF JobRange

LEMMA ResolvedType ==
    ASSUME now \in Seconds, NEW range \in RangeType
    PROVE  Resolved(range) \in Window
<1>1. now \in Int /\ Day \in Int
  BY MidnightsAreSeconds, JobsAssumption DEF Seconds
<1>2. range.dates.start \in Int /\ range.dates.end \in Int /\ range.lastDays \in Int
  BY DEF RangeType, Dates
<1>3. now - Day * range.lastDays \in Int
  BY <1>1, <1>2
<1> QED
  BY <1>1, <1>2, <1>3 DEF Resolved, Window

(* What the manager sends is a pair of dates, of which a cycle's are days  *)
(* that have begun.                                                        *)
LEMMA SentType ==
    ASSUME now \in Seconds, cycles \in Cycles
    PROVE  /\ Sent \subseteq Dates
           /\ \A d \in CycleWindows : d.start \in Int /\ d.end \in Midnights
<1>0. Midnights \subseteq Int
  <2>1. Midnights \subseteq Nat
    BY MidnightsAreSeconds
  <2> QED
    BY <2>1
<1>1. NextStarts \subseteq Int
  BY <1>0 DEF NextStarts, Cycles
<1>2. CycleWindows \subseteq Dates
  BY <1>0, <1>1 DEF CycleWindows, Dates
<1>3. Midnight(now) \in Int
  BY MidnightsAreSeconds
<1>4. Sent \subseteq Dates
  BY <1>2, <1>3 DEF Sent, Dates, NoDates, Unset, Bad
<1> QED
  BY <1>1, <1>4 DEF CycleWindows

(* The values of a launch that archives nothing have their types. *)
LEMMA EmptyLaunch ==
    /\ DOMAIN <<>> = {} /\ <<>> \in Seq(Spellings)
    /\ NoWindow \in Window /\ NoDates \in Dates /\ NoCycles \in Cycles
<1>1. DOMAIN <<>> = {} /\ <<>> \in Seq(Spellings)
  OBVIOUS
<1>2. NoWindow \in Window /\ NoDates \in Dates
  BY DEF NoWindow, Window, NoDates, Dates, Unset
<1>3. NoCycles \in Cycles
  BY DEF NoCycles, Cycles, Unset
<1> QED
  BY <1>1, <1>2, <1>3

(* What a launch may become. *)
LaunchType(l) ==
    /\ l.by \in {"none", "run", "dry run", "manager"}
    /\ l.at \in Seconds /\ l.sent \in Dates
    /\ l.verdict \in {"ok", "refused", "raised"}
    /\ l.window \in Window
    /\ l.subs \in Seq(Spellings)
    /\ l.archived \subseteq Names \X Seconds
    /\ DOMAIN l.reports \subseteq Names \cup {Elsewhere}
    /\ \A n \in DOMAIN l.reports : l.reports[n] \in Report

LEMMA LaunchedType ==
    ASSUME now \in Seconds, NEW by \in {"none", "run", "dry run", "manager"},
           NEW sent \in Dates
    PROVE  LaunchType(Launched(by, sent)) /\ LaunchType(Raised(by, sent))
<1>1. /\ NoWindow \in Window /\ <<>> \in Seq(Spellings) /\ DOMAIN <<>> = {}
  BY EmptyLaunch
<1> DEFINE l == Launched(by, sent)
           q == Raised(by, sent)
<1>3. /\ l.by = by /\ l.at = now /\ l.sent = sent /\ l.verdict = "refused"
      /\ l.window = NoWindow /\ l.subs = <<>> /\ l.archived = {}
      /\ l.reports = <<>>
  BY DEF Launched, NoLaunch
<1>4. /\ q.by = by /\ q.at = now /\ q.sent = sent /\ q.verdict = "raised"
      /\ q.window = NoWindow /\ q.subs = <<>> /\ q.archived = {}
      /\ q.reports = <<>>
  BY DEF Raised, Launched, NoLaunch
<1> HIDE DEF l, q
<1>5. LaunchType(l) /\ LaunchType(q)
  BY <1>1, <1>3, <1>4 DEF LaunchType
<1> QED
  BY <1>5 DEF l, q

LEMMA ArchivesType ==
    ASSUME now \in Seconds, NEW by \in {"run", "dry run"}, NEW range \in RangeType,
           NEW subs \in Seq(Spellings)
    PROVE  LaunchType(Archives(by, range, subs))
<1>1. Resolved(range) \in Window
  BY ResolvedType
<1>2. NoDates \in Dates /\ DOMAIN <<>> = {}
  BY EmptyLaunch
<1>3. CASE Resolves(range)
  <2> DEFINE l == Archives(by, range, subs)
  <2>1. /\ l.by = by /\ l.at = now /\ l.sent = NoDates /\ l.verdict = "ok"
        /\ l.window = Resolved(range) /\ l.subs = subs /\ l.archived = {}
        /\ l.reports = <<>>
    BY <1>3 DEF Archives, Launched, NoLaunch
  <2> HIDE DEF l
  <2>2. LaunchType(l)
    BY <1>1, <1>2, <2>1 DEF LaunchType
  <2> QED
    BY <2>2 DEF l
<1>4. CASE ~Resolves(range)
  <2>1. Archives(by, range, subs) = Raised(by, NoDates)
    BY <1>4 DEF Archives
  <2> QED
    BY <1>2, <2>1, LaunchedType
<1> QED
  BY <1>3, <1>4

(* The fields of a job. *)
LEMMA JobFields ==
    ASSUME NEW sent
    PROVE  LET l == Job(sent)
               window == Resolved(JobRange(sent)) IN
           /\ l.by = "manager" /\ l.at = now /\ l.sent = sent /\ l.verdict = "ok"
           /\ l.window = window /\ l.subs = Targets
           /\ l.archived = Archived(Targets, window)
           /\ l.reports = Reports(Targets, Archived(Targets, window))
  BY DEF Job, Launched, NoLaunch

(* What a job archives is a finite set of seconds of its names. *)
LEMMA ArchivedType ==
    ASSUME setup \in Setup, ~BadTarget, NEW window
    PROVE  /\ Archived(Targets, window) \subseteq Names \X Seconds
           /\ IsFiniteSet(Archived(Targets, window))
<1>1. ToSet(Targets) \subseteq Names /\ IsFiniteSet(ToSet(Targets))
  BY TargetsChecked
<1>2. IsFiniteSet(Seconds)
  BY JobsAssumption, FS_Interval DEF Seconds
<1>3. Archived(Targets, window) \in SUBSET (ToSet(Targets) \X Seconds)
  BY DEF Archived
<1>4. IsFiniteSet(ToSet(Targets) \X Seconds)
  BY <1>1, <1>2, FS_Product
<1>5. IsFiniteSet(Archived(Targets, window))
  BY <1>3, <1>4, FS_Subset
<1> QED
  BY <1>1, <1>3, <1>5

(* A report counts the records of its bucket and names its oldest second.  *)
LEMMA ReportsType ==
    ASSUME NEW subs, ToSet(subs) \subseteq Names,
           NEW records, records \subseteq Names \X Seconds, IsFiniteSet(records)
    PROVE  /\ DOMAIN Reports(subs, records) \subseteq Names \cup {Elsewhere}
           /\ \A n \in DOMAIN Reports(subs, records) :
                Reports(subs, records)[n] \in Report
<1>1. \A r \in records : NameOn(r) \in Names \cup {Elsewhere} /\ r[2] \in Seconds
  BY DEF NameOn
<1>2. DOMAIN Reports(subs, records) = Buckets(subs, records)
  BY DEF Reports
<1>3. Buckets(subs, records) \subseteq Names \cup {Elsewhere}
  BY <1>1 DEF Buckets
<1>4. ASSUME NEW n \in Buckets(subs, records)
      PROVE  Reports(subs, records)[n] \in Report
  <2> DEFINE bucket == {r \in records : NameOn(r) = n}
             times == {r[2] : r \in bucket}
  <2>1. Reports(subs, records)[n] =
          [records |-> Cardinality(bucket), oldest |-> Oldest(times)]
    BY DEF Reports
  <2>2. Cardinality(bucket) \in Nat
    BY FS_Subset, FS_CardinalityType
  <2>3. times \in SUBSET Seconds /\ times \in SUBSET Nat
    BY <1>1, JobsAssumption DEF Seconds
  <2>4. Oldest(times) \in Seconds \cup {Unset}
    <3> HIDE DEF times
    <3>1. times # {} => Min(times) \in times
      BY <2>3, MinOfSet
    <3> QED
      BY <2>3, <3>1 DEF Oldest
  <2> HIDE DEF bucket, times
  <2> QED
    BY <2>1, <2>2, <2>4 DEF Report
<1> QED
  BY <1>2, <1>3, <1>4

LEMMA JobType ==
    ASSUME setup \in Setup, now \in Seconds, NEW sent \in Dates, ~BadTarget
    PROVE  LaunchType(Job(sent))
<1> DEFINE window == Resolved(JobRange(sent))
           records == Archived(Targets, window)
           l == Job(sent)
<1>1. window \in Window
  BY RangeOfJob, ResolvedType
<1>2. Targets \in Seq(Spellings) /\ ToSet(Targets) \subseteq Names
  BY TargetsChecked
<1>3. records \subseteq Names \X Seconds /\ IsFiniteSet(records)
  BY ArchivedType
<1>4. /\ l.by = "manager" /\ l.at = now /\ l.sent = sent /\ l.verdict = "ok"
      /\ l.window = window /\ l.subs = Targets /\ l.archived = records
      /\ l.reports = Reports(Targets, records)
  BY JobFields
<1> HIDE DEF window, records, l
<1>5. /\ DOMAIN Reports(Targets, records) \subseteq Names \cup {Elsewhere}
      /\ \A n \in DOMAIN Reports(Targets, records) :
           Reports(Targets, records)[n] \in Report
  BY <1>2, <1>3, ReportsType
<1>6. LaunchType(l)
  BY <1>1, <1>2, <1>3, <1>4, <1>5 DEF LaunchType
<1> QED
  BY <1>6 DEF l

(* Only dates a cycle may have come through the checks of a recurrent job. *)
LEMMA CycledWindows ==
    ASSUME now \in Seconds, cycles \in Cycles, NEW sent \in Sent,
           setup.payload.dates = NoDates, sent # NoDates, ~Invalid(sent)
    PROVE  sent \in CycleWindows /\ JobDates(sent) = sent
<1>1. JobDates(sent) = sent
  BY DEF JobDates
<1>2. ~BadDates(sent)
  BY <1>1 DEF Invalid
<1>3. Midnight(now) # Unset /\ Midnight(now) # Bad
  BY MidnightsAreSeconds DEF Unset, Bad
<1>4. sent # [start |-> Midnight(now), end |-> Unset]
  BY <1>2, <1>3 DEF BadDates
<1>5. sent # [start |-> Bad, end |-> Midnight(now)]
  BY <1>2 DEF BadDates
<1> QED
  BY <1>1, <1>4, <1>5 DEF Sent

(* The launch of the manager, whatever it sends. *)
LEMMA ManageType ==
    ASSUME TypeOK, NEW sent \in Sent,
           launch' = IF setup.hasConfig /\ ConfigInvalid THEN Raised("manager", sent)
                     ELSE IF Invalid(sent) \/ ~Resolves(JobRange(sent))
                            THEN Launched("manager", sent)
                     ELSE Job(sent)
    PROVE  /\ LaunchType(launch')
           /\ launch'.verdict = "ok" =>
                launch' = Job(sent) /\ ~Invalid(sent) /\ Resolves(JobRange(sent))
<1>1. setup \in Setup /\ now \in Seconds /\ sent \in Dates
  BY JobsAssumption, SentType DEF TypeOK
<1>2. LaunchType(Launched("manager", sent)) /\ LaunchType(Raised("manager", sent))
  BY <1>1, LaunchedType
<1>3. Raised("manager", sent).verdict = "raised" /\ Launched("manager", sent).verdict = "refused"
  BY DEF Raised, Launched, NoLaunch
<1>4. CASE setup.hasConfig /\ ConfigInvalid
  BY <1>2, <1>3, <1>4
<1>5. CASE ~(setup.hasConfig /\ ConfigInvalid) /\ (Invalid(sent) \/ ~Resolves(JobRange(sent)))
  BY <1>2, <1>3, <1>5
<1>6. CASE ~(setup.hasConfig /\ ConfigInvalid) /\ ~(Invalid(sent) \/ ~Resolves(JobRange(sent)))
  <2>1. launch' = Job(sent) /\ ~BadTarget
    BY <1>6 DEF Invalid
  <2> QED
    BY <1>1, <1>6, <2>1, JobType
<1> QED
  BY <1>4, <1>5, <1>6

(* A step keeps the types. *)
LEMMA TypeStep ==
    ASSUME TypeOK, [Next]_vars
    PROVE  TypeOK'
<1>1. /\ setup \in Setup /\ now \in Seconds /\ cycles \in Cycles
      /\ setup \in Setups /\ collected \subseteq Names \X Seconds
  BY JobsAssumption DEF TypeOK
<1>2. ASSUME LaunchType(launch'), UNCHANGED <<setup, now, cycles, collected>>
      PROVE  TypeOK'
  BY <1>1, <1>2 DEF TypeOK, LaunchType
<1>3. NoDates \in Dates
  BY EmptyLaunch
<1>4. CASE Run
  <2>1. LaunchType(launch')
    BY <1>1, <1>3, <1>4, LaunchedType, ArchivesType, SettingsType DEF Run
  <2> QED
    BY <1>2, <1>4, <2>1 DEF Run
<1>5. CASE DryRun
  <2>1. CASE ~setup.hasConfig \/ ConfigInvalid
    BY <1>1, <1>2, <1>3, <1>5, <2>1, LaunchedType DEF DryRun
  <2>2. CASE ~(~setup.hasConfig \/ ConfigInvalid)
    <3>1. setup.subreddits \in Seq(Spellings) /\ setup.subreddits # <<>>
      BY <1>1, <2>2, SettingsType DEF ConfigInvalid
    <3>2. SubSeq(setup.subreddits, 1, 1) \in Seq(Spellings)
      <4>1. Len(setup.subreddits) \in Nat /\ Len(setup.subreddits) # 0
        BY <3>1, EmptySeq, LenProperties
      <4>2. \A i \in 1 .. 1 : setup.subreddits[i] \in Spellings
        BY <3>1, <4>1, ElementOfSeq
      <4> QED
        BY <4>2, SubSeqProperties
    <3>3. Relative(DryRunDays) \in RangeType
      BY JobsAssumption DEF Relative, NoDates, RangeType, Dates, Unset
    <3>4. LaunchType(launch')
      BY <1>1, <1>5, <2>2, <3>2, <3>3, ArchivesType DEF DryRun
    <3> QED
      BY <1>2, <1>5, <3>4 DEF DryRun
  <2> QED
    BY <2>1, <2>2
<1>6. CASE Manage
  <2>1. PICK sent \in Sent :
      /\ launch' = IF setup.hasConfig /\ ConfigInvalid THEN Raised("manager", sent)
                   ELSE IF Invalid(sent) \/ ~Resolves(JobRange(sent))
                          THEN Launched("manager", sent)
                   ELSE Job(sent)
      /\ IF Cycled(sent)
           THEN /\ cycles' = [first |-> IF cycles = NoCycles THEN sent.start ELSE cycles.first,
                              last |-> sent.end,
                              ends |-> cycles.ends \cup {sent.end},
                              at |-> now]
                /\ collected' = collected \cup launch'.archived
           ELSE UNCHANGED <<cycles, collected>>
      /\ UNCHANGED <<setup, now>>
    BY <1>6 DEF Manage
  <2>2. /\ LaunchType(launch')
        /\ launch'.verdict = "ok" => ~Invalid(sent)
    BY <2>1, ManageType
  <2>3. CASE ~Cycled(sent)
    BY <1>2, <2>1, <2>2, <2>3
  <2>4. CASE Cycled(sent)
    <3>1. sent \in CycleWindows
      BY <1>1, <2>2, <2>4, CycledWindows DEF Cycled
    <3>2. sent.start \in Int /\ sent.end \in Midnights /\ sent.end \in Int /\ now \in Int
      <4>1. sent.start \in Int /\ sent.end \in Midnights
        BY <1>1, <3>1, SentType
      <4>2. sent \in Dates
        BY <1>1, SentType
      <4>3. now \in Int
        BY <1>1, JobsAssumption DEF Seconds
      <4> QED
        BY <4>1, <4>2, <4>3 DEF Dates
    <3>3. cycles.first \in Int /\ cycles.ends \subseteq Midnights
      BY <1>1 DEF Cycles
    <3>4. cycles' \in Cycles
      BY <2>1, <2>4, <3>2, <3>3 DEF Cycles
    <3>5. collected' \subseteq Names \X Seconds
      BY <1>1, <2>1, <2>2, <2>4 DEF LaunchType
    <3> QED
      BY <1>1, <2>1, <2>2, <3>4, <3>5 DEF TypeOK, LaunchType
  <2> QED
    BY <2>3, <2>4
<1>7. CASE Tick
  <2>1. now' \in Seconds
    BY <1>1, <1>7, JobsAssumption DEF Tick, Seconds
  <2> QED
    BY <1>7, <2>1 DEF Tick, TypeOK
<1>8. CASE UNCHANGED vars
  BY <1>8 DEF vars, TypeOK
<1> QED
  BY <1>4, <1>5, <1>6, <1>7, <1>8 DEF Next

(* Every variable keeps its type: among others, a launch that is carried   *)
(* out has a window of integers and the names of subreddits, a job has     *)
(* archived seconds of those names only, and its reports count them.       *)
THEOREM TypeCorrect == Spec => []TypeOK
<1>1. Init => TypeOK
  <2> SUFFICES ASSUME Init PROVE TypeOK
    OBVIOUS
  <2>1. now \in Seconds
    BY JobsAssumption DEF Init, Seconds
  <2>2. NoDates \in Dates /\ NoCycles \in Cycles /\ NoWindow \in Window
    BY EmptyLaunch
  <2>3. <<>> \in Seq(Spellings) /\ DOMAIN <<>> = {}
    BY EmptyLaunch
  <2>4. LaunchType(NoLaunch)
    BY <2>1, <2>2, <2>3 DEF Init, LaunchType, NoLaunch
  <2> QED
    BY <2>1, <2>2, <2>4 DEF Init, TypeOK, LaunchType
<1>2. TypeOK /\ [Next]_vars => TypeOK'
  BY TypeStep
<1> QED
  BY <1>1, <1>2, PTL DEF Spec

-----------------------------------------------------------------------------
(* The window of a launch *)

(* The window of dates that pass the checks is within the dates; if it     *)
(* were not resolved as dates, it would have no second in it.              *)
LEMMA DatesWindow ==
    ASSUME now \in Seconds, NEW d \in Dates, d # NoDates, ~BadDates(d),
           Resolves(JobWindow(d))
    PROVE  Within(Resolved(JobWindow(d)), d)
<1>1. now \in Int /\ Day \in Int /\ Day >= 1
  BY MidnightsAreSeconds, JobsAssumption DEF Seconds
<1>2. d.start \in Int /\ d.end \in Int /\ d = [start |-> d.start, end |-> d.end]
  BY DEF Dates
<1>3. d.start # Unset /\ d.end # Unset
  BY <1>2 DEF BadDates, NoDates
<1> DEFINE r == JobWindow(d)
           e == d.end + Day - 1
<1>4. r.dates.start = d.start /\ r.dates.end = e /\ r.lastDays = Unset
  BY DEF JobWindow, Absolute
<1>5. e \in Int /\ e <= d.end + Day
  BY <1>1, <1>2
<1> HIDE DEF r, e
<1>6. e # Unset
  <2> SUFFICES ASSUME e = Unset PROVE FALSE
    OBVIOUS
  <2>1. Resolved(r) = [after |-> now - Day * Unset, before |-> now]
    BY <1>4 DEF Resolved
  <2>2. now - Day * Unset >= now
    BY <1>1 DEF Unset
  <2>3. Resolves(r)
    BY DEF r
  <2> QED
    BY <1>1, <2>1, <2>2, <2>3 DEF Resolves, Unset
<1>7. Resolved(r) = [after |-> d.start, before |-> e]
  BY <1>3, <1>4, <1>6 DEF Resolved
<1>8. Within(Resolved(r), d)
  BY <1>2, <1>5, <1>7 DEF Within
<1> QED
  BY <1>8 DEF r

(* A number of days resolves to that many days up to now. *)
LEMMA DaysWindow ==
    ASSUME now \in Seconds, NEW n \in Int, NEW range,
           range.lastDays = n, Unset \in {range.dates.start, range.dates.end}
    PROVE  Resolved(range) = [after |-> now - n * Day, before |-> now]
<1>1. now \in Int /\ Day \in Int
  BY MidnightsAreSeconds, JobsAssumption DEF Seconds
<1>2. Day * n = n * Day
  BY <1>1
<1> QED
  BY <1>2 DEF Resolved

(* What the environment says is what the config file is expanded with.     *)
LEMMA EnvironmentStays ==
    ASSUME setup \in Setup, NEW v \in Variables, setup.environ[v] >= Unset
    PROVE  Expanded(v) = setup.environ[v]
<1>1. setup.environ[v] \in Int
  BY SettingsType
<1>2. setup.environ[v] # Absent
  BY <1>1 DEF Unset, Absent
<1>3. Environ[v] = setup.environ[v]
  BY <1>2 DEF Environ, KeepMentioned
<1> QED
  BY <1>2, <1>3 DEF Expanded

(* A run takes what the environment says of dates or days. *)
LEMMA RunWindow ==
    ASSUME TypeOK, Run
    PROVE  WindowAsAsked'
<1>1. /\ setup \in Setup /\ now \in Seconds /\ setup' = setup
      /\ setup.environ \in [Variables -> Int]
  BY JobsAssumption, SettingsType DEF TypeOK, Run
<1>2. launch'.by = "run" /\ launch'.at = now
  BY DEF Run, Archives, Raised, Launched, NoLaunch
<1>3. launch'.verdict = "ok" =>
        Resolves(ConfigRange) /\ launch'.window = Resolved(ConfigRange)
  BY DEF Run, Archives, Raised, Launched, NoLaunch
<1> DEFINE e == setup.environ
<1>4. /\ ConfigRange.dates.start = Expanded("START_DATE")
      /\ ConfigRange.dates.end = Expanded("END_DATE")
      /\ Expanded("LAST_DAYS") # Unset => ConfigRange.lastDays = Expanded("LAST_DAYS")
  BY DEF ConfigRange
<1>5. \A v \in Variables : e[v] \in Int /\ (e[v] >= Unset => Expanded(v) = e[v])
  BY <1>1, EnvironmentStays
<1>6. {"LAST_DAYS", "START_DATE", "END_DATE"} = Variables
  BY DEF Variables
<1>7. ASSUME launch'.verdict = "ok"
      PROVE  launch'.window.after < launch'.window.before
  BY <1>3, <1>7 DEF Resolves
<1>8. ASSUME launch'.verdict = "ok", e["START_DATE"] >= 0, e["END_DATE"] >= 0
      PROVE  launch'.window = [after |-> e["START_DATE"], before |-> e["END_DATE"]]
  <2>1. Expanded("START_DATE") = e["START_DATE"] /\ Expanded("END_DATE") = e["END_DATE"]
    BY <1>5, <1>6, <1>8 DEF Unset
  <2>2. e["START_DATE"] # Unset /\ e["END_DATE"] # Unset
    BY <1>8 DEF Unset
  <2> QED
    BY <1>3, <1>4, <1>8, <2>1, <2>2 DEF Resolved
<1>9. ASSUME launch'.verdict = "ok", Unset \in {e["START_DATE"], e["END_DATE"]},
             e["LAST_DAYS"] >= 0
      PROVE  launch'.window = [after |-> now - e["LAST_DAYS"] * Day, before |-> now]
  <2>1. Unset \in {ConfigRange.dates.start, ConfigRange.dates.end}
    BY <1>4, <1>5, <1>6, <1>9 DEF Unset
  <2>2. /\ e["LAST_DAYS"] \in Int /\ e["LAST_DAYS"] # Unset
        /\ Expanded("LAST_DAYS") = e["LAST_DAYS"]
    BY <1>5, <1>6, <1>9 DEF Unset
  <2>3. ConfigRange.lastDays = e["LAST_DAYS"]
    BY <1>4, <2>2
  <2> QED
    BY <1>1, <1>3, <1>9, <2>1, <2>2, <2>3, DaysWindow
<1> QED
  BY <1>1, <1>2, <1>7, <1>8, <1>9 DEF WindowAsAsked, LastDays

(* A dry run looks at its own few days. *)
LEMMA DryRunWindow ==
    ASSUME TypeOK, DryRun
    PROVE  WindowAsAsked'
<1> DEFINE range == Relative(DryRunDays)
<1>1. now \in Seconds /\ setup' = setup
  BY DEF TypeOK, DryRun
<1>2. launch'.by = "dry run" /\ launch'.at = now
  BY DEF DryRun, Archives, Raised, Launched, NoLaunch
<1>3. launch'.verdict = "ok" => Resolves(range) /\ launch'.window = Resolved(range)
  BY DEF DryRun, Archives, Raised, Launched, NoLaunch
<1>4. Resolved(range) = [after |-> now - DryRunDays * Day, before |-> now]
  <2>1. range.lastDays = DryRunDays /\ Unset \in {range.dates.start, range.dates.end}
    BY DEF Relative, NoDates
  <2>2. DryRunDays \in Int
    BY JobsAssumption
  <2> HIDE DEF range
  <2> QED
    BY <1>1, <2>1, <2>2, DaysWindow
<1> HIDE DEF range
<1> QED
  BY <1>1, <1>2, <1>3, <1>4 DEF WindowAsAsked, LastDays, Resolves

(* A job takes its own dates, or else the manager's, or else its days. *)
LEMMA ManageWindow ==
    ASSUME TypeOK, Manage
    PROVE  WindowAsAsked'
<1>1. setup \in Setup /\ now \in Seconds /\ cycles \in Cycles /\ setup' = setup
  BY JobsAssumption DEF TypeOK, Manage
<1>2. PICK sent \in Sent :
        launch' = IF setup.hasConfig /\ ConfigInvalid THEN Raised("manager", sent)
                  ELSE IF Invalid(sent) \/ ~Resolves(JobRange(sent))
                         THEN Launched("manager", sent)
                  ELSE Job(sent)
  BY DEF Manage
<1>3. launch'.by = "manager"
  BY <1>2 DEF Job, Raised, Launched, NoLaunch
<1> DEFINE p == setup.payload
           range == JobRange(sent)
           d == JobDates(sent)
<1>4. SUFFICES ASSUME launch'.verdict = "ok"
               PROVE  /\ launch'.window.after < launch'.window.before
                      /\ p.dates # NoDates => Within(launch'.window, p.dates)
                      /\ p.dates = NoDates /\ launch'.sent # NoDates =>
                           Within(launch'.window, launch'.sent)
                      /\ p.dates = NoDates /\ launch'.sent = NoDates
                           /\ p.lastDays # Unset =>
                           launch'.window = [after |-> launch'.at - p.lastDays * Day,
                                             before |-> launch'.at]
  BY <1>1, <1>3 DEF WindowAsAsked, LastDays
<1>5. launch' = Job(sent) /\ ~Invalid(sent) /\ Resolves(range)
  BY <1>2, <1>4, ManageType
<1>6. launch'.at = now /\ launch'.sent = sent /\ launch'.window = Resolved(range)
  BY <1>5 DEF Job, Launched, NoLaunch
<1>7. /\ p.dates \in Dates /\ p.lastDays \in Int /\ d \in Dates /\ ~BadDates(d)
      /\ sent \in Dates
  BY <1>1, <1>5, SentType, SettingsType, RangeOfJob DEF Invalid
<1>8. d # NoDates => Within(launch'.window, d)
  <2>1. d # NoDates => range = JobWindow(d)
    BY DEF JobRange
  <2> HIDE DEF d, range
  <2> QED
    BY <1>1, <1>5, <1>6, <1>7, <2>1, DatesWindow
<1>9. ASSUME d = NoDates, p.lastDays # Unset
      PROVE  launch'.window = [after |-> now - p.lastDays * Day, before |-> now]
  <2>1. range = Relative(p.lastDays)
    BY <1>9 DEF JobRange
  <2>2. range.lastDays = p.lastDays /\ Unset \in {range.dates.start, range.dates.end}
    BY <2>1 DEF Relative, NoDates
  <2> HIDE DEF range
  <2> QED
    BY <1>1, <1>6, <1>7, <2>2, DaysWindow
<1>10. d = IF p.dates = NoDates THEN sent ELSE p.dates
  BY DEF JobDates
<1>11. launch'.window.after < launch'.window.before
  BY <1>5, <1>6 DEF Resolves
<1> HIDE DEF d, range
<1> QED
  BY <1>6, <1>8, <1>9, <1>10, <1>11

(* No place where a window is said undoes what another said: a launch that *)
(* is carried out stays within the dates it was given, or looks back the   *)
(* days it was given and no more, whatever the .env files, the config file *)
(* and the manager hold besides (_load_dotenv, load_config,                *)
(* parse_scraping_args, _date_range and resolve).                          *)
THEOREM WindowsAreAsAsked == Spec => []WindowAsAsked
<1>1. Init => WindowAsAsked
  BY DEF Init, WindowAsAsked, NoLaunch
<1>2. TypeOK /\ WindowAsAsked /\ [Next]_vars => WindowAsAsked'
  <2> SUFFICES ASSUME TypeOK, WindowAsAsked, [Next]_vars
               PROVE  WindowAsAsked'
    OBVIOUS
  <2>1. CASE Run
    BY <2>1, RunWindow
  <2>2. CASE DryRun
    BY <2>2, DryRunWindow
  <2>3. CASE Manage
    BY <2>3, ManageWindow
  <2>4. CASE UNCHANGED <<setup, launch>>
    BY <2>4 DEF WindowAsAsked, LastDays
  <2> QED
    BY <2>1, <2>2, <2>3, <2>4 DEF Next, Tick, vars
<1> QED
  BY <1>1, <1>2, TypeCorrect, PTL DEF Spec

-----------------------------------------------------------------------------
(* The cycles of a recurrent job *)

(* The targets of a job are what the set-up says. *)
LEMMA TargetsStay ==
    ASSUME UNCHANGED setup
    PROVE  Targets' = Targets
<1>1. Targets = (CHOOSE g : FoldSolves(g))[DOMAIN Asked]
  BY DEF Targets, FoldLeft, MapThenFoldSet, FoldSolves, FoldStep, AddName, Asked
<1>2. Targets' = (CHOOSE g : FoldSolves(g)')[DOMAIN Asked']
  BY DEF Targets, FoldLeft, MapThenFoldSet, FoldSolves, FoldStep, AddName, Asked
<1>3. Asked' = Asked
  BY DEF Asked
<1> QED
  BY <1>1, <1>2, <1>3 DEF FoldSolves, FoldStep

(* What a cycle archives: every second of its window that has passed, for  *)
(* every subreddit, but for the last one of its end date.                  *)
LEMMA CycleArchives ==
    ASSUME TypeOK, NEW sent \in CycleWindows, JobDates(sent) = sent,
           NEW n \in ToSet(Targets), NEW t \in Int,
           sent.start <= t, t < sent.end + Day - 1, t < now
    PROVE  sent.start \in Nat => <<n, t>> \in Job(sent).archived
<1>1. /\ now \in 0 .. Horizon /\ Horizon \in Int /\ Day \in Int /\ Day >= 1
      /\ cycles \in Cycles
  <2>1. now \in Seconds /\ cycles \in Cycles
    BY DEF TypeOK
  <2>2. Horizon \in Int
    BY JobsAssumption
  <2> QED
    BY <2>1, <2>2, MidnightsAreSeconds DEF Seconds
<1>2. sent.start \in Int /\ sent.end \in Nat
  BY <1>1, SentType, MidnightsAreSeconds DEF TypeOK
<1>3. SUFFICES ASSUME sent.start \in Nat
               PROVE  <<n, t>> \in Job(sent).archived
  OBVIOUS
<1>4. sent # NoDates
  BY <1>3 DEF NoDates, Unset
<1>5. JobRange(sent) = JobWindow(sent)
  BY <1>4 DEF JobRange
<1>6. Resolved(JobWindow(sent)) = [after |-> sent.start, before |-> sent.end + Day - 1]
  BY <1>1, <1>2, <1>3 DEF Resolved, JobWindow, Absolute, Unset
<1>7. t \in Seconds
  BY <1>1, <1>3 DEF Seconds
<1>8. Job(sent).archived = Archived(Targets, [after |-> sent.start,
                                             before |-> sent.end + Day - 1])
  BY <1>5, <1>6, JobFields
<1> QED
  BY <1>7, <1>8 DEF Archived

(* A cycle starts where the one before it ended, or on the next day if     *)
(* that end date was over by then: between the two nothing is left out.    *)
LEMMA CycleStep ==
    ASSUME TypeOK, CyclesInv, NEW sent \in CycleWindows, JobDates(sent) = sent,
           launch' = Job(sent), UNCHANGED setup,
           cycles' = [first |-> IF cycles = NoCycles THEN sent.start ELSE cycles.first,
                      last |-> sent.end,
                      ends |-> cycles.ends \cup {sent.end},
                      at |-> now],
           collected' = collected \cup launch'.archived
    PROVE  CyclesInv'
<1>1. now \in Int /\ Day \in Int /\ Day >= 1 /\ now \in Seconds
  <2>1. now \in Seconds
    BY DEF TypeOK
  <2> QED
    BY <2>1, MidnightsAreSeconds DEF Seconds
<1>2. /\ cycles.first \in Int /\ cycles.last \in Int /\ cycles.at \in Int
      /\ cycles \in Cycles
  BY DEF TypeOK, Cycles
<1>3. sent.end \in Nat /\ sent.start \in Int /\ sent.start <= sent.end /\ sent.end <= now
  BY <1>1, <1>2, SentType, MidnightsAreSeconds DEF CycleWindows
<1>4. sent.start \in NextStarts
  BY DEF CycleWindows
<1>5. Midnights \subseteq Nat
  BY MidnightsAreSeconds
<1>6. sent.start \in Nat
  <2>1. CASE cycles = NoCycles
    BY <1>4, <1>5, <2>1 DEF NextStarts
  <2>2. CASE cycles # NoCycles
    <3>1. cycles.last \in Nat
      BY <1>2, <2>2 DEF CyclesInv
    <3> QED
      BY <1>4, <1>5, <2>2, <3>1 DEF NextStarts
  <2> QED
    BY <2>1, <2>2
<1>7. cycles'.first >= 0 /\ cycles'.last >= 0 /\ cycles'.last <= cycles'.at
  BY <1>3, <1>6 DEF CyclesInv
<1>8. Targets' = Targets
  BY TargetsStay
<1>9. ASSUME NEW n \in ToSet(Targets), NEW t \in cycles'.first .. cycles'.last + Day - 1,
             t < cycles'.at, <<n, t>> \notin collected'
      PROVE  \E d \in cycles'.ends : t = d + Day - 1
  <2>1. /\ t \in Int /\ t <= sent.end + Day - 1 /\ t < now
        /\ <<n, t>> \notin Job(sent).archived /\ <<n, t>> \notin collected
    BY <1>1, <1>3, <1>9
  <2>2. CASE t >= sent.start
    <3>1. ~(t < sent.end + Day - 1)
      BY <1>6, <2>1, <2>2, CycleArchives
    <3>2. t = sent.end + Day - 1
      BY <1>1, <1>3, <2>1, <3>1
    <3> QED
      BY <3>2
  <2>3. CASE t < sent.start
    <3>1. cycles # NoCycles /\ cycles.first <= t
      BY <1>2, <1>3, <1>9, <2>1, <2>3
    <3>2. cycles.last <= cycles.at
      BY <3>1 DEF CyclesInv
    <3>3. \/ sent.start = cycles.last
          \/ sent.start = cycles.last + Day /\ sent.start <= cycles.at
      BY <1>4, <3>1 DEF NextStarts
    <3>4. t <= cycles.last + Day - 1 /\ t < cycles.at
      BY <1>1, <1>2, <1>3, <2>1, <2>3, <3>2, <3>3
    <3>5. t \in cycles.first .. cycles.last + Day - 1
      BY <1>1, <1>2, <2>1, <3>1, <3>4
    <3>6. \E d \in cycles.ends : t = d + Day - 1
      BY <2>1, <3>4, <3>5 DEF CyclesInv, OnlyLastSecondsMissed
    <3> QED
      BY <3>6
  <2> QED
    BY <1>3, <2>1, <2>2, <2>3
<1> QED
  BY <1>7, <1>8, <1>9 DEF CyclesInv, OnlyLastSecondsMissed

(* The days of a recurrent job join up: what is missing between its first  *)
(* date and its last, as far as time had come, is the last second of an    *)
(* end date, because a cycle starts on the last end date when that had not *)
(* ended, and on the next day when it had.                                 *)
THEOREM CyclesJoinUp == Spec => []OnlyLastSecondsMissed
<1>1. Init => CyclesInv
  <2> SUFFICES ASSUME Init PROVE CyclesInv
    OBVIOUS
  <2>1. cycles = NoCycles /\ cycles.at = -1 /\ cycles.first = -1
    BY DEF Init, NoCycles, Unset
  <2>2. \A t \in cycles.first .. cycles.last + Day - 1 : ~(t < cycles.at)
    BY <2>1
  <2> QED
    BY <2>1, <2>2 DEF CyclesInv, OnlyLastSecondsMissed
<1>2. TypeOK /\ CyclesInv /\ [Next]_vars => CyclesInv'
  <2> SUFFICES ASSUME TypeOK, CyclesInv, [Next]_vars
               PROVE  CyclesInv'
    OBVIOUS
  <2>1. CASE UNCHANGED <<setup, cycles, collected>>
    BY <2>1, TargetsStay DEF CyclesInv, OnlyLastSecondsMissed
  <2>2. CASE Manage
    <3>1. PICK sent \in Sent :
      /\ launch' = IF setup.hasConfig /\ ConfigInvalid THEN Raised("manager", sent)
                   ELSE IF Invalid(sent) \/ ~Resolves(JobRange(sent))
                          THEN Launched("manager", sent)
                   ELSE Job(sent)
      /\ IF Cycled(sent)
           THEN /\ cycles' = [first |-> IF cycles = NoCycles THEN sent.start
                                        ELSE cycles.first,
                              last |-> sent.end,
                              ends |-> cycles.ends \cup {sent.end},
                              at |-> now]
                /\ collected' = collected \cup launch'.archived
           ELSE UNCHANGED <<cycles, collected>>
      /\ UNCHANGED <<setup, now>>
      BY <2>2 DEF Manage
    <3>2. CASE Cycled(sent)
      <4>1. launch' = Job(sent) /\ ~Invalid(sent)
        BY <3>1, <3>2, ManageType DEF Cycled
      <4>2. sent \in CycleWindows /\ JobDates(sent) = sent
        BY <3>2, <4>1, CycledWindows DEF Cycled, TypeOK
      <4> QED
        BY <3>1, <3>2, <4>1, <4>2, CycleStep
    <3>3. CASE ~Cycled(sent)
      BY <2>1, <3>1, <3>3
    <3> QED
      BY <3>2, <3>3
  <2> QED
    BY <2>1, <2>2 DEF Next, Run, DryRun, Tick, vars
<1>3. CyclesInv => OnlyLastSecondsMissed
  BY DEF CyclesInv
<1> QED
  BY <1>1, <1>2, <1>3, TypeCorrect, PTL DEF Spec

-----------------------------------------------------------------------------
(* The reports of a job *)

(* The records of a job under the names of a set, and their number.        *)
Under(records, s) == {r \in records : NameOn(r) \in s}

(* What a name adds to the sum over a set of names, and what sums them.    *)
SumStep(reports, h, s) ==
    IF s = {} THEN 0
    ELSE reports[CHOOSE x \in s : TRUE].records + h[s \ {CHOOSE x \in s : TRUE}]
SumSolves(reports, h) == h = [s \in SUBSET DOMAIN reports |-> SumStep(reports, h, s)]

(* Reports that count what bears each name. *)
Counts(reports, records) ==
    \A n \in DOMAIN reports : reports[n].records = Cardinality(Under(records, {n}))

(* A record bears one name: what one name adds is what bears it. *)
LEMMA OneMoreName ==
    ASSUME NEW records, IsFiniteSet(records), NEW s, NEW x \in s
    PROVE  /\ Cardinality(Under(records, s)) \in Nat
           /\ Cardinality(Under(records, s)) =
                Cardinality(Under(records, {x})) + Cardinality(Under(records, s \ {x}))
<1> DEFINE A == Under(records, {x})
           B == Under(records, s \ {x})
           C == Under(records, s)
<1>1. /\ A \in SUBSET records /\ B \in SUBSET records /\ C \in SUBSET records
      /\ IsFiniteSet(records)
  BY DEF Under
<1>2. C = A \cup B /\ A \cap B = {}
  BY DEF Under
<1>3. IsFiniteSet(A) /\ IsFiniteSet(B) /\ IsFiniteSet(C)
  BY <1>1, FS_Subset
<1>4. Cardinality(A) \in Nat /\ Cardinality(B) \in Nat /\ Cardinality(C) \in Nat
  BY <1>3, FS_CardinalityType
<1>5. Cardinality(A \cap B) = 0
  BY <1>2, FS_EmptySet
<1> HIDE DEF A, B, C
<1>6. Cardinality(C) = Cardinality(A) + Cardinality(B)
  <2>1. Cardinality(A \cup B) = Cardinality(A) + Cardinality(B) - Cardinality(A \cap B)
    BY <1>3, FS_Union, Zenon
  <2> QED
    BY <1>2, <1>4, <1>5, <2>1
<1> QED
  BY <1>4, <1>6 DEF A, B, C

(* Counting the records under each set of names sums the reports.          *)
LEMMA SumExists ==
    ASSUME NEW reports, NEW records, IsFiniteSet(records), Counts(reports, records)
    PROVE  \E h : SumSolves(reports, h)
<1> DEFINE D == DOMAIN reports
           g == [s \in SUBSET D |-> Cardinality(Under(records, s))]
<1>1. ASSUME NEW s \in SUBSET D
      PROVE  g[s] = SumStep(reports, g, s)
  <2>1. CASE s = {}
    <3>1. Under(records, s) = {}
      BY <2>1 DEF Under
    <3>2. g[s] = 0
      BY <3>1, FS_EmptySet
    <3> HIDE DEF g
    <3> QED
      BY <2>1, <3>2 DEF SumStep
  <2>2. CASE s # {}
    <3> DEFINE x == CHOOSE y \in s : TRUE
    <3>1. x \in s
      BY <2>2
    <3> HIDE DEF x
    <3>2. /\ reports[x].records = Cardinality(Under(records, {x}))
          /\ g[s] = Cardinality(Under(records, s))
          /\ g[s \ {x}] = Cardinality(Under(records, s \ {x}))
      BY <3>1 DEF Counts
    <3>3. g[s] = reports[x].records + g[s \ {x}]
      <4> HIDE DEF g
      <4> QED
        BY <3>1, <3>2, OneMoreName
    <3> HIDE DEF g
    <3> QED
      BY <2>2, <3>3 DEF SumStep, x
  <2> QED
    BY <2>1, <2>2
<1> HIDE DEF g
<1>2. g = [s \in SUBSET D |-> g[s]]
  BY DEF g
<1>3. SumSolves(reports, g)
  BY <1>1, <1>2 DEF SumSolves
<1> QED
  BY <1>3

(* Whatever sums the reports counts the records under their names.         *)
LEMMA SumCounts ==
    ASSUME NEW reports, IsFiniteSet(DOMAIN reports),
           NEW records, IsFiniteSet(records), Counts(reports, records),
           NEW h, SumSolves(reports, h), NEW s \in SUBSET DOMAIN reports
    PROVE  h[s] = Cardinality(Under(records, s))
<1> DEFINE D == DOMAIN reports
           Right(t) == h[t] = Cardinality(Under(records, t))
           T == {t \in SUBSET D : ~Right(t)}
<1>1. SUFFICES ASSUME T # {} PROVE FALSE
  BY <1>1
<1>2. \A t \in SUBSET D : h[t] = SumStep(reports, h, t)
  BY DEF SumSolves
<1>3. PICK t \in T : \A u \in T : u \subseteq t => u = t
  <2>1. \A u \in T : IsFiniteSet(u)
    BY FS_Subset
  <2> HIDE DEF T
  <2> QED
    BY <1>1, <2>1, LeastSet
<1>4. CASE t = {}
  <2>1. Under(records, t) = {} /\ h[t] = 0
    BY <1>2, <1>4 DEF Under, SumStep
  <2> QED
    BY <1>3, <2>1, FS_EmptySet
<1>5. CASE t # {}
  <2> DEFINE x == CHOOSE y \in t : TRUE
  <2>1. x \in t /\ t \in SUBSET D
    BY <1>3, <1>5
  <2>2. h[t] = reports[x].records + h[t \ {x}]
    BY <1>2, <1>5, <2>1 DEF SumStep
  <2> HIDE DEF x
  <2>3. t \ {x} \in SUBSET D /\ t \ {x} \notin T
    BY <1>3, <2>1
  <2>4. Right(t \ {x})
    BY <2>3
  <2>5. reports[x].records = Cardinality(Under(records, {x}))
    BY <2>1 DEF Counts
  <2>6. Right(t)
    BY <2>1, <2>2, <2>4, <2>5, OneMoreName
  <2> QED
    BY <1>3, <2>6
<1> QED
  BY <1>4, <1>5

(* The reports of a job: their subreddits, what they count, what is oldest.*)
LEMMA JobReports ==
    ASSUME setup \in Setup, ~BadTarget, NEW window, NEW records, NEW reports,
           records = Archived(Targets, window), reports = Reports(Targets, records)
    PROVE  /\ ToSet(Targets) \subseteq DOMAIN reports
           /\ IsFiniteSet(DOMAIN reports)
           /\ IsFiniteSet(records)
           /\ Counts(reports, records)
           /\ Under(records, DOMAIN reports) = records
           /\ \A n \in ToSet(Targets) : reports[n].oldest =
                Oldest({r[2] : r \in {q \in records \ Foreign : q[1] = n}})
<1>1. ToSet(Targets) \subseteq Names /\ IsFiniteSet(ToSet(Targets))
  BY TargetsChecked
<1>2. records \subseteq ToSet(Targets) \X Seconds /\ IsFiniteSet(records)
  BY ArchivedType DEF Archived
<1>3. DOMAIN reports = ToSet(Targets) \cup {NameOn(r) : r \in records}
  BY DEF Reports, Buckets
<1> DEFINE Bucket(n) == {r \in records : NameOn(r) = n}
           Times(bucket) == {r[2] : r \in bucket}
<1>4. \A n \in DOMAIN reports :
        /\ reports[n].records = Cardinality(Bucket(n))
        /\ reports[n].oldest = Oldest(Times(Bucket(n)))
  <2> SUFFICES ASSUME NEW n \in DOMAIN reports
               PROVE  /\ reports[n].records = Cardinality(Bucket(n))
                      /\ reports[n].oldest = Oldest(Times(Bucket(n)))
    OBVIOUS
  <2>1. reports[n] = [records |-> Cardinality(Bucket(n)), oldest |-> Oldest(Times(Bucket(n)))]
    BY DEF Reports
  <2> HIDE DEF Bucket, Times
  <2> QED
    BY <2>1
<1>5. IsFiniteSet(DOMAIN reports)
  <2>1. DOMAIN reports \in SUBSET (ToSet(Targets) \cup {Elsewhere})
    BY <1>2, <1>3 DEF NameOn
  <2>2. IsFiniteSet(ToSet(Targets) \cup {Elsewhere})
    BY <1>1, FS_AddElement
  <2> QED
    BY <2>1, <2>2, FS_Subset
<1>6. Counts(reports, records)
  <2> SUFFICES ASSUME NEW n \in DOMAIN reports
               PROVE  reports[n].records = Cardinality(Under(records, {n}))
    BY DEF Counts
  <2>1. Under(records, {n}) = Bucket(n)
    BY DEF Under
  <2> HIDE DEF Bucket, Times
  <2> QED
    BY <1>4, <2>1
<1>7. Under(records, DOMAIN reports) = records
  BY <1>3 DEF Under
<1>8. ASSUME NEW n \in ToSet(Targets)
      PROVE  reports[n].oldest =
                Oldest({r[2] : r \in {q \in records \ Foreign : q[1] = n}})
  <2>1. n # Elsewhere
    BY <1>1, JobsAssumption
  <2>2. Bucket(n) = {q \in records \ Foreign : q[1] = n}
    BY <2>1 DEF NameOn
  <2>3. reports[n].oldest = Oldest(Times(Bucket(n)))
    BY <1>3, <1>4
  <2> HIDE DEF Bucket
  <2> QED
    BY <2>2, <2>3
<1> QED
  BY <1>2, <1>3, <1>5, <1>6, <1>7, <1>8

(* A job the manager carries out leaves reports that add up. *)
LEMMA ManageReports ==
    ASSUME TypeOK, Manage
    PROVE  ReportsAddUp'
<1>1. setup \in Setup /\ setup' = setup
  BY JobsAssumption DEF TypeOK, Manage
<1>2. PICK sent \in Sent :
        launch' = IF setup.hasConfig /\ ConfigInvalid THEN Raised("manager", sent)
                  ELSE IF Invalid(sent) \/ ~Resolves(JobRange(sent))
                         THEN Launched("manager", sent)
                  ELSE Job(sent)
  BY DEF Manage
<1>3. CASE launch'.verdict # "ok"
  BY <1>3 DEF ReportsAddUp
<1>4. CASE launch'.verdict = "ok"
  <2> DEFINE window == Resolved(JobRange(sent))
             records == launch'.archived
             reports == launch'.reports
  <2>1. launch' = Job(sent) /\ ~BadTarget
    BY <1>2, <1>4, ManageType DEF Invalid
  <2>2. records = Archived(Targets, window) /\ reports = Reports(Targets, records)
    BY <2>1, JobFields
  <2> HIDE DEF window, records, reports
  <2>3. /\ ToSet(Targets) \subseteq DOMAIN reports
        /\ IsFiniteSet(DOMAIN reports)
        /\ IsFiniteSet(records)
        /\ Counts(reports, records)
        /\ Under(records, DOMAIN reports) = records
        /\ \A n \in ToSet(Targets) : reports[n].oldest =
             Oldest({r[2] : r \in {q \in records \ Foreign : q[1] = n}})
    BY <1>1, <2>1, <2>2, JobReports
  <2>4. ToSet(Targets) = {Fold[x] : x \in ToSet(setup.payload.targets)}
    BY <1>1, TargetsAreNames DEF Asked
  <2>5. (CHOOSE h : SumSolves(reports, h))[DOMAIN reports] = Cardinality(records)
    <3>1. SumSolves(reports, CHOOSE h : SumSolves(reports, h))
      BY <2>3, SumExists, Zenon
    <3> QED
      BY <2>3, <3>1, SumCounts
  <2>6. MapThenSumSet(LAMBDA n : reports[n].records, DOMAIN reports) = Cardinality(records)
    BY <2>5 DEF MapThenSumSet, MapThenFoldSet, SumSolves, SumStep
  <2> QED
    BY <1>1, <2>3, <2>4, <2>6 DEF ReportsAddUp, records, reports,
       MapThenSumSet, MapThenFoldSet
<1> QED
  BY <1>3, <1>4

(* The manager is told of every subreddit it asked for, also of one that   *)
(* has nothing and of one that was spelt twice; the numbers it is told add *)
(* up to what was archived, also when records bear other names; and each   *)
(* oldest is the first that was archived under the name                    *)
(* (build_target_stats, of what _parse_targets made of the job).           *)
THEOREM ReportsAreComplete == Spec => []ReportsAddUp
<1>1. Init => ReportsAddUp
  BY DEF Init, ReportsAddUp, NoLaunch
<1>2. TypeOK /\ ReportsAddUp /\ [Next]_vars => ReportsAddUp'
  <2> SUFFICES ASSUME TypeOK, ReportsAddUp, [Next]_vars
               PROVE  ReportsAddUp'
    OBVIOUS
  <2>1. CASE Run \/ DryRun
    <3>1. launch'.by # "manager"
      <4>1. Run => launch'.by = "run"
        BY DEF Run, Archives, Raised, Launched, NoLaunch
      <4>2. DryRun => launch'.by = "dry run"
        BY DEF DryRun, Archives, Raised, Launched, NoLaunch
      <4> QED
        BY <2>1, <4>1, <4>2
    <3> QED
      BY <3>1 DEF ReportsAddUp
  <2>2. CASE Manage
    BY <2>2, ManageReports
  <2>3. CASE UNCHANGED <<setup, launch>>
    BY <2>3 DEF ReportsAddUp, MapThenSumSet, MapThenFoldSet
  <2> QED
    BY <2>1, <2>2, <2>3 DEF Next, Tick, vars
<1> QED
  BY <1>1, <1>2, TypeCorrect, PTL DEF Spec

-----------------------------------------------------------------------------
(* The runs of one set-up *)

(* What an unchanged set-up resolves to does not go back with the clock. *)
LEMMA WindowsMoveOn ==
    ASSUME now \in Seconds, now' \in Int, now <= now', setup \in Setup, setup' = setup
    PROVE  /\ NextWindow.after <= NextWindow'.after
           /\ NextWindow.before <= NextWindow'.before
<1> DEFINE range == ConfigRange
<1>1. range' = range
  BY DEF ConfigRange, Expanded, Environ, KeepMentioned
<1>2. range \in RangeType /\ now \in Int /\ Day \in Int
  BY SettingsType, MidnightsAreSeconds, JobsAssumption DEF Seconds
<1>3. NextWindow = Resolved(range) /\ NextWindow' = Resolved(range)'
  BY DEF NextWindow
<1> HIDE DEF range
<1>4. /\ range.dates.start \in Int /\ range.dates.end \in Int
      /\ range.lastDays \in Int
  BY <1>2 DEF RangeType, Dates
<1>5. CASE Unset \notin {range.dates.start, range.dates.end}
  <2>1. /\ NextWindow = [after |-> range.dates.start, before |-> range.dates.end]
        /\ NextWindow' = [after |-> range.dates.start, before |-> range.dates.end]
    BY <1>1, <1>3, <1>5 DEF Resolved
  <2> QED
    BY <1>4, <2>1
<1>6. CASE Unset \in {range.dates.start, range.dates.end}
  <2> DEFINE back == Day * range.lastDays
  <2>1. /\ NextWindow = [after |-> now - back, before |-> now]
        /\ NextWindow' = [after |-> now' - back, before |-> now']
    BY <1>1, <1>3, <1>6 DEF Resolved
  <2>2. back \in Int
    BY <1>2, <1>4
  <2>3. now \in Int /\ now' \in Int /\ now <= now'
    BY <1>2
  <2> HIDE DEF back
  <2>4. /\ NextWindow.after = now - back /\ NextWindow.before = now
        /\ NextWindow'.after = now' - back /\ NextWindow'.before = now'
    BY <2>1, Zenon
  <2>5. now - back <= now' - back
    <3>1. \A a, b, c \in Int : a <= b => a - c <= b - c
      OBVIOUS
    <3> QED
      BY <2>2, <2>3, <3>1, Zenon
  <2> QED
    BY <2>3, <2>4, <2>5
<1> QED
  BY <1>5, <1>6

(* Each run of an unchanged set-up looks at a window that starts and ends  *)
(* no earlier than those of the runs before it, be it of dates or of days  *)
(* (load_config and resolve, called anew by every run): the assumptions    *)
(* ForwardWindows and ForwardEnds of Archiver hold of its full runs.       *)
THEOREM RunsOfASetupMoveOn == Spec => RunsMoveOn
<1> DEFINE A == /\ NextWindow.after <= NextWindow'.after
                /\ NextWindow.before <= NextWindow'.before
                /\ launch'.by = "run" /\ launch'.verdict = "ok" /\ launch' # launch =>
                     launch'.window = NextWindow
<1>1. TypeOK /\ [Next]_vars => [A]_vars
  <2> SUFFICES ASSUME TypeOK, Next PROVE A
    OBVIOUS
  <2>1. setup \in Setup /\ now \in Seconds /\ now \in Int
    <3>1. setup \in Setup /\ now \in Seconds
      BY JobsAssumption DEF TypeOK
    <3>2. now \in Int
      BY <3>1, JobsAssumption DEF Seconds
    <3> QED
      BY <3>1, <3>2
  <2>2. setup' = setup /\ now' \in {now, now + 1}
    BY DEF Next, Run, DryRun, Manage, Tick
  <2>3. now' \in Int /\ now <= now'
    BY <2>1, <2>2
  <2>4. /\ NextWindow.after <= NextWindow'.after
        /\ NextWindow.before <= NextWindow'.before
    BY <2>1, <2>2, <2>3, WindowsMoveOn
  <2>5. ASSUME launch'.by = "run", launch'.verdict = "ok", launch' # launch
        PROVE  launch'.window = NextWindow
    <3>1. CASE Run
      <4>1. launch'.verdict = "ok" => launch'.window = Resolved(ConfigRange)
        BY <3>1 DEF Run, Archives, Raised, Launched, NoLaunch
      <4> QED
        BY <2>5, <4>1 DEF NextWindow
    <3>2. CASE DryRun
      <4>1. launch'.by = "dry run"
        BY <3>2 DEF DryRun, Archives, Raised, Launched, NoLaunch
      <4> QED
        BY <2>5, <4>1
    <3>3. CASE Manage
      <4>1. launch'.by = "manager"
        BY <3>3 DEF Manage, Job, Raised, Launched, NoLaunch
      <4> QED
        BY <2>5, <4>1
    <3> QED
      BY <2>5, <3>1, <3>2, <3>3 DEF Next, Tick
  <2> QED
    BY <2>4, <2>5
<1> QED
  BY <1>1, TypeCorrect, PTL DEF Spec, RunsMoveOn
=============================================================================
