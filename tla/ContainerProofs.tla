--------------------------- MODULE ContainerProofs --------------------------
(***************************************************************************)
(* Theorems about Container, for any set of folders in any state, and any  *)
(* way of starting the container.                                          *)
(***************************************************************************)
EXTENDS Container, TLAPS

(* The merge that a step may begin keeps the types. *)
LEMMA BeginMergeType ==
    ASSUME TypeOK, BeginMerge
    PROVE  /\ program' \in {"merge", "gone"}
           /\ exit' \in {exit, "two"}
           /\ todo' \subseteq Folders
           /\ failed' \in BOOLEAN
  BY DEF BeginMerge, Exit, Found, TypeOK

(* So does what follows the end of the program. *)
LEMMA AfterType ==
    ASSUME TypeOK, NEW code \in {"zero", "one"}, After(code)
    PROVE  /\ program' \in {"merge", "gone"}
           /\ exit' \in {exit, "two", code}
           /\ todo' \subseteq Folders
           /\ failed' \in BOOLEAN
<1>1. CASE child /\ code = "zero"
  BY <1>1, BeginMergeType DEF After
<1>2. CASE ~(child /\ code = "zero")
  BY <1>2 DEF After, Exit, TypeOK
<1> QED
  BY <1>1, <1>2

(***************************************************************************)
(* A step keeps the types.  A merge only writes what merged files are made *)
(* from: it works on the folders it found, so never on an absent one.      *)
(***************************************************************************)
LEMMA TypeStep ==
    ASSUME TypeOK, ContainerInv, [Next]_vars
    PROVE  TypeOK'
<1> USE DEF TypeOK
<1>1. CASE ExecMerge
  BY <1>1, BeginMergeType DEF ExecMerge
<1>2. CASE NoConfig
  BY <1>2 DEF NoConfig, Exit
<1>3. CASE StartProgram
  <2>1. given.merge \in BOOLEAN
    BY ContainerAssumption DEF Settings
  <2>2. Chained \in BOOLEAN
    BY <2>1 DEF Chained
  <2> QED
    BY <1>3, <2>2 DEF StartProgram
<1>4. ASSUME NEW f \in Folders, ArchiverStores(f)
      PROVE  TypeOK'
  <2>1. data' \in [Folders -> DataStates]
    BY <1>4 DEF ArchiverStores, DataStates
  <2> QED
    BY <1>4, <2>1 DEF ArchiverStores
<1>5. CASE ArchiverReturns \/ ArchiverRaises
  <2>1. /\ program' \in {"merge", "gone"}
        /\ exit' \in {exit, "two", "zero", "one"}
        /\ todo' \subseteq Folders
        /\ failed' \in BOOLEAN
    BY <1>5, AfterType DEF ArchiverReturns, ArchiverRaises
  <2> QED
    BY <1>5, <2>1 DEF ArchiverReturns, ArchiverRaises
<1>6. CASE FilterEnds
  <2>1. /\ program' \in {"merge", "gone"}
        /\ exit' \in {exit, "two", "zero", "one"}
        /\ todo' \subseteq Folders
        /\ failed' \in BOOLEAN
    BY <1>6, AfterType DEF FilterEnds
  <2> QED
    BY <1>6, <2>1 DEF FilterEnds
<1>7. ASSUME NEW f \in Folders, MergeFolder(f)
      PROVE  TypeOK'
  <2>1. f \in Found
    BY <1>7 DEF MergeFolder, ContainerInv, MergeSoFar
  <2>2. Readable(f) => data[f] \in {"old", "new"}
    BY <2>1 DEF Found, DataStates, Readable
  <2>3. merged' \in [Folders -> {"none", "old", "new"}]
    BY <1>7, <2>2 DEF MergeFolder
  <2>4. todo' \subseteq Folders /\ failed' \in BOOLEAN
    BY <1>7 DEF MergeFolder, Rest
  <2> QED
    BY <1>7, <2>3, <2>4 DEF MergeFolder
<1>8. CASE MergeEnds
  BY <1>8 DEF MergeEnds, Exit, MergeExit
<1>9. ASSUME NEW f \in Folders, MergeWriteFails(f)
      PROVE  TypeOK'
  BY <1>9 DEF MergeWriteFails, Exit
<1>10. CASE Stop \/ Kill
  BY <1>10 DEF Stop, Kill, Exit
<1>11. CASE Gone \/ UNCHANGED vars
  BY <1>11 DEF Gone, vars
<1> QED
  BY <1>1, <1>2, <1>3, <1>4, <1>5, <1>6, <1>7, <1>8, <1>9, <1>10, <1>11 DEF Next

-----------------------------------------------------------------------------
(* A merge that begins has every folder it found before it. *)
LEMMA BeginMergeInv ==
    ASSUME TypeOK, BeginMerge, data' = data, exit = "none"
    PROVE  MergeSoFar' /\ (program' # "gone" => exit' = "none")
  BY DEF BeginMerge, MergeSoFar, Found, Exit

(* What follows the end of a program that returned code. *)
LEMMA AfterInv ==
    ASSUME TypeOK, NEW code, After(code), data' = data, exit = "none"
    PROVE  /\ MergeSoFar' /\ (program' # "gone" => exit' = "none")
           /\ code = "one" => program' = "gone" /\ exit' = "one"
<1>1. CASE child /\ code = "zero"
  BY <1>1, BeginMergeInv DEF After
<1>2. CASE ~(child /\ code = "zero")
  BY <1>2 DEF After, Exit, MergeSoFar
<1> QED
  BY <1>1, <1>2

(* A step keeps the invariant. *)
LEMMA InvStep ==
    ASSUME TypeOK, ContainerInv, [Next]_vars
    PROVE  ContainerInv'
<1>0. EndsOnce /\ MergeSoFar
  BY DEF ContainerInv
<1>1. CASE ExecMerge
  BY <1>0, <1>1, BeginMergeInv DEF ExecMerge, EndsOnce, ContainerInv
<1>2. CASE NoConfig
  BY <1>0, <1>2 DEF NoConfig, Exit, EndsOnce, MergeSoFar, ContainerInv
<1>3. CASE StartProgram
  BY <1>0, <1>3 DEF StartProgram, EndsOnce, MergeSoFar, ContainerInv
<1>4. ASSUME NEW f \in Folders, ArchiverStores(f)
      PROVE  ContainerInv'
  BY <1>0, <1>4 DEF ArchiverStores, EndsOnce, MergeSoFar, ContainerInv
<1>5. CASE ArchiverReturns
  BY <1>0, <1>5, AfterInv DEF ArchiverReturns, EndsOnce, ContainerInv
<1>6. CASE ArchiverRaises
  BY <1>0, <1>6, AfterInv DEF ArchiverRaises, EndsOnce, ContainerInv
<1>7. CASE FilterEnds
  <2>1. program = "filter" /\ result' = result /\ result # "raised" /\ exit = "none"
    BY <1>0, <1>7 DEF FilterEnds, EndsOnce
  <2> QED
    BY <1>7, <2>1, AfterInv DEF FilterEnds, EndsOnce, ContainerInv
<1>8. ASSUME NEW f \in Folders, MergeFolder(f)
      PROVE  ContainerInv'
  <2>1. /\ program = "merge" /\ f \in todo
        /\ UNCHANGED <<program, result, exit, data>>
        /\ todo' = todo \ {f}
        /\ failed => failed'
        /\ \A g \in Folders \ {f} : merged'[g] = merged[g]
        /\ \/ merged'[f] = data[f]
           \/ data[f] = "corrupt" /\ failed'
    <3>1. CASE ~Readable(f)
      BY <1>8, <3>1 DEF MergeFolder, Rest, Readable
    <3>2. CASE Readable(f)
      BY <1>8, <3>2 DEF MergeFolder, TypeOK
    <3> QED
      BY <3>1, <3>2
  <2>2. Found' = Found /\ Found \subseteq Folders
    BY <2>1 DEF Found
  <2>3. ASSUME NEW g \in Found \ todo'
        PROVE  \/ merged'[g] = data[g]
               \/ data[g] = "corrupt" /\ failed'
    BY <1>0, <2>1, <2>2 DEF MergeSoFar
  <2>4. MergeSoFar'
    BY <1>0, <2>1, <2>2, <2>3 DEF MergeSoFar
  <2> QED
    BY <1>0, <2>1, <2>4 DEF EndsOnce, ContainerInv
<1>9. CASE MergeEnds
  BY <1>0, <1>9 DEF MergeEnds, Exit, EndsOnce, MergeSoFar, ContainerInv
<1>10. CASE Stop
  BY <1>0, <1>10 DEF Stop, Exit, EndsOnce, MergeSoFar, Found, ContainerInv
<1>11. CASE Kill
  BY <1>0, <1>11 DEF Kill, Exit, EndsOnce, MergeSoFar, ContainerInv
<1>12. CASE Gone \/ UNCHANGED vars
  BY <1>0, <1>12 DEF Gone, vars, EndsOnce, MergeSoFar, Found, ContainerInv
<1>13. ASSUME NEW f \in Folders, MergeWriteFails(f)
       PROVE  ContainerInv'
  BY <1>0, <1>13 DEF MergeWriteFails, Exit, EndsOnce, MergeSoFar, ContainerInv
<1> QED
  BY <1>1, <1>2, <1>3, <1>4, <1>5, <1>6, <1>7, <1>8, <1>9, <1>10, <1>11, <1>12, <1>13
  DEF Next

(* Both hold at every moment of a container's life: every variable has its *)
(* type, an exit code comes with the end and only then, and a merge has    *)
(* nothing behind it that is neither current nor reported.                 *)
THEOREM ContainerInvariant == Spec => [](TypeOK /\ ContainerInv)
<1>1. Init => TypeOK /\ ContainerInv
  BY DEF Init, TypeOK, ContainerInv, EndsOnce, MergeSoFar, DataStates
<1>2. TypeOK /\ ContainerInv /\ [Next]_vars => TypeOK' /\ ContainerInv'
  BY TypeStep, InvStep
<1> QED
  BY <1>1, <1>2, PTL DEF Spec

(* The variables of the script, the program and the merge have their types:*)
(* among others, a merged file is never made from an absent or a corrupt   *)
(* folder.                                                                 *)
THEOREM TypeCorrect == Spec => []TypeOK
  BY ContainerInvariant, PTL

-----------------------------------------------------------------------------
(* "A failed archive never merges, the run's exit code stands": set -e     *)
(* ends the script with the program's code, and nothing follows.           *)
THEOREM FailuresStand == Spec => FailureStands
<1>1. ContainerInv /\ [Next]_vars => [result = "raised" => merged' = merged /\ exit' = "one"]_vars
  <2> SUFFICES ASSUME ContainerInv, Next, result = "raised"
               PROVE  merged' = merged /\ exit' = "one"
    OBVIOUS
  <2>1. program = "gone" /\ exit = "one"
    BY DEF ContainerInv, EndsOnce
  <2>2. Gone
    BY <2>1 DEF Next, ExecMerge, NoConfig, StartProgram, ArchiverStores, ArchiverReturns,
                ArchiverRaises, FilterEnds, MergeFolder, MergeWriteFails, MergeEnds,
                Stop, Kill
  <2> QED
    BY <2>1, <2>2 DEF Gone, vars
<1> QED
  BY <1>1, ContainerInvariant, PTL DEF Spec, FailureStands

(***************************************************************************)
(* "The other folders are still merged", as far as it is true of           *)
(* merge_output.main: a merge that ends with code 0 has made every merged  *)
(* file from what its folder holds, and one that ends with code 1 every    *)
(* one but those of corrupt folders and, when a merged file could not be   *)
(* written, of the folders it had not come to.                             *)
(***************************************************************************)
THEOREM MergesAreCurrent == Spec => MergedIsCurrent
<1>1. ContainerInv /\ [Next]_vars =>
        [program = "merge" /\ exit' \in {"zero", "one"} =>
           \A f \in Found :
             \/ merged[f] = data[f]
             \/ /\ exit' = "one"
                /\ data[f] = "corrupt" \/ (unwritten' /\ f \in todo)]_vars
  <2> SUFFICES ASSUME ContainerInv, Next, program = "merge", exit' \in {"zero", "one"},
                      NEW f \in Found
               PROVE  \/ merged[f] = data[f]
                      \/ /\ exit' = "one"
                         /\ data[f] = "corrupt" \/ (unwritten' /\ f \in todo)
    OBVIOUS
  <2>1. exit = "none"
    BY DEF ContainerInv, EndsOnce
  <2>2. MergeEnds \/ \E g \in Folders : MergeWriteFails(g)
    BY <2>1 DEF Next, ExecMerge, NoConfig, StartProgram, ArchiverStores, ArchiverReturns,
                ArchiverRaises, FilterEnds, MergeFolder, Stop, Kill, Gone, vars, Exit
  <2>3. CASE MergeEnds
    <3>1. todo = {} /\ exit' = MergeExit
      BY <2>3 DEF MergeEnds, Exit
    <3> QED
      BY <3>1 DEF ContainerInv, MergeSoFar, MergeExit
  <2>4. CASE \E g \in Folders : MergeWriteFails(g)
    <3>1. exit' = "one" /\ unwritten'
      BY <2>4 DEF MergeWriteFails, Exit
    <3> QED
      BY <3>1 DEF ContainerInv, MergeSoFar
  <2> QED
    BY <2>2, <2>3, <2>4
<1> QED
  BY <1>1, ContainerInvariant, PTL DEF Spec, MergedIsCurrent
=============================================================================
