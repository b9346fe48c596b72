---------------------------- MODULE CommentTree -----------------------------
(***************************************************************************)
(* The depths of comments, computed twice in this code from the parents    *)
(* the comments name: in the store, breadth first with a queue             *)
(* (_assign_depths of store/storage.py), and for the preview of a dry run, *)
(* by recursion over the nodes of a forest (tree.py).                      *)
(*                                                                         *)
(* The parents are any function: forests, comments whose parent is not in  *)
(* the store, and cycles, which the code guards against.  The order of     *)
(* the dictionaries is left open: a queue is the set of what is in it.     *)
(***************************************************************************)
EXTENDS Integers, Sequences, FiniteSets

CONSTANTS
    Comments,       \* the ids of comments.json
    Elsewhere,      \* a parent that is not among them: the post, or a gap
    RecursionLimit  \* frames the interpreter has left for _assign_depth

ASSUME TreeAssumption ==
    /\ IsFiniteSet(Comments)
    /\ Elsewhere \notin Comments
    /\ RecursionLimit \in Nat

None == -1     \* a null depth

VARIABLES
    parent,  \* comment -> the parent it names
    phase,   \* "store", then "forest", then "done"; or "crashed"
    depth,   \* comment -> the depth stored with it
    seen,    \* local variable seen of storage._assign_depths
    queue,   \* its queue: comments with the depth they will get
    stack,   \* the calls of tree._assign_depth: [node, todo]
    shown    \* comment -> its depth in the forest, None outside of it

vars == <<parent, phase, depth, seen, queue, stack, shown>>

Depths == Nat \cup {None}

TypeOK ==
    /\ parent \in [Comments -> Comments \cup {Elsewhere}]
    /\ phase \in {"store", "forest", "done", "crashed"}
    /\ depth \in [Comments -> Depths]
    /\ seen \subseteq Comments
    /\ queue \subseteq Comments \X Nat
    /\ stack \in Seq([node : Comments, todo : SUBSET Comments])
    /\ shown \in [Comments -> Depths]

(* Top-level comments and orphans are roots. *)
Roots == {c \in Comments : parent[c] = Elsewhere}
Children(c) == {d \in Comments : parent[d] = c}

-----------------------------------------------------------------------------
(* storage._assign_depths *)

ChildDepthSame(d) == d      \* mutant: the hop is not counted
ChildDepthUp(d) == d - 2    \* mutant: counted the wrong way
ChildDepth(d) == d + 1

(* Mutant: a comment is looked at but stays in the queue. *)
VisitStuck(c, d) ==
    /\ phase = "store"
    /\ <<c, d>> \in queue
    /\ seen' = seen \cup {c}
    /\ depth' = [depth EXCEPT ![c] = d]
    /\ queue' = queue \cup {<<k, ChildDepth(d)>> : k \in Children(c)}
    /\ UNCHANGED <<parent, phase, stack, shown>>

(* A comment leaves the queue.  It gets its depth and its children line    *)
(* up, unless it was seen before: the guard against cycles.                *)
Visit(c, d) ==
    /\ phase = "store"
    /\ <<c, d>> \in queue
    /\ IF c \in seen
         THEN queue' = queue \ {<<c, d>>} /\ UNCHANGED <<depth, seen>>
         ELSE /\ seen' = seen \cup {c}
              /\ depth' = [depth EXCEPT ![c] = d]
              /\ queue' = (queue \ {<<c, d>>}) \cup {<<k, ChildDepth(d)>> : k \in Children(c)}
    /\ UNCHANGED <<parent, phase, stack, shown>>

(* The queue is empty: the depths are written. *)
Materialized ==
    /\ phase = "store"
    /\ queue = {}
    /\ phase' = "forest"
    /\ UNCHANGED <<parent, depth, seen, queue, stack, shown>>

-----------------------------------------------------------------------------
(* tree.build_forest and its _assign_depth *)

Top == stack[Len(stack)]

(* A call of _assign_depth on c from the calls s; the interpreter's stack  *)
(* is bounded.                                                             *)
Call(s, c) ==
    IF Len(s) < RecursionLimit
      THEN /\ shown' = [shown EXCEPT ![c] = Len(s)]
           /\ stack' = Append(s, [node |-> c, todo |-> Children(c)])
           /\ UNCHANGED phase
      ELSE /\ phase' = "crashed"
           /\ UNCHANGED <<shown, stack>>

(* Mutant: the next root begins before the last one has returned. *)
AssignRootNested ==
    /\ phase = "forest"
    /\ \E c \in Roots : shown[c] = None /\ Call(stack, c)
    /\ UNCHANGED <<parent, depth, seen, queue>>

AssignRoot ==
    /\ phase = "forest"
    /\ stack = <<>>
    /\ \E c \in Roots : shown[c] = None /\ Call(stack, c)
    /\ UNCHANGED <<parent, depth, seen, queue>>

(* The children that a call still has to go through: each of them once. *)
TodoFirstOnly(c, todo) == {}    \* mutant: only the first child is visited
Todo(c, todo) == todo \ {c}

AssignChild ==
    /\ phase = "forest"
    /\ stack # <<>>
    /\ \E c \in Top.todo : Call([stack EXCEPT ![Len(stack)].todo = Todo(c, @)], c)
    /\ UNCHANGED <<parent, depth, seen, queue>>

Return ==
    /\ phase = "forest"
    /\ stack # <<>>
    /\ Top.todo = {}
    /\ stack' = SubSeq(stack, 1, Len(stack) - 1)
    /\ UNCHANGED <<parent, phase, depth, seen, queue, shown>>

Built ==
    /\ phase = "forest"
    /\ stack = <<>>
    /\ \A c \in Roots : shown[c] # None
    /\ phase' = "done"
    /\ UNCHANGED <<parent, depth, seen, queue, stack, shown>>

Finished == phase \in {"done", "crashed"} /\ UNCHANGED vars

(* Comments stored before have the depths of an earlier pass: 0 where they *)
(* were orphans then.                                                      *)
Init ==
    /\ parent \in [Comments -> Comments \cup {Elsewhere}]
    /\ phase = "store"
    /\ depth \in [Comments -> {None, 0}]
    /\ seen = {}
    /\ queue = {<<c, 0>> : c \in Roots}
    /\ stack = <<>>
    /\ shown = [c \in Comments |-> None]

Next ==
    \/ \E p \in queue : Visit(p[1], p[2])
    \/ Materialized
    \/ AssignRoot
    \/ AssignChild
    \/ Return
    \/ Built
    \/ Finished

Spec == Init /\ [][Next]_vars

FairSpec == Spec /\ WF_vars(Next)

-----------------------------------------------------------------------------
(* Properties *)

(* The number of hops from a comment to its root, by following parents;    *)
(* NoRoot where they lead into a cycle.  Hops[n] follows at most n parents.*)
NoRoot == -2
Hops[n \in 0 .. Cardinality(Comments)] ==
    [c \in Comments |->
        IF parent[c] = Elsewhere THEN 0
        ELSE IF n = 0 \/ Hops[n - 1][parent[c]] = NoRoot THEN NoRoot
        ELSE Hops[n - 1][parent[c]] + 1]
HopsToRoot(c) == Hops[Cardinality(Comments)][c]

(* "Top-level comments are depth 0, each t1_ hop adds one": what the store *)
(* pass leaves is the number of hops to the root, whatever depths an       *)
(* earlier pass had stored, for every comment that has a root; and those   *)
(* are the comments its queue visits.                                      *)
DepthIsHops ==
    phase # "store" =>
        /\ seen = {c \in Comments : HopsToRoot(c) # NoRoot}
        /\ \A c \in seen : depth[c] = HopsToRoot(c)

(* The depth of a root is 0, that of any other comment one more than its   *)
(* parent's, which is seen.                                                *)
AtDepth(c, d) ==
    IF c \in Roots THEN d = 0
    ELSE parent[c] \in seen /\ d = depth[parent[c]] + 1

(* What the proofs have of it without hops: the store pass leaves out no   *)
(* comment whose parent it visits, visits no other, and no depth it leaves *)
(* is stale, neither from an earlier pass nor for a parent that got its    *)
(* own later.                                                              *)
DepthsFollowParents ==
    phase # "store" =>
        \A c \in Comments :
            /\ c \in seen <=> c \in Roots \/ parent[c] \in seen
            /\ c \in seen => AtDepth(c, depth[c])

(* Its inductive form, during the pass: what is in the queue would follow  *)
(* too, and nothing that belongs in the queue is missing from it.          *)
QueueInv ==
    /\ \A c \in seen : AtDepth(c, depth[c])
    /\ \A p \in queue : AtDepth(p[1], p[2])
    /\ \A c \in Comments \ seen :
         c \in Roots \/ parent[c] \in seen => \E p \in queue : p[1] = c
    /\ phase # "store" => queue = {}

(* "The equivalent in-memory reconstruction": the forest shows exactly the *)
(* comments the store pass visits, at the same depths.                     *)
ForestAgrees ==
    phase = "done" =>
        \A c \in Comments : shown[c] = IF c \in seen THEN depth[c] ELSE None

(* The inductive form of what the preview does: a comment in the forest    *)
(* has its stored depth, its calls lie on the stack in the order of their  *)
(* depths, and a child of a comment in the forest is in it too or still to *)
(* be called from there.                                                   *)
Framed(c, d) ==
    \E i \in 1 .. Len(stack) : stack[i].node = c /\ d \in stack[i].todo

InForest ==
    \A c \in Comments : shown[c] # None =>
        /\ c \in seen /\ shown[c] = depth[c] /\ shown[c] < RecursionLimit
        /\ \A d \in Children(c) : shown[d] # None \/ Framed(c, d)

OnStack ==
    \A i \in 1 .. Len(stack) :
        /\ stack[i].node \in seen /\ depth[stack[i].node] = i - 1
        /\ stack[i].todo \subseteq Children(stack[i].node)

StackInv ==
    /\ InForest
    /\ OnStack
    /\ phase = "done" => stack = <<>> /\ \A c \in Roots : shown[c] # None
    /\ phase = "crashed" => \E c \in seen : depth[c] >= RecursionLimit
    /\ phase = "store" => stack = <<>> /\ \A c \in Comments : shown[c] = None

(* The recursion of the preview fails on a tree with more levels than the  *)
(* interpreter has frames, where the queue of the store pass does not, and *)
(* on no other: wide trees, orphans and cycles are no danger to it.        *)
Deep == \E c \in Comments : HopsToRoot(c) >= RecursionLimit
FailsWhenDeep ==
    /\ phase = "crashed" => Deep
    /\ phase = "done" => ~Deep

(* Why they end: each comment is looked at once by either pass.  What is   *)
(* in the queue was not visited yet, so that the guard against cycles has  *)
(* nothing to do; what a call has still to go through is not in the forest *)
(* yet, where a comment comes after its parent only.                       *)
QueuedOnce == \A p \in queue : p[1] \notin seen

ShownOnce ==
    /\ \A i \in 1 .. Len(stack) :
         /\ shown[stack[i].node] # None
         /\ \A c \in stack[i].todo : shown[c] = None
    /\ \A c \in Comments \ Roots : shown[c] # None => shown[parent[c]] # None

OnceInv == QueuedOnce /\ ShownOnce

Unshown == {c \in Comments : shown[c] = None}

(* The steps that are left, of three for each comment and two besides.     *)
StepsLeft ==
    CASE phase = "store" -> Cardinality(Comments \ seen) + 2 * Cardinality(Comments) + 2
      [] phase = "forest" -> 2 * Cardinality(Unshown) + Len(stack) + 1
      [] OTHER -> 0

StepsRunOut == [][StepsLeft' \in Nat /\ StepsLeft' < StepsLeft]_vars

(* Both passes end, on cycles too. *)
PassesEnd == <>(phase \in {"done", "crashed"})
=============================================================================
