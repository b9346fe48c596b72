------------------------- MODULE CommentTreeProofs --------------------------
(***************************************************************************)
(* Theorems about CommentTree: for any set of comments, any parents they   *)
(* name, cycles included, and any depth of the interpreter's stack.        *)
(***************************************************************************)
EXTENDS CommentTree, SequenceTheorems, FiniteSetTheorems, TLAPS

Frames == [node : Comments, todo : SUBSET Comments]

(* A call keeps the stack one of frames over the comments. *)
LEMMA CallType ==
    ASSUME NEW s \in Seq(Frames), NEW c \in Comments, TypeOK,
           phase = "forest", stack \in Seq(Frames), Call(s, c)
    PROVE  /\ phase' \in {"forest", "crashed"}
           /\ stack' \in Seq(Frames)
           /\ shown' \in [Comments -> Depths]
<1>1. CASE Len(s) < RecursionLimit
  <2>1. [node |-> c, todo |-> Children(c)] \in Frames
    BY DEF Frames, Children
  <2>2. Append(s, [node |-> c, todo |-> Children(c)]) \in Seq(Frames)
    BY <2>1
  <2>3. Len(s) \in Depths
    BY LenProperties DEF Depths
  <2>4. shown' \in [Comments -> Depths]
    BY <1>1, <2>3 DEF Call, TypeOK
  <2> QED
    BY <1>1, <2>2, <2>4 DEF Call
<1>2. CASE ~(Len(s) < RecursionLimit)
  BY <1>2 DEF Call, TypeOK
<1> QED
  BY <1>1, <1>2

(* A step keeps the types. *)
LEMMA TypeStep ==
    ASSUME TypeOK, [Next]_vars
    PROVE  TypeOK'
<1> USE DEF TypeOK
<1>0. stack \in Seq(Frames)
  BY DEF Frames
<1>1. ASSUME NEW p \in queue, Visit(p[1], p[2])
      PROVE  TypeOK'
  <2>1. p[1] \in Comments /\ p[2] \in Nat /\ p[2] \in Depths
    BY DEF Depths
  <2>2. {<<k, ChildDepth(p[2])>> : k \in Children(p[1])} \subseteq Comments \X Nat
    BY <2>1 DEF ChildDepth, Children
  <2>3. queue' \subseteq Comments \X Nat /\ seen' \subseteq Comments
    BY <1>1, <2>1, <2>2 DEF Visit
  <2>4. depth' \in [Comments -> Depths]
    BY <1>1, <2>1 DEF Visit
  <2> QED
    BY <1>1, <2>3, <2>4 DEF Visit
<1>2. CASE Materialized
  BY <1>2 DEF Materialized
<1>3. CASE AssignRoot
  <2>1. PICK c \in Roots : Call(stack, c)
    BY <1>3 DEF AssignRoot
  <2>2. c \in Comments
    BY <2>1 DEF Roots
  <2>3. /\ phase' \in {"forest", "crashed"}
        /\ stack' \in Seq(Frames)
        /\ shown' \in [Comments -> Depths]
    BY <1>0, <1>3, <2>1, <2>2, CallType DEF AssignRoot
  <2> QED
    BY <1>3, <2>3 DEF AssignRoot, Frames
<1>4. CASE AssignChild
  <2>1. PICK c \in Top.todo :
          Call([stack EXCEPT ![Len(stack)].todo = Todo(c, @)], c)
    BY <1>4 DEF AssignChild
  <2>2. Len(stack) \in 1 .. Len(stack) /\ Top \in Frames
    BY <1>0, <1>4, EmptySeq, ElementOfSeq DEF AssignChild, Top
  <2>3. c \in Comments /\ Todo(c, Top.todo) \subseteq Comments
    BY <2>1, <2>2 DEF Frames, Todo
  <2>4. [Top EXCEPT !.todo = Todo(c, @)] \in Frames
    BY <2>2, <2>3 DEF Frames
  <2>5. [stack EXCEPT ![Len(stack)] = [Top EXCEPT !.todo = Todo(c, @)]] \in Seq(Frames)
    BY <1>0, <2>2, <2>4, ExceptSeq
  <2>6. [stack EXCEPT ![Len(stack)].todo = Todo(c, @)] \in Seq(Frames)
    BY <2>5 DEF Top
  <2>7. /\ phase' \in {"forest", "crashed"}
        /\ stack' \in Seq(Frames)
        /\ shown' \in [Comments -> Depths]
    BY <1>0, <1>4, <2>1, <2>3, <2>6, CallType DEF AssignChild
  <2> QED
    BY <1>4, <2>7 DEF AssignChild, Frames
<1>5. CASE Return
  <2>1. SubSeq(stack, 1, Len(stack) - 1) \in Seq(Frames)
    <3>1. Len(stack) \in Nat /\ Len(stack) # 0
      BY <1>0, <1>5, EmptySeq DEF Return
    <3> QED
      BY <1>0, <3>1, SubSeqProperties
  <2> QED
    BY <1>5, <2>1 DEF Return, Frames
<1>6. CASE Built
  BY <1>6 DEF Built
<1>7. CASE UNCHANGED vars
  BY <1>7 DEF vars
<1> QED
  BY <1>1, <1>2, <1>3, <1>4, <1>5, <1>6, <1>7 DEF Next, Finished

(* Every variable keeps its type. *)
THEOREM TypeCorrect == Spec => []TypeOK
<1>1. Init => TypeOK
  <2>1. ASSUME Init
        PROVE  /\ queue \subseteq Comments \X Nat
               /\ depth \in [Comments -> Depths]
               /\ shown \in [Comments -> Depths]
    BY <2>1 DEF Init, Roots, Depths
  <2> QED
    BY <2>1, EmptySeq DEF Init, TypeOK
<1>2. TypeOK /\ [Next]_vars => TypeOK'
  BY TypeStep
<1> QED
  BY <1>1, <1>2, PTL DEF Spec

-----------------------------------------------------------------------------
(* What follows from the parents seen so far still follows when another    *)
(* comment c gets its depth: c is not one of those parents.                *)
LEMMA AtDepthKept ==
    ASSUME TypeOK, NEW c \in Comments \ seen, NEW d, NEW x, NEW e,
           UNCHANGED parent,
           seen' = seen \cup {c}, depth' = [depth EXCEPT ![c] = d],
           AtDepth(x, e)
    PROVE  AtDepth(x, e)'
<1>1. x \in Roots' <=> x \in Roots
  BY DEF Roots
<1>2. CASE x \in Roots
  BY <1>1, <1>2 DEF AtDepth
<1>3. CASE x \notin Roots
  <2>1. parent[x] \in seen /\ parent[x] \in Comments /\ parent[x] # c
    BY <1>3 DEF AtDepth, TypeOK
  <2>2. depth'[parent[x]] = depth[parent[x]]
    BY <2>1 DEF TypeOK
  <2> QED
    BY <1>1, <1>3, <2>1, <2>2 DEF AtDepth
<1> QED
  BY <1>2, <1>3

(* A visit keeps the depths right and the queue complete. *)
LEMMA VisitStep ==
    ASSUME TypeOK, QueueInv, NEW p \in queue, Visit(p[1], p[2])
    PROVE  QueueInv'
<1> DEFINE c == p[1]
           d == p[2]
<1>1. c \in Comments /\ d \in Nat /\ p = <<c, d>>
  BY DEF TypeOK
<1>2. parent' = parent /\ phase = "store" /\ phase' = "store" /\ Roots' = Roots
  BY DEF Visit, Roots
<1>3. CASE c \in seen
  <2>1. queue' = queue \ {p} /\ seen' = seen /\ depth' = depth
    BY <1>1, <1>3 DEF Visit
  <2>2. ASSUME NEW x \in Comments \ seen, x \in Roots \/ parent[x] \in seen
        PROVE  \E q \in queue \ {p} : q[1] = x
    <3>1. PICK q \in queue : q[1] = x
      BY <2>2 DEF QueueInv
    <3>2. q # p
      BY <1>3, <3>1
    <3> QED
      BY <3>1, <3>2
  <2>3. /\ \A x \in seen' : AtDepth(x, depth[x])'
        /\ \A q \in queue' : AtDepth(q[1], q[2])'
    BY <1>2, <2>1 DEF QueueInv, AtDepth
  <2> QED
    BY <1>2, <2>1, <2>2, <2>3 DEF QueueInv
<1>4. CASE c \notin seen
  <2>1. /\ queue' = (queue \ {p}) \cup {<<k, d + 1>> : k \in Children(c)}
        /\ seen' = seen \cup {c}
        /\ depth' = [depth EXCEPT ![c] = d]
    BY <1>1, <1>4 DEF Visit, ChildDepth
  <2>2. depth'[c] = d
    BY <1>1, <2>1 DEF TypeOK
  <2>3. \A x, e : AtDepth(x, e) => AtDepth(x, e)'
    BY <1>1, <1>2, <1>4, <2>1, AtDepthKept
  <2>4. ASSUME NEW x \in seen'
        PROVE  AtDepth(x, depth[x])'
    <3>1. CASE x = c
      <4>1. AtDepth(c, d)
        BY DEF QueueInv
      <4> QED
        BY <2>2, <2>3, <3>1, <4>1 DEF AtDepth
    <3>2. CASE x # c
      <4>1. x \in seen /\ depth'[x] = depth[x]
        BY <2>1, <2>4, <3>2 DEF TypeOK
      <4>2. AtDepth(x, depth[x])
        BY <4>1 DEF QueueInv
      <4> QED
        BY <2>3, <4>1, <4>2 DEF AtDepth
    <3> QED
      BY <3>1, <3>2
  <2>5. ASSUME NEW q \in queue'
        PROVE  AtDepth(q[1], q[2])'
    <3>1. CASE q \in queue
      BY <2>3, <3>1 DEF QueueInv
    <3>2. CASE q \notin queue
      <4>1. PICK k \in Children(c) : q = <<k, d + 1>>
        BY <2>1, <2>5, <3>2
      <4>2. parent[k] = c /\ k \notin Roots
        BY <1>1, TreeAssumption DEF Children, Roots
      <4> QED
        BY <1>2, <2>1, <2>2, <4>1, <4>2 DEF AtDepth
    <3> QED
      BY <3>1, <3>2
  <2>6. ASSUME NEW x \in Comments \ seen', x \in Roots \/ parent[x] \in seen'
        PROVE  \E q \in queue' : q[1] = x
    <3>1. x \in Comments \ seen /\ x # c
      BY <2>1, <2>6
    <3>2. CASE x \in Roots \/ parent[x] \in seen
      <4>1. PICK q \in queue : q[1] = x
        BY <3>1, <3>2 DEF QueueInv
      <4> QED
        BY <2>1, <3>1, <4>1
    <3>3. CASE parent[x] = c
      <4>1. <<x, d + 1>> \in queue'
        BY <2>1, <3>1, <3>3 DEF Children
      <4> QED
        BY <4>1
    <3> QED
      BY <2>1, <2>6, <3>2, <3>3
  <2> QED
    BY <1>2, <2>4, <2>5, <2>6 DEF QueueInv
<1> QED
  BY <1>3, <1>4

(* A step keeps the invariant of the queue. *)
LEMMA QueueStep ==
    ASSUME TypeOK, QueueInv, [Next]_vars
    PROVE  QueueInv'
<1>1. ASSUME NEW p \in queue, Visit(p[1], p[2])
      PROVE  QueueInv'
  BY <1>1, VisitStep
<1>2. CASE UNCHANGED <<parent, depth, seen, queue>> /\ (phase' # "store" => queue = {})
  BY <1>2 DEF QueueInv, AtDepth, Roots
<1>3. CASE Materialized
  BY <1>2, <1>3 DEF Materialized
<1>4. ASSUME AssignRoot \/ AssignChild \/ Return \/ Built
      PROVE  QueueInv'
  BY <1>2, <1>4 DEF AssignRoot, AssignChild, Return, Built, QueueInv
<1>5. CASE UNCHANGED vars
  BY <1>2, <1>5 DEF vars, QueueInv
<1> QED
  BY <1>1, <1>3, <1>4, <1>5 DEF Next, Finished

(* At every moment of the store pass a seen comment has the depth its      *)
(* parent gives it, and every comment that is due is in the queue.         *)
THEOREM QueueInvariant == Spec => []QueueInv
<1>1. Init => QueueInv
  <2> SUFFICES ASSUME Init PROVE QueueInv
    OBVIOUS
  <2>1. \A p \in queue : p[1] \in Roots /\ p[2] = 0
    BY DEF Init
  <2>2. \A x \in Roots : <<x, 0>> \in queue
    BY DEF Init
  <2> QED
    BY <2>1, <2>2 DEF Init, QueueInv, AtDepth
<1>2. TypeOK /\ QueueInv /\ [Next]_vars => QueueInv'
  BY QueueStep
<1> QED
  BY <1>1, <1>2, TypeCorrect, PTL DEF Spec

(* When the pass has ended, a root has depth 0, every other comment it     *)
(* visited one more than its parent, and it visited exactly the comments   *)
(* whose parent it visited.                                                *)
THEOREM DepthsCorrect == Spec => []DepthsFollowParents
<1>1. TypeOK /\ QueueInv => DepthsFollowParents
  BY DEF TypeOK, QueueInv, DepthsFollowParents, AtDepth
<1> QED
  BY <1>1, TypeCorrect, QueueInvariant, PTL

-----------------------------------------------------------------------------
(* The preview *)

(* A child of a visited comment is visited too, one level further down. *)
LEMMA ChildDepths ==
    ASSUME TypeOK, DepthsFollowParents, phase # "store",
           NEW c \in seen, NEW d \in Children(c)
    PROVE  d \in seen /\ depth[d] = depth[c] + 1
<1>1. d \in Comments /\ parent[d] = c /\ d \notin Roots
  BY TreeAssumption DEF Children, Roots, TypeOK
<1> QED
  BY <1>1 DEF DepthsFollowParents, AtDepth

(***************************************************************************)
(* A call on a visited comment c whose depth is the number of calls below  *)
(* it, which have what the stack had to do except c, keeps the invariant.  *)
(***************************************************************************)
LEMMA CallStep ==
    ASSUME TypeOK, StackInv, phase = "forest", UNCHANGED <<parent, depth, seen>>,
           NEW s \in Seq(Frames), NEW c \in seen,
           Len(s) = Len(stack), depth[c] = Len(s),
           \A i \in 1 .. Len(s) :
             /\ s[i].node = stack[i].node
             /\ s[i].todo \subseteq stack[i].todo
             /\ stack[i].todo \ {c} \subseteq s[i].todo,
           Call(s, c)
    PROVE  StackInv'
<1>1. Len(s) \in Nat /\ RecursionLimit \in Nat /\ c \in Comments
  BY TreeAssumption, LenProperties DEF TypeOK
<1>2. InForest /\ OnStack
  BY DEF StackInv
<1>3. \A x : Children(x)' = Children(x)
  BY DEF Children
<1>4. CASE ~(Len(s) < RecursionLimit)
  <2>1. phase' = "crashed" /\ shown' = shown /\ stack' = stack
    BY <1>4 DEF Call
  <2>2. depth[c] >= RecursionLimit
    BY <1>1, <1>4
  <2>3. InForest' /\ OnStack'
    BY <1>2, <1>3, <2>1 DEF InForest, OnStack, Framed
  <2> QED
    BY <2>1, <2>2, <2>3 DEF StackInv
<1>5. CASE Len(s) < RecursionLimit
  <2> DEFINE f == [node |-> c, todo |-> Children(c)]
             n == Len(s)
  <2>1. /\ phase' = "forest" /\ stack' = Append(s, f)
        /\ shown' = [shown EXCEPT ![c] = n]
    BY <1>5 DEF Call
  <2>2. f \in Frames
    BY <1>1 DEF Frames, Children
  <2>3. /\ Len(stack') = n + 1
        /\ stack'[n + 1] = f
        /\ \A i \in 1 .. n : stack'[i] = s[i]
    BY <1>1, <2>1, <2>2, AppendProperties
  <2>4. OnStack'
    <3>1. ASSUME NEW i \in 1 .. Len(stack')
          PROVE  /\ stack'[i].node \in seen /\ depth[stack'[i].node] = i - 1
                 /\ stack'[i].todo \subseteq Children(stack'[i].node)
      <4>1. CASE i = n + 1
        BY <1>1, <2>3, <4>1
      <4>2. CASE i # n + 1
        <5>1. i \in 1 .. n
          BY <1>1, <2>3, <4>2
        <5> QED
          BY <1>2, <2>3, <5>1 DEF OnStack
      <4> QED
        BY <4>1, <4>2
    <3> QED
      BY <1>3, <3>1 DEF OnStack
  <2>5. /\ shown'[c] = n /\ n # None
        /\ \A x \in Comments \ {c} : shown'[x] = shown[x]
    BY <1>1, <2>1 DEF TypeOK, None
  <2>6. ASSUME NEW x, NEW d, d # c, Framed(x, d)
        PROVE  Framed(x, d)'
    <3>1. PICK i \in 1 .. Len(stack) : stack[i].node = x /\ d \in stack[i].todo
      BY <2>6 DEF Framed
    <3>2. i \in 1 .. n /\ i \in 1 .. Len(stack')
      BY <1>1, <2>3, <3>1
    <3>3. stack'[i].node = x /\ d \in stack'[i].todo
      BY <2>3, <2>6, <3>1, <3>2
    <3> QED
      BY <3>2, <3>3 DEF Framed
  <2>7. ASSUME NEW d \in Children(c)
        PROVE  Framed(c, d)'
    <3>1. n + 1 \in 1 .. Len(stack')
      BY <1>1, <2>3
    <3> QED
      BY <2>3, <3>1 DEF Framed
  <2>8. ASSUME NEW x \in Comments, shown'[x] # None
        PROVE  /\ x \in seen /\ shown'[x] = depth[x] /\ shown'[x] < RecursionLimit
               /\ \A d \in Children(x) : shown'[d] # None \/ Framed(x, d)'
    <3>1. CASE x = c
      BY <1>5, <2>5, <2>7, <3>1
    <3>2. CASE x # c
      <4>1. shown'[x] = shown[x]
        BY <2>5, <3>2
      <4>2. ASSUME NEW d \in Children(x)
            PROVE  shown'[d] # None \/ Framed(x, d)'
        <5>1. d \in Comments
          BY DEF Children
        <5> QED
          BY <1>2, <2>5, <2>6, <2>8, <4>1, <5>1 DEF InForest
      <4> QED
        BY <1>2, <2>8, <4>1, <4>2 DEF InForest
    <3> QED
      BY <3>1, <3>2
  <2>9. InForest'
    BY <1>3, <2>8 DEF InForest
  <2> QED
    BY <2>1, <2>4, <2>9 DEF StackInv
<1> QED
  BY <1>4, <1>5

(***************************************************************************)
(* A call on a child c of the comment on top of the stack: the calls s     *)
(* below it have what they had to do, except c.                            *)
(***************************************************************************)
LEMMA ChildCall ==
    ASSUME TypeOK, AssignChild
    PROVE  /\ Len(stack) \in Nat \ {0} /\ Top = stack[Len(stack)]
           /\ \E c \in Top.todo, s \in Seq(Frames) :
                /\ Len(s) = Len(stack)
                /\ Call(s, c)
                /\ s[Len(stack)].todo = Top.todo \ {c}
                /\ s[Len(stack)].node = Top.node
                /\ \A i \in 1 .. Len(s) : i # Len(stack) => s[i] = stack[i]
<1>0. stack \in Seq(Frames) /\ Len(stack) \in Nat
  BY LenProperties DEF TypeOK, Frames
<1> DEFINE n == Len(stack)
<1>1. PICK c \in Top.todo :
        Call([stack EXCEPT ![Len(stack)].todo = Todo(c, @)], c)
  BY DEF AssignChild
<1>2. n \in 1 .. n /\ stack[n] \in Frames /\ Top = stack[n]
  BY <1>0, EmptySeq, ElementOfSeq DEF AssignChild, Top
<1> DEFINE g == [stack[n] EXCEPT !.todo = Todo(c, @)]
           s == [stack EXCEPT ![n] = g]
<1>3. [stack EXCEPT ![Len(stack)].todo = Todo(c, @)] = s
  OBVIOUS
<1>4. g \in Frames /\ g.node = stack[n].node /\ g.todo = stack[n].todo \ {c}
  BY <1>2 DEF Frames, Todo
<1>5. /\ s \in Seq(Frames) /\ Len(s) = n
      /\ s[n] = g
      /\ \A i \in 1 .. n : i # n => s[i] = stack[i]
  BY <1>0, <1>2, <1>4, ExceptSeq
<1>6. Call(s, c)
  BY <1>1, <1>3
<1>7. /\ Len(s) = Len(stack)
      /\ s[Len(stack)].todo = Top.todo \ {c}
      /\ s[Len(stack)].node = Top.node
      /\ \A i \in 1 .. Len(s) : i # Len(stack) => s[i] = stack[i]
  <2> HIDE DEF s, g
  <2> QED
    BY <1>2, <1>4, <1>5
<1>8. s \in Seq(Frames)
  BY <1>5
<1>9. Len(stack) \in Nat \ {0} /\ Top = stack[Len(stack)]
  BY <1>0, <1>2
<1> HIDE DEF s
<1> QED
  BY <1>1, <1>6, <1>7, <1>8, <1>9

(* A call that returns is the last one, and the others stay as they are. *)
LEMMA LastReturns ==
    ASSUME TypeOK, Return
    PROVE  /\ Len(stack) \in Nat \ {0} /\ stack[Len(stack)].todo = {}
           /\ Len(stack') = Len(stack) - 1
           /\ \A i \in 1 .. Len(stack') : i \in 1 .. Len(stack) /\ stack'[i] = stack[i]
<1> DEFINE n == Len(stack)
           t == SubSeq(stack, 1, n - 1)
<1>1. /\ stack \in Seq(Frames) /\ n \in Nat /\ n # 0
      /\ stack[n].todo = {} /\ stack' = t
  BY LenProperties, EmptySeq DEF TypeOK, Frames, Return, Top
<1>2. /\ Len(t) = IF 1 <= n - 1 THEN (n - 1) - 1 + 1 ELSE 0
      /\ \A i \in 1 .. (n - 1) - 1 + 1 : t[i] = stack[1 + i - 1]
  <2>1. n - 1 \in Int /\ 1 \in Int /\ \A i \in 1 .. n - 1 : stack[i] \in Frames
    BY <1>1, ElementOfSeq
  <2> QED
    BY <2>1, SubSeqProperties
<1> HIDE DEF t
<1>3. Len(t) = n - 1
  <2> HIDE DEF n
  <2>1. (n - 1) - 1 + 1 = n - 1 /\ (~(1 <= n - 1) => n - 1 = 0)
    BY <1>1
  <2> QED
    BY <1>2, <2>1
<1>4. ASSUME NEW i \in 1 .. n - 1
      PROVE  i \in 1 .. n /\ t[i] = stack[i]
  <2>1. i \in 1 .. (n - 1) - 1 + 1 /\ 1 + i - 1 = i /\ i \in 1 .. n
    BY <1>1
  <2>2. t[i] = stack[1 + i - 1]
    BY <1>2, <2>1
  <2> QED
    BY <2>1, <2>2
<1> QED
  BY <1>1, <1>3, <1>4

(* A step of the preview keeps the invariant of its stack. *)
LEMMA StackStep ==
    ASSUME TypeOK, DepthsFollowParents, StackInv, [Next]_vars
    PROVE  StackInv'
<1>0. /\ stack \in Seq(Frames) /\ Len(stack) \in Nat
      /\ InForest /\ OnStack
  BY LenProperties DEF TypeOK, Frames, StackInv
<1>1. ASSUME NEW p \in queue, Visit(p[1], p[2])
      PROVE  StackInv'
  <2>1. phase = "store" /\ phase' = "store" /\ stack' = stack /\ shown' = shown
    BY <1>1 DEF Visit
  <2>2. stack' = <<>> /\ Len(stack') = 0 /\ \A c \in Comments : shown'[c] = None
    BY <2>1, EmptySeq DEF StackInv
  <2> QED
    BY <2>1, <2>2 DEF StackInv, InForest, OnStack
<1>2. CASE UNCHANGED <<parent, depth, seen, stack, shown>> /\ phase' \in {phase, "forest"}
  BY <1>2 DEF StackInv, InForest, OnStack, Framed, Children, Roots
<1>3. CASE AssignRoot
  <2>1. PICK c \in Roots : Call(stack, c)
    BY <1>3 DEF AssignRoot
  <2>2. stack = <<>> /\ Len(stack) = 0 /\ phase = "forest"
    BY <1>3, EmptySeq DEF AssignRoot
  <2>3. c \in seen /\ depth[c] = 0
    BY <2>1, <2>2 DEF DepthsFollowParents, AtDepth, Roots
  <2>4. \A i \in 1 .. Len(stack) : FALSE
    BY <2>2
  <2> QED
    BY <1>0, <1>3, <2>1, <2>2, <2>3, <2>4, CallStep DEF AssignRoot
<1>4. CASE AssignChild
  <2> DEFINE n == Len(stack)
  <2>1. n \in Nat \ {0} /\ Top = stack[n]
    BY <1>4, ChildCall
  <2>2. PICK c \in Top.todo, s \in Seq(Frames) :
          /\ Len(s) = n
          /\ Call(s, c)
          /\ s[n].todo = Top.todo \ {c}
          /\ s[n].node = Top.node
          /\ \A i \in 1 .. Len(s) : i # n => s[i] = stack[i]
    BY <1>4, ChildCall
  <2>3. \A i \in 1 .. Len(s) :
             /\ s[i].node = stack[i].node
             /\ s[i].todo \subseteq stack[i].todo
             /\ stack[i].todo \ {c} \subseteq s[i].todo
    BY <2>1, <2>2
  <2>4. c \in seen /\ depth[c] = n
    <3>1. stack[n].node \in seen /\ depth[stack[n].node] = n - 1
          /\ c \in Children(stack[n].node)
      BY <1>0, <2>1, <2>2 DEF OnStack
    <3>2. phase # "store"
      BY <1>4 DEF AssignChild
    <3>3. c \in seen /\ depth[c] = depth[stack[n].node] + 1
      BY <3>1, <3>2, ChildDepths
    <3> QED
      BY <1>0, <3>1, <3>3
  <2> QED
    BY <1>4, <2>2, <2>3, <2>4, CallStep DEF AssignChild
<1>5. CASE Return
  <2> DEFINE n == Len(stack)
  <2>1. phase' = "forest" /\ UNCHANGED <<parent, depth, seen, shown>>
    BY <1>5 DEF Return
  <2>2. /\ n \in Nat \ {0} /\ stack[n].todo = {} /\ Len(stack') = n - 1
        /\ \A i \in 1 .. Len(stack') : i \in 1 .. n /\ stack'[i] = stack[i]
    BY <1>5, LastReturns
  <2>3. \A x : Children(x)' = Children(x)
    BY <2>1 DEF Children
  <2>4. OnStack'
    BY <1>0, <2>1, <2>2, <2>3 DEF OnStack
  <2>5. ASSUME NEW x, NEW d, Framed(x, d)
        PROVE  Framed(x, d)'
    <3>1. PICK i \in 1 .. n : stack[i].node = x /\ d \in stack[i].todo
      BY <2>5 DEF Framed
    <3>2. i \in 1 .. Len(stack')
      BY <2>2, <3>1
    <3> QED
      BY <2>2, <3>1, <3>2 DEF Framed
  <2>6. InForest'
    BY <1>0, <2>1, <2>3, <2>5 DEF InForest
  <2> QED
    BY <2>1, <2>4, <2>6 DEF StackInv
<1>6. CASE Built
  <2>1. /\ stack = <<>> /\ \A c \in Roots : shown[c] # None
        /\ phase' = "done"
        /\ UNCHANGED <<parent, depth, seen, stack, shown>>
    BY <1>6 DEF Built
  <2> QED
    BY <1>0, <2>1 DEF StackInv, InForest, OnStack, Framed, Children, Roots
<1> QED
  BY <1>1, <1>2, <1>3, <1>4, <1>5, <1>6 DEF Next, Materialized, Finished, vars

(* At every moment of the preview the calls on the stack are a path from a *)
(* root, and a comment in the forest has the depth that is stored with it. *)
THEOREM StackInvariant == Spec => []StackInv
<1>1. Init => StackInv
  BY EmptySeq DEF Init, StackInv, InForest, OnStack
<1>2. TypeOK /\ DepthsFollowParents /\ StackInv /\ [Next]_vars => StackInv'
  BY StackStep
<1> QED
  BY <1>1, <1>2, TypeCorrect, DepthsCorrect, PTL DEF Spec

-----------------------------------------------------------------------------
(* Trees of any size *)

(* Among finite sets there is one that includes none of the others. *)
LEMMA LeastSet ==
    ASSUME NEW T, T # {}, \A t \in T : IsFiniteSet(t)
    PROVE  \E t \in T : \A u \in T : u \subseteq t => u = t
<1>1. T \subseteq FiniteSubsetsOf(UNION T)
  BY DEF FiniteSubsetsOf
<1>2. IsWellFoundedOn(StrictSubsetOrdering(UNION T), FiniteSubsetsOf(UNION T))
  BY FS_StrictSubsetOrderingWellFounded
<1>3. PICK t \in T : \A u \in T : ~(<<u, t>> \in StrictSubsetOrdering(UNION T))
  BY <1>1, <1>2, WFMin
<1> QED
  BY <1>3 DEF StrictSubsetOrdering

(* Among natural numbers there is a least one: with it what holds at every *)
(* depth is shown by looking at the first depth where it would not.        *)
LEMMA LeastNatural ==
    ASSUME NEW T \in SUBSET Nat, T # {}
    PROVE  \E n \in T : \A m \in T : n <= m
<1> DEFINE U == {0 .. n : n \in T}
<1>1. \A n \in T : IsFiniteSet(0 .. n)
  <2>1. \A n \in T : n \in Int /\ 0 \in Int
    OBVIOUS
  <2> QED
    BY <2>1, FS_Interval
<1>2. U # {} /\ \A u \in U : IsFiniteSet(u)
  BY <1>1, Zenon
<1> HIDE DEF U
<1>3. PICK u \in U : \A v \in U : v \subseteq u => v = u
  BY <1>2, LeastSet
<1> USE DEF U
<1>4. PICK n \in T : u = 0 .. n
  BY <1>3
<1>5. ASSUME NEW m \in T, m < n
      PROVE  FALSE
  <2>1. 0 .. m \in U /\ 0 .. m \subseteq u /\ n \in u /\ n \notin 0 .. m
    BY <1>4, <1>5
  <2> QED
    BY <1>3, <2>1
<1> QED
  BY <1>5

(* A visited comment has a depth, and below the root its parent has the    *)
(* depth before.                                                           *)
LEMMA SeenDepths ==
    ASSUME TypeOK, DepthsFollowParents, phase # "store", NEW c \in seen
    PROVE  /\ c \in Comments /\ depth[c] \in Nat
           /\ depth[c] = 0 <=> c \in Roots
           /\ depth[c] # 0 => parent[c] \in seen /\ depth[parent[c]] = depth[c] - 1
<1>1. \A e \in seen : e \in Comments /\ depth[e] \in Depths /\ AtDepth(e, depth[e])
  BY DEF DepthsFollowParents, TypeOK
<1>2. \A e \in seen : depth[e] \in Nat
  BY <1>1 DEF AtDepth, Depths, None
<1>3. CASE c \in Roots
  BY <1>1, <1>3 DEF AtDepth
<1>4. CASE c \notin Roots
  <2>1. parent[c] \in seen /\ depth[c] = depth[parent[c]] + 1
    BY <1>1, <1>4 DEF AtDepth
  <2> QED
    BY <1>1, <1>2, <1>4, <2>1
<1> QED
  BY <1>3, <1>4

(* When the preview has ended every comment the store pass visited is in   *)
(* the forest: the first one missing would have its parent there.          *)
LEMMA AllShown ==
    ASSUME TypeOK, DepthsFollowParents, StackInv, phase = "done", NEW c \in seen
    PROVE  shown[c] # None
<1> SUFFICES ASSUME shown[c] = None PROVE FALSE
  OBVIOUS
<1> DEFINE T == {depth[e] : e \in {x \in seen : shown[x] = None}}
<1>1. T \in SUBSET Nat /\ T # {}
  BY SeenDepths
<1>2. PICK n \in T : \A m \in T : n <= m
  BY <1>1, LeastNatural
<1>3. PICK e \in seen : shown[e] = None /\ depth[e] = n
  BY <1>2
<1>4. e \in Comments /\ depth[e] \in Nat
  BY SeenDepths
<1>5. depth[e] # 0
  BY <1>3, SeenDepths DEF StackInv
<1>6. parent[e] \in seen /\ depth[parent[e]] = n - 1
  BY <1>3, <1>5, SeenDepths
<1>7. shown[parent[e]] # None
  <2>1. CASE shown[parent[e]] = None
    <3>1. n - 1 \in T
      BY <1>6, <2>1
    <3>2. n <= n - 1
      BY <1>2, <3>1
    <3> QED
      BY <1>3, <1>4, <3>2
  <2> QED
    BY <2>1
<1>8. e \in Children(parent[e]) /\ parent[e] \in Comments
  BY <1>4, <1>6 DEF Children, TypeOK
<1>9. stack = <<>> /\ Len(stack) = 0
  BY EmptySeq DEF StackInv
<1>10. ~Framed(parent[e], e)
  BY <1>9 DEF Framed
<1> QED
  BY <1>3, <1>7, <1>8, <1>10 DEF StackInv, InForest

(* "The equivalent in-memory reconstruction": the forest shows exactly the *)
(* comments the store pass visits, at the same depths.                     *)
THEOREM ForestsAgree == Spec => []ForestAgrees
<1>1. TypeOK /\ DepthsFollowParents /\ StackInv => ForestAgrees
  <2> SUFFICES ASSUME TypeOK, DepthsFollowParents, StackInv, phase = "done",
                      NEW c \in Comments
               PROVE  shown[c] = IF c \in seen THEN depth[c] ELSE None
    BY DEF ForestAgrees
  <2> QED
    BY AllShown DEF StackInv, InForest
<1> QED
  BY <1>1, TypeCorrect, DepthsCorrect, StackInvariant, PTL

-----------------------------------------------------------------------------
(* Depths and hops *)

(* Every depth up to that of a visited comment is the depth of one.        *)
LEMMA DepthsBelow ==
    ASSUME TypeOK, DepthsFollowParents, phase # "store",
           NEW c \in seen, NEW k \in 0 .. depth[c]
    PROVE  \E e \in seen : depth[e] = k
<1> DEFINE T == {j \in 0 .. depth[c] : ~ \E e \in seen : depth[e] = depth[c] - j}
<1>1. depth[c] \in Nat
  BY SeenDepths
<1>2. SUFFICES ASSUME T # {} PROVE FALSE
  <2>1. depth[c] - k \in 0 .. depth[c] /\ depth[c] - (depth[c] - k) = k
    BY <1>1
  <2> QED
    BY <1>2, <2>1
<1>3. PICK j \in T : \A i \in T : j <= i
  <2>1. T \in SUBSET Nat
    BY <1>1
  <2> QED
    BY <1>2, <2>1, LeastNatural
<1>4. j \in 0 .. depth[c] /\ j # 0
  BY <1>1, <1>3
<1>5. j - 1 \in 0 .. depth[c] /\ j - 1 \notin T
  BY <1>1, <1>3, <1>4
<1>6. PICK e \in seen : depth[e] = depth[c] - (j - 1)
  BY <1>5
<1>7. depth[e] # 0
  BY <1>1, <1>4, <1>6
<1>8. parent[e] \in seen /\ depth[parent[e]] = depth[c] - j
  BY <1>1, <1>4, <1>6, <1>7, SeenDepths
<1> QED
  BY <1>3, <1>8

(* So a depth is less than the number of comments. *)
LEMMA DepthsBounded ==
    ASSUME TypeOK, DepthsFollowParents, phase # "store", NEW c \in seen
    PROVE  /\ depth[c] \in Nat /\ Cardinality(Comments) \in Nat
           /\ depth[c] < Cardinality(Comments)
<1> DEFINE n == depth[c]
           S == {e \in seen : depth[e] \in 0 .. n}
           f == [e \in S |-> depth[e]]
<1>1. n \in Nat
  BY SeenDepths
<1>2. /\ IsFiniteSet(S) /\ Cardinality(S) <= Cardinality(Comments)
      /\ Cardinality(Comments) \in Nat /\ Cardinality(S) \in Nat
  <2>1. S \in SUBSET Comments
    BY DEF TypeOK
  <2> QED
    BY <2>1, TreeAssumption, FS_Subset, FS_CardinalityType
<1>3. f \in Surjection(S, 0 .. n)
  <2>1. \A k \in 0 .. n : \E e \in S : f[e] = k
    BY DepthsBelow
  <2> QED
    BY <2>1 DEF Surjection
<1>4. Cardinality(0 .. n) <= Cardinality(S)
  BY <1>2, <1>3, FS_Surjection
<1>5. Cardinality(0 .. n) = n + 1
  BY <1>1, FS_Interval
<1> QED
  BY <1>1, <1>2, <1>4, <1>5

(* One step of the recursion that counts hops, from the hops h counted in  *)
(* fewer steps.                                                            *)
HopStep(h, n) ==
    [c \in Comments |->
        IF parent[c] = Elsewhere THEN 0
        ELSE IF n = 0 \/ h[n - 1][parent[c]] = NoRoot THEN NoRoot
        ELSE h[n - 1][parent[c]] + 1]

(* What the recursion gives after n steps, read off the depths. *)
HopsFromDepths ==
    [n \in 0 .. Cardinality(Comments) |->
        [c \in Comments |-> IF c \in seen /\ depth[c] <= n THEN depth[c] ELSE NoRoot]]

(* The depths solve the recursion. *)
LEMMA DepthsSolve ==
    ASSUME TypeOK, DepthsFollowParents, phase # "store",
           NEW n \in 0 .. Cardinality(Comments)
    PROVE  HopsFromDepths[n] = HopStep(HopsFromDepths, n)
<1> DEFINE G == HopsFromDepths
<1>1. Cardinality(Comments) \in Nat /\ n \in Nat
  BY TreeAssumption, FS_CardinalityType
<1>2. ASSUME NEW m \in 0 .. Cardinality(Comments), NEW e \in Comments
      PROVE  G[m][e] = IF e \in seen /\ depth[e] <= m THEN depth[e] ELSE NoRoot
  BY DEF HopsFromDepths
<1>3. ASSUME NEW c \in Comments
      PROVE  G[n][c] = HopStep(G, n)[c]
  <2>1. HopStep(G, n)[c] = IF parent[c] = Elsewhere THEN 0
                           ELSE IF n = 0 \/ G[n - 1][parent[c]] = NoRoot THEN NoRoot
                           ELSE G[n - 1][parent[c]] + 1
    BY DEF HopStep
  <2>2. CASE c \in Roots
    <3>1. parent[c] = Elsewhere /\ c \in seen /\ depth[c] = 0
      BY <2>2, SeenDepths DEF Roots, DepthsFollowParents
    <3> QED
      BY <1>1, <1>2, <2>1, <3>1
  <2>3. CASE c \notin Roots
    <3>1. parent[c] # Elsewhere /\ parent[c] \in Comments
      BY <2>3 DEF Roots, TypeOK
    <3>2. c \in seen <=> parent[c] \in seen
      BY <2>3 DEF DepthsFollowParents
    <3>3. CASE n = 0
      <4>1. ~(c \in seen /\ depth[c] <= 0)
        BY <2>3, SeenDepths
      <4> QED
        BY <1>2, <2>1, <3>1, <3>3, <4>1
    <3>4. CASE n # 0
      <4>1. n - 1 \in 0 .. Cardinality(Comments)
        BY <1>1, <3>4
      <4>2. G[n - 1][parent[c]] = IF parent[c] \in seen /\ depth[parent[c]] <= n - 1
                                    THEN depth[parent[c]] ELSE NoRoot
        BY <1>2, <3>1, <4>1
      <4>3. G[n][c] = IF c \in seen /\ depth[c] <= n THEN depth[c] ELSE NoRoot
        BY <1>2
      <4>4. CASE c \in seen
        <5>1. /\ depth[c] \in Nat /\ depth[parent[c]] = depth[c] - 1
              /\ depth[parent[c]] \in Nat /\ parent[c] \in seen
          BY <2>3, <3>2, <4>4, SeenDepths
        <5> HIDE DEF G
        <5>2. CASE depth[c] <= n
          BY <1>1, <2>1, <3>1, <3>4, <4>2, <4>3, <4>4, <5>1, <5>2 DEF NoRoot
        <5>3. CASE ~(depth[c] <= n)
          BY <1>1, <2>1, <3>1, <3>4, <4>2, <4>3, <4>4, <5>1, <5>3 DEF NoRoot
        <5> QED
          BY <5>2, <5>3
      <4>5. CASE c \notin seen
        BY <2>1, <3>1, <3>2, <3>4, <4>2, <4>3, <4>5
      <4> QED
        BY <4>4, <4>5
    <3> QED
      BY <3>3, <3>4
  <2> QED
    BY <2>2, <2>3
<1> QED
  BY <1>3 DEF HopsFromDepths, HopStep

(* So the recursion has a solution, and Hops is one. *)
LEMMA HopsSolve ==
    ASSUME TypeOK, DepthsFollowParents, phase # "store"
    PROVE  Hops = [n \in 0 .. Cardinality(Comments) |-> HopStep(Hops, n)]
<1> DEFINE Solves(h) == h = [n \in 0 .. Cardinality(Comments) |-> HopStep(h, n)]
<1>1. Solves(HopsFromDepths)
  <2>1. \A n \in 0 .. Cardinality(Comments) :
          HopsFromDepths[n] = HopStep(HopsFromDepths, n)
    BY DepthsSolve
  <2> QED
    BY <2>1 DEF HopsFromDepths
<1>2. Hops = CHOOSE h : Solves(h)
  BY DEF Hops, HopStep
<1> HIDE DEF Solves
<1>3. Solves(Hops)
  BY <1>1, <1>2, Zenon
<1> QED
  BY <1>3 DEF Solves

(* It has no other: at the first step where they differed, the hops they   *)
(* are counted from would not.                                             *)
LEMMA HopsAreDepths ==
    ASSUME TypeOK, DepthsFollowParents, phase # "store",
           NEW n \in 0 .. Cardinality(Comments)
    PROVE  Hops[n] = HopsFromDepths[n]
<1> DEFINE T == {m \in 0 .. Cardinality(Comments) : Hops[m] # HopsFromDepths[m]}
<1>1. SUFFICES ASSUME T # {} PROVE FALSE
  OBVIOUS
<1>2. PICK m \in T : \A k \in T : m <= k
  <2>1. T \in SUBSET Nat
    OBVIOUS
  <2> QED
    BY <1>1, <2>1, LeastNatural
<1>3. /\ Hops[m] = HopStep(Hops, m)
      /\ HopsFromDepths[m] = HopStep(HopsFromDepths, m)
  BY <1>2, HopsSolve, DepthsSolve
<1>4. m # 0 => Hops[m - 1] = HopsFromDepths[m - 1]
  <2>1. m # 0 => m - 1 \in 0 .. Cardinality(Comments) /\ ~(m <= m - 1)
    BY <1>2, TreeAssumption, FS_CardinalityType
  <2> QED
    BY <1>2, <2>1
<1>5. HopStep(Hops, m) = HopStep(HopsFromDepths, m)
  BY <1>4 DEF HopStep
<1> QED
  BY <1>2, <1>3, <1>5

(* After the store pass a visited comment is as many hops from its root as *)
(* its depth says, and any other comment has no root.                      *)
LEMMA HopsOfComments ==
    ASSUME TypeOK, DepthsFollowParents, phase # "store", NEW c \in Comments
    PROVE  HopsToRoot(c) = IF c \in seen THEN depth[c] ELSE NoRoot
<1>1. Cardinality(Comments) \in 0 .. Cardinality(Comments)
  BY TreeAssumption, FS_CardinalityType
<1>2. HopsToRoot(c) = HopsFromDepths[Cardinality(Comments)][c]
  BY <1>1, HopsAreDepths DEF HopsToRoot
<1>3. c \in seen => depth[c] <= Cardinality(Comments)
  BY DepthsBounded
<1> QED
  BY <1>1, <1>2, <1>3 DEF HopsFromDepths

(* "Top-level comments are depth 0, each t1_ hop adds one": the depths the *)
(* store pass leaves are the numbers of hops to the root, for exactly the  *)
(* comments that have one.                                                 *)
THEOREM DepthsAreHops == Spec => []DepthIsHops
<1>1. TypeOK /\ DepthsFollowParents => DepthIsHops
  <2> SUFFICES ASSUME TypeOK, DepthsFollowParents, phase # "store"
               PROVE  /\ seen = {c \in Comments : HopsToRoot(c) # NoRoot}
                      /\ \A c \in seen : depth[c] = HopsToRoot(c)
    BY DEF DepthIsHops
  <2>1. \A c \in seen : c \in Comments /\ depth[c] # NoRoot
    BY SeenDepths DEF NoRoot
  <2> QED
    BY <2>1, HopsOfComments
<1> QED
  BY <1>1, TypeCorrect, DepthsCorrect, PTL

(* The preview fails on a tree with more levels than the interpreter has   *)
(* frames, and on no other.                                                *)
THEOREM FailsOnlyWhenDeep == Spec => []FailsWhenDeep
<1>1. TypeOK /\ DepthsFollowParents /\ StackInv => FailsWhenDeep
  <2> SUFFICES ASSUME TypeOK, DepthsFollowParents, StackInv
               PROVE  FailsWhenDeep
    OBVIOUS
  <2>1. ASSUME phase = "crashed"
        PROVE  Deep
    <3>1. PICK c \in seen : depth[c] >= RecursionLimit
      BY <2>1 DEF StackInv
    <3>2. c \in Comments /\ HopsToRoot(c) = depth[c]
      BY <2>1, SeenDepths, HopsOfComments
    <3> QED
      BY <3>1, <3>2 DEF Deep
  <2>2. ASSUME phase = "done", NEW c \in Comments, HopsToRoot(c) >= RecursionLimit
        PROVE  FALSE
    <3>1. HopsToRoot(c) = IF c \in seen THEN depth[c] ELSE NoRoot
      BY <2>2, HopsOfComments
    <3>2. c \in seen /\ depth[c] >= RecursionLimit
      BY <2>2, <3>1, TreeAssumption DEF NoRoot
    <3>3. shown[c] = depth[c] /\ shown[c] < RecursionLimit
      BY <2>2, <3>2, AllShown DEF StackInv, InForest
    <3>4. depth[c] \in Nat
      BY <2>2, <3>2, SeenDepths
    <3> QED
      BY <3>2, <3>3, <3>4, TreeAssumption
  <2> QED
    BY <2>1, <2>2 DEF FailsWhenDeep, Deep
<1> QED
  BY <1>1, TypeCorrect, DepthsCorrect, StackInvariant, PTL

-----------------------------------------------------------------------------
(* Ending *)

(* The children of a comment taken from the queue were not seen yet, and   *)
(* no other entry of the queue is about it: depths tell entries apart.     *)
LEMMA QueuedOnceStep ==
    ASSUME TypeOK, QueueInv, QueuedOnce, [Next]_vars
    PROVE  QueuedOnce'
<1>1. ASSUME NEW p \in queue, Visit(p[1], p[2])
      PROVE  QueuedOnce'
  <2> DEFINE c == p[1]
             d == p[2]
  <2>1. c \in Comments \ seen /\ d \in Nat /\ p = <<c, d>> /\ AtDepth(c, d)
    BY DEF TypeOK, QueuedOnce, QueueInv
  <2> HIDE DEF c, d
  <2>2. /\ seen' = seen \cup {c}
        /\ queue' = (queue \ {<<c, d>>}) \cup {<<k, ChildDepth(d)>> : k \in Children(c)}
    BY <1>1, <2>1 DEF Visit, c, d
  <2>3. ASSUME NEW q \in queue, q # p
        PROVE  q[1] \notin seen'
    <3>1. q = <<q[1], q[2]>> /\ q[2] \in Nat /\ AtDepth(q[1], q[2]) /\ q[1] \notin seen
      BY DEF TypeOK, QueuedOnce, QueueInv
    <3>2. ASSUME q[1] = c
          PROVE  q[2] = d
      <4>1. AtDepth(c, q[2])
        BY <3>1, <3>2
      <4> QED
        BY <2>1, <4>1 DEF AtDepth
    <3> QED
      BY <2>1, <2>2, <2>3, <3>1, <3>2
  <2>4. ASSUME NEW k \in Children(c)
        PROVE  k \notin seen'
    <3>1. k \in Comments /\ parent[k] = c /\ k \notin Roots
      BY <2>1, TreeAssumption DEF Children, Roots
    <3>2. k \notin seen
      BY <2>1, <3>1 DEF QueueInv, AtDepth
    <3>3. k # c
      BY <2>1, <3>1 DEF AtDepth
    <3> QED
      BY <2>2, <3>2, <3>3
  <2> QED
    BY <2>1, <2>2, <2>3, <2>4 DEF QueuedOnce
<1>2. CASE UNCHANGED <<queue, seen>>
  BY <1>2 DEF QueuedOnce
<1> QED
  BY <1>1, <1>2 DEF Next, Materialized, AssignRoot, AssignChild, Return, Built,
     Finished, vars

(* A call on a comment that is not in the forest, below its parent, which  *)
(* is: its children are not in the forest either.                          *)
LEMMA ShownOnceCall ==
    ASSUME TypeOK, ShownOnce, UNCHANGED parent,
           NEW s \in Seq(Frames), NEW c \in Comments,
           shown[c] = None, c \notin Children(c),
           c \in Roots \/ shown[parent[c]] # None,
           Len(s) = Len(stack),
           \A i \in 1 .. Len(s) :
             /\ s[i].node = stack[i].node
             /\ s[i].todo \subseteq stack[i].todo \ {c},
           Call(s, c)
    PROVE  ShownOnce'
<1>1. CASE ~(Len(s) < RecursionLimit)
  BY <1>1 DEF Call, ShownOnce, Roots
<1>2. CASE Len(s) < RecursionLimit
  <2> DEFINE f == [node |-> c, todo |-> Children(c)]
             n == Len(s)
  <2>1. stack' = Append(s, f) /\ shown' = [shown EXCEPT ![c] = n] /\ n \in Nat
    BY <1>2, LenProperties DEF Call
  <2>2. f \in Frames
    BY DEF Frames, Children
  <2>3. /\ Len(stack') = n + 1
        /\ stack'[n + 1] = f
        /\ \A i \in 1 .. n : stack'[i] = s[i]
    BY <2>1, <2>2, AppendProperties
  <2>4. /\ shown'[c] # None
        /\ \A x \in Comments \ {c} : shown'[x] = shown[x]
    BY <2>1 DEF TypeOK, None
  <2>5. \A x \in Children(c) : x \in Comments /\ x # c /\ shown[x] = None
    <3> SUFFICES ASSUME NEW x \in Children(c)
                 PROVE  x \in Comments /\ x # c /\ shown[x] = None
      OBVIOUS
    <3>1. x \in Comments \ Roots /\ parent[x] = c
      BY TreeAssumption DEF Children, Roots
    <3> QED
      BY <3>1 DEF ShownOnce
  <2>6. ASSUME NEW i \in 1 .. Len(stack')
        PROVE  /\ shown'[stack'[i].node] # None
               /\ \A x \in stack'[i].todo : shown'[x] = None
    <3>1. CASE i = n + 1
      BY <2>3, <2>4, <2>5, <3>1
    <3>2. CASE i # n + 1
      <4>1. i \in 1 .. n
        BY <2>1, <2>3, <3>2
      <4>2. s[i] \in Frames
        BY <4>1, ElementOfSeq
      <4>3. stack'[i].node \in Comments /\ stack'[i].todo \subseteq Comments
        BY <2>3, <4>1, <4>2 DEF Frames
      <4>4. /\ shown[stack'[i].node] # None
            /\ \A x \in stack'[i].todo : x # c /\ shown[x] = None
        BY <2>3, <4>1 DEF ShownOnce
      <4> QED
        BY <2>4, <4>3, <4>4
    <3> QED
      BY <3>1, <3>2
  <2>7. ASSUME NEW x \in Comments \ Roots, shown'[x] # None
        PROVE  shown'[parent[x]] # None
    <3>1. parent[x] \in Comments
      BY DEF Roots, TypeOK
    <3>2. shown[parent[x]] # None
      BY <2>4, <2>7 DEF ShownOnce
    <3> QED
      BY <2>4, <3>1, <3>2
  <2> QED
    BY <2>6, <2>7 DEF ShownOnce, Roots
<1> QED
  BY <1>1, <1>2

(* A step of the preview calls no comment twice: those that are to be      *)
(* called have different parents, or are different children of one.        *)
LEMMA ShownOnceStep ==
    ASSUME TypeOK, StackInv, ShownOnce, [Next]_vars
    PROVE  ShownOnce'
<1>0. /\ stack \in Seq(Frames) /\ Len(stack) \in Nat
      /\ OnStack
  BY LenProperties DEF TypeOK, Frames, StackInv
<1>1. CASE UNCHANGED <<parent, stack, shown>>
  BY <1>1 DEF ShownOnce, Roots
<1>2. CASE AssignRoot
  <2>1. PICK c \in Roots : shown[c] = None /\ Call(stack, c)
    BY <1>2 DEF AssignRoot
  <2>2. stack = <<>> /\ Len(stack) = 0 /\ UNCHANGED parent
    BY <1>2, EmptySeq DEF AssignRoot
  <2>3. c \in Comments /\ c \notin Children(c)
    BY TreeAssumption DEF Roots, Children
  <2>4. \A i \in 1 .. Len(stack) : FALSE
    BY <2>2
  <2> QED
    BY <1>0, <2>1, <2>2, <2>3, <2>4, ShownOnceCall
<1>3. CASE AssignChild
  <2> DEFINE n == Len(stack)
  <2>1. n \in Nat \ {0} /\ Top = stack[n] /\ UNCHANGED parent
    BY <1>3, ChildCall DEF AssignChild
  <2>2. PICK c \in Top.todo, s \in Seq(Frames) :
          /\ Len(s) = n
          /\ Call(s, c)
          /\ s[n].todo = Top.todo \ {c}
          /\ s[n].node = Top.node
          /\ \A i \in 1 .. Len(s) : i # n => s[i] = stack[i]
    BY <1>3, ChildCall
  <2>3. /\ shown[stack[n].node] # None /\ shown[c] = None
        /\ c \in Comments /\ parent[c] = stack[n].node
        /\ depth[stack[n].node] = n - 1
    BY <1>0, <2>1, <2>2 DEF ShownOnce, OnStack, Children
  <2>4. c \notin Children(c)
    BY <2>3 DEF Children
  <2>5. ASSUME NEW i \in 1 .. Len(s)
        PROVE  /\ s[i].node = stack[i].node
               /\ s[i].todo \subseteq stack[i].todo \ {c}
    <3>1. CASE i = n
      BY <2>1, <2>2, <3>1
    <3>2. CASE i # n
      <4>1. s[i] = stack[i]
        BY <2>2, <3>2
      <4>2. ASSUME c \in stack[i].todo
            PROVE  FALSE
        <5>1. parent[c] = stack[i].node /\ depth[stack[i].node] = i - 1
          BY <1>0, <2>2, <4>2 DEF OnStack, Children
        <5>2. i - 1 = n - 1
          BY <2>3, <5>1
        <5> QED
          BY <2>1, <2>2, <3>2, <5>2
      <4> QED
        BY <4>1, <4>2
    <3> QED
      BY <3>1, <3>2
  <2> QED
    BY <2>1, <2>2, <2>3, <2>4, <2>5, ShownOnceCall
<1>4. CASE Return
  <2>1. UNCHANGED <<parent, shown>>
    BY <1>4 DEF Return
  <2>2. \A i \in 1 .. Len(stack') : i \in 1 .. Len(stack) /\ stack'[i] = stack[i]
    BY <1>4, LastReturns
  <2> QED
    BY <2>1, <2>2 DEF ShownOnce, Roots
<1> QED
  BY <1>1, <1>2, <1>3, <1>4
  DEF Next, Visit, Materialized, Built, Finished, vars

(* Either pass looks at a comment once: the guard against cycles never     *)
(* finds one, and no comment is called twice.                              *)
THEOREM EachCommentOnce == Spec => []OnceInv
<1>1. Init => OnceInv
  BY EmptySeq DEF Init, OnceInv, QueuedOnce, ShownOnce
<1>2. TypeOK /\ QueueInv /\ StackInv /\ OnceInv /\ [Next]_vars => OnceInv'
  BY QueuedOnceStep, ShownOnceStep DEF OnceInv
<1> QED
  BY <1>1, <1>2, TypeCorrect, QueueInvariant, StackInvariant, PTL DEF Spec

(* A finite set without one of its elements has one element less. *)
LEMMA OneLess ==
    ASSUME NEW S \in SUBSET Comments, NEW c \in S
    PROVE  /\ Cardinality(S) \in Nat /\ Cardinality(S \ {c}) \in Nat
           /\ Cardinality(S \ {c}) = Cardinality(S) - 1
<1>1. IsFiniteSet(S)
  BY TreeAssumption, FS_Subset
<1>2. IsFiniteSet(S \ {c}) /\ Cardinality(S \ {c}) = Cardinality(S) - 1
  BY <1>1, FS_RemoveElement
<1> QED
  BY <1>1, <1>2, FS_CardinalityType

(* What the measure of the steps is made of are numbers. *)
LEMMA CountsType ==
    ASSUME TypeOK
    PROVE  /\ Len(stack) \in Nat /\ Cardinality(Comments) \in Nat
           /\ Cardinality(Unshown) \in Nat
           /\ Cardinality(Unshown) <= Cardinality(Comments)
<1>1. Unshown \in SUBSET Comments
  BY DEF Unshown
<1>2. IsFiniteSet(Unshown) /\ Cardinality(Unshown) <= Cardinality(Comments)
  BY <1>1, TreeAssumption, FS_Subset
<1> QED
  BY <1>2, TreeAssumption, FS_CardinalityType, LenProperties DEF TypeOK

(* A call takes its comment out of those that are not in the forest, for   *)
(* one call more on the stack; or it is one too many, and the pass is over.*)
LEMMA CallLowers ==
    ASSUME TypeOK, phase = "forest", NEW s \in Seq(Frames), Len(s) = Len(stack),
           NEW c \in Comments, shown[c] = None, Call(s, c)
    PROVE  StepsLeft' \in Nat /\ StepsLeft' < StepsLeft
<1>0. /\ Len(stack) \in Nat /\ Cardinality(Unshown) \in Nat
      /\ StepsLeft = 2 * Cardinality(Unshown) + Len(stack) + 1
  BY CountsType DEF StepsLeft
<1>1. CASE ~(Len(s) < RecursionLimit)
  <2>1. StepsLeft' = 0
    BY <1>1 DEF Call, StepsLeft
  <2> QED
    BY <1>0, <2>1
<1>2. CASE Len(s) < RecursionLimit
  <2> DEFINE f == [node |-> c, todo |-> Children(c)]
  <2>1. /\ stack' = Append(s, f) /\ shown' = [shown EXCEPT ![c] = Len(s)]
        /\ phase' = "forest" /\ Len(s) \in Nat
    BY <1>0, <1>2 DEF Call
  <2>2. f \in Frames
    BY DEF Frames, Children
  <2>3. Len(stack') = Len(stack) + 1
    BY <2>1, <2>2, AppendProperties
  <2>4. Unshown' = Unshown \ {c} /\ c \in Unshown /\ Unshown \in SUBSET Comments
    BY <2>1 DEF Unshown, TypeOK, None
  <2>5. /\ Cardinality(Unshown') \in Nat
        /\ Cardinality(Unshown') = Cardinality(Unshown) - 1
    BY <2>4, OneLess
  <2>6. StepsLeft' = 2 * Cardinality(Unshown') + Len(stack') + 1
    BY <2>1 DEF StepsLeft
  <2> QED
    BY <1>0, <2>3, <2>5, <2>6
<1> QED
  BY <1>1, <1>2

(* Every step leaves fewer to come. *)
LEMMA StepsFall ==
    ASSUME TypeOK, StackInv, OnceInv, Next, vars' # vars
    PROVE  StepsLeft' \in Nat /\ StepsLeft' < StepsLeft
<1>0. /\ Len(stack) \in Nat /\ Cardinality(Comments) \in Nat
      /\ Cardinality(Unshown) \in Nat
      /\ Cardinality(Unshown) <= Cardinality(Comments)
      /\ stack \in Seq(Frames)
  BY CountsType DEF TypeOK, Frames
<1>1. ASSUME NEW p \in queue, Visit(p[1], p[2])
      PROVE  StepsLeft' \in Nat /\ StepsLeft' < StepsLeft
  <2>1. /\ phase = "store" /\ phase' = "store"
        /\ p[1] \in Comments \ seen /\ seen' = seen \cup {p[1]}
    BY <1>1 DEF Visit, OnceInv, QueuedOnce, TypeOK
  <2>2. Comments \ seen' = (Comments \ seen) \ {p[1]}
    BY <2>1
  <2>3. /\ Cardinality(Comments \ seen) \in Nat /\ Cardinality(Comments \ seen') \in Nat
        /\ Cardinality(Comments \ seen') = Cardinality(Comments \ seen) - 1
    BY <2>1, <2>2, OneLess
  <2>4. /\ StepsLeft = Cardinality(Comments \ seen) + 2 * Cardinality(Comments) + 2
        /\ StepsLeft' = Cardinality(Comments \ seen') + 2 * Cardinality(Comments) + 2
    BY <2>1 DEF StepsLeft
  <2> QED
    BY <1>0, <2>3, <2>4
<1>2. CASE Materialized
  <2>1. /\ phase = "store" /\ phase' = "forest" /\ stack = <<>>
        /\ UNCHANGED <<stack, shown>>
    BY <1>2 DEF Materialized, StackInv
  <2>2. Len(stack) = 0 /\ Len(stack') = Len(stack) /\ Unshown' = Unshown
    BY <2>1, EmptySeq DEF Unshown
  <2>3. Cardinality(Comments \ seen) \in Nat
    BY TreeAssumption, FS_Difference, FS_CardinalityType
  <2>4. /\ StepsLeft = Cardinality(Comments \ seen) + 2 * Cardinality(Comments) + 2
        /\ StepsLeft' = 2 * Cardinality(Unshown) + 0 + 1
    BY <2>1, <2>2 DEF StepsLeft
  <2> QED
    BY <1>0, <2>3, <2>4
<1>3. CASE AssignRoot
  <2>1. PICK c \in Roots : shown[c] = None /\ Call(stack, c)
    BY <1>3 DEF AssignRoot
  <2>2. phase = "forest" /\ c \in Comments
    BY <1>3 DEF AssignRoot, Roots
  <2> QED
    BY <1>0, <2>1, <2>2, CallLowers
<1>4. CASE AssignChild
  <2>1. Len(stack) \in Nat \ {0} /\ Top = stack[Len(stack)] /\ phase = "forest"
    BY <1>4, ChildCall DEF AssignChild
  <2>2. PICK c \in Top.todo, s \in Seq(Frames) : Len(s) = Len(stack) /\ Call(s, c)
    BY <1>4, ChildCall
  <2>3. shown[c] = None /\ c \in Comments
    BY <2>1, <2>2 DEF OnceInv, ShownOnce, StackInv, OnStack, Children
  <2> QED
    BY <2>1, <2>2, <2>3, CallLowers
<1>5. CASE Return
  <2>1. phase = "forest" /\ phase' = "forest" /\ Unshown' = Unshown
    BY <1>5 DEF Return, Unshown
  <2>2. Len(stack) \in Nat \ {0} /\ Len(stack') = Len(stack) - 1
    BY <1>5, LastReturns
  <2>3. /\ StepsLeft = 2 * Cardinality(Unshown) + Len(stack) + 1
        /\ StepsLeft' = 2 * Cardinality(Unshown) + Len(stack') + 1
    BY <2>1 DEF StepsLeft
  <2> QED
    BY <1>0, <2>2, <2>3
<1>6. CASE Built
  <2>1. StepsLeft = 2 * Cardinality(Unshown) + Len(stack) + 1 /\ StepsLeft' = 0
    BY <1>6 DEF Built, StepsLeft
  <2> QED
    BY <1>0, <2>1
<1> QED
  BY <1>1, <1>2, <1>3, <1>4, <1>5, <1>6 DEF Next, Finished

(* Both passes are over after at most three steps for each comment and two *)
(* besides, on cycles too: none of their loops can go round for ever.      *)
THEOREM PassesAreBounded == Spec => StepsRunOut
<1>1. TypeOK /\ StackInv /\ OnceInv /\ [Next]_vars
        => [StepsLeft' \in Nat /\ StepsLeft' < StepsLeft]_vars
  BY StepsFall
<1> QED
  BY <1>1, TypeCorrect, StackInvariant, EachCommentOnce, PTL DEF Spec, StepsRunOut
=============================================================================
