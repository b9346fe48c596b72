------------------------- MODULE RateLimiterProofs --------------------------
(***************************************************************************)
(* Theorems about RateLimiter, for any number of callers and of slots, any *)
(* interval, any backoff and any pauses the server asks for.               *)
(***************************************************************************)
EXTENDS RateLimiter, FiniteSetTheorems, SequenceTheorems, TLAPS

(* Holders and waiting callers are a finite number of callers. *)
LEMMA HoldersFinite ==
    /\ IsFiniteSet(Holders)
    /\ Cardinality(Holders) \in Nat
<1>1. Holders \in SUBSET Callers
  BY DEF Holders
<1> QED
  BY <1>1, LimiterAssumption, FS_Subset, FS_CardinalityType

(* A caller that holds a slot leaves less than all of them free. *)
LEMMA HolderTakesSlot ==
    ASSUME TypeOK, SlotsAccounted, NEW c \in Holders
    PROVE  slots < MaxWorkers
<1>1. Cardinality(Holders) # 0
  BY HoldersFinite, FS_EmptySet
<1> QED
  BY <1>1, HoldersFinite, LimiterAssumption DEF TypeOK, SlotsAccounted

(* The caller at the head of a queue is the one that waits there, and is   *)
(* in no other place of it.                                                *)
LEMMA HeadOfQueue ==
    ASSUME NEW q \in Seq(Callers), q # <<>>, Distinct(q)
    PROVE  /\ Head(q) = q[1]
           /\ 1 \in 1 .. Len(q)
           /\ Tail(q) \in Seq(Callers)
           /\ Distinct(Tail(q))
           /\ \A i \in 1 .. Len(Tail(q)) :
                \E j \in 1 .. Len(q) : Tail(q)[i] = q[j] /\ q[j] # Head(q)
<1>1. Head(q) = q[1] /\ 1 \in 1 .. Len(q) /\ Len(q) \in Nat
  BY EmptySeq
<1>2. /\ Tail(q) \in Seq(Callers)
      /\ Len(Tail(q)) = Len(q) - 1
      /\ \A i \in 1 .. Len(Tail(q)) : Tail(q)[i] = q[i + 1]
  BY HeadTailProperties
<1>3. ASSUME NEW i \in 1 .. Len(Tail(q))
      PROVE  i + 1 \in 1 .. Len(q) /\ i + 1 # 1
  BY <1>1, <1>2
<1>4. Distinct(Tail(q))
  BY <1>1, <1>2, <1>3 DEF Distinct
<1>5. ASSUME NEW i \in 1 .. Len(Tail(q))
      PROVE  \E j \in 1 .. Len(q) : Tail(q)[i] = q[j] /\ q[j] # Head(q)
  BY <1>1, <1>2, <1>3 DEF Distinct
<1> QED
  BY <1>1, <1>2, <1>4, <1>5

(* A caller that is not in a queue may line up in it. *)
LEMMA LinedUp ==
    ASSUME NEW q \in Seq(Callers), NEW c \in Callers, Distinct(q),
           \A i \in 1 .. Len(q) : q[i] # c
    PROVE  /\ Append(q, c) \in Seq(Callers)
           /\ Distinct(Append(q, c))
           /\ \A i \in 1 .. Len(Append(q, c)) :
                \/ Append(q, c)[i] = c
                \/ \E j \in 1 .. Len(q) : Append(q, c)[i] = q[j]
<1>1. Len(q) \in Nat
  OBVIOUS
<1>2. /\ Append(q, c) \in Seq(Callers)
      /\ Len(Append(q, c)) = Len(q) + 1
      /\ \A i \in 1 .. Len(q) : Append(q, c)[i] = q[i]
      /\ Append(q, c)[Len(q) + 1] = c
  BY AppendProperties
<1>3. \A i \in 1 .. Len(Append(q, c)) : i \in 1 .. Len(q) \/ i = Len(q) + 1
  BY <1>1, <1>2
<1> QED
  BY <1>2, <1>3 DEF Distinct

(* Whoever waits in a queue is a caller. *)
LEMMA QueueMembers ==
    ASSUME NEW q \in Seq(Callers)
    PROVE  \A i \in 1 .. Len(q) : q[i] \in Callers
OBVIOUS

-----------------------------------------------------------------------------
(***************************************************************************)
(* The inductive invariant.  The number of slots and the number of calls   *)
(* that hold one stay in balance only because the queues are exact (a      *)
(* caller is woken once), and the intervals are kept only because one      *)
(* caller at a time sleeps with the lock, for a delay that covers what is  *)
(* left of the interval.                                                   *)
(***************************************************************************)
IInv == TypeOK /\ QueuesExact /\ SlotsAccounted /\ PacingInv /\ PauseInv

(* It holds before the first call. *)
LEMMA InitIInv == Init => IInv
<1> SUFFICES ASSUME Init PROVE IInv
  OBVIOUS
<1>1. TypeOK
  BY LimiterAssumption DEF Init, TypeOK, Places
<1>2. QueuesExact
  BY DEF Init, QueuesExact, Distinct
<1>3. Holders = {} /\ Sleepers = {}
  BY DEF Init, Holders, Sleepers
<1>4. SlotsAccounted
  BY <1>3, FS_EmptySet, LimiterAssumption DEF Init, SlotsAccounted
<1>5. PacingInv /\ PauseInv
  BY <1>3, LimiterAssumption DEF Init, PacingInv, PauseInv, PauseHolds
<1> QED
  BY <1>1, <1>2, <1>4, <1>5 DEF IInv

(* A caller lines up for a slot: at the start of a call or of a retry. *)
LEMMA LineUpIInv ==
    ASSUME IInv, NEW c \in Callers, Call(c) \/ Retry(c)
    PROVE  IInv'
<1> USE DEF IInv
<1>1. /\ pc[c] \in {"idle", "backoff"}
      /\ pc' = [pc EXCEPT ![c] = "slot"]
      /\ semQueue' = Append(semQueue, c)
      /\ UNCHANGED <<wait, slots, lockQueue, nextIn, pauseIn, since, early>>
      /\ attempt' \in [Callers -> Nat \ {0}]
  <2>1. CASE Call(c)
    <3>1. attempt' \in [Callers -> Nat \ {0}]
      BY <2>1 DEF Call, TypeOK
    <3> QED
      BY <2>1, <3>1 DEF Call, LineUp, GoTo
  <2>2. CASE Retry(c)
    <3>1. attempt' \in [Callers -> Nat \ {0}]
      BY <2>2 DEF Retry, TypeOK
    <3> QED
      BY <2>2, <3>1 DEF Retry, LineUp, GoTo
  <2> QED
    BY <2>1, <2>2
<1>2. \A i \in 1 .. Len(semQueue) : semQueue[i] # c
  BY <1>1 DEF QueuesExact
<1>3. /\ semQueue' \in Seq(Callers)
      /\ Distinct(semQueue')
      /\ \A i \in 1 .. Len(semQueue') :
           semQueue'[i] = c \/ \E j \in 1 .. Len(semQueue) : semQueue'[i] = semQueue[j]
  BY <1>1, <1>2, LinedUp DEF TypeOK, QueuesExact
<1>4. TypeOK'
  BY <1>1, <1>3 DEF TypeOK, Places
<1>5. QueuesExact'
  <2>1. \A i \in 1 .. Len(semQueue') : pc'[semQueue'[i]] = "slot"
    BY <1>1, <1>2, <1>3, QueueMembers DEF QueuesExact, TypeOK
  <2>2. \A i \in 1 .. Len(lockQueue) : lockQueue[i] # c /\ lockQueue[i] \in Callers
    BY <1>1 DEF QueuesExact, TypeOK
  <2> QED
    BY <1>1, <1>3, <2>1, <2>2 DEF QueuesExact, Distinct, TypeOK
<1>6. Holders' = Holders /\ Sleepers' = Sleepers
  BY <1>1 DEF Holders, Sleepers, TypeOK
<1>7. SlotsAccounted'
  BY <1>1, <1>6 DEF SlotsAccounted
<1>8. PacingInv' /\ PauseInv'
  BY <1>1, <1>6 DEF PacingInv, PauseInv, PauseHolds
<1> QED
  BY <1>4, <1>5, <1>7, <1>8

(* A slot is taken by the caller that has waited longest. *)
LEMMA TakeSlotIInv ==
    ASSUME IInv, NEW c \in Callers, TakeSlot(c)
    PROVE  IInv'
<1> USE DEF IInv
<1>1. /\ slots > 0 /\ slots' = slots - 1
      /\ semQueue # <<>> /\ Head(semQueue) = c
      /\ semQueue' = Tail(semQueue)
      /\ lockQueue' = Append(lockQueue, c)
      /\ pc' = [pc EXCEPT ![c] = "lock"]
      /\ UNCHANGED <<attempt, wait, nextIn, pauseIn, since, early>>
  BY DEF TakeSlot, GoTo
<1>2. /\ pc[c] = "slot"
      /\ semQueue' \in Seq(Callers)
      /\ Distinct(semQueue')
      /\ \A i \in 1 .. Len(semQueue') :
           \E j \in 1 .. Len(semQueue) : semQueue'[i] = semQueue[j] /\ semQueue[j] # c
  BY <1>1, HeadOfQueue DEF QueuesExact, TypeOK
<1>3. \A i \in 1 .. Len(lockQueue) : lockQueue[i] # c
  BY <1>2 DEF QueuesExact
<1>4. /\ lockQueue' \in Seq(Callers)
      /\ Distinct(lockQueue')
      /\ \A i \in 1 .. Len(lockQueue') :
           lockQueue'[i] = c \/ \E j \in 1 .. Len(lockQueue) : lockQueue'[i] = lockQueue[j]
  BY <1>1, <1>3, LinedUp DEF TypeOK, QueuesExact
<1>5. TypeOK'
  BY <1>1, <1>2, <1>4, LimiterAssumption DEF TypeOK, Places
<1>6. QueuesExact'
  <2>1. ASSUME NEW i \in 1 .. Len(semQueue') PROVE pc'[semQueue'[i]] = "slot"
    <3>1. PICK j \in 1 .. Len(semQueue) : semQueue'[i] = semQueue[j] /\ semQueue[j] # c
      BY <1>2
    <3>2. semQueue[j] \in Callers /\ pc[semQueue[j]] = "slot"
      BY QueueMembers DEF QueuesExact, TypeOK
    <3> QED
      BY <1>1, <3>1, <3>2 DEF TypeOK
  <2>2. \A i \in 1 .. Len(lockQueue') : pc'[lockQueue'[i]] = "lock"
    BY <1>1, <1>4 DEF QueuesExact, TypeOK
  <2> QED
    BY <1>2, <1>4, <2>1, <2>2 DEF QueuesExact, Distinct
<1>7. Holders' = Holders \cup {c} /\ c \notin Holders /\ Sleepers' = Sleepers
  BY <1>1, <1>2 DEF Holders, Sleepers, TypeOK
<1>8. SlotsAccounted'
  <2>1. Cardinality(Holders') = Cardinality(Holders) + 1
    BY <1>7, HoldersFinite, FS_AddElement
  <2> QED
    BY <1>1, <2>1, HoldersFinite, LimiterAssumption DEF SlotsAccounted, TypeOK
<1>9. PacingInv' /\ PauseInv'
  BY <1>1, <1>7 DEF PacingInv, PauseInv, PauseHolds
<1> QED
  BY <1>5, <1>6, <1>8, <1>9

(* The lock is taken: the only sleeper sleeps for all of the delay. *)
LEMMA TakeLockIInv ==
    ASSUME IInv, NEW c \in Callers, TakeLock(c)
    PROVE  IInv'
<1> USE DEF IInv
<1>1. /\ lockQueue # <<>> /\ Head(lockQueue) = c
      /\ Sleepers = {}
      /\ lockQueue' = Tail(lockQueue)
      /\ wait' = [wait EXCEPT ![c] = Delay]
      /\ pc' = [pc EXCEPT ![c] = "sleep"]
      /\ UNCHANGED <<attempt, slots, semQueue, nextIn, pauseIn, since, early>>
  BY DEF TakeLock, GoTo
<1>2. /\ pc[c] = "lock"
      /\ lockQueue' \in Seq(Callers)
      /\ Distinct(lockQueue')
      /\ \A i \in 1 .. Len(lockQueue') :
           \E j \in 1 .. Len(lockQueue) : lockQueue'[i] = lockQueue[j] /\ lockQueue[j] # c
  BY <1>1, HeadOfQueue DEF QueuesExact, TypeOK
<1>3. Delay \in Nat /\ Delay >= nextIn /\ Delay >= pauseIn
  BY DEF Delay, Later, TypeOK
<1>4. TypeOK'
  BY <1>1, <1>2, <1>3 DEF TypeOK, Places
<1>5. QueuesExact'
  <2>1. ASSUME NEW i \in 1 .. Len(lockQueue') PROVE pc'[lockQueue'[i]] = "lock"
    <3>1. PICK j \in 1 .. Len(lockQueue) : lockQueue'[i] = lockQueue[j] /\ lockQueue[j] # c
      BY <1>2
    <3>2. lockQueue[j] \in Callers /\ pc[lockQueue[j]] = "lock"
      BY QueueMembers DEF QueuesExact, TypeOK
    <3> QED
      BY <1>1, <3>1, <3>2 DEF TypeOK
  <2>2. \A i \in 1 .. Len(semQueue) : semQueue[i] # c /\ semQueue[i] \in Callers
    BY <1>2 DEF QueuesExact, TypeOK
  <2> QED
    BY <1>1, <1>2, <2>1, <2>2 DEF QueuesExact, Distinct, TypeOK
<1>6. Holders' = Holders /\ Sleepers' = {c} /\ wait'[c] = Delay
  BY <1>1, <1>2 DEF Holders, Sleepers, TypeOK
<1>7. SlotsAccounted'
  BY <1>1, <1>6 DEF SlotsAccounted
<1>8. PacingInv' /\ PauseInv'
  BY <1>1, <1>3, <1>6 DEF PacingInv, PauseInv, PauseHolds
<1> QED
  BY <1>4, <1>5, <1>7, <1>8

(* A request is sent: at the end of the interval, and early at most once. *)
LEMMA SendIInv ==
    ASSUME IInv, NEW c \in Callers, Send(c)
    PROVE  IInv'
<1> USE DEF IInv
<1>1. /\ pc[c] = "sleep" /\ wait[c] = 0
      /\ nextIn' = MinInterval /\ since' = 0
      /\ early' = IF pauseIn > 0 THEN early + 1 ELSE early
      /\ pc' = [pc EXCEPT ![c] = "sent"]
      /\ UNCHANGED <<attempt, wait, slots, semQueue, lockQueue, pauseIn>>
  BY DEF Send, GoTo
<1>2. TypeOK'
  BY <1>1, LimiterAssumption DEF TypeOK, Places
<1>3. QueuesExact'
  <2>1. \A i \in 1 .. Len(semQueue) : semQueue[i] # c /\ semQueue[i] \in Callers
    BY <1>1 DEF QueuesExact, TypeOK
  <2>2. \A i \in 1 .. Len(lockQueue) : lockQueue[i] # c /\ lockQueue[i] \in Callers
    BY <1>1 DEF QueuesExact, TypeOK
  <2>3. \A i \in 1 .. Len(semQueue) : pc'[semQueue[i]] = "slot"
    BY <1>1, <2>1 DEF QueuesExact, TypeOK
  <2>4. \A i \in 1 .. Len(lockQueue) : pc'[lockQueue[i]] = "lock"
    BY <1>1, <2>2 DEF QueuesExact, TypeOK
  <2> QED
    BY <1>1, <2>3, <2>4 DEF QueuesExact, Distinct
<1>4. Holders' = Holders /\ Sleepers' = Sleepers \ {c} /\ c \in Sleepers
  BY <1>1 DEF Holders, Sleepers, TypeOK
<1>5. SlotsAccounted'
  BY <1>1, <1>4 DEF SlotsAccounted
<1>6. Sleepers' = {}
  BY <1>4 DEF PacingInv
<1>7. PacingInv'
  BY <1>1, <1>6, LimiterAssumption DEF PacingInv
<1>8. PauseInv'
  <2>1. pauseIn > 0 => early = 0 /\ MaxWorkers # 1
    BY <1>1, <1>4, LimiterAssumption DEF PauseInv, PauseHolds, TypeOK
  <2> QED
    BY <1>1, <1>6, <2>1, LimiterAssumption DEF PauseInv, PauseHolds, TypeOK
<1> QED
  BY <1>2, <1>3, <1>5, <1>7, <1>8

(* What a call does after its attempt changes the types of nothing. *)
LEMMA AfterAttempt ==
    ASSUME TypeOK, NEW c \in Callers, RetryOrRaise(c) \/ Return(c)
    PROVE  /\ \E place \in {"idle", "backoff"} : pc' = [pc EXCEPT ![c] = place]
           /\ attempt' \in [Callers -> Nat \ {0}]
           /\ wait' \in [Callers -> Nat]
           /\ \A d \in Callers \ {c} : wait'[d] = wait[d]
<1>1. CASE GivesUp(c) \/ Return(c)
  BY <1>1 DEF RetryOrRaise, Return, GoTo, TypeOK
<1>2. CASE RetryOrRaise(c) /\ ~GivesUp(c)
  <2>1. attempt[c] \in 1 .. MaxRetries
    BY <1>2, LimiterAssumption DEF GivesUp, TypeOK
  <2>2. Backoff(attempt[c]) \in Nat
    BY <2>1, BackoffAssumption
  <2>3. /\ pc' = [pc EXCEPT ![c] = "backoff"]
        /\ attempt' = [attempt EXCEPT ![c] = attempt[c] + 1]
        /\ wait' = [wait EXCEPT ![c] = Backoff(attempt[c])]
    BY <1>2 DEF RetryOrRaise, GoTo
  <2>4. attempt' \in [Callers -> Nat \ {0}]
    BY <2>3 DEF TypeOK
  <2>5. wait' \in [Callers -> Nat] /\ \A d \in Callers \ {c} : wait'[d] = wait[d]
    BY <2>2, <2>3 DEF TypeOK
  <2> QED
    BY <2>3, <2>4, <2>5
<1> QED
  BY <1>1, <1>2

(* A request has ended: its slot is free, and a pause begins or does not. *)
LEMMA EndedIInv ==
    ASSUME IInv, NEW c \in Callers, Respond(c) \/ NoResponse(c)
    PROVE  IInv'
<1> USE DEF IInv
<1>1. /\ pc[c] = "sent"
      /\ slots' = slots + 1
      /\ RetryOrRaise(c) \/ Return(c)
      /\ UNCHANGED <<semQueue, lockQueue, nextIn, since>>
      /\ UNCHANGED <<pauseIn, early>> \/ (pauseIn' \in Nat /\ early' = 0)
  <2>1. \A reset \in Resets : PauseFor(reset) \in Nat
    BY LimiterAssumption DEF PauseFor
  <2> QED
    BY <2>1 DEF Respond, NoResponse, Released
<1>2. PICK place \in {"idle", "backoff"} : pc' = [pc EXCEPT ![c] = place]
  BY <1>1, AfterAttempt
<1>3. /\ attempt' \in [Callers -> Nat \ {0}]
      /\ wait' \in [Callers -> Nat]
      /\ \A d \in Callers \ {c} : wait'[d] = wait[d]
  BY <1>1, AfterAttempt
<1>4. c \in Holders /\ slots < MaxWorkers
  BY <1>1, HolderTakesSlot DEF Holders
<1>5. TypeOK'
  <2>1. pc' \in [Callers -> Places]
    BY <1>2 DEF TypeOK, Places
  <2>2. slots' \in 0 .. MaxWorkers
    BY <1>1, <1>4, LimiterAssumption DEF TypeOK
  <2>3. pauseIn' \in Nat /\ early' \in Nat
    BY <1>1 DEF TypeOK
  <2> QED
    BY <1>1, <1>3, <2>1, <2>2, <2>3 DEF TypeOK
<1>6. QueuesExact'
  <2>1. \A i \in 1 .. Len(semQueue) : semQueue[i] # c /\ semQueue[i] \in Callers
    BY <1>1 DEF QueuesExact, TypeOK
  <2>2. \A i \in 1 .. Len(lockQueue) : lockQueue[i] # c /\ lockQueue[i] \in Callers
    BY <1>1 DEF QueuesExact, TypeOK
  <2> QED
    BY <1>1, <1>2, <2>1, <2>2 DEF QueuesExact, Distinct, TypeOK
<1>7. Holders' = Holders \ {c}
  BY <1>1, <1>2 DEF Holders, TypeOK
<1>8. Sleepers' = Sleepers /\ c \notin Sleepers
  BY <1>1, <1>2 DEF Sleepers, TypeOK
<1>9. SlotsAccounted'
  <2>1. Cardinality(Holders') = Cardinality(Holders) - 1
    BY <1>4, <1>7, HoldersFinite, FS_RemoveElement
  <2> QED
    BY <1>1, <2>1, HoldersFinite, LimiterAssumption DEF SlotsAccounted, TypeOK
<1>10. PacingInv'
  BY <1>1, <1>3, <1>8 DEF PacingInv, Sleepers
<1>11. PauseInv'
  <2>1. MaxWorkers = 1 => Sleepers = {}
    <3> SUFFICES ASSUME MaxWorkers = 1, NEW d \in Sleepers PROVE FALSE
      OBVIOUS
    <3>1. d \in Holders \ {c}
      BY <1>8 DEF Sleepers, Holders
    <3>2. Cardinality(Holders \ {c}) = Cardinality(Holders) - 1 /\ IsFiniteSet(Holders \ {c})
      BY <1>4, HoldersFinite, FS_RemoveElement
    <3>3. Cardinality(Holders \ {c}) # 0
      BY <3>1, <3>2, FS_EmptySet
    <3>4. Cardinality(Holders) <= 1
      BY HoldersFinite DEF SlotsAccounted, TypeOK
    <3>5. Cardinality(Holders \ {c}) \in Nat
      BY <3>2, FS_CardinalityType
    <3> QED
      BY <3>2, <3>3, <3>4, <3>5, HoldersFinite
  <2>2. CASE UNCHANGED <<pauseIn, early>>
    BY <1>3, <1>8, <2>2 DEF PauseInv, PauseHolds, Sleepers
  <2>3. CASE pauseIn' \in Nat /\ early' = 0
    BY <1>8, <2>1, <2>3 DEF PauseInv, PauseHolds
  <2> QED
    BY <1>1, <2>2, <2>3
<1> QED
  BY <1>5, <1>6, <1>9, <1>10, <1>11

(* Time passes for everything at once. *)
LEMMA TickIInv ==
    ASSUME IInv, Tick
    PROVE  IInv'
<1> USE DEF IInv
<1>1. /\ \A n \in Nat : Down(n) \in Nat
      /\ \A m, n \in Nat : m >= n => Down(m) >= Down(n)
  BY DEF Down
<1>2. since' \in 0 .. MinInterval
  BY LimiterAssumption DEF Tick, TypeOK, Sooner
<1>3. TypeOK'
  BY <1>1, <1>2 DEF Tick, TypeOK
<1>4. QueuesExact'
  BY DEF Tick, QueuesExact, Distinct
<1>5. Holders' = Holders /\ Sleepers' = Sleepers
  BY DEF Tick, Holders, Sleepers
<1>6. SlotsAccounted'
  BY <1>5 DEF Tick, SlotsAccounted
<1>7. nextIn' + since' >= MinInterval
  BY LimiterAssumption DEF Tick, TypeOK, PacingInv, Down, Sooner
<1>8. \A c \in Sleepers : c \in Callers
  BY DEF Sleepers
<1>9. PacingInv'
  BY <1>1, <1>5, <1>7, <1>8 DEF Tick, TypeOK, PacingInv
<1>10. PauseInv'
  BY <1>1, <1>5, <1>8 DEF Tick, TypeOK, PauseInv, PauseHolds
<1> QED
  BY <1>3, <1>4, <1>6, <1>9, <1>10

(* Every step keeps the invariant. *)
LEMMA NextIInv == IInv /\ [Next]_vars => IInv'
<1> SUFFICES ASSUME IInv, [Next]_vars PROVE IInv'
  OBVIOUS
<1>1. ASSUME NEW c \in Callers, Call(c) \/ Proceed(c) PROVE IInv'
  BY <1>1, LineUpIInv, TakeSlotIInv, TakeLockIInv, SendIInv, EndedIInv DEF Proceed
<1>2. CASE Tick
  BY <1>2, TickIInv
<1>3. CASE UNCHANGED vars
  BY <1>3 DEF vars, calls, IInv, TypeOK, QueuesExact, Distinct, SlotsAccounted, Holders,
     Sleepers, PacingInv, PauseInv, PauseHolds
<1> QED
  BY <1>1, <1>2, <1>3 DEF Next

(* The limiter's books are right at all times. *)
THEOREM LimiterInvariant == Spec => []IInv
<1> QED
  BY InitIInv, NextIInv, PTL DEF Spec

-----------------------------------------------------------------------------
(* What follows from it *)

(* The types of acquire, release and the retry loop. *)
THEOREM LimiterTypeCorrect == Spec => []TypeOK
<1>1. IInv => TypeOK
  BY DEF IInv
<1> QED
  BY <1>1, LimiterInvariant, PTL

(* Never more requests of a backend in flight than max_workers, through    *)
(* retries and failures.                                                   *)
THEOREM ConcurrencyIsBounded == Spec => []ConcurrencyBounded
<1>1. ASSUME IInv PROVE ConcurrencyBounded
  <2>1. InFlight \in SUBSET Holders
    BY DEF InFlight, Holders
  <2>2. Cardinality(InFlight) \in Nat /\ Cardinality(InFlight) <= Cardinality(Holders)
    BY <2>1, HoldersFinite, FS_Subset, FS_CardinalityType
  <2> QED
    BY <1>1, <2>2, HoldersFinite, LimiterAssumption
       DEF IInv, TypeOK, SlotsAccounted, ConcurrencyBounded
<1> QED
  BY <1>1, LimiterInvariant, PTL

(* Two requests are sent at least min_interval_seconds apart. *)
THEOREM SpacingIsKept == Spec => SpacingKept
<1>1. ASSUME IInv, [Next]_vars PROVE [Starts => since >= MinInterval]_vars
  <2> SUFFICES ASSUME Next, Starts PROVE since >= MinInterval
    BY <1>1
  <2>1. PICK c \in Callers : pc[c] # "sent" /\ pc'[c] = "sent"
    BY DEF Starts
  <2>2. pc \in [Callers -> Places]
    BY <1>1 DEF IInv, TypeOK
  <2>3. PICK d \in Callers : Send(d)
    <3>1. ASSUME NEW d \in Callers, Call(d) \/ Retry(d) \/ TakeSlot(d) \/ TakeLock(d)
          PROVE  FALSE
      BY <2>1, <2>2, <3>1 DEF Call, Retry, LineUp, TakeSlot, TakeLock, GoTo
    <3>2. ASSUME NEW d \in Callers, Respond(d) \/ NoResponse(d)
          PROVE  FALSE
      BY <2>1, <2>2, <3>2 DEF Respond, NoResponse, RetryOrRaise, Return, GoTo
    <3>3. ~Tick
      BY <2>1 DEF Tick
    <3> QED
      BY <3>1, <3>2, <3>3 DEF Next, Proceed
  <2>4. d \in Sleepers /\ wait[d] = 0
    BY <2>3 DEF Send, Sleepers
  <2> QED
    BY <1>1, <2>4, LimiterAssumption DEF IInv, TypeOK, PacingInv
<1> QED
  BY <1>1, LimiterInvariant, PTL DEF Spec, SpacingKept

(* During a pause at most one request is sent, and none with one slot. *)
THEOREM PausesHold == Spec => []PauseHolds
<1>1. IInv => PauseHolds
  BY DEF IInv, PauseInv
<1> QED
  BY <1>1, LimiterInvariant, PTL

(* A call makes no more attempts than max_retries. *)
THEOREM AttemptsAreBounded == Spec => []AttemptsBounded
<1>1. Init => AttemptsBounded
  BY LimiterAssumption DEF Init, AttemptsBounded, Later
<1>2. ASSUME IInv, AttemptsBounded, [Next]_vars PROVE AttemptsBounded'
  <2> USE LimiterAssumption DEF AttemptsBounded, Later
  <2>1. attempt \in [Callers -> Nat \ {0}]
    BY <1>2 DEF IInv, TypeOK
  <2>2. CASE Tick \/ UNCHANGED vars
    BY <1>2, <2>2 DEF Tick, vars, calls
  <2>3. ASSUME NEW c \in Callers,
               TakeSlot(c) \/ TakeLock(c) \/ Send(c) \/ Retry(c) \/ Call(c)
        PROVE  AttemptsBounded'
    BY <1>2, <2>1, <2>3 DEF TakeSlot, TakeLock, Send, Retry, Call
  <2>4. ASSUME NEW c \in Callers, Respond(c) \/ NoResponse(c)
        PROVE  AttemptsBounded'
    BY <1>2, <2>1, <2>4 DEF Respond, NoResponse, RetryOrRaise, Return, GivesUp
  <2> QED
    BY <1>2, <2>2, <2>3, <2>4 DEF Next, Proceed
<1> QED
  BY <1>1, <1>2, LimiterInvariant, PTL DEF Spec
=============================================================================
