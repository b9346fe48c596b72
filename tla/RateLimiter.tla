---------------------------- MODULE RateLimiter -----------------------------
(***************************************************************************)
(* The pacing of one backend's requests: AdaptiveRateLimiter (ratelimit.py)*)
(* and the retry loop of get_json (sources/_http.py) that goes through it. *)
(*                                                                         *)
(* Callers are the walks of one run that use the same backend.  A call     *)
(* takes a slot of the limiter's semaphore, then its lock, sleeps with the *)
(* lock held for as long as the minimum interval or a pause asks, and      *)
(* sends.  The slot goes back when the response is there; then its headers *)
(* may set a pause; then a transient failure is retried after a backoff,   *)
(* for which no slot is held.                                              *)
(*                                                                         *)
(* Time is counted in ticks, and a deadline is the time left until it (the *)
(* code's absolute deadlines are only ever compared with the present):     *)
(* Tick lets all of them run down.  asyncio serves the waiters of a        *)
(* semaphore and of a lock first come, first served.                       *)
(***************************************************************************)
EXTENDS Integers, Sequences, FiniteSets

CONSTANTS
    Callers,
    MaxWorkers,     \* the limiter's max_workers, at least 1
    MinInterval,    \* min_interval_seconds
    MaxRetries,     \* max_retries
    BackoffBase,    \* backoff_base_seconds
    BackoffMax,     \* backoff_max_seconds
    Resets          \* values of X-RateLimit-Reset on a low response, 0: none

ASSUME LimiterAssumption ==
    /\ IsFiniteSet(Callers)
    /\ MaxWorkers \in Nat \ {0}
    /\ MinInterval \in Nat
    /\ MaxRetries \in Nat
    /\ BackoffBase \in Nat
    /\ BackoffMax \in Nat
    /\ Resets \subseteq Nat

VARIABLES
    pc,       \* where each call stands
    attempt,  \* attempt number of its retry loop
    wait,     \* time left of its sleep: for the lock's holder, or a backoff
    slots,    \* free slots of the semaphore
    semQueue, \* callers waiting for a slot, oldest first
    lockQueue,\* callers waiting for the lock, oldest first
    nextIn,   \* time until _next_allowed
    pauseIn,  \* time until _pause_until
    since,    \* history: time since the last request was sent, at most MinInterval
    early     \* history: requests sent before the end of the last pause set

calls == <<pc, attempt, wait>>
vars == <<calls, slots, semQueue, lockQueue, nextIn, pauseIn, since, early>>

Places == {"idle", "slot", "lock", "sleep", "sent", "backoff"}

(* Callers that hold a slot, and those that hold the lock. *)
Holders == {c \in Callers : pc[c] \in {"lock", "sleep", "sent"}}
Sleepers == {c \in Callers : pc[c] = "sleep"}
InFlight == {c \in Callers : pc[c] = "sent"}

(* max, min and the passing of time *)
Later(a, b) == IF a >= b THEN a ELSE b
Sooner(a, b) == IF a <= b THEN a ELSE b
Down(n) == IF n > 0 THEN n - 1 ELSE 0

TypeOK ==
    /\ pc \in [Callers -> Places]
    /\ attempt \in [Callers -> Nat \ {0}]
    /\ wait \in [Callers -> Nat]
    /\ slots \in 0 .. MaxWorkers
    /\ semQueue \in Seq(Callers)
    /\ lockQueue \in Seq(Callers)
    /\ nextIn \in Nat
    /\ pauseIn \in Nat
    /\ since \in 0 .. MinInterval
    /\ early \in Nat

GoTo(c, place) == pc' = [pc EXCEPT ![c] = place]

(* One attempt begins: the call lines up for a slot. *)
LineUp(c) == GoTo(c, "slot") /\ semQueue' = Append(semQueue, c)

-----------------------------------------------------------------------------
(* A call *)

(* get_json begins. *)
Call(c) ==
    /\ pc[c] = "idle"
    /\ LineUp(c)
    /\ attempt' = [attempt EXCEPT ![c] = 1]
    /\ UNCHANGED <<wait, slots, lockQueue, nextIn, pauseIn, since, early>>

(* await self._sem.acquire(), and the caller lines up for the lock. *)
TakeSlot(c) ==
    /\ slots > 0
    /\ semQueue # <<>> /\ Head(semQueue) = c
    /\ slots' = slots - 1
    /\ semQueue' = Tail(semQueue)
    /\ lockQueue' = Append(lockQueue, c)
    /\ GoTo(c, "lock")
    /\ UNCHANGED <<attempt, wait, nextIn, pauseIn, since, early>>

(* The delay is computed once, when the lock is taken. *)
DelayPauseFirst == IF pauseIn > 0 THEN pauseIn ELSE nextIn  \* mutant: a pause replaces the interval
DelayNoPause == nextIn                                      \* mutant: pauses are not looked at
Delay == Later(nextIn, pauseIn)

TakeLock(c) ==
    /\ lockQueue # <<>> /\ Head(lockQueue) = c
    /\ Sleepers = {}
    /\ lockQueue' = Tail(lockQueue)
    /\ wait' = [wait EXCEPT ![c] = Delay]
    /\ GoTo(c, "sleep")
    /\ UNCHANGED <<attempt, slots, semQueue, nextIn, pauseIn, since, early>>

(* The sleep is over: set the next start, leave the lock, send. *)
Send(c) ==
    /\ pc[c] = "sleep"
    /\ wait[c] = 0
    /\ nextIn' = MinInterval
    /\ since' = 0
    /\ early' = IF pauseIn > 0 THEN early + 1 ELSE early
    /\ GoTo(c, "sent")
    /\ UNCHANGED <<attempt, wait, slots, semQueue, lockQueue, pauseIn>>

(* wait_exponential between two attempts *)
Backoff(n) == Sooner(BackoffBase * 2 ^ (n - 1), BackoffMax)

(* A number of ticks: powers of two are beyond the provers. *)
ASSUME BackoffAssumption == \A n \in 1 .. MaxRetries : Backoff(n) \in Nat

(* stop_after_attempt *)
GivesUp(c) == attempt[c] >= MaxRetries

(* Mutant: the attempts are not counted. *)
RetryOrRaiseUncounted(c) ==
    IF GivesUp(c)
      THEN GoTo(c, "idle") /\ UNCHANGED <<attempt, wait>>
      ELSE /\ GoTo(c, "backoff")
           /\ UNCHANGED attempt
           /\ wait' = [wait EXCEPT ![c] = Backoff(attempt[c])]

(* A transient failure: back off for another attempt, or raise. *)
RetryOrRaise(c) ==
    IF GivesUp(c)
      THEN GoTo(c, "idle") /\ UNCHANGED <<attempt, wait>>
      ELSE /\ GoTo(c, "backoff")
           /\ attempt' = [attempt EXCEPT ![c] = @ + 1]
           /\ wait' = [wait EXCEPT ![c] = Backoff(attempt[c])]

(* The call is over: its JSON, or an error that is not retried. *)
Return(c) == GoTo(c, "idle") /\ UNCHANGED <<attempt, wait>>

ReleasedTwice == slots + 2   \* mutant: it is released by the caller as well
Released == slots + 1

(* The pause a low response asks for; without a reset, four intervals. *)
PauseFor(reset) == IF reset > 0 THEN reset ELSE 4 * MinInterval

(***************************************************************************)
(* A response: the slot is released, its headers are looked at, and only   *)
(* then its status.  A later pause replaces an earlier one, longer or not. *)
(***************************************************************************)
Respond(c) ==
    /\ pc[c] = "sent"
    /\ slots' = Released
    /\ \/ UNCHANGED <<pauseIn, early>>
       \/ \E reset \in Resets : pauseIn' = PauseFor(reset) /\ early' = 0
    /\ RetryOrRaise(c) \/ Return(c)
    /\ UNCHANGED <<semQueue, lockQueue, nextIn, since>>

(* No response: the headers are not looked at.  Only a TransportError is   *)
(* retried, a redirect loop is not.                                        *)
NoResponse(c) ==
    /\ pc[c] = "sent"
    /\ slots' = Released
    /\ RetryOrRaise(c) \/ Return(c)
    /\ UNCHANGED <<semQueue, lockQueue, nextIn, pauseIn, since, early>>

(* The backoff is over: the next attempt. *)
Retry(c) ==
    /\ pc[c] = "backoff"
    /\ wait[c] = 0
    /\ LineUp(c)
    /\ UNCHANGED <<attempt, wait, slots, lockQueue, nextIn, pauseIn, since, early>>

Proceed(c) ==
    \/ TakeSlot(c)
    \/ TakeLock(c)
    \/ Send(c)
    \/ Respond(c)
    \/ NoResponse(c)
    \/ Retry(c)

(* Time passes.  A sleep may last longer than it asked for. *)
Tick ==
    /\ wait' = [c \in Callers |-> Down(wait[c])]
    /\ nextIn' = Down(nextIn)
    /\ pauseIn' = Down(pauseIn)
    /\ since' = Sooner(since + 1, MinInterval)
    /\ UNCHANGED <<pc, attempt, slots, semQueue, lockQueue, early>>

Init ==
    /\ pc = [c \in Callers |-> "idle"]
    /\ attempt = [c \in Callers |-> 1]
    /\ wait = [c \in Callers |-> 0]
    /\ slots = MaxWorkers
    /\ semQueue = <<>>
    /\ lockQueue = <<>>
    /\ nextIn = 0
    /\ pauseIn = 0
    /\ since = MinInterval
    /\ early = 0

Next ==
    \/ \E c \in Callers : Call(c) \/ Proceed(c)
    \/ Tick

Spec == Init /\ [][Next]_vars

(***************************************************************************)
(* The event loop resumes every task that can go on, a request answers or  *)
(* times out (httpx.Timeout), and time passes.  No call has to be made.    *)
(***************************************************************************)
FairSpec == Spec /\ WF_vars(Tick) /\ \A c \in Callers : WF_vars(Proceed(c))

-----------------------------------------------------------------------------
(* Properties *)

Starts == \E c \in Callers : pc[c] # "sent" /\ pc'[c] = "sent"

(* "A bounded number of concurrent workers": no more requests of a backend *)
(* are in flight than its max_workers, through retries and failures.       *)
ConcurrencyBounded == Cardinality(InFlight) <= MaxWorkers

(* Every slot is free or held by one call that is past the semaphore: the  *)
(* backoff of a call holds none and no failure loses one.                  *)
SlotsAccounted == slots + Cardinality(Holders) = MaxWorkers

(* The two queues hold exactly the callers that wait in them, once each:   *)
(* a call that has moved on is not woken again.                            *)
Distinct(q) == \A i, j \in 1 .. Len(q) : q[i] = q[j] => i = j
QueuesExact ==
    /\ \A i \in 1 .. Len(semQueue) : pc[semQueue[i]] = "slot"
    /\ \A i \in 1 .. Len(lockQueue) : pc[lockQueue[i]] = "lock"
    /\ Distinct(semQueue)
    /\ Distinct(lockQueue)

(* One caller sleeps with the lock, and the time until the next start and  *)
(* the time since the last one make up the interval.                       *)
PacingInv ==
    /\ \A c, d \in Sleepers : c = d
    /\ nextIn + since >= MinInterval
    /\ \A c \in Sleepers : wait[c] >= nextIn

(* "A minimum interval between requests (a floor)": whatever the number of *)
(* workers, retries and pauses, two requests of one backend are sent at    *)
(* least min_interval_seconds apart.                                       *)
SpacingKept == [][Starts => since >= MinInterval]_vars

(***************************************************************************)
(* "Until which all workers must pause": of all the calls that are waiting *)
(* when a response sets a pause, one may still send before its end (the    *)
(* caller that sleeps already, with a delay computed before), and none if  *)
(* the limiter has a single slot.                                          *)
(***************************************************************************)
PauseHolds == early <= 1 /\ (MaxWorkers = 1 => early = 0)

(* A call that sleeps with a delay older than the pause is the only early  *)
(* one: with PacingInv, the inductive form of PauseHolds.                  *)
PauseInv ==
    /\ PauseHolds
    /\ early = 1 \/ MaxWorkers = 1 => \A c \in Sleepers : wait[c] >= pauseIn

(* A call makes at most max_retries attempts, and at least one. *)
AttemptsBounded == \A c \in Callers : attempt[c] <= Later(1, MaxRetries)

(* Every call returns or raises, whatever the server answers and however   *)
(* many callers are waiting.                                               *)
CallEnds == \A c \in Callers : pc[c] = "slot" ~> pc[c] = "idle"
=============================================================================
