---------------------------- MODULE RateLimiter ----------------------------
(***************************************************************************)
(* The limiter each publisher's key has, and the calls that queue behind   *)
(* it (internal/connectors/riot/limiter.go and account.go;                 *)
(* internal/connectors/pubg/pubg.go, the same algorithm).                  *)
(*                                                                         *)
(* A goroutine that calls the publisher reserves a slot under the lock,    *)
(* sleeps until it, sends, and on a 429 lays a penalty on the shared       *)
(* cursor and queues again, a bounded number of times.  An action is one   *)
(* critical section, or the end of a sleep or of a request.                *)
(*                                                                         *)
(* The clock runs up to Horizon, and beyond it only for those asleep.      *)
(***************************************************************************)
EXTENDS Integers, Sequences

CONSTANTS
    Callers,        \* goroutines with a call to make
    Free,           \* those whose path countsAgainstQuota leaves unmetered
    Interval,       \* of the limiter
    Penalties,      \* the delays a 429 may ask for, 0 for none
    MaxRetries,
    MaxCalls,       \* bound on calls made
    Horizon         \* bound on the clock while nobody sleeps

ASSUME CallersAssumption == Free \subseteq Callers
ASSUME IntervalAssumption == Interval \in Nat \ {0}
ASSUME PenaltyAssumption == Penalties \subseteq Nat
ASSUME LimiterBounds == MaxRetries \in Nat /\ MaxCalls \in Nat /\ Horizon \in Nat

VARIABLES
    now,
    next,           \* the limiter's cursor
    stage,          \* where each caller is
    slot,           \* the slot it last reserved
    tries,          \* 429s its call has met
    calls,
    reserved,       \* every slot handed out, in order (history)
    until           \* the latest instant a 429 asked to wait for (history)

limiterVars == <<now, next, stage, slot, tries, calls, reserved, until>>

LimiterInit ==
    /\ now = 0 /\ next = 0
    /\ stage = [c \in Callers |-> "idle"]
    /\ slot = [c \in Callers |-> 0]
    /\ tries = [c \in Callers |-> 0]
    /\ calls = 0
    /\ reserved = <<>> /\ until = 0

-----------------------------------------------------------------------------
Later(a, b) == IF a < b THEN b ELSE a

(* mutant of Turn: a cursor left behind is not brought up to the clock *)
CursorOnly == next

(* The first free slot, which is never in the past *)
Turn == Later(next, now)

(* wait, up to the unlock: a slot is reserved before sleeping *)
Reserve(c) ==
    /\ slot' = [slot EXCEPT ![c] = Turn]
    /\ next' = Turn + Interval
    /\ reserved' = Append(reserved, Turn)
    /\ stage' = [stage EXCEPT ![c] = "asleep"]

(* attempt: unmetered paths do not wait *)
Attempt(c) ==
    \/ c \notin Free /\ Reserve(c)
    \/ c \in Free /\ stage' = [stage EXCEPT ![c] = "sent"] /\ UNCHANGED <<slot, next, reserved>>

Call(c) ==
    /\ stage[c] = "idle" /\ calls < MaxCalls
    /\ Attempt(c)
    /\ calls' = calls + 1 /\ tries' = [tries EXCEPT ![c] = 0]
    /\ UNCHANGED <<now, until>>

Retry(c) ==
    /\ stage[c] = "refused"
    /\ Attempt(c)
    /\ UNCHANGED <<now, tries, calls, until>>

(* mutant of Due: the timer fires after its instant only *)
PastDue(c) == slot[c] < now

Due(c) == slot[c] <= now

(* The timer fires, and the request leaves. *)
Send(c) ==
    /\ stage[c] = "asleep" /\ Due(c)
    /\ stage' = [stage EXCEPT ![c] = "sent"]
    /\ UNCHANGED <<now, next, slot, tries, calls, reserved, until>>

(* The caller's context ends while it sleeps: its slot is lost. *)
Cancel(c) ==
    /\ stage[c] = "asleep"
    /\ stage' = [stage EXCEPT ![c] = "idle"]
    /\ UNCHANGED <<now, next, slot, tries, calls, reserved, until>>

(* An answer or an error, other than a 429 *)
Answer(c) ==
    /\ stage[c] = "sent"
    /\ stage' = [stage EXCEPT ![c] = "idle"]
    /\ UNCHANGED <<now, next, slot, tries, calls, reserved, until>>

(* mutant of Penalised: the cursor is set rather than pushed *)
CursorSet(d) == now + d

(* penalise: a penalty of nothing changes nothing *)
Penalised(d) == IF d = 0 THEN next ELSE Later(next, now + d)

GivesUp(c) == tries[c] = MaxRetries

(* A 429: the penalty is everybody's, and get tries again or gives up. *)
Refuse(c, d) ==
    /\ stage[c] = "sent"
    /\ next' = Penalised(d)
    /\ until' = Later(until, now + d)
    /\ stage' = [stage EXCEPT ![c] = IF GivesUp(c) THEN "idle" ELSE "refused"]
    /\ tries' = [tries EXCEPT ![c] = IF GivesUp(c) THEN 0 ELSE @ + 1]
    /\ UNCHANGED <<now, slot, calls, reserved>>

Tick ==
    /\ now < Horizon \/ \E c \in Callers : stage[c] = "asleep" /\ now < slot[c]
    /\ now' = now + 1
    /\ UNCHANGED <<next, stage, slot, tries, calls, reserved, until>>

(* What a caller does once it has begun *)
GoesOn(c) ==
    \/ Retry(c) \/ Send(c) \/ Answer(c)
    \/ \E d \in Penalties : Refuse(c, d)

LimiterNext ==
    \/ Tick
    \/ \E c \in Callers : Call(c) \/ GoesOn(c) \/ Cancel(c)

LimiterSpec == LimiterInit /\ [][LimiterNext]_limiterVars

(* Time passes, timers fire and requests end (the HTTP client has a        *)
(* timeout); nobody has to call.                                           *)
LimiterFairness == WF_limiterVars(Tick) /\ \A c \in Callers : WF_limiterVars(GoesOn(c))

FairLimiterSpec == LimiterSpec /\ LimiterFairness

-----------------------------------------------------------------------------
LimiterTypeOK ==
    /\ now \in Nat /\ next \in Nat /\ until \in Nat
    /\ stage \in [Callers -> {"idle", "asleep", "sent", "refused"}]
    /\ slot \in [Callers -> Nat]
    /\ tries \in [Callers -> 0..MaxRetries]
    /\ calls \in 0..MaxCalls
    /\ reserved \in Seq(Nat)

Intervals(k) == k * Interval

(* n calls never fit in less than n - 1 intervals, whoever makes them and  *)
(* however penalties, retries and cancelled waits interleave: "a bucket    *)
(* lets a burst through" and this limiter does not (limiter.go:17-20).     *)
Paced ==
    \A i, j \in 1..Len(reserved) :
        i < j => reserved[j] - reserved[i] >= Intervals(j - i)

(* No call that takes its turn after a 429 leaves before the penalty is    *)
(* over, also when a shorter penalty follows a longer one.                 *)
PenaltyHeld == [][reserved' # reserved => reserved'[Len(reserved')] >= until]_limiterVars

(* A call ends, however many 429s it meets and however many others queue.  *)
EveryCallEnds == \A c \in Callers : stage[c] # "idle" ~> stage[c] = "idle"

-----------------------------------------------------------------------------
(* What a comment says and the code does not do (see the README).          *)

(* limiter.go:65: "penalise pushes every pending caller back by d": nobody *)
(* who is waiting its turn is due before the penalty is over.              *)
EveryoneSlowed == \A c \in Callers : stage[c] = "asleep" => Due(c) \/ slot[c] >= until
=============================================================================
