----------------------------- MODULE TokenBucket -----------------------------
(***************************************************************************)
(* TokenBucket (p2p/token_bucket.py), the rate limiter of the search for    *)
(* peers and of the import log.  The unit of time is the time in which one   *)
(* token is refilled (_seconds_per_token), so the rate is one.  The body of  *)
(* _take_lock does not await: take() is one step up to its sleep.            *)
(***************************************************************************)
EXTENDS Integers

CONSTANTS
  Takers,     \* coroutines that call take()
  Capacity,   \* _capacity
  MaxTake,    \* bound: tokens asked for at once
  MaxDebt,    \* bound: how far the balance goes below zero
  MaxTime     \* bound: length of a behaviour

VARIABLES
  now,      \* time.perf_counter()
  tokens,   \* _num_tokens
  last,     \* _last_refill
  asleep,   \* of each taker: "no" or "yes", in the sleep of take()
  wake,     \* when the sleep is over
  asked,    \* how many tokens each taker asked for
  granted   \* history: tokens of the calls that have returned

vars == <<now, tokens, last, asleep, wake, asked, granted>>

Init ==
  /\ now = 0
  /\ tokens = Capacity
  /\ last = 0
  /\ asleep = [c \in Takers |-> "no"]
  /\ wake = [c \in Takers |-> 0]
  /\ asked = [c \in Takers |-> 0]
  /\ granted = 0

Least(x, y) == IF x < y THEN x ELSE y

\* _get_num_tokens(now)
Balance == Least(Capacity, tokens + (now - last))

\* get_num_tokens(), which can_take() compares
NumTokens == IF Balance > 0 THEN Balance ELSE 0

\* Mutant of _take: the time of the refill is not recorded.
_take_stale(num) ==
  /\ tokens' = Balance - num
  /\ UNCHANGED last

_take(num) ==
  /\ tokens' = Balance - num
  /\ last' = now

take(c, num) ==
  /\ asleep[c] = "no"
  /\ Balance - num >= -MaxDebt
  /\ _take(num)
  /\ IF tokens' < 0
     THEN /\ asleep' = [asleep EXCEPT ![c] = "yes"]
          /\ wake' = [wake EXCEPT ![c] = now - tokens']
          /\ asked' = [asked EXCEPT ![c] = num]
          /\ UNCHANGED granted
     ELSE /\ granted' = granted + num
          /\ UNCHANGED <<asleep, wake, asked>>
  /\ UNCHANGED now

\* The sleep is over, at its time or later
Return(c) ==
  /\ asleep[c] = "yes"
  /\ wake[c] <= now
  /\ asleep' = [asleep EXCEPT ![c] = "no"]
  /\ wake' = [wake EXCEPT ![c] = 0]
  /\ asked' = [asked EXCEPT ![c] = 0]
  /\ granted' = granted + asked[c]
  /\ UNCHANGED <<now, tokens, last>>

\* Mutant of CancelTake: the tokens are given back, the other sleeps stay.
CancelTakeRefund(c) ==
  /\ asleep[c] = "yes"
  /\ asleep' = [asleep EXCEPT ![c] = "no"]
  /\ tokens' = tokens + asked[c]
  /\ UNCHANGED <<now, wake, asked, last, granted>>

\* The caller is cancelled in its sleep: its tokens are spent
CancelTake(c) ==
  /\ asleep[c] = "yes"
  /\ asleep' = [asleep EXCEPT ![c] = "no"]
  /\ wake' = [wake EXCEPT ![c] = 0]
  /\ asked' = [asked EXCEPT ![c] = 0]
  /\ UNCHANGED <<now, tokens, last, granted>>

\* NotEnoughTokens is raised unless the guard holds
take_nowait(num) ==
  /\ NumTokens >= num
  /\ _take(num)
  /\ granted' = granted + num
  /\ UNCHANGED <<now, asleep, wake, asked>>

Tick ==
  /\ now < MaxTime
  /\ now' = now + 1
  /\ UNCHANGED <<tokens, last, asleep, wake, asked, granted>>

Next ==
  \/ \E c \in Takers : (\E n \in 1 .. MaxTake : take(c, n)) \/ Return(c) \/ CancelTake(c)
  \/ \E n \in 1 .. MaxTake : take_nowait(n)
  \/ Tick

-----------------------------------------------------------------------------
\* The limit: however takers queue up, are cancelled or mix take() with
\* take_nowait(), no more is granted than the bucket held and was refilled with.
RateLimit == granted <= Capacity + now

\* While a take() has to wait, the bucket has nothing for a take_nowait() or a
\* can_take() that comes later: no call overtakes one that sleeps.
NoOvertaking == \A c \in Takers : asleep[c] = "yes" /\ wake[c] > now => NumTokens = 0
=============================================================================
