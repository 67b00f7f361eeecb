------------------------------ MODULE Exchange -------------------------------
(***************************************************************************)
(* One request/response pair of a peer connection: BaseExchange and         *)
(* ExchangeManager.get_result() over ResponseCandidateStream (p2p/exchange/).*)
(* Several coroutines ask through the same stream.  A lock keeps them apart: *)
(* only its holder has a request in flight, and a message of the response   *)
(* type goes to the queue of the last request that was sent.                *)
(*                                                                         *)
(* The peer may answer late, twice, wrongly or never.  A payload is modelled *)
(* by the kind of request it would satisfy.                                 *)
(***************************************************************************)
EXTENDS Integers, FiniteSets, Sequences

CONSTANTS
  Callers,      \* coroutines that call get_result()
  Kinds,        \* what is asked for, and what payloads are good for
  MaxMessages,  \* bound: messages in a queue
  None

ASSUME ExchangeAssumption ==
  /\ None \notin Callers
  /\ MaxMessages \in Nat

VARIABLES
  slow,     \* is_normalization_slow: normalisation runs in a thread; never changes
  alive,    \* is_alive: the stream's service runs and handles messages
  lock,     \* _lock: the caller whose generator holds it, or None
  waiters,  \* callers in _lock.acquire(), in FIFO order
  pending,  \* _pending_request: the caller whose queue gets messages, or None
  queue,    \* the queue of each caller's current or last request
  pc,       \* where each caller is in get_result()
  want      \* the kind each caller asks for

vars == <<slow, alive, lock, waiters, pending, queue, pc, want>>

Places == {"idle", "acquire", "send", "wait", "normalize", "close"}

\* The shape of the state; a caller has a place in the queue for the lock as
\* long as it waits for it.
TypeOK ==
  /\ slow \in {"yes", "no"}
  /\ alive \in {"yes", "no"}
  /\ lock \in Callers \cup {None}
  /\ waiters \in Seq(Callers)
  /\ pending \in Callers \cup {None}
  /\ queue \in [Callers -> Seq(Kinds)]
  /\ pc \in [Callers -> Places]
  /\ want \in [Callers -> Kinds]
  /\ \A c \in Callers : pc[c] = "acquire" <=> \E i \in DOMAIN waiters : waiters[i] = c

Init ==
  /\ slow \in {"yes", "no"}
  /\ alive = "yes"
  /\ lock = None
  /\ waiters = <<>>
  /\ pending = None
  /\ queue = [c \in Callers |-> <<>>]
  /\ pc = [c \in Callers |-> "idle"]
  /\ want \in [Callers -> Kinds]

Goto(c, place) == pc' = [pc EXCEPT ![c] = place]

Without(s, c) == SelectSeq(s, LAMBDA x : x # c)

-----------------------------------------------------------------------------
(* get_result() up to the request *)

\* A dead stream raises PeerConnectionLost at once
get_result(c, k) ==
  /\ alive = "yes"
  /\ pc[c] = "idle"
  /\ want' = [want EXCEPT ![c] = k]
  /\ waiters' = Append(waiters, c)
  /\ Goto(c, "acquire")
  /\ UNCHANGED <<slow, alive, lock, pending, queue>>

Acquire(c) ==
  /\ waiters # <<>> /\ Head(waiters) = c
  /\ lock = None
  /\ lock' = c
  /\ waiters' = Tail(waiters)
  /\ Goto(c, "send")
  /\ UNCHANGED <<slow, alive, pending, queue, want>>

\* The lock is not had in time (ConnectionBusy), or the caller is cancelled
GiveUpLock(c) ==
  /\ pc[c] = "acquire"
  /\ waiters' = Without(waiters, c)
  /\ Goto(c, "idle")
  /\ UNCHANGED <<slow, alive, lock, pending, queue, want>>

_request(c) ==
  /\ pc[c] = "send"
  /\ queue' = [queue EXCEPT ![c] = <<>>]
  /\ pending' = c
  /\ Goto(c, "wait")
  /\ UNCHANGED <<slow, alive, lock, waiters, want>>

\* send() raises because the transport is closing
RequestFails(c) ==
  /\ pc[c] = "send"
  /\ lock' = None
  /\ Goto(c, "idle")
  /\ UNCHANGED <<slow, alive, waiters, pending, queue, want>>

-----------------------------------------------------------------------------
(* Candidates *)

_handle_msg(k) ==
  /\ alive = "yes"
  /\ pending # None
  /\ Len(queue[pending]) < MaxMessages
  /\ queue' = [queue EXCEPT ![pending] = Append(@, k)]
  /\ UNCHANGED <<slow, alive, lock, waiters, pending, pc, want>>

Rest(c) == queue' = [queue EXCEPT ![c] = Tail(@)]

\* payload_validator() rejects the candidate, or validate_result() what is
\* made of it at once
Skip(c) ==
  /\ pc[c] = "wait" /\ queue[c] # <<>>
  /\ slow = "no" \/ Head(queue[c]) # want[c]
  /\ Rest(c)
  /\ UNCHANGED <<slow, alive, lock, waiters, pending, pc, want>>

Normalize(c) ==
  /\ slow = "yes"
  /\ pc[c] = "wait" /\ queue[c] # <<>>
  /\ Head(queue[c]) = want[c]
  /\ Rest(c)
  /\ Goto(c, "normalize")
  /\ UNCHANGED <<slow, alive, lock, waiters, pending, want>>

\* validate_result() rejects what the thread returned
RejectResult(c) ==
  /\ pc[c] = "normalize"
  /\ Goto(c, "wait")
  /\ UNCHANGED <<slow, alive, lock, waiters, pending, queue, want>>

Accepts(c) ==
  \/ /\ pc[c] = "normalize"
     /\ UNCHANGED queue
  \/ /\ slow = "no" /\ pc[c] = "wait" /\ queue[c] # <<>>
     /\ Head(queue[c]) = want[c]
     /\ Rest(c)

\* Mutant of complete_request: the lock is released here, and the request is
\* forgotten when the generator is closed.
complete_request_late(c) ==
  /\ Accepts(c)
  /\ lock' = None
  /\ Goto(c, "close")
  /\ UNCHANGED <<slow, alive, waiters, pending, want>>

\* complete_request() and return: the generator is left suspended at its yield
complete_request(c) ==
  /\ Accepts(c)
  /\ pending' = None
  /\ Goto(c, "close")
  /\ UNCHANGED <<slow, alive, lock, waiters, want>>

\* Mutant of CloseGenerator: the lock is kept.
CloseGeneratorKeeps(c) ==
  /\ pc[c] = "close"
  /\ Goto(c, "idle")
  /\ UNCHANGED <<slow, alive, lock, waiters, pending, queue, want>>

\* The event loop closes the abandoned generator: its finally clause runs
CloseGenerator(c) ==
  /\ pc[c] = "close"
  /\ lock' = None
  /\ Goto(c, "idle")
  /\ UNCHANGED <<slow, alive, waiters, pending, queue, want>>

\* Mutant of GiveUpWait: the lock is released only when a request succeeds.
GiveUpWaitLocked(c) ==
  /\ pc[c] = "wait"
  /\ Goto(c, "idle")
  /\ UNCHANGED <<slow, alive, lock, waiters, pending, queue, want>>

\* Time is up while waiting for a message, or the caller is cancelled there
GiveUpWait(c) ==
  /\ pc[c] = "wait"
  /\ lock' = None
  /\ Goto(c, "idle")
  /\ UNCHANGED <<slow, alive, waiters, pending, queue, want>>

\* Cancelled, or an error, during normalisation: the generator is closed by the loop later
CancelNormalize(c) ==
  /\ pc[c] = "normalize"
  /\ Goto(c, "close")
  /\ UNCHANGED <<slow, alive, lock, waiters, pending, queue, want>>

\* The same for an error, other than a ValidationError, that a candidate causes at once
CandidateRaises(c) ==
  /\ pc[c] = "wait" /\ queue[c] # <<>>
  /\ Rest(c)
  /\ Goto(c, "close")
  /\ UNCHANGED <<slow, alive, lock, waiters, pending, want>>

\* The connection ends: run() returns and the command handler is removed
StreamEnds ==
  /\ alive = "yes"
  /\ alive' = "no"
  /\ UNCHANGED <<slow, lock, waiters, pending, queue, pc, want>>

-----------------------------------------------------------------------------
\* What the event loop and the timers do for a call, whoever else runs
Step(c) ==
  \/ Acquire(c) \/ GiveUpLock(c)
  \/ _request(c) \/ RequestFails(c)
  \/ Skip(c) \/ Normalize(c) \/ RejectResult(c) \/ complete_request(c)
  \/ GiveUpWait(c) \/ CancelNormalize(c) \/ CandidateRaises(c) \/ CloseGenerator(c)

Next ==
  \/ \E c \in Callers, k \in Kinds : get_result(c, k)
  \/ \E c \in Callers : Step(c)
  \/ \E k \in Kinds : _handle_msg(k)
  \/ StreamEnds

Spec == Init /\ [][Next]_vars

\* The event loop serves a free lock, a finished thread and an abandoned
\* generator.  The time for an answer runs from the request on, so a caller does
\* not go on waiting for candidates for ever.  The time limit on the lock is not
\* assumed: calls end without it.
Fairness ==
  \A c \in Callers :
    /\ WF_vars(Acquire(c))
    /\ WF_vars(_request(c) \/ RequestFails(c))
    /\ SF_vars(GiveUpWait(c))
    /\ WF_vars(RejectResult(c) \/ complete_request(c) \/ CancelNormalize(c))
    /\ WF_vars(CloseGenerator(c))

FairSpec == Spec /\ Fairness

-----------------------------------------------------------------------------
(* Properties *)

InFlight(c) == pc[c] \in {"wait", "normalize"}

\* "We never have two concurrent requests to a single peer for a single command
\* pair in flight" (candidate_stream.py): a caller that waits for its answer
\* holds the lock, and what the peer sends goes to its queue and no other.
OneInFlight == \A c \in Callers : InFlight(c) => lock = c /\ pending = c

\* The lock is never lost: it is held on behalf of a call that will release it.
LockOwned == lock # None => pc[lock] \notin {"idle", "acquire"}

\* Every call ends, with a result or an error, and leaves the lock to the next
\* one, also if the peer never answers or the connection is lost meanwhile.
CallEnds == \A c \in Callers : pc[c] # "idle" ~> pc[c] = "idle"

\* is_requesting (a request is pending) is true only while a request is active:
\* a caller waits for its answer.
RequestingIsActive == pending # None => InFlight(pending)
=============================================================================
