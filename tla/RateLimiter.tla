---------------------------- MODULE RateLimiter ----------------------------
(***************************************************************************)
(* What a request passes before its handler: the body size check of        *)
(* main.py, the API key and the rate limit of auth.py.  require_api_key is *)
(* a plain function, so FastAPI runs it on the threads of a pool, and they *)
(* share the one deque that _request_log keeps for the one valid key.      *)
(* Every access of the deque is a step: nothing locks it.                  *)
(***************************************************************************)
EXTENDS Integers, Sequences, FiniteSets

CONSTANTS
    Threads,        \* threads that run the dependency
    MaxRequests,    \* rate_limit_max_requests
    Window,         \* rate_limit_window_seconds
    MaxClock,       \* bound: how far time.monotonic() runs
    MaxCalls        \* bound: requests

ASSUME RateAssumption ==
    /\ IsFiniteSet(Threads)
    /\ MaxRequests \in Nat \ {0}
    /\ Window \in Nat
    /\ MaxClock \in Nat
    /\ MaxCalls \in Nat

VARIABLES
    clock,      \* time.monotonic()
    bucket,     \* _request_log[api_key]
    pc,         \* per thread: its next access, or the answer it has for its request
    now,        \* per thread: when its request was received
    \* history and bounds
    admitted,   \* when the requests that were admitted were received, in order
    overlapped, \* whether two threads were ever inside _check_rate_limit
    calls       \* requests so far

vars == <<clock, bucket, pc, now, admitted, overlapped, calls>>

Times   == 0..MaxClock
Checks  == {"test", "pop", "count", "append"}
Answers == {"admitted", "401", "413", "429", "500"}

TypeOK ==
    /\ clock \in Times
    /\ bucket \in Seq(Times)
    /\ pc \in [Threads -> {"idle"} \cup Checks \cup Answers]
    /\ now \in [Threads -> Times]
    /\ admitted \in Seq(Times)
    /\ overlapped \in BOOLEAN
    /\ calls \in Nat

Checking  == {t \in Threads : pc[t] \in Checks}
Appending == {t \in Threads : pc[t] = "append"}

Goto(t, p) == pc' = [pc EXCEPT ![t] = p]

-----------------------------------------------------------------------------

\* A request is too large, has no valid key, or enters _check_rate_limit.
Receive(t) ==
    /\ pc[t] = "idle" /\ calls < MaxCalls
    /\ calls' = calls + 1
    /\ \/ /\ \E refused \in {"401", "413"} : Goto(t, refused)
          /\ UNCHANGED <<now, overlapped>>
       \/ /\ Goto(t, "test")
          /\ now' = [now EXCEPT ![t] = clock]
          /\ overlapped' = (overlapped \/ Checking # {})
    /\ UNCHANGED <<clock, bucket, admitted>>

\* Mutant: an entry as old as the window is outside it.
MutantStaleInclusive(t) == bucket # <<>> /\ Head(bucket) <= now[t] - Window

\* bucket and bucket[0] < window_start
Stale(t) == bucket # <<>> /\ Head(bucket) < now[t] - Window

Test(t) ==
    /\ pc[t] = "test"
    /\ Goto(t, IF Stale(t) THEN "pop" ELSE "count")
    /\ UNCHANGED <<clock, bucket, now, admitted, overlapped, calls>>

\* Mutant: the entry is looked at, not removed.
MutantPeek(t) ==
    /\ pc[t] = "pop"
    /\ Goto(t, "test")
    /\ UNCHANGED <<clock, bucket, now, admitted, overlapped, calls>>

\* popleft, of whatever is the first entry by now: an IndexError if there is none.
Pop(t) ==
    /\ pc[t] = "pop"
    /\ IF bucket = <<>>
       THEN Goto(t, "500") /\ UNCHANGED bucket
       ELSE Goto(t, "test") /\ bucket' = Tail(bucket)
    /\ UNCHANGED <<clock, now, admitted, overlapped, calls>>

\* Mutant: one request more than the limit.
MutantFull == Len(bucket) > MaxRequests

Full == Len(bucket) >= MaxRequests

Count(t) ==
    /\ pc[t] = "count"
    /\ Goto(t, IF Full THEN "429" ELSE "append")
    /\ UNCHANGED <<clock, bucket, now, admitted, overlapped, calls>>

\* Mutant: the start of the window is remembered, not the request.
MutantEntry(t) == now[t] - Window

Entry(t) == now[t]

Admit(t) ==
    /\ pc[t] = "append"
    /\ bucket' = Append(bucket, Entry(t))
    /\ admitted' = Append(admitted, now[t])
    /\ Goto(t, "admitted")
    /\ UNCHANGED <<clock, now, overlapped, calls>>

\* The answer is sent, and the thread is free.
Respond(t) ==
    /\ pc[t] \in Answers
    /\ Goto(t, "idle")
    /\ now' = [now EXCEPT ![t] = 0]
    /\ UNCHANGED <<clock, bucket, admitted, overlapped, calls>>

Tick ==
    /\ clock < MaxClock
    /\ clock' = clock + 1
    /\ UNCHANGED <<bucket, pc, now, admitted, overlapped, calls>>

-----------------------------------------------------------------------------

Init ==
    /\ clock = 0
    /\ bucket = <<>>
    /\ pc = [t \in Threads |-> "idle"]
    /\ now = [t \in Threads |-> 0]
    /\ admitted = <<>>
    /\ overlapped = FALSE
    /\ calls = 0

Progress(t) == Test(t) \/ Pop(t) \/ Count(t) \/ Admit(t) \/ Respond(t)

Next ==
    \/ \E t \in Threads : Receive(t) \/ Progress(t)
    \/ Tick

Spec == Init /\ [][Next]_vars

\* The pool's threads are scheduled.
FairSpec == Spec /\ \A t \in Threads : WF_vars(Progress(t))
-----------------------------------------------------------------------------
(* Properties.                                                             *)

\* However the threads interleave, the deque holds at most the limit and one
\* entry for each other thread between its count and its append (auth.py:31-36).
OverrunBounded == Len(bucket) <= MaxRequests + Cardinality(Threads) - 1

\* The window that ends at time u holds the last MaxRequests of the first n
\* admissions.
FullAt(n, u) ==
    /\ n \in DOMAIN admitted /\ n >= MaxRequests
    /\ admitted[n] <= u /\ admitted[n + 1 - MaxRequests] >= u - Window

\* While no two checks overlap the limit is exact (test_incidents.py:244):
\* MaxRequests + 1 admissions in a row never fit in one window, a refusal is due
\* to a full window, and popping never fails.
LimitExactWithoutOverlap ==
    ~overlapped =>
        /\ \A n \in DOMAIN admitted :
            n > MaxRequests => admitted[n - MaxRequests] < admitted[n] - Window
        /\ \A t \in Threads : pc[t] = "429" => \E n \in DOMAIN admitted : FullAt(n, now[t])
        /\ \A t \in Threads : pc[t] # "500"

\* Every check ends, whatever other threads append and pop meanwhile.
ChecksEnd == \A t \in Threads : pc[t] = "test" ~> pc[t] \in Answers
=============================================================================
