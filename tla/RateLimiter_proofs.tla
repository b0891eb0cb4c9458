------------------------ MODULE RateLimiter_proofs ------------------------
(***************************************************************************)
(* Proofs about RateLimiter, for any number of threads, any limit and any  *)
(* window.                                                                 *)
(***************************************************************************)
EXTENDS RateLimiter, FiniteSetTheorems, SequenceTheorems, TLAPS

\* Every variable of the limiter keeps its type (auth.py:16-55).
THEOREM TypeCorrect == Spec => []TypeOK
<1>1. Init => TypeOK
  <2> SUFFICES ASSUME Init
               PROVE  TypeOK
    OBVIOUS
  <2>1. 0 \in Times
    BY RateAssumption DEF Times
  <2>2. bucket \in Seq(Times) /\ admitted \in Seq(Times)
    BY DEF Init
  <2>3. pc \in [Threads -> {"idle"} \cup Checks \cup Answers] /\ now \in [Threads -> Times]
    BY <2>1 DEF Init
  <2>4. QED
    BY <2>1, <2>2, <2>3 DEF Init, TypeOK
<1>2. TypeOK /\ [Next]_vars => TypeOK'
  <2> SUFFICES ASSUME TypeOK, [Next]_vars
               PROVE  TypeOK'
    OBVIOUS
  <2> USE DEF TypeOK, Goto
  <2>1. CASE UNCHANGED vars
    BY <2>1 DEF vars
  <2>2. CASE Tick
    BY <2>2, RateAssumption DEF Tick, Times
  <2>3. ASSUME NEW t \in Threads, Receive(t)
        PROVE  TypeOK'
    <3>1. overlapped' \in BOOLEAN
      BY <2>3, Zenon DEF Receive
    <3>2. pc' \in [Threads -> {"idle"} \cup Checks \cup Answers]
      <4>1. PICK p \in {"401", "413", "test"} : pc' = [pc EXCEPT ![t] = p]
        BY <2>3 DEF Receive
      <4>2. QED
        BY <4>1 DEF Checks, Answers
    <3>3. now' \in [Threads -> Times] /\ calls' \in Nat
      <4>1. now' = now \/ now' = [now EXCEPT ![t] = clock]
        BY <2>3 DEF Receive
      <4>2. calls' = calls + 1
        BY <2>3 DEF Receive
      <4>3. QED
        BY <4>1, <4>2
    <3>4. UNCHANGED <<clock, bucket, admitted>>
      BY <2>3 DEF Receive
    <3>5. QED
      BY <3>1, <3>2, <3>3, <3>4
  <2>4. ASSUME NEW t \in Threads, Test(t)
        PROVE  TypeOK'
    BY <2>4 DEF Test, Checks
  <2>5. ASSUME NEW t \in Threads, Pop(t)
        PROVE  TypeOK'
    <3>1. bucket' \in Seq(Times)
      <4>1. bucket' = bucket \/ (bucket # <<>> /\ bucket' = Tail(bucket))
        BY <2>5 DEF Pop
      <4>2. bucket \in Seq(Times)
        BY DEF TypeOK
      <4>3. CASE bucket # <<>> /\ bucket' = Tail(bucket)
        BY <4>2, <4>3, HeadTailProperties, Zenon
      <4>4. QED
        BY <4>1, <4>2, <4>3
    <3>2. QED
      BY <2>5, <3>1 DEF Pop, Checks, Answers
  <2>6. ASSUME NEW t \in Threads, Count(t)
        PROVE  TypeOK'
    BY <2>6 DEF Count, Checks, Answers
  <2>7. ASSUME NEW t \in Threads, Admit(t)
        PROVE  TypeOK'
    <3>1. bucket' \in Seq(Times) /\ admitted' \in Seq(Times)
      BY <2>7 DEF Admit, Entry
    <3>2. QED
      BY <2>7, <3>1 DEF Admit, Answers
  <2>8. ASSUME NEW t \in Threads, Respond(t)
        PROVE  TypeOK'
    <3>1. 0 \in Times
      BY RateAssumption DEF Times
    <3>2. QED
      BY <2>8, <3>1 DEF Respond
  <2>9. QED
    BY <2>1, <2>2, <2>3, <2>4, <2>5, <2>6, <2>7, <2>8 DEF Next, Progress
<1>3. QED
  BY <1>1, <1>2, PTL DEF Spec

-----------------------------------------------------------------------------

\* An append that is still to come counts like an entry already there.
RoomInv == Len(bucket) + Cardinality(Appending) <= MaxRequests + Cardinality(Threads) - 1

\* The threads between count and append are some of the threads.
LEMMA AppendingFinite ==
    ASSUME NEW S \in SUBSET Threads
    PROVE  /\ IsFiniteSet(S) /\ Cardinality(S) \in Nat
           /\ Cardinality(Threads) \in Nat
           /\ Cardinality(S) <= Cardinality(Threads)
BY RateAssumption, FS_Subset, FS_CardinalityType

\* A step after which no other thread is about to append, and the deque is not
\* longer, keeps the room.
LEMMA RoomKept ==
    ASSUME TypeOK, TypeOK', RoomInv, Appending' \subseteq Appending, Len(bucket') <= Len(bucket)
    PROVE  RoomInv'
<1>1. Appending \in SUBSET Threads /\ Appending' \in SUBSET Threads
  BY DEF Appending
<1>2. Cardinality(Appending') <= Cardinality(Appending)
  BY <1>1, AppendingFinite, FS_Subset
<1>3. Len(bucket) \in Nat /\ Len(bucket') \in Nat
  BY DEF TypeOK
<1>4. /\ Cardinality(Appending) \in Nat /\ Cardinality(Appending') \in Nat
      /\ Cardinality(Threads) \in Nat
  BY <1>1, AppendingFinite
<1>5. QED
  BY <1>2, <1>3, <1>4, RateAssumption DEF RoomInv

\* Two threads that both saw room may both append; the deque never outgrows the
\* limit by more than the other threads (auth.py:31-36).
THEOREM OverrunAlwaysBounded == Spec => []OverrunBounded
<1>1. Init => RoomInv
  <2> SUFFICES ASSUME Init
               PROVE  RoomInv
    OBVIOUS
  <2>1. Appending = {} /\ Len(bucket) = 0
    BY DEF Init, Appending
  <2>2. Cardinality(Threads) \in Nat
    BY RateAssumption, FS_CardinalityType
  <2>3. QED
    BY <2>1, <2>2, FS_EmptySet, RateAssumption DEF RoomInv
<1>2. TypeOK /\ TypeOK' /\ RoomInv /\ [Next]_vars => RoomInv'
  <2> SUFFICES ASSUME TypeOK, TypeOK', RoomInv, [Next]_vars
               PROVE  RoomInv'
    OBVIOUS
  <2> USE DEF TypeOK, Goto, Appending
  <2>1. CASE UNCHANGED vars
    BY <2>1, RoomKept DEF vars
  <2>2. CASE Tick
    BY <2>2, RoomKept DEF Tick
  <2>3. ASSUME NEW t \in Threads, Receive(t)
        PROVE  RoomInv'
    BY <2>3, RoomKept DEF Receive
  <2>4. ASSUME NEW t \in Threads, Test(t)
        PROVE  RoomInv'
    BY <2>4, RoomKept DEF Test
  <2>5. ASSUME NEW t \in Threads, Pop(t)
        PROVE  RoomInv'
    <3>1. Len(bucket') <= Len(bucket)
      BY <2>5 DEF Pop
    <3>2. Appending' \subseteq Appending
      BY <2>5 DEF Pop
    <3>3. QED
      BY <3>1, <3>2, RoomKept
  <2>6. ASSUME NEW t \in Threads, Count(t)
        PROVE  RoomInv'
    <3>1. CASE Full
      BY <2>6, <3>1, RoomKept DEF Count
    <3>2. CASE ~Full
      <4>1. Len(bucket') = Len(bucket) /\ Len(bucket) \in Nat /\ Len(bucket) <= MaxRequests - 1
        BY <2>6, <3>2, RateAssumption DEF Count, Full
      <4>2. Appending' \in SUBSET Threads
        OBVIOUS
      <4>3. /\ Cardinality(Appending') \in Nat /\ Cardinality(Threads) \in Nat
            /\ Cardinality(Appending') <= Cardinality(Threads)
        BY ONLY <4>2, AppendingFinite
      <4>4. QED
        BY ONLY <4>1, <4>3, RateAssumption DEF RoomInv
    <3>3. QED
      BY <3>1, <3>2
  <2>7. ASSUME NEW t \in Threads, Admit(t)
        PROVE  RoomInv'
    <3>1. Len(bucket') = Len(bucket) + 1 /\ Len(bucket) \in Nat
      BY <2>7 DEF Admit, Entry
    <3>2. t \in Appending /\ Appending' = Appending \ {t}
      BY <2>7 DEF Admit
    <3>3. Cardinality(Appending') = Cardinality(Appending) - 1
      <4>1. IsFiniteSet(Appending)
        BY AppendingFinite
      <4>2. QED
        BY ONLY <3>2, <4>1, FS_RemoveElement
    <3>4. Cardinality(Appending) \in Nat /\ Cardinality(Threads) \in Nat
      BY AppendingFinite
    <3>5. QED
      BY ONLY <3>1, <3>3, <3>4, RoomInv, RateAssumption DEF RoomInv
  <2>8. ASSUME NEW t \in Threads, Respond(t)
        PROVE  RoomInv'
    BY <2>8, RoomKept DEF Respond, Answers
  <2>9. QED
    BY <2>1, <2>2, <2>3, <2>4, <2>5, <2>6, <2>7, <2>8 DEF Next, Progress
<1>3. TypeOK /\ RoomInv => OverrunBounded
  <2> SUFFICES ASSUME TypeOK, RoomInv
               PROVE  OverrunBounded
    OBVIOUS
  <2>1. Cardinality(Appending) \in Nat /\ Cardinality(Threads) \in Nat
    BY AppendingFinite DEF Appending
  <2>2. Len(bucket) \in Nat
    BY DEF TypeOK
  <2>3. QED
    BY <2>1, <2>2, RateAssumption DEF RoomInv, OverrunBounded
<1>4. QED
  BY <1>1, <1>2, <1>3, TypeCorrect, PTL DEF Spec

-----------------------------------------------------------------------------
(* The limit is exact while no two checks overlap.  The deque is then what  *)
(* is left of the admissions, in order, and everything popped from it is    *)
(* older than the window of whoever checks now or later.                   *)

Popped == Len(admitted) - Len(bucket)

\* The deque is a suffix of the admissions, which are in order.
Suffix ==
    /\ Len(bucket) <= Len(admitted)
    /\ \A i \in DOMAIN bucket : bucket[i] = admitted[Popped + i]
    /\ \A i, j \in DOMAIN admitted : i <= j => admitted[i] <= admitted[j]

\* Everything popped is outside the window that ends at u, nothing is later than u.
PoppedBefore(u) ==
    /\ \A i \in DOMAIN admitted : admitted[i] <= u
    /\ \A i \in DOMAIN admitted : i <= Popped => admitted[i] < u - Window

Checked(t) ==
    /\ now[t] <= clock /\ PoppedBefore(now[t])
    /\ pc[t] = "pop" => Stale(t)
    /\ pc[t] \in {"count", "append"} => ~Stale(t)
    /\ pc[t] = "append" => ~Full

Exact ==
    /\ \A n \in DOMAIN admitted :
        n > MaxRequests => admitted[n - MaxRequests] < admitted[n] - Window
    /\ \A t \in Threads : pc[t] = "429" => \E n \in DOMAIN admitted : FullAt(n, now[t])
    /\ \A t \in Threads : pc[t] # "500"

Sequential ==
    /\ \A s, t \in Checking : s = t
    /\ Suffix /\ PoppedBefore(clock)
    /\ \A t \in Checking : Checked(t)
    /\ Exact

\* A step of thread t that leaves the deque alone.
LEMMA SequentialKept ==
    ASSUME TypeOK, Sequential, NEW t \in Threads, UNCHANGED <<clock, bucket, admitted>>,
           NEW p, pc' = [pc EXCEPT ![t] = p], p # "500",
           \A s \in Threads \ {t} : now'[s] = now[s],
           p \in Checks => (\A s \in Checking : s = t) /\ Checked(t)',
           p = "429" => \E n \in DOMAIN admitted : FullAt(n, now'[t])
    PROVE  Sequential'
<1>1. /\ pc'[t] = p /\ \A s \in Threads \ {t} : pc'[s] = pc[s]
  BY DEF TypeOK
<1>2. Suffix' /\ PoppedBefore(clock)'
  BY DEF Sequential, Suffix, PoppedBefore, Popped
<1>3. \A s \in Threads \ {t} : Checked(s) => Checked(s)'
  BY <1>1 DEF Checked, PoppedBefore, Popped, Stale, Full
<1>4. \A s \in Checking' : s = t \/ s \in Checking
  BY <1>1 DEF Checking
<1>5. \A s \in Checking' : Checked(s)'
  BY <1>1, <1>3, <1>4 DEF Sequential, Checking
<1>6. \A r, s \in Checking' : r = s
  BY <1>1, <1>4 DEF Sequential, Checking
<1>7. Exact'
  <2>1. \A s \in Threads : pc'[s] # "500"
    BY <1>1 DEF Sequential, Exact
  <2>2. ASSUME NEW s \in Threads, pc'[s] = "429"
        PROVE  \E n \in DOMAIN admitted : FullAt(n, now'[s])
    BY <1>1, <2>2 DEF Sequential, Exact
  <2> QED
    BY <2>1, <2>2 DEF Sequential, Exact, FullAt
<1> QED
  BY <1>2, <1>5, <1>6, <1>7 DEF Sequential

LEMMA ReceiveKeeps ==
    ASSUME TypeOK, TypeOK', Sequential, NEW t \in Threads, Receive(t), ~overlapped'
    PROVE  Sequential'
<1>1. CASE \E refused \in {"401", "413"} : Goto(t, refused) /\ UNCHANGED now
  <2>1. PICK p \in {"401", "413"} : pc' = [pc EXCEPT ![t] = p] /\ UNCHANGED now
    BY <1>1 DEF Goto
  <2>2. UNCHANGED <<clock, bucket, admitted>>
    BY DEF Receive
  <2> QED
    BY <2>1, <2>2, SequentialKept DEF Checks
<1>2. CASE Goto(t, "test") /\ now' = [now EXCEPT ![t] = clock] /\ Checking = {}
  <2>1. UNCHANGED <<clock, bucket, admitted>> /\ now'[t] = clock /\ clock \in Nat
        /\ \A s \in Threads \ {t} : now'[s] = now[s]
    BY <1>2, RateAssumption DEF Receive, TypeOK, Times
  <2>2. pc' = [pc EXCEPT ![t] = "test"] /\ pc'[t] = "test"
    BY <1>2 DEF Goto, TypeOK
  <2>3. Checked(t)'
    BY <2>1, <2>2 DEF Checked, Sequential, PoppedBefore, Popped
  <2> QED
    BY <1>2, <2>1, <2>2, <2>3, SequentialKept
<1> QED
  BY <1>1, <1>2 DEF Receive

LEMMA TestKeeps ==
    ASSUME TypeOK, Sequential, NEW t \in Threads, Test(t)
    PROVE  Sequential'
<1>1. /\ pc[t] = "test" /\ UNCHANGED <<clock, bucket, admitted, now>>
      /\ pc' = [pc EXCEPT ![t] = IF Stale(t) THEN "pop" ELSE "count"]
  BY DEF Test, Goto
<1>2. t \in Checking /\ Checked(t) /\ \A s \in Checking : s = t
  BY <1>1 DEF Checking, Checks, Sequential
<1> DEFINE p == IF Stale(t) THEN "pop" ELSE "count"
<1>3. pc'[t] = p
  BY <1>1 DEF TypeOK
<1>4. Checked(t)'
  BY <1>1, <1>2, <1>3 DEF Checked, PoppedBefore, Popped, Stale
<1>5. p \in {"pop", "count"} /\ pc' = [pc EXCEPT ![t] = p]
  BY <1>1
<1> HIDE DEF p
<1> QED
  BY <1>1, <1>2, <1>4, <1>5, SequentialKept

LEMMA CountKeeps ==
    ASSUME TypeOK, Sequential, NEW t \in Threads, Count(t)
    PROVE  Sequential'
<1>1. /\ pc[t] = "count" /\ UNCHANGED <<clock, bucket, admitted, now>>
      /\ pc' = [pc EXCEPT ![t] = IF Full THEN "429" ELSE "append"]
  BY DEF Count, Goto
<1>2. t \in Checking /\ Checked(t) /\ \A s \in Checking : s = t
  BY <1>1 DEF Checking, Checks, Sequential
<1>3. CASE ~Full
  <2>1. pc'[t] = "append" /\ pc' = [pc EXCEPT ![t] = "append"]
    BY <1>1, <1>3 DEF TypeOK
  <2>2. Checked(t)'
    BY <1>1, <1>2, <1>3, <2>1 DEF Checked, PoppedBefore, Popped, Stale, Full
  <2> QED
    BY <1>1, <1>2, <2>1, <2>2, SequentialKept
<1>4. CASE Full
  <2> DEFINE n == Len(admitted)
             m == n + 1 - MaxRequests
  <2>1. /\ n \in Nat /\ Len(bucket) \in Nat /\ DOMAIN admitted = 1..n
        /\ DOMAIN bucket = 1..Len(bucket) /\ MaxRequests \in Nat \ {0} /\ Window \in Nat
        /\ now[t] \in Int /\ \A i \in DOMAIN admitted : admitted[i] \in Int
        /\ \A i \in DOMAIN bucket : bucket[i] \in Int
    BY RateAssumption DEF TypeOK, Times
  <2>2. Len(bucket) >= MaxRequests /\ Len(bucket) <= n
    BY <1>4 DEF Full, Sequential, Suffix
  <2>3. m \in DOMAIN admitted /\ n \in DOMAIN admitted /\ Popped + 1 \in DOMAIN admitted
        /\ Popped + 1 <= m /\ Popped \in Int
    BY <2>1, <2>2 DEF Popped
  <2>4. bucket[1] = admitted[Popped + 1] /\ ~(bucket[1] < now[t] - Window)
    <3>1. bucket # <<>> /\ Head(bucket) = bucket[1] /\ 1 \in DOMAIN bucket
      BY <2>1, <2>2
    <3> QED
      BY <1>1, <1>2, <3>1 DEF Checked, Stale, Sequential, Suffix
  <2>5. admitted[Popped + 1] <= admitted[m] /\ admitted[n] <= now[t]
    <3> HIDE DEF n, m
    <3> QED
      BY <1>2, <2>3 DEF Sequential, Suffix, Checked, PoppedBefore
  <2>6. admitted[m] >= now[t] - Window
    <3>1. admitted[m] \in Int /\ admitted[Popped + 1] \in Int
      <4> HIDE DEF n, m
      <4> QED
        BY <2>1, <2>3
    <3> HIDE DEF n, m
    <3> QED
      BY <2>1, <2>4, <2>5, <3>1
  <2>7. FullAt(n, now'[t])
    BY <1>1, <2>1, <2>2, <2>3, <2>5, <2>6 DEF FullAt
  <2>8. pc' = [pc EXCEPT ![t] = "429"]
    BY <1>1, <1>4
  <2> QED
    BY <1>1, <2>3, <2>7, <2>8, SequentialKept DEF Checks
<1> QED
  BY <1>3, <1>4

LEMMA RespondKeeps ==
    ASSUME TypeOK, Sequential, NEW t \in Threads, Respond(t)
    PROVE  Sequential'
<1>1. /\ pc' = [pc EXCEPT ![t] = "idle"] /\ UNCHANGED <<clock, bucket, admitted>>
      /\ \A s \in Threads \ {t} : now'[s] = now[s]
  BY DEF Respond, Goto, TypeOK
<1> QED
  BY <1>1, SequentialKept DEF Checks

LEMMA PopKeeps ==
    ASSUME TypeOK, TypeOK', Sequential, NEW t \in Threads, Pop(t)
    PROVE  Sequential'
<1>1. pc[t] = "pop" /\ UNCHANGED <<clock, admitted, now>>
  BY DEF Pop
<1>2. t \in Checking /\ Checked(t) /\ \A s \in Checking : s = t
  BY <1>1 DEF Checking, Checks, Sequential
<1>3. bucket # <<>> /\ Head(bucket) < now[t] - Window
  BY <1>1, <1>2 DEF Checked, Stale
<1>4. /\ bucket' = Tail(bucket) /\ pc' = [pc EXCEPT ![t] = "test"]
      /\ pc'[t] = "test" /\ \A s \in Threads \ {t} : pc'[s] = pc[s]
  BY <1>3 DEF Pop, Goto, TypeOK
<1>5. /\ Len(admitted) \in Nat /\ DOMAIN admitted = 1..Len(admitted)
      /\ Len(bucket) \in Nat /\ Len(bucket) > 0 /\ DOMAIN bucket = 1..Len(bucket)
      /\ \A i \in DOMAIN admitted : admitted[i] \in Int
      /\ clock \in Int /\ now[t] \in Int /\ Window \in Nat
  <2>1. bucket \in Seq(Times) /\ admitted \in Seq(Times) /\ now[t] \in Times /\ clock \in Times
    BY DEF TypeOK
  <2>2. Len(admitted) \in Nat /\ DOMAIN admitted = 1..Len(admitted)
    BY <2>1
  <2>3. Len(bucket) \in Nat /\ Len(bucket) > 0 /\ DOMAIN bucket = 1..Len(bucket)
    BY <1>3, <2>1
  <2>4. \A i \in DOMAIN admitted : admitted[i] \in Times
    BY <2>1
  <2>5. Times \subseteq Int /\ Window \in Nat
    BY RateAssumption DEF Times
  <2> QED
    BY <2>1, <2>2, <2>3, <2>4, <2>5
<1>6. /\ Len(bucket') = Len(bucket) - 1 /\ DOMAIN bucket' = 1..(Len(bucket) - 1)
      /\ \A i \in DOMAIN bucket' : bucket'[i] = bucket[i + 1]
      /\ bucket[1] = Head(bucket)
  BY <1>3, <1>4, <1>5 DEF TypeOK
<1>7. Popped' = Popped + 1 /\ Popped \in Nat /\ Len(bucket) <= Len(admitted)
  BY <1>1, <1>5, <1>6 DEF Popped, Sequential, Suffix
<1>8. Suffix'
  <2>1. ASSUME NEW i \in DOMAIN bucket'
        PROVE  bucket'[i] = admitted[Popped' + i]
    <3>1. i + 1 \in DOMAIN bucket /\ Popped + (i + 1) = Popped' + i
      <4>1. i \in 1..(Len(bucket) - 1)
        BY <1>6
      <4>2. i \in Nat /\ i + 1 \in 1..Len(bucket)
        BY <1>5, <4>1
      <4> QED
        BY <1>5, <1>7, <4>2
    <3> QED
      BY <1>6, <3>1 DEF Sequential, Suffix
  <2> QED
    BY <1>1, <1>5, <1>6, <1>7, <2>1 DEF Sequential, Suffix
<1>9. \A i \in DOMAIN admitted : i <= Popped' => i <= Popped \/ admitted[i] < now[t] - Window
  <2>1. 1 \in DOMAIN bucket
    BY <1>5
  <2>2. admitted[Popped + 1] < now[t] - Window
    BY <1>3, <1>6, <2>1 DEF Sequential, Suffix
  <2> QED
    BY <1>5, <1>7, <2>2
<1>10. PoppedBefore(now[t])' /\ PoppedBefore(clock)'
  <2>1. \A i \in DOMAIN admitted : i <= Popped' => admitted[i] < now[t] - Window
    BY <1>2, <1>9 DEF Checked, PoppedBefore
  <2>2. now[t] <= clock
    BY <1>2 DEF Checked
  <2>3. \A i \in DOMAIN admitted : i <= Popped' => admitted[i] < clock - Window
    BY <1>5, <2>1, <2>2
  <2> QED
    BY <1>1, <1>2, <2>1, <2>3 DEF Checked, Sequential, PoppedBefore
<1>11. \A s \in Checking' : s = t
  BY <1>2, <1>4 DEF Checking
<1>12. Checked(t)'
  BY <1>1, <1>2, <1>4, <1>10 DEF Checked
<1>13. Exact'
  BY <1>1, <1>4 DEF Sequential, Exact, FullAt
<1> QED
  BY <1>8, <1>10, <1>11, <1>12, <1>13 DEF Sequential

LEMMA AdmitKeeps ==
    ASSUME TypeOK, TypeOK', Sequential, NEW t \in Threads, Admit(t)
    PROVE  Sequential'
<1> DEFINE n == Len(admitted)
<1>1. /\ pc[t] = "append" /\ UNCHANGED <<clock, now>>
      /\ bucket' = Append(bucket, now[t]) /\ admitted' = Append(admitted, now[t])
      /\ pc'[t] = "admitted" /\ \A s \in Threads \ {t} : pc'[s] = pc[s]
  BY DEF Admit, Entry, Goto, TypeOK
<1>2. t \in Checking /\ Checked(t) /\ \A s \in Checking : s = t
  BY <1>1 DEF Checking, Checks, Sequential
<1>3. /\ n \in Nat /\ DOMAIN admitted = 1..n /\ Len(bucket) \in Nat
      /\ DOMAIN bucket = 1..Len(bucket)
      /\ \A i \in DOMAIN admitted : admitted[i] \in Int
      /\ clock \in Int /\ now[t] \in Int /\ Window \in Nat /\ MaxRequests \in Nat \ {0}
  BY RateAssumption DEF TypeOK, Times
<1>4. /\ Len(bucket') = Len(bucket) + 1 /\ DOMAIN bucket' = 1..(Len(bucket) + 1)
      /\ \A i \in DOMAIN bucket : bucket'[i] = bucket[i]
      /\ bucket'[Len(bucket) + 1] = now[t]
      /\ Len(admitted') = n + 1 /\ DOMAIN admitted' = 1..(n + 1)
      /\ \A i \in DOMAIN admitted : admitted'[i] = admitted[i]
      /\ admitted'[n + 1] = now[t]
  <2>1. bucket \in Seq(Times) /\ admitted \in Seq(Times) /\ now[t] \in Times
    BY DEF TypeOK
  <2> QED
    BY <1>1, <1>3, <2>1
<1>5. Len(bucket) <= n /\ Len(bucket) < MaxRequests
  BY <1>1, <1>2, <1>3 DEF Sequential, Suffix, Checked, Full
<1>6. Popped' = Popped /\ Popped \in Nat /\ Popped <= n /\ Popped + Len(bucket) = n
  BY <1>3, <1>4, <1>5 DEF Popped
<1>7. \A i \in DOMAIN admitted : admitted[i] <= now[t]
  BY <1>2 DEF Checked, PoppedBefore
<1> HIDE DEF n
<1>8. Suffix'
  <2>1. Len(bucket') <= Len(admitted')
    BY <1>3, <1>4, <1>5
  <2>2. ASSUME NEW i \in DOMAIN bucket'
        PROVE  bucket'[i] = admitted'[Popped' + i]
    <3>1. CASE i \in DOMAIN bucket
      <4>1. Popped + i \in DOMAIN admitted
        BY <1>3, <1>6, <3>1
      <4> QED
        BY <1>4, <1>6, <3>1, <4>1 DEF Sequential, Suffix
    <3>2. CASE i \notin DOMAIN bucket
      <4>1. i = Len(bucket) + 1 /\ Popped + i = n + 1
        <5> DEFINE l == Len(bucket)
        <5>1. i \in 1..(l + 1) /\ i \notin 1..l
          BY <1>3, <1>4, <3>2
        <5>2. l \in Nat /\ Popped \in Nat /\ Popped + l = n
          BY <1>3, <1>6
        <5> HIDE DEF l
        <5>3. i = l + 1 /\ Popped + i = n + 1
          BY ONLY <5>1, <5>2
        <5> QED
          BY <5>3 DEF l
      <4>2. bucket'[i] = now[t]
        BY <1>4, <4>1
      <4>3. admitted'[Popped' + i] = now[t]
        BY <1>4, <1>6, <4>1
      <4> QED
        BY <4>2, <4>3
    <3> QED
      BY <3>1, <3>2
  <2>3. ASSUME NEW i \in DOMAIN admitted', NEW j \in DOMAIN admitted', i <= j
        PROVE  admitted'[i] <= admitted'[j]
    <3>1. CASE j \in DOMAIN admitted
      <4>1. i \in DOMAIN admitted
        BY <1>3, <1>4, <2>3, <3>1
      <4> QED
        BY <1>4, <2>3, <3>1, <4>1 DEF Sequential, Suffix
    <3>2. CASE j \notin DOMAIN admitted
      <4>1. admitted'[j] = now[t] /\ (i \in DOMAIN admitted \/ i = n + 1)
        BY <1>3, <1>4, <3>2
      <4> QED
        BY <1>3, <1>4, <1>7, <4>1
    <3> QED
      BY <3>1, <3>2
  <2> QED
    BY <2>1, <2>2, <2>3 DEF Suffix
<1>9. PoppedBefore(clock)'
  <2>1. now[t] <= clock
    BY <1>2 DEF Checked
  <2>2. ASSUME NEW i \in DOMAIN admitted'
        PROVE  /\ admitted'[i] <= clock
               /\ i <= Popped => admitted'[i] < clock - Window
    <3>1. CASE i \in DOMAIN admitted
      BY <1>4, <3>1 DEF Sequential, PoppedBefore
    <3>2. CASE i \notin DOMAIN admitted
      BY <1>3, <1>4, <1>6, <2>1, <3>2
    <3> QED
      BY <3>1, <3>2
  <2> QED
    BY <1>1, <1>6, <2>2 DEF PoppedBefore
<1>10. \A s \in Checking' : FALSE
  BY <1>1, <1>2 DEF Checking, Checks
<1>11. Exact'
  <2>1. ASSUME NEW i \in DOMAIN admitted', i > MaxRequests
        PROVE  admitted'[i - MaxRequests] < admitted'[i] - Window
    <3>1. i - MaxRequests \in DOMAIN admitted
      BY <1>3, <1>4, <2>1
    <3>2. CASE i \in DOMAIN admitted
      BY <1>4, <2>1, <3>1, <3>2 DEF Sequential, Exact
    <3>3. CASE i \notin DOMAIN admitted
      <4>1. admitted'[i] = now[t] /\ i - MaxRequests <= Popped
        BY <1>3, <1>4, <1>5, <1>6, <3>3
      <4> QED
        BY <1>2, <1>4, <3>1, <4>1 DEF Checked, PoppedBefore
    <3> QED
      BY <3>2, <3>3
  <2>2. ASSUME NEW s \in Threads, pc'[s] = "429"
        PROVE  \E i \in DOMAIN admitted' : FullAt(i, now[s])'
    <3>1. pc[s] = "429"
      BY <1>1, <2>2
    <3>2. PICK i \in DOMAIN admitted : FullAt(i, now[s])
      BY <3>1 DEF Sequential, Exact
    <3>3. i + 1 - MaxRequests \in DOMAIN admitted /\ i \in DOMAIN admitted'
      BY <1>3, <1>4, <3>2 DEF FullAt
    <3> QED
      BY <1>1, <1>4, <3>2, <3>3 DEF FullAt
  <2>3. \A s \in Threads : pc'[s] # "500"
    BY <1>1 DEF Sequential, Exact
  <2> QED
    BY <1>1, <2>1, <2>2, <2>3 DEF Exact
<1> QED
  BY <1>8, <1>9, <1>10, <1>11 DEF Sequential

LEMMA TickKeeps ==
    ASSUME TypeOK, TypeOK', Sequential, Tick
    PROVE  Sequential'
<1>1. /\ UNCHANGED <<bucket, pc, now, admitted>> /\ clock' = clock + 1
      /\ clock \in Int /\ Window \in Nat /\ \A i \in DOMAIN admitted : admitted[i] \in Int
      /\ \A t \in Threads : now[t] \in Int
  BY RateAssumption DEF Tick, TypeOK, Times
<1>2. Suffix' /\ Exact' /\ Checking' = Checking
  BY <1>1 DEF Sequential, Suffix, Exact, FullAt, Popped, Checking
<1>3. PoppedBefore(clock)'
  BY <1>1 DEF Sequential, PoppedBefore, Popped
<1>4. \A t \in Checking : Checked(t)'
  BY <1>1 DEF Sequential, Checked, Checking, PoppedBefore, Popped, Stale, Full
<1> QED
  BY <1>2, <1>3, <1>4 DEF Sequential

ExactInv == ~overlapped => Sequential

\* Sequential checks never let more than the limit into one window, refuse only
\* when the window is full, and never pop an empty deque (auth.py:25-36).
THEOREM SequentialChecksAreExact == Spec => []LimitExactWithoutOverlap
<1>1. Init => ExactInv
  BY DEF Init, ExactInv, Sequential, Suffix, PoppedBefore, Popped, Checking, Checks, Exact
<1>2. TypeOK /\ TypeOK' /\ ExactInv /\ [Next]_vars => ExactInv'
  <2> SUFFICES ASSUME TypeOK, TypeOK', ExactInv, [Next]_vars, ~overlapped'
               PROVE  Sequential'
    BY DEF ExactInv
  <2>1. ~overlapped
    <3>1. ASSUME NEW t \in Threads, Receive(t)
          PROVE  ~overlapped
      BY <3>1 DEF Receive
    <3> QED
      BY <3>1 DEF Next, vars, Progress, Test, Pop, Count, Admit, Respond, Tick
  <2>2. Sequential
    BY <2>1 DEF ExactInv
  <2>3. CASE UNCHANGED vars
    BY <2>2, <2>3 DEF vars, Sequential, Suffix, PoppedBefore, Popped, Checking, Checked, Stale,
                      Full, Exact, FullAt
  <2> QED
    BY <2>2, <2>3, ReceiveKeeps, TestKeeps, PopKeeps, CountKeeps, AdmitKeeps, RespondKeeps,
       TickKeeps DEF Next, Progress
<1>3. ExactInv => LimitExactWithoutOverlap
  BY DEF ExactInv, Sequential, Exact, LimitExactWithoutOverlap
<1>4. QED
  BY <1>1, <1>2, <1>3, TypeCorrect, PTL DEF Spec
=============================================================================
