--------------------------- MODULE LimiterProofs ----------------------------
(***************************************************************************)
(* Proofs about Limiter, for any requests, organizations, instances and    *)
(* limits, and any minute and lifetime of a counter that satisfy           *)
(* LimiterAssumption.                                                      *)
(***************************************************************************)
EXTENDS Limiter, FiniteSetTheorems, WellFoundedInduction, TLAPS

\* What has been counted, or may have been.
Done == {"admitted", "limited", "failed"}
Of(o, m, phases) == OfMinute(Asked(o, phases), m)

\* The admissions of an organization by an instance since x, and the entries of a
\* queue since x.
Since(i, o, x) ==
    {r \in Requests : /\ request[r].org = o /\ request[r].phase = "admitted"
                      /\ request[r].instance = i /\ request[r].asked >= x}
Recent(q, x) == {j \in 1 .. Len(q) : q[j] >= x}

\* What a request has been asked of, and when; what is never reached without Redis
\* or without a limit.
Placed ==
    \A r \in Requests :
       /\ request[r].phase # "new" => /\ request[r].org \in Orgs
                                      /\ request[r].instance \in Instances
       /\ request[r].asked <= clock
       /\ request[r].phase \in {"counting", "failed"} => enabled /\ limit > 0
       /\ request[r].phase = "limited" => limit > 0

\* A counter has counted everybody it let in, and nobody who was not there; and it
\* outlives whoever may still be counted.
Counted ==
    enabled /\ limit > 0 =>
       \A o \in Orgs, m \in Minutes :
          /\ Cardinality(Of(o, m, {"admitted"})) <= limit
          /\ Cardinality(Of(o, m, {"admitted"})) <= counter[o][m].count
          /\ counter[o][m].count <= Cardinality(Of(o, m, Done))
Lives ==
    enabled /\ limit > 0 =>
       \A r \in Requests :
          request[r].phase = "admitted" =>
             counter[request[r].org][Minute(request[r].asked)].expires
                >= request[r].asked + Expiry

\* A queue holds, in order, every admission that is not longer ago than a window.
Queued ==
    ~enabled /\ limit > 0 =>
       \A i \in Instances, o \in Orgs :
          /\ \A j \in 1 .. Len(local[i][o]) : local[i][o][j] <= clock
          /\ \A j, k \in 1 .. Len(local[i][o]) : j <= k => local[i][o][j] <= local[i][o][k]
          /\ \A x \in Int : x >= clock - Window =>
                Cardinality(Since(i, o, x)) = Cardinality(Recent(local[i][o], x))

IInv ==
    /\ LimiterTypeOK /\ Placed /\ Counted /\ Lives /\ Queued
    /\ WithinTheLimit /\ LimitedForCause

-----------------------------------------------------------------------------
(***************************************************************************)
(* Arithmetic of the clock's minutes.  (int(time.time() // 60))            *)
(***************************************************************************)
LEMMA MinuteBounds ==
    ASSUME NEW a \in Nat
    PROVE  /\ Minute(a) \in Nat
           /\ Window * Minute(a) <= a /\ a < Window * Minute(a) + Window
  BY LimiterAssumption DEF Minute

LEMMA NextMultiple ==
    ASSUME NEW x \in Nat, NEW y \in Nat, x > y
    PROVE  Window * x >= Window * y + Window
  BY LimiterAssumption

\* Later is not an earlier minute.
LEMMA MinuteMonotonic ==
    ASSUME NEW a \in Nat, NEW b \in Nat, a <= b
    PROVE  Minute(a) <= Minute(b)
<1>1. SUFFICES ASSUME Minute(a) > Minute(b) PROVE FALSE
  BY MinuteBounds
<1>2. Window * Minute(a) >= Window * Minute(b) + Window
  BY <1>1, NextMultiple, MinuteBounds
<1>. DEFINE wa == Window * Minute(a)
            wb == Window * Minute(b)
<1>3. wa \in Int /\ wb \in Int /\ Window \in Nat
  BY MinuteBounds, LimiterAssumption
<1>4. wa <= a /\ b < wb + Window
  BY MinuteBounds
<1> QED BY <1>2, <1>3, <1>4

\* Times of one minute are less than a window apart.
LEMMA SameMinute ==
    ASSUME NEW a \in Nat, NEW b \in Nat, Minute(a) = Minute(b)
    PROVE  b < a + Window
<1>. DEFINE wa == Window * Minute(a)
<1>1. wa \in Int /\ Window \in Nat
  BY MinuteBounds, LimiterAssumption
<1>2. wa <= a /\ b < wa + Window
  BY MinuteBounds
<1> QED BY <1>1, <1>2

LEMMA MinuteInRange ==
    ASSUME NEW a \in 0 .. MaxClock
    PROVE  Minute(a) \in Minutes
  BY MinuteMonotonic, MinuteBounds, LimiterAssumption DEF Minutes

(***************************************************************************)
(* Popping stops, at the first entry that is not stale.                    *)
(***************************************************************************)
LEMMA LeastNumber ==
    ASSUME NEW T \in SUBSET Nat, T # {}
    PROVE  \E k \in T : \A j \in T : k <= j
<1>1. IsWellFoundedOn(OpToRel(<, Nat), Nat)
  BY NatLessThanWellFounded
<1>2. PICK k \in T : \A j \in T : ~(<<j, k>> \in OpToRel(<, Nat))
  BY <1>1, WFMin
<1>3. \A j \in T : ~(j < k)
  BY <1>2 DEF OpToRel
<1> QED BY <1>3

LEMMA StaleStops ==
    ASSUME NEW q \in Seq(Nat), clock \in Nat
    PROVE  /\ Stale(q) \in 0 .. Len(q)
           /\ \A j \in 1 .. Stale(q) : clock - q[j] > Window
           /\ Stale(q) < Len(q) => clock - q[Stale(q) + 1] <= Window
<1>. DEFINE T == {k \in 0 .. Len(q) : k < Len(q) => clock - q[k + 1] <= Window}
<1>1. Len(q) \in T /\ T \in SUBSET Nat
  OBVIOUS
<1>2. PICK k \in T : \A j \in T : k <= j
  BY <1>1, LeastNumber
<1>3. ASSUME NEW j \in 1 .. k PROVE clock - q[j] > Window
  <2>1. j - 1 \notin T
    <3>1. k \in Nat /\ j \in Int /\ j <= k
      BY <1>1, <1>2
    <3>2. ~(k <= j - 1)
      BY <3>1
    <3> QED BY <1>2, <3>2
  <2>2. j - 1 \in 0 .. Len(q) /\ (j - 1) + 1 = j
    OBVIOUS
  <2>3. ~(clock - q[j] <= Window)
    BY <2>1, <2>2
  <2> QED BY <2>3, LimiterAssumption
<1>4. \E n \in 0 .. Len(q) : /\ \A j \in 1 .. n : clock - q[j] > Window
                             /\ n < Len(q) => clock - q[n + 1] <= Window
  BY <1>2, <1>3
<1> QED BY <1>4 DEF Stale

(***************************************************************************)
(* What is popped is no admission of the last window, and what is left is  *)
(* nothing else.                                                           *)
(***************************************************************************)
LEMMA PoppedQueue ==
    ASSUME NEW q \in Seq(Nat), clock \in Nat,
           \A j \in 1 .. Len(q) : q[j] <= clock,
           \A j, k \in 1 .. Len(q) : j <= k => q[j] <= q[k]
    PROVE  /\ Popped(q) \in Seq(Nat)
           /\ \A j \in 1 .. Len(Popped(q)) : Popped(q)[j] <= clock
           /\ \A j, k \in 1 .. Len(Popped(q)) : j <= k => Popped(q)[j] <= Popped(q)[k]
           /\ \A j \in 1 .. Len(Popped(q)) : Popped(q)[j] >= clock - Window
           /\ \A x \in Int : x >= clock - Window =>
                 Cardinality(Recent(Popped(q), x)) = Cardinality(Recent(q, x))
<1>. DEFINE s == Stale(q)
            p == Popped(q)
<1>1. /\ s \in 0 .. Len(q)
      /\ \A j \in 1 .. s : clock - q[j] > Window
      /\ s < Len(q) => clock - q[s + 1] <= Window
  BY StaleStops
<1>. HIDE DEF s
<1>2. p = SubSeq(q, s + 1, Len(q))
  BY DEF Popped, s
<1>3. /\ p \in Seq(Nat) /\ Len(p) = Len(q) - s
      /\ \A j \in 1 .. Len(p) : p[j] = q[s + j]
  BY <1>1, <1>2
<1>. HIDE DEF p
<1>4. \A j \in 1 .. Len(p) : s + j \in 1 .. Len(q)
  BY <1>1, <1>3
<1>5. \A j \in 1 .. Len(p) : p[j] <= clock
  BY <1>3, <1>4
<1>6. ASSUME NEW j \in 1 .. Len(p), NEW k \in 1 .. Len(p), j <= k PROVE p[j] <= p[k]
  <2>1. s + j \in 1 .. Len(q) /\ s + k \in 1 .. Len(q) /\ s + j <= s + k
    BY <1>1, <1>3, <1>6
  <2> QED BY <1>3, <2>1
<1>7. ASSUME NEW j \in 1 .. Len(p) PROVE p[j] >= clock - Window
  <2>1. s < Len(q) /\ s + 1 \in 1 .. Len(q) /\ s + j \in 1 .. Len(q) /\ s + 1 <= s + j
    BY <1>1, <1>3
  <2>2. q[s + 1] <= q[s + j] /\ clock - q[s + 1] <= Window
    BY <1>1, <2>1
  <2>3. q[s + 1] \in Nat /\ q[s + j] \in Nat
    BY <2>1
  <2> QED BY <1>3, <2>2, <2>3, LimiterAssumption
<1>8. ASSUME NEW x \in Int, x >= clock - Window
      PROVE  Cardinality(Recent(p, x)) = Cardinality(Recent(q, x))
  <2>. DEFINE f == [j \in Recent(p, x) |-> s + j]
  <2>1. \A j \in Recent(p, x) : f[j] \in Recent(q, x)
    BY <1>3, <1>4 DEF Recent
  <2>2. \A j, k \in Recent(p, x) : f[j] = f[k] => j = k
    BY <1>1 DEF Recent
  <2>3. ASSUME NEW n \in Recent(q, x) PROVE \E j \in Recent(p, x) : f[j] = n
    <3>1. n \in 1 .. Len(q) /\ q[n] \in Nat /\ q[n] >= x
      BY DEF Recent
    <3>2. ~(n <= s)
      BY <1>1, <1>8, <3>1, LimiterAssumption
    <3>3. n - s \in 1 .. Len(p) /\ s + (n - s) = n
      BY <1>1, <1>3, <3>1, <3>2
    <3>4. n - s \in Recent(p, x)
      BY <1>3, <3>1, <3>3 DEF Recent
    <3> QED BY <3>3, <3>4
  <2>4. f \in Bijection(Recent(p, x), Recent(q, x))
    BY <2>1, <2>2, <2>3 DEF Bijection, Injection, Surjection, IsInjective
  <2>5. ExistsBijection(Recent(p, x), Recent(q, x))
    BY <2>4 DEF ExistsBijection
  <2>6. IsFiniteSet(Recent(p, x))
    <3>1. IsFiniteSet(1 .. Len(p)) /\ Recent(p, x) \in SUBSET (1 .. Len(p))
      BY <1>3, FS_Interval DEF Recent
    <3> QED BY <3>1, FS_Subset
  <2> QED BY <2>5, <2>6, FS_Bijection
<1> QED BY <1>3, <1>5, <1>6, <1>7, <1>8 DEF p

-----------------------------------------------------------------------------
(***************************************************************************)
(* A request that has been answered or has failed stays as it is, so what  *)
(* justified turning one away still does.                                  *)
(***************************************************************************)
Kept == \A s \in Requests : request[s].phase \in Done => request'[s] = request[s]
Cause(r) ==
    /\ limit > 0
    /\ IF enabled
       THEN Cardinality(Of(request[r].org, Minute(request[r].asked), Done) \ {r}) >= limit
       ELSE Cardinality(Between(Asked(request[r].org, {"admitted"}), request[r].instance,
                                request[r].asked - Window, request[r].asked)) >= limit

LEMMA CauseIsStated ==
    LimitedForCause <=> \A r \in Requests : request[r].phase = "limited" => Cause(r)
  BY DEF LimitedForCause, Cause, Of, Done

LEMMA SomeRequestsAreFinite ==
    ASSUME NEW some \in SUBSET Requests
    PROVE  IsFiniteSet(some) /\ Cardinality(some) \in Nat
  BY FS_Subset, FS_CardinalityType, LimiterAssumption

LEMMA MoreRequests ==
    ASSUME NEW more \in SUBSET Requests, NEW some \in SUBSET more
    PROVE  Cardinality(some) <= Cardinality(more)
<1>1. IsFiniteSet(more)
  BY SomeRequestsAreFinite
<1> QED BY <1>1, FS_Subset

LEMMA CauseKept ==
    ASSUME LimiterTypeOK, Kept, UNCHANGED <<enabled, limit>>,
           NEW s \in Requests, request[s].phase = "limited", Cause(s)
    PROVE  Cause(s)'
<1>1. request'[s] = request[s]
  BY DEF Kept, Done
<1>. SUFFICES ASSUME NEW o, NEW m, NEW i, NEW t,
                     o = request[s].org, m = Minute(t),
                     i = request[s].instance, t = request[s].asked
              PROVE  Cause(s)'
  OBVIOUS
<1>2. Of(o, m, Done) \subseteq Of(o, m, Done)'
  BY DEF Of, OfMinute, Asked, Kept, Done
<1>3. Between(Asked(o, {"admitted"}), i, t - Window, t)
         \subseteq Between(Asked(o, {"admitted"}), i, t - Window, t)'
  BY DEF Between, Asked, Kept, Done
<1>4. /\ Of(o, m, Done)' \subseteq Requests
      /\ Between(Asked(o, {"admitted"}), i, t - Window, t)' \subseteq Requests
  BY DEF Of, OfMinute, Between, Asked
<1>5. limit \in Nat /\ limit' = limit /\ enabled' = enabled
  BY LimiterAssumption DEF LimiterTypeOK
<1>6. CASE enabled
  <2>1. Of(o, m, Done) \ {s} \subseteq Of(o, m, Done)' \ {s}
    BY <1>2
  <2>2. Cardinality(Of(o, m, Done) \ {s}) <= Cardinality(Of(o, m, Done)' \ {s})
    BY <1>4, <2>1, MoreRequests
  <2>3. /\ Cardinality(Of(o, m, Done) \ {s}) \in Nat
        /\ Cardinality(Of(o, m, Done)' \ {s}) \in Nat
    BY <1>4, <2>1, SomeRequestsAreFinite
  <2>4. Cardinality(Of(o, m, Done) \ {s}) >= limit /\ limit > 0
    BY <1>6 DEF Cause
  <2>5. Cardinality(Of(o, m, Done)' \ {s}) >= limit
    BY <1>5, <2>2, <2>3, <2>4
  <2> QED BY <1>1, <1>5, <1>6, <2>4, <2>5 DEF Cause, Minute
<1>7. CASE ~enabled
  <2>. DEFINE before == Between(Asked(o, {"admitted"}), i, t - Window, t)
              after == Between(Asked(o, {"admitted"}), i, t - Window, t)'
  <2>1. Cardinality(before) <= Cardinality(after)
    BY <1>3, <1>4, MoreRequests
  <2>2. Cardinality(before) \in Nat /\ Cardinality(after) \in Nat
    BY <1>3, <1>4, SomeRequestsAreFinite
  <2>3. Cardinality(before) >= limit /\ limit > 0
    BY <1>7 DEF Cause
  <2>4. Cardinality(after) >= limit
    BY <1>5, <2>1, <2>2, <2>3
  <2> QED BY <1>1, <1>5, <1>7, <2>3, <2>4 DEF Cause
<1> QED BY <1>6, <1>7

-----------------------------------------------------------------------------
(***************************************************************************)
(* Requests that are counted when Redis is not told, and types of what a   *)
(* step writes.                                                            *)
(***************************************************************************)
LEMMA CountType ==
    ASSUME LimiterTypeOK, NEW o \in Orgs, NEW m \in Minutes
    PROVE  /\ Count(o, m) \in Nat
           /\ Count(o, m) <= counter[o][m].count
           /\ clock < counter[o][m].expires => Count(o, m) = counter[o][m].count
  BY LimiterAssumption DEF Count, LimiterTypeOK, Counter

LEMMA RequestFields ==
    ASSUME LimiterTypeOK, NEW r \in Requests
    PROVE  /\ request[r] = [phase |-> request[r].phase, org |-> request[r].org,
                            instance |-> request[r].instance, asked |-> request[r].asked]
           /\ request[r].phase \in {"new", "counting", "admitted", "limited", "failed"}
           /\ request[r].org \in Orgs \cup {None}
           /\ request[r].instance \in Instances \cup {None}
           /\ request[r].asked \in 0 .. MaxClock /\ request[r].asked \in Nat
           /\ clock \in Nat /\ limit \in Nat
  BY LimiterAssumption DEF LimiterTypeOK, RequestState

\* A request that has waited for its counter may still be counted before whoever
\* was let in under it is forgotten.
LEMMA CounterStillLives ==
    ASSUME LimiterTypeOK, Placed, Lives, enabled, limit > 0,
           NEW r \in Requests, clock - request[r].asked <= MaxDelay,
           NEW s \in Requests, request[s].phase = "admitted",
           request[s].org = request[r].org,
           Minute(request[s].asked) = Minute(request[r].asked)
    PROVE  clock < counter[request[r].org][Minute(request[r].asked)].expires
<1>. DEFINE e == counter[request[r].org][Minute(request[r].asked)].expires
<1>1. e >= request[s].asked + Expiry
  BY DEF Lives
<1>2. request[r].asked < request[s].asked + Window
  BY RequestFields, SameMinute
<1>3. request[s].org \in Orgs /\ Minute(request[s].asked) \in Minutes
  BY RequestFields, MinuteInRange DEF Placed
<1>4. e \in Nat
  BY <1>3 DEF LimiterTypeOK, Counter
<1>5. /\ request[r].asked \in Nat /\ request[s].asked \in Nat /\ clock \in Nat
      /\ Window \in Nat /\ MaxDelay \in Nat /\ Expiry \in Nat
      /\ MaxDelay + Window <= Expiry
  BY RequestFields, LimiterAssumption
<1>. HIDE DEF e
<1>6. clock < e
  BY <1>1, <1>2, <1>4, <1>5
<1> QED BY <1>6 DEF e

(***************************************************************************)
(* Counting a request (incr_with_expiry, and RedisFails when the reply is  *)
(* lost) preserves the invariant.                                          *)
(***************************************************************************)
Counts(r, phase) ==
    /\ request[r].phase = "counting"
    /\ clock - request[r].asked <= MaxDelay
    /\ counter' = Incremented(r)
    /\ request' = [request EXCEPT ![r].phase = phase]
    /\ UNCHANGED <<enabled, limit, clock, local>>
    /\ phase = "admitted" => Count(request[r].org, Minute(request[r].asked)) + 1 <= limit
    /\ phase = "limited" => Count(request[r].org, Minute(request[r].asked)) + 1 > limit

LEMMA CountsPointwise ==
    ASSUME IInv, NEW r \in Requests, NEW phase \in Done, Counts(r, phase),
           NEW o, o = request[r].org, NEW m, m = Minute(request[r].asked)
    PROVE  /\ enabled /\ limit > 0
           /\ o \in Orgs /\ m \in Minutes
           /\ LimiterTypeOK'
           /\ counter'[o][m] = [count |-> Count(o, m) + 1, expires |-> clock + Expiry]
           /\ \A p \in Orgs, n \in Minutes :
                 p # o \/ n # m => counter'[p][n] = counter[p][n]
           /\ request'[r] = [phase |-> phase, org |-> request[r].org,
                             instance |-> request[r].instance, asked |-> request[r].asked]
           /\ \A s \in Requests \ {r} : request'[s] = request[s]
<1>1. enabled /\ limit > 0 /\ o \in Orgs
  BY DEF IInv, Placed, Counts
<1>2. m \in Minutes
  BY RequestFields, MinuteInRange DEF IInv
<1>3. counter' = [counter EXCEPT ![o][m] =
                     [count |-> Count(o, m) + 1, expires |-> clock + Expiry]]
  BY DEF Counts, Incremented
<1>4. [count |-> Count(o, m) + 1, expires |-> clock + Expiry] \in Counter
  <2>1. Count(o, m) + 1 \in Nat
    BY <1>1, <1>2, CountType DEF IInv
  <2>2. clock + Expiry \in Nat
    BY LimiterAssumption DEF IInv, LimiterTypeOK
  <2> QED BY <2>1, <2>2 DEF Counter
<1>. DEFINE new == [count |-> Count(o, m) + 1, expires |-> clock + Expiry]
<1>a. counter \in [Orgs -> [Minutes -> Counter]] /\ new \in Counter
  BY <1>4 DEF IInv, LimiterTypeOK
<1>. HIDE DEF new
<1>b. counter' = [counter EXCEPT ![o] = [counter[o] EXCEPT ![m] = new]]
  BY <1>3 DEF new
<1>c. [counter[o] EXCEPT ![m] = new] \in [Minutes -> Counter]
  BY <1>a, <1>1, <1>2
<1>d. counter'[o] = [counter[o] EXCEPT ![m] = new]
  BY <1>a, <1>b, <1>1
<1>5. /\ counter' \in [Orgs -> [Minutes -> Counter]]
      /\ counter'[o][m] = new
      /\ \A p \in Orgs, n \in Minutes : p # o \/ n # m => counter'[p][n] = counter[p][n]
  BY <1>1, <1>2, <1>a, <1>b, <1>c, <1>d
<1>6. /\ request'[r] = [phase |-> phase, org |-> request[r].org,
                        instance |-> request[r].instance, asked |-> request[r].asked]
      /\ \A s \in Requests \ {r} : request'[s] = request[s]
      /\ DOMAIN request' = Requests /\ request' = [s \in Requests |-> request'[s]]
  <2>1. request \in [Requests -> RequestState]
    BY DEF IInv, LimiterTypeOK
  <2>2. request' = [request EXCEPT ![r].phase = phase]
    BY DEF Counts
  <2> QED BY <2>1, <2>2 DEF RequestState
<1>7. request'[r] \in RequestState
  <2>1. phase \in {"new", "counting", "admitted", "limited", "failed"}
    BY DEF Done
  <2>2. /\ request[r].org \in Orgs \cup {None} /\ request[r].asked \in 0 .. MaxClock
        /\ request[r].instance \in Instances \cup {None}
    BY RequestFields DEF IInv
  <2> QED BY <1>6, <2>1, <2>2 DEF RequestState
<1>8. request' \in [Requests -> RequestState]
  <2>1. \A s \in Requests : request'[s] \in RequestState
    BY <1>6, <1>7 DEF IInv, LimiterTypeOK
  <2> QED BY <1>6, <2>1
<1> QED BY <1>1, <1>2, <1>5, <1>6, <1>8 DEF IInv, LimiterTypeOK, Counts, new

LEMMA CountsPreserves ==
    ASSUME IInv, NEW r \in Requests, NEW phase \in Done, Counts(r, phase)
    PROVE  IInv'
<1>. SUFFICES ASSUME NEW o, o = request[r].org, NEW m, m = Minute(request[r].asked)
              PROVE  IInv'
  OBVIOUS
<1>0. /\ LimiterTypeOK /\ Placed /\ Counted /\ Lives /\ LimitedForCause
      /\ request[r].phase = "counting" /\ clock - request[r].asked <= MaxDelay
      /\ UNCHANGED <<enabled, limit, clock, local>>
      /\ phase = "admitted" => Count(o, m) + 1 <= limit
      /\ phase = "limited" => Count(o, m) + 1 > limit
  BY DEF IInv, Counts
<1>1. /\ enabled /\ limit > 0
      /\ o \in Orgs /\ m \in Minutes
      /\ LimiterTypeOK'
      /\ counter'[o][m] = [count |-> Count(o, m) + 1, expires |-> clock + Expiry]
      /\ \A p \in Orgs, n \in Minutes : p # o \/ n # m => counter'[p][n] = counter[p][n]
      /\ request'[r] = [phase |-> phase, org |-> request[r].org,
                        instance |-> request[r].instance, asked |-> request[r].asked]
      /\ \A s \in Requests \ {r} : request'[s] = request[s]
  BY CountsPointwise
<1>2. ASSUME NEW p \in Orgs, NEW n \in Minutes, p # o \/ n # m
      PROVE  /\ Of(p, n, {"admitted"})' = Of(p, n, {"admitted"})
             /\ Of(p, n, Done)' = Of(p, n, Done)
  BY <1>1, <1>2 DEF Of, OfMinute, Asked
<1>3. Of(o, m, Done)' = Of(o, m, Done) \cup {r} /\ r \notin Of(o, m, Done)
  BY <1>0, <1>1 DEF Of, OfMinute, Asked, Done
<1>4. /\ r \notin Of(o, m, {"admitted"})
      /\ phase = "admitted" => Of(o, m, {"admitted"})' = Of(o, m, {"admitted"}) \cup {r}
      /\ phase # "admitted" => Of(o, m, {"admitted"})' = Of(o, m, {"admitted"})
  BY <1>0, <1>1 DEF Of, OfMinute, Asked
<1>5. /\ IsFiniteSet(Of(o, m, Done)) /\ Cardinality(Of(o, m, Done)) \in Nat
      /\ IsFiniteSet(Of(o, m, {"admitted"})) /\ Cardinality(Of(o, m, {"admitted"})) \in Nat
  <2>1. Of(o, m, Done) \subseteq Requests /\ Of(o, m, {"admitted"}) \subseteq Requests
    BY DEF Of, OfMinute, Asked
  <2> QED BY <2>1, SomeRequestsAreFinite
<1>6. /\ Cardinality(Of(o, m, Done)') = Cardinality(Of(o, m, Done)) + 1
      /\ Cardinality(Of(o, m, {"admitted"})') =
            Cardinality(Of(o, m, {"admitted"})) + (IF phase = "admitted" THEN 1 ELSE 0)
  <2>1. Cardinality(Of(o, m, Done) \cup {r}) = Cardinality(Of(o, m, Done)) + 1
    BY <1>3, <1>5, FS_AddElement
  <2>2. Cardinality(Of(o, m, {"admitted"}) \cup {r})
           = Cardinality(Of(o, m, {"admitted"})) + 1
    BY <1>4, <1>5, FS_AddElement
  <2> QED BY <1>3, <1>4, <1>5, <2>1, <2>2
<1>7. Count(o, m) \in Nat /\ Count(o, m) <= counter[o][m].count /\ limit \in Nat
      /\ counter[o][m].count \in Nat
  BY <1>0, <1>1, CountType, RequestFields DEF LimiterTypeOK, Counter
<1>8. /\ Cardinality(Of(o, m, {"admitted"})) <= limit
      /\ Cardinality(Of(o, m, {"admitted"})) <= counter[o][m].count
      /\ counter[o][m].count <= Cardinality(Of(o, m, Done))
  BY <1>0, <1>1 DEF Counted
<1>9. Cardinality(Of(o, m, {"admitted"})) <= Count(o, m)
  <2>1. CASE Of(o, m, {"admitted"}) = {}
    BY <1>7, <2>1, FS_EmptySet
  <2>2. CASE Of(o, m, {"admitted"}) # {}
    <3>1. PICK s \in Requests : /\ request[s].phase = "admitted" /\ request[s].org = o
                                /\ Minute(request[s].asked) = m
      BY <2>2 DEF Of, OfMinute, Asked
    <3>2. clock < counter[o][m].expires
      BY <1>0, <1>1, <3>1, CounterStillLives
    <3> QED BY <1>0, <1>1, <1>8, <3>2, CountType
  <2> QED BY <2>1, <2>2
<1>10. Counted'
  <2>1. ASSUME NEW p \in Orgs, NEW n \in Minutes
        PROVE  /\ Cardinality(Of(p, n, {"admitted"})') <= limit
               /\ Cardinality(Of(p, n, {"admitted"})') <= counter'[p][n].count
               /\ counter'[p][n].count <= Cardinality(Of(p, n, Done)')
    <3>1. CASE p = o /\ n = m
      <4>1. counter'[o][m].count = Count(o, m) + 1
        BY <1>1
      <4> QED BY <1>0, <1>5, <1>6, <1>7, <1>8, <1>9, <3>1, <4>1
    <3>2. CASE p # o \/ n # m
      BY <1>0, <1>1, <1>2, <3>2 DEF Counted
    <3> QED BY <3>1, <3>2
  <2> QED BY <1>0, <2>1 DEF Counted
<1>11. Lives'
  <2>1. ASSUME NEW s \in Requests, request'[s].phase = "admitted"
        PROVE  counter'[request'[s].org][Minute(request'[s].asked)].expires
                  >= request'[s].asked + Expiry
    <3>0. request'[s].org = request[s].org /\ request'[s].asked = request[s].asked
      BY <1>1
    <3>1. /\ request'[s].org = request[s].org /\ request'[s].asked = request[s].asked
          /\ request[s].asked <= clock /\ request[s].asked \in Nat
          /\ clock \in Nat /\ Expiry \in Nat
      BY <1>0, <3>0, RequestFields, LimiterAssumption DEF Placed
    <3>2. CASE request[s].org = o /\ Minute(request[s].asked) = m
      <4>1. counter'[o][m].expires = clock + Expiry
        BY <1>1
      <4> QED BY <3>1, <3>2, <4>1
    <3>3. CASE ~(request[s].org = o /\ Minute(request[s].asked) = m)
      <4>1. s # r /\ request'[s] = request[s]
        BY <1>1, <3>3
      <4>2. request[s].org \in Orgs /\ Minute(request[s].asked) \in Minutes
        BY <1>0, <2>1, <4>1, RequestFields, MinuteInRange DEF Placed
      <4>3. counter'[request[s].org][Minute(request[s].asked)]
               = counter[request[s].org][Minute(request[s].asked)]
        BY <1>1, <3>3, <4>2
      <4> QED BY <1>0, <1>1, <2>1, <3>1, <4>1, <4>3 DEF Lives
    <3> QED BY <3>2, <3>3
  <2> QED BY <2>1 DEF Lives, Minute
<1>12. Placed'
  BY <1>0, <1>1, RequestFields DEF Placed, Done
<1>13. Queued'
  BY <1>0, <1>1 DEF Queued
<1>14. WithinTheLimit'
  BY <1>0, <1>1, <1>10 DEF Counted, WithinTheLimit, Of
<1>15. LimitedForCause'
  <2>1. ASSUME NEW s \in Requests, request'[s].phase = "limited"
        PROVE  Cause(s)'
    <3>1. CASE s # r
      <4>1. request[s].phase = "limited" /\ Cause(s)
        BY <1>0, <1>1, <2>1, <3>1, CauseIsStated
      <4>2. Kept
        BY <1>0, <1>1 DEF Kept, Done
      <4> QED BY <1>0, <4>1, <4>2, CauseKept
    <3>2. CASE s = r
      <4>1. phase = "limited" /\ limit <= Count(o, m)
        BY <1>0, <1>1, <1>7, <2>1, <3>2
      <4>2. Of(o, m, Done)' \ {r} = Of(o, m, Done)
        BY <1>3
      <4>3. Cardinality(Of(o, m, Done)' \ {r}) >= limit
        BY <1>5, <1>7, <1>8, <4>1, <4>2
      <4>4. request'[s].org = o /\ Minute(request'[s].asked) = m
        <5>1. request'[r].org = request[r].org /\ request'[r].asked = request[r].asked
          BY <1>1
        <5> QED BY <3>2, <5>1
      <4>5. Minute(request[s].asked)' = m
        BY <4>4 DEF Minute
      <4> QED BY <1>0, <1>1, <3>2, <4>3, <4>4, <4>5 DEF Cause
    <3> QED BY <3>1, <3>2
  <2> QED BY <2>1 DEF LimitedForCause, Cause, Of, Done
<1> QED BY <1>1, <1>10, <1>11, <1>12, <1>13, <1>14, <1>15 DEF IInv

(***************************************************************************)
(* Asking Redis, and losing a command before it has counted.               *)
(***************************************************************************)
Unanswered(r, v) ==
    /\ request[r].phase \in {"new", "counting"}
    /\ v \in RequestState /\ v.phase \in {"counting", "failed"}
    /\ v.org \in Orgs /\ v.instance \in Instances /\ v.asked <= clock
    /\ enabled /\ limit > 0
    /\ request' = [request EXCEPT ![r] = v]
    /\ UNCHANGED <<enabled, limit, clock, counter, local>>

LEMMA UnansweredPreserves ==
    ASSUME IInv, NEW r \in Requests, NEW v, Unanswered(r, v)
    PROVE  IInv'
<1>0. /\ LimiterTypeOK /\ Placed /\ Counted /\ Lives /\ LimitedForCause
      /\ request[r].phase \in {"new", "counting"}
      /\ v \in RequestState /\ v.phase \in {"counting", "failed"}
      /\ v.org \in Orgs /\ v.instance \in Instances /\ v.asked <= clock
      /\ enabled /\ limit > 0
      /\ request' = [request EXCEPT ![r] = v]
      /\ UNCHANGED <<enabled, limit, clock, counter, local>>
  BY DEF IInv, Unanswered
<1>1. /\ request' \in [Requests -> RequestState]
      /\ request'[r] = v
      /\ \A s \in Requests \ {r} : request'[s] = request[s]
  BY <1>0 DEF LimiterTypeOK
<1>2. LimiterTypeOK'
  BY <1>0, <1>1 DEF LimiterTypeOK
<1>3. Placed'
  BY <1>0, <1>1 DEF Placed
<1>4. Kept
  BY <1>0, <1>1 DEF Kept, Done
<1>5. Counted'
  <2>1. ASSUME NEW o \in Orgs, NEW m \in Minutes
        PROVE  /\ Of(o, m, {"admitted"})' = Of(o, m, {"admitted"})
               /\ Of(o, m, Done) \subseteq Of(o, m, Done)'
               /\ Of(o, m, Done)' \subseteq Requests
    BY <1>0, <1>1 DEF Of, OfMinute, Asked, Done
  <2>2. ASSUME NEW o \in Orgs, NEW m \in Minutes
        PROVE  /\ Cardinality(Of(o, m, {"admitted"})') <= limit
               /\ Cardinality(Of(o, m, {"admitted"})') <= counter[o][m].count
               /\ counter[o][m].count <= Cardinality(Of(o, m, Done)')
    <3>1. Cardinality(Of(o, m, Done)) <= Cardinality(Of(o, m, Done)')
      BY <2>1, MoreRequests
    <3>2. Cardinality(Of(o, m, Done)) \in Nat /\ Cardinality(Of(o, m, Done)') \in Nat
      BY <2>1, SomeRequestsAreFinite
    <3>3. counter[o][m].count \in Nat
      BY <1>0 DEF LimiterTypeOK, Counter
    <3> QED BY <1>0, <2>1, <3>1, <3>2, <3>3 DEF Counted
  <2> QED BY <1>0, <2>2 DEF Counted
<1>6. Lives'
  BY <1>0, <1>1 DEF Lives, Minute
<1>7. Queued'
  BY <1>0 DEF Queued
<1>8. WithinTheLimit'
  BY <1>0, <1>5 DEF Counted, WithinTheLimit, Of
<1>9. LimitedForCause'
  <2>1. ASSUME NEW s \in Requests, request'[s].phase = "limited"
        PROVE  Cause(s)'
    <3>1. request[s].phase = "limited"
      BY <1>0, <1>1, <2>1
    <3>2. Cause(s)
      BY <1>0, <3>1, CauseIsStated
    <3> QED BY <1>0, <1>4, <3>1, <3>2, CauseKept
  <2> QED BY <2>1 DEF LimitedForCause, Cause, Of, Done
<1> QED BY <1>2, <1>3, <1>5, <1>6, <1>7, <1>8, <1>9 DEF IInv

(***************************************************************************)
(* Without a limit nothing is counted.                                     *)
(***************************************************************************)
LEMMA UnlimitedPreserves ==
    ASSUME IInv, NEW r \in Requests, NEW o \in Orgs, NEW i \in Instances,
           AllowUnlimited(r, o, i)
    PROVE  IInv'
<1>0. /\ LimiterTypeOK /\ Placed
      /\ limit <= 0 /\ limit \in Nat
      /\ request' = [request EXCEPT ![r] =
            [phase |-> "admitted", org |-> o, instance |-> i, asked |-> clock]]
      /\ UNCHANGED <<enabled, limit, clock, counter, local>>
  BY LimiterAssumption DEF IInv, AllowUnlimited, Asks, LimiterTypeOK
<1>1. [phase |-> "admitted", org |-> o, instance |-> i, asked |-> clock] \in RequestState
  BY <1>0 DEF LimiterTypeOK, RequestState
<1>2. /\ request' \in [Requests -> RequestState]
      /\ request'[r] = [phase |-> "admitted", org |-> o, instance |-> i, asked |-> clock]
      /\ \A s \in Requests \ {r} : request'[s] = request[s]
  BY <1>0, <1>1 DEF LimiterTypeOK
<1>3. LimiterTypeOK'
  BY <1>0, <1>2 DEF LimiterTypeOK
<1>4. clock \in Nat /\ ~(limit > 0)
  BY <1>0 DEF LimiterTypeOK
<1>5. Placed'
  <2>1. ASSUME NEW s \in Requests
        PROVE  /\ request'[s].phase # "new" => /\ request'[s].org \in Orgs
                                               /\ request'[s].instance \in Instances
               /\ request'[s].asked <= clock
               /\ request'[s].phase \notin {"counting", "failed", "limited"}
    BY <1>0, <1>2, <1>4 DEF Placed
  <2> QED BY <1>0, <2>1 DEF Placed
<1>6. LimitedForCause'
  BY <1>0, <1>4, <1>5 DEF Placed, LimitedForCause
<1>7. Counted' /\ Lives' /\ Queued' /\ WithinTheLimit'
  BY <1>0, <1>4 DEF Counted, Lives, Queued, WithinTheLimit
<1> QED BY <1>3, <1>5, <1>6, <1>7 DEF IInv

LEMMA TickPreserves ==
    ASSUME IInv, Tick PROVE IInv'
<1>0. /\ LimiterTypeOK /\ Placed /\ Counted /\ Lives /\ Queued
      /\ WithinTheLimit /\ LimitedForCause
      /\ clock \in 0 .. MaxClock /\ clock < MaxClock /\ clock' = clock + 1
      /\ MaxClock \in Nat /\ Window \in Nat
      /\ UNCHANGED <<enabled, limit, counter, local, request>>
  BY LimiterAssumption DEF IInv, Tick, LimiterTypeOK
<1>1. LimiterTypeOK'
  BY <1>0 DEF LimiterTypeOK
<1>2. Placed'
  <2>1. ASSUME NEW r \in Requests PROVE request[r].asked <= clock + 1
    <3>1. request[r].asked <= clock
      BY <1>0 DEF Placed
    <3>2. request[r].asked \in Nat /\ clock \in Nat
      BY <1>0, RequestFields
    <3> QED BY <3>1, <3>2
  <2> QED BY <1>0, <2>1 DEF Placed
<1>3. Counted' /\ Lives' /\ WithinTheLimit' /\ LimitedForCause'
  <2>1. Counted'
    BY <1>0 DEF Counted, Of, OfMinute, Asked, Minute
  <2>2. Lives'
    BY <1>0 DEF Lives, Minute
  <2>3. WithinTheLimit'
    BY <1>0 DEF WithinTheLimit, OfMinute, Between, Asked, Minute
  <2>4. LimitedForCause'
    BY <1>0 DEF LimitedForCause, OfMinute, Between, Asked, Minute
  <2> QED BY <2>1, <2>2, <2>3, <2>4
<1>4. Queued'
  <2>1. ASSUME ~enabled, limit > 0, NEW i \in Instances, NEW o \in Orgs
        PROVE  /\ \A j \in 1 .. Len(local[i][o]) : local[i][o][j] <= clock + 1
               /\ \A j, k \in 1 .. Len(local[i][o]) :
                     j <= k => local[i][o][j] <= local[i][o][k]
               /\ \A x \in Int : x >= clock + 1 - Window =>
                     Cardinality(Since(i, o, x)) = Cardinality(Recent(local[i][o], x))
    <3>1. local[i][o] \in Seq(Nat)
      BY <1>0 DEF LimiterTypeOK
    <3>2. \A j \in 1 .. Len(local[i][o]) : local[i][o][j] <= clock
      BY <1>0, <2>1 DEF Queued
    <3>3. \A j \in 1 .. Len(local[i][o]) : local[i][o][j] <= clock + 1
      <4>1. \A j \in 1 .. Len(local[i][o]) : local[i][o][j] \in Nat
        BY <3>1
      <4> QED BY <1>0, <3>2, <4>1
    <3>4. \A x \in Int : x >= clock + 1 - Window => x >= clock - Window
      BY <1>0
    <3> QED BY <1>0, <2>1, <3>3, <3>4 DEF Queued
  <2>2. \A i \in Instances, o \in Orgs, x \in Int : Since(i, o, x)' = Since(i, o, x)
    BY <1>0 DEF Since
  <2> QED BY <1>0, <2>1, <2>2 DEF Queued
<1> QED BY <1>1, <1>2, <1>3, <1>4 DEF IInv

(***************************************************************************)
(* Without Redis: what an instance's queue holds when its stale entries    *)
(* are popped is what it let in during the last window.                    *)
(***************************************************************************)
LEMMA QueueIsTheWindow ==
    ASSUME LimiterTypeOK, Placed, Queued, ~enabled, limit > 0,
           NEW o \in Orgs, NEW i \in Instances
    PROVE  /\ Popped(local[i][o]) \in Seq(Nat)
           /\ \A j \in 1 .. Len(Popped(local[i][o])) : Popped(local[i][o])[j] <= clock
           /\ \A j, k \in 1 .. Len(Popped(local[i][o])) :
                 j <= k => Popped(local[i][o])[j] <= Popped(local[i][o])[k]
           /\ \A x \in Int : x >= clock - Window =>
                 Cardinality(Since(i, o, x)) = Cardinality(Recent(Popped(local[i][o]), x))
           /\ Cardinality(Since(i, o, clock - Window)) = Len(Popped(local[i][o]))
<1>. DEFINE q == local[i][o]
            p == Popped(q)
<1>1. /\ q \in Seq(Nat) /\ clock \in Nat
      /\ clock - Window \in Int /\ clock - Window >= clock - Window
  BY LimiterAssumption DEF LimiterTypeOK
<1>2. /\ \A j \in 1 .. Len(q) : q[j] <= clock
      /\ \A j, k \in 1 .. Len(q) : j <= k => q[j] <= q[k]
      /\ \A x \in Int : x >= clock - Window =>
            Cardinality(Since(i, o, x)) = Cardinality(Recent(q, x))
  BY DEF Queued
<1>. HIDE DEF q
<1>3. /\ p \in Seq(Nat)
      /\ \A j \in 1 .. Len(p) : p[j] <= clock
      /\ \A j, k \in 1 .. Len(p) : j <= k => p[j] <= p[k]
      /\ \A j \in 1 .. Len(p) : p[j] >= clock - Window
      /\ \A x \in Int : x >= clock - Window =>
            Cardinality(Recent(p, x)) = Cardinality(Recent(q, x))
  BY <1>1, <1>2, PoppedQueue
<1>. HIDE DEF p
<1>4. Cardinality(Since(i, o, clock - Window)) = Cardinality(Recent(p, clock - Window))
  BY <1>1, <1>2, <1>3
<1>5. Recent(p, clock - Window) = 1 .. Len(p)
  BY <1>3 DEF Recent
<1>6. Cardinality(1 .. Len(p)) = Len(p)
  <2>1. Len(p) \in Nat
    BY <1>3
  <2>2. Cardinality(1 .. Len(p)) = IF 1 > Len(p) THEN 0 ELSE Len(p) - 1 + 1
    BY <2>1, FS_Interval
  <2> QED BY <2>1, <2>2
<1> QED BY <1>2, <1>3, <1>4, <1>5, <1>6 DEF p, q

(***************************************************************************)
(* An instance answers from its own queue.  (_allow_local)                 *)
(***************************************************************************)
LEMMA LocalPreserves ==
    ASSUME IInv, NEW r \in Requests, NEW o \in Orgs, NEW i \in Instances,
           _allow_local(r, o, i)
    PROVE  IInv'
<1>. SUFFICES ASSUME NEW p, p = Popped(local[i][o]),
                     NEW phase, phase = IF Len(p) >= limit THEN "limited" ELSE "admitted",
                     NEW n, n = IF Len(p) >= limit THEN p ELSE Append(p, clock)
              PROVE  IInv'
  OBVIOUS
<1>0. /\ LimiterTypeOK /\ Placed /\ Queued /\ WithinTheLimit /\ LimitedForCause
      /\ request[r].phase = "new" /\ ~enabled /\ limit > 0 /\ limit \in Nat
      /\ clock \in Nat /\ Window \in Nat \ {0} /\ clock \in 0 .. MaxClock
      /\ UNCHANGED <<enabled, limit, clock, counter>>
  BY LimiterAssumption DEF IInv, _allow_local, LimiterTypeOK
<1>1. /\ phase \in {"limited", "admitted"}
      /\ request' = [request EXCEPT ![r] =
            [phase |-> phase, org |-> o, instance |-> i, asked |-> clock]]
      /\ local' = [local EXCEPT ![i][o] = n]
      /\ phase = "limited" => Len(p) >= limit /\ n = p
      /\ phase = "admitted" => ~(Len(p) >= limit) /\ n = Append(p, clock)
  BY DEF _allow_local, Asks
<1>2. /\ p \in Seq(Nat)
      /\ \A j \in 1 .. Len(p) : p[j] <= clock
      /\ \A j, k \in 1 .. Len(p) : j <= k => p[j] <= p[k]
      /\ \A x \in Int : x >= clock - Window =>
            Cardinality(Since(i, o, x)) = Cardinality(Recent(p, x))
      /\ Cardinality(Since(i, o, clock - Window)) = Len(p)
  BY <1>0, QueueIsTheWindow
<1>3. n \in Seq(Nat)
  BY <1>0, <1>1, <1>2
<1>4. /\ request' \in [Requests -> RequestState]
      /\ request'[r] = [phase |-> phase, org |-> o, instance |-> i, asked |-> clock]
      /\ \A s \in Requests \ {r} : request'[s] = request[s]
  <2>1. [phase |-> phase, org |-> o, instance |-> i, asked |-> clock] \in RequestState
    BY <1>0, <1>1 DEF RequestState
  <2> QED BY <1>0, <1>1, <2>1 DEF LimiterTypeOK
<1>5. /\ local' \in [Instances -> [Orgs -> Seq(Nat)]]
      /\ local'[i][o] = n
      /\ \A i2 \in Instances, o2 \in Orgs : i2 # i \/ o2 # o => local'[i2][o2] = local[i2][o2]
  <2>1. local \in [Instances -> [Orgs -> Seq(Nat)]]
    BY <1>0 DEF LimiterTypeOK
  <2>2. local' = [local EXCEPT ![i] = [local[i] EXCEPT ![o] = n]]
    BY <1>1
  <2>3. [local[i] EXCEPT ![o] = n] \in [Orgs -> Seq(Nat)]
    BY <2>1, <1>3
  <2> QED BY <2>1, <2>2, <2>3
<1>6. LimiterTypeOK'
  BY <1>0, <1>4, <1>5 DEF LimiterTypeOK
<1>7. Placed'
  <2>1. ASSUME NEW s \in Requests
        PROVE  /\ request'[s].phase # "new" => /\ request'[s].org \in Orgs
                                               /\ request'[s].instance \in Instances
               /\ request'[s].asked <= clock
               /\ request'[s].phase \notin {"counting", "failed"}
    BY <1>0, <1>1, <1>4 DEF Placed
  <2> QED BY <1>0, <2>1 DEF Placed
<1>8. Counted' /\ Lives'
  BY <1>0 DEF Counted, Lives
<1>9. Kept
  BY <1>0, <1>4 DEF Kept, Done
<1>10. ASSUME NEW i2 \in Instances, NEW o2 \in Orgs, NEW x \in Int,
              i2 # i \/ o2 # o \/ phase = "limited" \/ x > clock
       PROVE  Since(i2, o2, x)' = Since(i2, o2, x)
  BY <1>0, <1>4, <1>10 DEF Since
<1>11. ASSUME NEW x \in Int, phase = "admitted", x <= clock
       PROVE  Since(i, o, x)' = Since(i, o, x) \cup {r} /\ r \notin Since(i, o, x)
  BY <1>0, <1>4, <1>11 DEF Since
<1>12. ASSUME NEW x \in Int
       PROVE  /\ IsFiniteSet(Since(i, o, x)) /\ Cardinality(Since(i, o, x)) \in Nat
  <2>1. Since(i, o, x) \subseteq Requests
    BY DEF Since
  <2> QED BY <2>1, SomeRequestsAreFinite
<1>13. ASSUME NEW x \in Int, x >= clock - Window
       PROVE  Cardinality(Since(i, o, x)') = Cardinality(Recent(n, x))
  <2>1. CASE phase = "limited"
    BY <1>1, <1>2, <1>10, <1>13, <2>1
  <2>2. CASE phase = "admitted"
    <3>1. /\ n = Append(p, clock) /\ Len(n) = Len(p) + 1 /\ n[Len(p) + 1] = clock
          /\ \A j \in 1 .. Len(p) : n[j] = p[j]
          /\ Len(p) \in Nat
      BY <1>0, <1>1, <1>2, <2>2
    <3>2. CASE x <= clock
      <4>1. Recent(n, x) = Recent(p, x) \cup {Len(p) + 1}
        BY <1>0, <3>1, <3>2 DEF Recent
      <4>2. Len(p) + 1 \notin Recent(p, x)
        BY <3>1 DEF Recent
      <4>3. IsFiniteSet(Recent(p, x))
        <5>1. Recent(p, x) \in SUBSET (1 .. Len(p)) /\ IsFiniteSet(1 .. Len(p))
          BY <3>1, FS_Interval DEF Recent
        <5> QED BY <5>1, FS_Subset
      <4>4. Cardinality(Recent(n, x)) = Cardinality(Recent(p, x)) + 1
        BY <4>1, <4>2, <4>3, FS_AddElement
      <4>5. Cardinality(Since(i, o, x)') = Cardinality(Since(i, o, x)) + 1
        BY <1>11, <1>12, <2>2, <3>2, FS_AddElement
      <4> QED BY <1>2, <1>13, <4>4, <4>5
    <3>3. CASE x > clock
      <4>1. Recent(n, x) = Recent(p, x)
        BY <1>0, <3>1, <3>3 DEF Recent
      <4> QED BY <1>2, <1>10, <1>13, <3>3, <4>1
    <3> QED BY <1>0, <3>2, <3>3
  <2> QED BY <1>1, <2>1, <2>2
<1>14. Queued'
  <2>1. /\ \A j \in 1 .. Len(n) : n[j] <= clock
        /\ \A j, k \in 1 .. Len(n) : j <= k => n[j] <= n[k]
    <3>1. CASE phase = "limited"
      BY <1>1, <1>2, <3>1
    <3>2. CASE phase = "admitted"
      <4>1. /\ Len(n) = Len(p) + 1 /\ n[Len(p) + 1] = clock /\ Len(p) \in Nat
            /\ \A j \in 1 .. Len(p) : n[j] = p[j]
        BY <1>0, <1>1, <1>2, <3>2
      <4>2. \A j \in 1 .. Len(n) : j \in 1 .. Len(p) \/ j = Len(p) + 1
        BY <4>1
      <4>3. ASSUME NEW j \in 1 .. Len(n), NEW k \in 1 .. Len(n), j <= k
            PROVE  n[j] <= n[k]
        <5>1. CASE k \in 1 .. Len(p)
          <6>1. j \in 1 .. Len(p)
            BY <4>1, <4>3, <5>1
          <6> QED BY <1>2, <4>1, <4>3, <5>1, <6>1
        <5>2. CASE k = Len(p) + 1
          BY <1>0, <1>2, <4>1, <4>2, <5>2
        <5> QED BY <4>2, <5>1, <5>2
      <4>4. ASSUME NEW j \in 1 .. Len(n) PROVE n[j] <= clock
        BY <1>0, <1>2, <4>1, <4>2
      <4> QED BY <4>3, <4>4
    <3> QED BY <1>1, <3>1, <3>2
  <2>2. ASSUME NEW i2 \in Instances, NEW o2 \in Orgs
        PROVE  /\ \A j \in 1 .. Len(local'[i2][o2]) : local'[i2][o2][j] <= clock
               /\ \A j, k \in 1 .. Len(local'[i2][o2]) :
                     j <= k => local'[i2][o2][j] <= local'[i2][o2][k]
               /\ \A x \in Int : x >= clock - Window =>
                     Cardinality(Since(i2, o2, x)') = Cardinality(Recent(local'[i2][o2], x))
    <3>1. CASE i2 = i /\ o2 = o
      BY <1>5, <1>13, <2>1, <3>1
    <3>2. CASE i2 # i \/ o2 # o
      <4>1. local'[i2][o2] = local[i2][o2]
        BY <1>5, <3>2
      <4>2. \A x \in Int : Since(i2, o2, x)' = Since(i2, o2, x)
        BY <1>10, <3>2
      <4> QED BY <1>0, <4>1, <4>2 DEF Queued
    <3> QED BY <3>1, <3>2
  <2>3. \A q, x : Recent(q, x)' = Recent(q, x)
    BY DEF Recent
  <2> QED BY <1>0, <2>2, <2>3 DEF Queued
<1>15. WithinTheLimit'
  <2>1. ASSUME NEW o2 \in Orgs, NEW i2 \in Instances, NEW t \in 0 .. MaxClock
        PROVE  Cardinality(Between(Asked(o2, {"admitted"}), i2, t, t + Window)') <= limit
    <3>. DEFINE old == {s \in Requests :
                          /\ request[s].org = o2 /\ request[s].phase \in {"admitted"}
                          /\ request[s].instance = i2 /\ request[s].asked \in t .. t + Window}
                new == Between(Asked(o2, {"admitted"}), i2, t, t + Window)'
    <3>1. old = Between(Asked(o2, {"admitted"}), i2, t, t + Window)
      BY DEF Between, Asked
    <3>2. Cardinality(old) <= limit
      BY <1>0, <3>1 DEF WithinTheLimit
    <3>3. new = {s \in Requests :
                   /\ request'[s].org = o2 /\ request'[s].phase \in {"admitted"}
                   /\ request'[s].instance = i2 /\ request'[s].asked \in t .. t + Window}
      BY DEF Between, Asked
    <3>4. CASE phase = "limited" \/ i2 # i \/ o2 # o \/ clock \notin t .. t + Window
      <4>1. new = old
        BY <1>0, <1>4, <3>3, <3>4
      <4> QED BY <3>2, <4>1
    <3>5. CASE phase = "admitted" /\ i2 = i /\ o2 = o /\ clock \in t .. t + Window
      <4>1. new = old \cup {r}
        BY <1>0, <1>4, <3>3, <3>5
      <4>2. old \subseteq Since(i, o, clock - Window)
        <5>1. ASSUME NEW s \in old PROVE s \in Since(i, o, clock - Window)
          <6>1. request[s].asked \in t .. t + Window /\ clock <= t + Window
            BY <3>5
          <6>2. request[s].asked >= clock - Window
            BY <1>0, <6>1
          <6> QED BY <3>5, <6>2 DEF Since
        <5> QED BY <5>1
      <4>3. Since(i, o, clock - Window) \subseteq Requests
        BY DEF Since
      <4>4. Cardinality(old) <= Len(p)
        BY <1>2, <4>2, <4>3, MoreRequests
      <4>5. IsFiniteSet(old) /\ Cardinality(old) \in Nat
        BY <4>2, <4>3, SomeRequestsAreFinite
      <4>6. Cardinality(new) <= Cardinality(old) + 1
        <5>1. Cardinality(old \cup {r})
                 = IF r \in old THEN Cardinality(old) ELSE Cardinality(old) + 1
          BY <4>5, FS_AddElement
        <5>2. Cardinality(new) = Cardinality(old \cup {r})
          BY <4>1
        <5>. HIDE DEF old, new
        <5> QED BY <4>5, <5>1, <5>2
      <4>7. Len(p) < limit /\ Len(p) \in Nat
        BY <1>0, <1>1, <1>2, <3>5
      <4>8. IsFiniteSet(new) /\ Cardinality(new) \in Nat
        BY <3>3, SomeRequestsAreFinite
      <4>. HIDE DEF old, new
      <4>9. Cardinality(new) <= limit
        BY <1>0, <4>4, <4>5, <4>6, <4>7, <4>8
      <4> QED BY <4>9 DEF new
    <3> QED BY <1>1, <3>4, <3>5
  <2> QED BY <1>0, <2>1 DEF WithinTheLimit
<1>16. LimitedForCause'
  <2>1. ASSUME NEW s \in Requests, request'[s].phase = "limited"
        PROVE  Cause(s)'
    <3>1. CASE s # r
      <4>1. request[s].phase = "limited" /\ Cause(s)
        BY <1>0, <1>4, <2>1, <3>1, CauseIsStated
      <4> QED BY <1>0, <1>9, <4>1, CauseKept
    <3>2. CASE s = r
      <4>1. phase = "limited" /\ Len(p) >= limit
        BY <1>1, <1>4, <2>1, <3>2
      <4>2. Between(Asked(o, {"admitted"}), i, clock - Window, clock)'
               = Since(i, o, clock - Window)
        <5>1. Between(Asked(o, {"admitted"}), i, clock - Window, clock)'
                 = {u \in Requests : /\ request'[u].org = o /\ request'[u].phase = "admitted"
                                     /\ request'[u].instance = i
                                     /\ request'[u].asked \in clock - Window .. clock}
          BY <1>0 DEF Between, Asked
        <5>2. \A u \in Requests \ {r} : request[u].asked \in Nat /\ request[u].asked <= clock
          BY <1>0, RequestFields DEF Placed
        <5>3. clock - Window \in Int
          BY <1>0
        <5> QED BY <1>0, <1>4, <4>1, <5>1, <5>2, <5>3 DEF Since
      <4>3. Cardinality(Between(Asked(o, {"admitted"}), i, clock - Window, clock)') >= limit
        BY <1>2, <4>1, <4>2
      <4>4. /\ request'[s].org = o /\ request'[s].instance = i
            /\ request'[s].asked = clock
        BY <1>4, <3>2
      <4> QED BY <1>0, <4>3, <4>4 DEF Cause
    <3> QED BY <3>1, <3>2
  <2> QED BY <2>1 DEF LimitedForCause, Cause, Of, Done
<1> QED BY <1>6, <1>7, <1>8, <1>14, <1>15, <1>16 DEF IInv

-----------------------------------------------------------------------------
(***************************************************************************)
(* The invariant holds initially and is preserved by every step.           *)
(***************************************************************************)
LEMMA InitHolds == Init => IInv
<1>. SUFFICES ASSUME Init PROVE IInv
  OBVIOUS
<1>0. /\ enabled \in BOOLEAN /\ limit \in Limits /\ limit \in Nat /\ clock = 0
      /\ counter = [o \in Orgs |-> [m \in Minutes |-> [count |-> 0, expires |-> 0]]]
      /\ local = [i \in Instances |-> [o \in Orgs |-> <<>>]]
      /\ request = [r \in Requests |-> Fresh]
      /\ MaxClock \in Nat
  BY LimiterAssumption DEF Init
<1>1. Fresh \in RequestState
  BY LimiterAssumption DEF Fresh, RequestState
<1>2. LimiterTypeOK
  BY <1>0, <1>1 DEF LimiterTypeOK, Counter
<1>3. \A r \in Requests : request[r].phase = "new" /\ request[r].asked = 0
  BY <1>0 DEF Fresh
<1>4. Placed
  BY <1>0, <1>3 DEF Placed
<1>5. \A o, m, phases : phases \subseteq Done => Of(o, m, phases) = {}
  BY <1>3 DEF Of, OfMinute, Asked, Done
<1>6. Cardinality({}) = 0
  BY FS_EmptySet
<1>7. Counted
  <2>1. \A o \in Orgs, m \in Minutes : counter[o][m].count = 0
    BY <1>0
  <2>2. ASSUME NEW o \in Orgs, NEW m \in Minutes
        PROVE  /\ Cardinality(Of(o, m, {"admitted"})) <= limit
               /\ Cardinality(Of(o, m, {"admitted"})) <= counter[o][m].count
               /\ counter[o][m].count <= Cardinality(Of(o, m, Done))
    <3>1. Of(o, m, {"admitted"}) = {} /\ Of(o, m, Done) = {}
      BY <1>5 DEF Done
    <3>2. Cardinality(Of(o, m, {"admitted"})) = 0 /\ Cardinality(Of(o, m, Done)) = 0
      BY <1>6, <3>1
    <3> QED BY <1>0, <2>1, <3>2
  <2> QED BY <2>2 DEF Counted
<1>8. Lives
  BY <1>3 DEF Lives
<1>9. Queued
  <2>1. \A i \in Instances, o \in Orgs : local[i][o] = <<>>
    BY <1>0
  <2>2. \A i, o, x : Since(i, o, x) = {}
    BY <1>3 DEF Since
  <2>3. \A x : Recent(<<>>, x) = {}
    BY DEF Recent
  <2>4. ASSUME NEW i \in Instances, NEW o \in Orgs
        PROVE  /\ \A j \in 1 .. Len(local[i][o]) : local[i][o][j] <= clock
               /\ \A j, k \in 1 .. Len(local[i][o]) :
                     j <= k => local[i][o][j] <= local[i][o][k]
               /\ \A x \in Int : x >= clock - Window =>
                     Cardinality(Since(i, o, x)) = Cardinality(Recent(local[i][o], x))
    <3>1. 1 .. Len(local[i][o]) = {}
      BY <2>1
    <3> QED BY <2>1, <2>2, <2>3, <3>1
  <2> QED BY <2>4 DEF Queued
<1>10. WithinTheLimit
  <2>1. ASSUME NEW o \in Orgs, NEW m \in Minutes
        PROVE  Cardinality(OfMinute(Asked(o, {"admitted"}), m)) <= limit
    <3>1. OfMinute(Asked(o, {"admitted"}), m) = {}
      BY <1>3 DEF OfMinute, Asked
    <3>2. Cardinality(OfMinute(Asked(o, {"admitted"}), m)) = 0
      BY <1>6, <3>1
    <3>3. 0 <= limit
      BY <1>0
    <3> QED BY <3>2, <3>3
  <2>2. ASSUME NEW o \in Orgs, NEW i \in Instances, NEW t \in 0 .. MaxClock
        PROVE  Cardinality(Between(Asked(o, {"admitted"}), i, t, t + Window)) <= limit
    <3>1. Between(Asked(o, {"admitted"}), i, t, t + Window) = {}
      BY <1>3 DEF Between, Asked
    <3>2. Cardinality(Between(Asked(o, {"admitted"}), i, t, t + Window)) = 0
      BY <1>6, <3>1
    <3>3. 0 <= limit
      BY <1>0
    <3> QED BY <3>2, <3>3
  <2> QED BY <2>1, <2>2 DEF WithinTheLimit
<1>11. LimitedForCause
  BY <1>3 DEF LimitedForCause
<1> QED BY <1>2, <1>4, <1>7, <1>8, <1>9, <1>10, <1>11 DEF IInv

LEMMA NextPreserves == IInv /\ [Next]_limiterVars => IInv'
<1>. SUFFICES ASSUME IInv, [Next]_limiterVars PROVE IInv'
  OBVIOUS
<1>1. ASSUME NEW r \in Requests, NEW o \in Orgs, NEW i \in Instances,
             AllowUnlimited(r, o, i)
      PROVE  IInv'
  BY <1>1, UnlimitedPreserves
<1>2. ASSUME NEW r \in Requests, NEW o \in Orgs, NEW i \in Instances, _allow_local(r, o, i)
      PROVE  IInv'
  BY <1>2, LocalPreserves
<1>3. ASSUME NEW r \in Requests, NEW o \in Orgs, NEW i \in Instances, AskRedis(r, o, i)
      PROVE  IInv'
  <2>. DEFINE v == [phase |-> "counting", org |-> o, instance |-> i, asked |-> clock]
  <2>1. v \in RequestState /\ clock \in Nat
    BY DEF IInv, LimiterTypeOK, RequestState
  <2>2. v.phase = "counting" /\ v.org = o /\ v.instance = i /\ v.asked = clock
    OBVIOUS
  <2>3. /\ request[r].phase = "new" /\ enabled /\ limit > 0
        /\ request' = [request EXCEPT ![r] = v]
        /\ UNCHANGED <<enabled, limit, clock, counter, local>>
    BY <1>3 DEF AskRedis, Asks
  <2>. HIDE DEF v
  <2>4. Unanswered(r, v)
    BY <2>1, <2>2, <2>3 DEF Unanswered
  <2> QED BY <2>4, UnansweredPreserves
<1>4. ASSUME NEW r \in Requests, incr_with_expiry(r) PROVE IInv'
  <2>. DEFINE c == Count(request[r].org, Minute(request[r].asked))
              phase == IF c + 1 <= limit THEN "admitted" ELSE "limited"
  <2>1. request[r].org \in Orgs /\ Minute(request[r].asked) \in Minutes
    BY <1>4, RequestFields, MinuteInRange DEF IInv, Placed, incr_with_expiry
  <2>2. c \in Nat /\ limit \in Nat
    BY <2>1, CountType, RequestFields DEF IInv
  <2>3. /\ request[r].phase = "counting" /\ clock - request[r].asked <= MaxDelay
        /\ counter' = Incremented(r)
        /\ request' = [request EXCEPT ![r].phase = phase]
        /\ UNCHANGED <<enabled, limit, clock, local>>
    BY <1>4 DEF incr_with_expiry
  <2>. HIDE DEF c
  <2>4. phase \in Done /\ (phase = "admitted" => c + 1 <= limit)
                       /\ (phase = "limited" => c + 1 > limit)
    BY <2>2 DEF Done
  <2>. HIDE DEF phase
  <2>5. Counts(r, phase)
    BY <2>3, <2>4 DEF Counts, c
  <2> QED BY <2>4, <2>5, CountsPreserves
<1>5. ASSUME NEW r \in Requests, RedisFails(r) PROVE IInv'
  <2>1. /\ request[r].phase = "counting"
        /\ request' = [request EXCEPT ![r].phase = "failed"]
        /\ UNCHANGED <<enabled, limit, clock, local>>
    BY <1>5 DEF RedisFails
  <2>2. CASE clock - request[r].asked <= MaxDelay /\ counter' = Incremented(r)
    <3>1. Counts(r, "failed") /\ "failed" \in Done
      BY <2>1, <2>2 DEF Counts, Done
    <3> QED BY <3>1, CountsPreserves
  <2>3. CASE UNCHANGED counter
    <3>. DEFINE v == [phase |-> "failed", org |-> request[r].org,
                      instance |-> request[r].instance, asked |-> request[r].asked]
    <3>1. /\ request[r].org \in Orgs /\ request[r].instance \in Instances
          /\ request[r].asked <= clock /\ enabled /\ limit > 0
      BY <2>1 DEF IInv, Placed
    <3>2. v \in RequestState
      <4>1. request[r].asked \in 0 .. MaxClock
        BY RequestFields DEF IInv
      <4> QED BY <3>1, <4>1 DEF RequestState
    <3>3. request' = [request EXCEPT ![r] = v]
      <4>1. request \in [Requests -> RequestState]
        BY DEF IInv, LimiterTypeOK
      <4>2. [request[r] EXCEPT !.phase = "failed"] = v
        BY <4>1 DEF RequestState
      <4>3. request' = [request EXCEPT ![r] = [request[r] EXCEPT !.phase = "failed"]]
        BY <2>1
      <4> QED BY <4>2, <4>3
    <3>4. v.phase = "failed" /\ v.org = request[r].org /\ v.instance = request[r].instance
          /\ v.asked = request[r].asked
      OBVIOUS
    <3>. HIDE DEF v
    <3>5. Unanswered(r, v)
      BY <2>1, <2>3, <3>1, <3>2, <3>3, <3>4 DEF Unanswered
    <3> QED BY <3>5, UnansweredPreserves
  <2> QED BY <1>5, <2>2, <2>3 DEF RedisFails
<1>6. CASE Tick
  BY <1>6, TickPreserves
<1>7. CASE UNCHANGED limiterVars
  <2>1. UNCHANGED <<enabled, limit, clock, counter, local, request>>
    BY <1>7 DEF limiterVars
  <2>2. LimiterTypeOK'
    BY <2>1 DEF IInv, LimiterTypeOK
  <2>3. Placed'
    BY <2>1 DEF IInv, Placed
  <2>4. Counted'
    BY <2>1 DEF IInv, Counted, Of, OfMinute, Asked, Minute
  <2>5. Lives'
    BY <2>1 DEF IInv, Lives, Minute
  <2>6. Queued'
    BY <2>1 DEF IInv, Queued, Since, Recent
  <2>7. WithinTheLimit'
    BY <2>1 DEF IInv, WithinTheLimit, OfMinute, Asked, Between, Minute
  <2>8. LimitedForCause'
    BY <2>1 DEF IInv, LimitedForCause, OfMinute, Asked, Between, Minute
  <2> QED BY <2>2, <2>3, <2>4, <2>5, <2>6, <2>7, <2>8 DEF IInv
<1> QED BY <1>1, <1>2, <1>3, <1>4, <1>5, <1>6, <1>7 DEF Next

(***************************************************************************)
(* The limiter's state is well typed.                                      *)
(***************************************************************************)
THEOREM LimiterTypeCorrect == Spec => []LimiterTypeOK
<1>1. IInv => LimiterTypeOK
  BY DEF IInv
<1> QED BY <1>1, InitHolds, NextPreserves, PTL DEF Spec

(***************************************************************************)
(* Nobody gets more than the limit: with Redis in no minute of the clock,  *)
(* for as long as a counter outlives a minute and the slowest command,     *)
(* without it in no window of a minute at any instance.                    *)
(***************************************************************************)
THEOREM WithinTheLimitHolds == Spec => []WithinTheLimit
<1>1. IInv => WithinTheLimit
  BY DEF IInv
<1> QED BY <1>1, InitHolds, NextPreserves, PTL DEF Spec

(***************************************************************************)
(* Nobody is turned away but for limit others of its own organization in   *)
(* its own minute, or of its own instance in the minute before it.         *)
(***************************************************************************)
THEOREM LimitedForCauseHolds == Spec => []LimitedForCause
<1>1. IInv => LimitedForCause
  BY DEF IInv
<1> QED BY <1>1, InitHolds, NextPreserves, PTL DEF Spec

=============================================================================
