--------------------------- MODULE PipelineProofs ---------------------------
(***************************************************************************)
(* Proofs about Pipeline, for any number of items and stages, any limits   *)
(* and both strategies.                                                    *)
(***************************************************************************)
EXTENDS Pipeline, FiniteSetTheorems, TLAPS

-----------------------------------------------------------------------------
(* Queues and their elements.                                              *)
Elems(q) == {q[i] : i \in 1..Len(q)}

NoRepeats(q) == \A i, j \in 1..Len(q) : q[i] = q[j] => i = j

(* What Append and Tail do to the elements of a queue.                     *)
LEMMA AppendElems ==
  ASSUME NEW S, NEW q \in Seq(S), NEW t \in S
  PROVE  /\ Append(q, t) \in Seq(S)
         /\ Elems(Append(q, t)) = Elems(q) \cup {t}
         /\ NoRepeats(q) /\ t \notin Elems(q) => NoRepeats(Append(q, t))
<1> DEFINE r == Append(q, t)
<1>1. /\ r \in Seq(S)
      /\ Len(r) = Len(q) + 1
      /\ Len(q) \in Nat
      /\ \A i \in 1..Len(q) : r[i] = q[i]
      /\ r[Len(q) + 1] = t
  OBVIOUS
<1>2. Elems(r) \subseteq Elems(q) \cup {t}
  BY <1>1 DEF Elems
<1>3. Elems(q) \cup {t} \subseteq Elems(r)
  BY <1>1 DEF Elems
<1>4. ASSUME NoRepeats(q), t \notin Elems(q) PROVE NoRepeats(r)
  BY <1>1, <1>4 DEF NoRepeats, Elems
<1> QED BY <1>1, <1>2, <1>3, <1>4

LEMMA TailElems ==
  ASSUME NEW S, NEW q \in Seq(S), q # <<>>
  PROVE  /\ Tail(q) \in Seq(S)
         /\ Head(q) \in S
         /\ Elems(q) = Elems(Tail(q)) \cup {Head(q)}
         /\ NoRepeats(q) => NoRepeats(Tail(q)) /\ Head(q) \notin Elems(Tail(q))
<1> DEFINE r == Tail(q)
<1>1. /\ r \in Seq(S)
      /\ Head(q) \in S
      /\ Len(q) \in Nat /\ Len(q) >= 1
      /\ Len(r) = Len(q) - 1
      /\ \A i \in 1..Len(r) : r[i] = q[i + 1]
      /\ Head(q) = q[1]
  OBVIOUS
<1>2. Elems(r) \cup {Head(q)} \subseteq Elems(q)
  BY <1>1 DEF Elems
<1>3. ASSUME NEW x \in Elems(q) PROVE x \in Elems(r) \cup {Head(q)}
  <2>1. PICK i \in 1..Len(q) : x = q[i]
    BY DEF Elems
  <2>2. CASE i = 1
    BY <1>1, <2>1, <2>2
  <2>3. CASE i # 1
    <3>1. i - 1 \in 1..Len(r) /\ r[i - 1] = x
      BY <1>1, <2>1, <2>3
    <3> QED BY <3>1 DEF Elems
  <2> QED BY <2>2, <2>3
<1>4. ASSUME NoRepeats(q) PROVE NoRepeats(r) /\ Head(q) \notin Elems(r)
  <2>1. \A i \in 1..Len(r) : i + 1 \in 1..Len(q) /\ i + 1 # 1
    BY <1>1
  <2> QED BY <1>1, <1>4, <2>1 DEF NoRepeats, Elems
<1> QED BY <1>1, <1>2, <1>3, <1>4

LEMMA EmptyElems == Elems(<<>>) = {} /\ NoRepeats(<<>>)
  BY DEF Elems, NoRepeats

LEMMA EmptyQueue ==
  ASSUME NEW S, NEW q \in Seq(S)
  PROVE  Elems(q) = {} <=> q = <<>>
<1>1. q # <<>> => q[1] \in Elems(q)
  BY DEF Elems
<1> QED BY <1>1, EmptyElems

LEMMA LenIsCardinality ==
  ASSUME NEW S, NEW q \in Seq(S), NoRepeats(q)
  PROVE  IsFiniteSet(Elems(q)) /\ Cardinality(Elems(q)) = Len(q)
<1>0. Len(q) \in Nat /\ q \in [1..Len(q) -> S]
  OBVIOUS
<1>1. q \in Surjection(1..Len(q), Elems(q))
  BY <1>0 DEF Surjection, Elems
<1>2. q \in Injection(1..Len(q), Elems(q))
  BY <1>0 DEF Injection, IsInjective, Elems, NoRepeats
<1>3. ExistsBijection(1..Len(q), Elems(q))
  BY <1>1, <1>2 DEF Bijection, ExistsBijection
<1>4. IsFiniteSet(1..Len(q)) /\ Cardinality(1..Len(q)) = Len(q)
  BY <1>0, FS_Interval
<1> QED BY <1>3, <1>4, FS_Bijection

LEMMA ToSetElems ==
  ASSUME NEW S, NEW q \in Seq(S)
  PROVE  ToSet(q) = Elems(q)
  BY DEF ToSet, Elems

-----------------------------------------------------------------------------
(* Items in order: how many come before an item is a numbering of them.    *)
LEMMA ItemsFinite ==
  /\ ItemCount \in Nat /\ StageCount \in Nat /\ StageCount >= 1
  /\ Items \subseteq Nat /\ IsFiniteSet(Items) /\ Cardinality(Items) = ItemCount
<1>1. ItemCount \in Nat /\ StageCount \in Nat /\ StageCount >= 1
  BY PipelineAssumption
<1> QED BY <1>1, FS_Interval DEF Items

LEMMA SubsetFinite ==
  ASSUME NEW T \in SUBSET Items
  PROVE  IsFiniteSet(T) /\ Cardinality(T) \in Nat /\ Cardinality(T) <= ItemCount
BY ItemsFinite, FS_Subset, FS_CardinalityType

LEMMA BeforeType ==
  ASSUME NEW T \in SUBSET Items, NEW i \in T
  PROVE  Before(T, i) \in 0..Cardinality(T) - 1
<1> DEFINE B == {j \in T : j < i}
<1>0. \A j \in T : j \in Nat /\ (j < i => j # i)
  BY ItemsFinite
<1>1. B \subseteq T \ {i} /\ T \ {i} \subseteq Items /\ B \subseteq Items
  BY <1>0
<1>2. IsFiniteSet(T) /\ Cardinality(T) \in Nat /\ Cardinality(T \ {i}) = Cardinality(T) - 1
  BY SubsetFinite, FS_RemoveElement
<1>3. Cardinality(B) <= Cardinality(T \ {i}) /\ Cardinality(B) \in Nat
  BY <1>1, SubsetFinite, FS_Subset
<1>4. Before(T, i) = Cardinality(B)
  BY DEF Before
<1> QED BY <1>2, <1>3, <1>4

LEMMA BeforeMonotonic ==
  ASSUME NEW T \in SUBSET Items, NEW i \in T, NEW j \in T, i < j
  PROVE  Before(T, i) < Before(T, j)
<1> DEFINE B == {k \in T : k < i}
           C == {k \in T : k < j}
<1>0. \A k \in T : k \in Nat /\ (k < i => k < j /\ k # i)
  BY ItemsFinite
<1>1. B \subseteq C \ {i} /\ i \in C /\ C \subseteq Items /\ C \ {i} \subseteq Items
  BY <1>0
<1>2. IsFiniteSet(C) /\ Cardinality(C) \in Nat /\ Cardinality(C \ {i}) = Cardinality(C) - 1
  BY <1>1, SubsetFinite, FS_RemoveElement
<1>3. Cardinality(B) <= Cardinality(C \ {i}) /\ Cardinality(B) \in Nat
  BY <1>1, SubsetFinite, FS_Subset
<1>4. Before(T, i) = Cardinality(B) /\ Before(T, j) = Cardinality(C)
  BY DEF Before
<1> QED BY <1>2, <1>3, <1>4

LEMMA BeforeInjective ==
  ASSUME NEW T \in SUBSET Items, NEW i \in T, NEW j \in T, Before(T, i) = Before(T, j)
  PROVE  i = j
<1>1. Before(T, i) \in Nat /\ i \in Nat /\ j \in Nat
  BY SMTT(30), BeforeType, SubsetFinite, ItemsFinite
<1>2. ~(i < j) /\ ~(j < i)
  BY <1>1, BeforeMonotonic
<1> QED BY <1>1, <1>2

LEMMA BeforeOnto ==
  ASSUME NEW T \in SUBSET Items, NEW k \in 0..Cardinality(T) - 1
  PROVE  \E i \in T : Before(T, i) = k
<1> DEFINE n == Cardinality(T)
           f == [i \in T |-> Before(T, i) + 1]
           R == {f[i] : i \in T}
<1>1. n \in Nat /\ IsFiniteSet(T)
  BY SubsetFinite
<1>2. \A i \in T : f[i] \in 1..n
  <2> TAKE i \in T
  <2>1. Before(T, i) \in 0..n - 1
    BY BeforeType
  <2> QED BY <1>1, <2>1
<1>3. R \subseteq 1..n
  BY <1>2
<1>4. f \in Surjection(T, R)
  BY DEF Surjection
<1>5. \A i, j \in T : f[i] = f[j] => i = j
  <2> TAKE i, j \in T
  <2>1. Before(T, i) \in Nat /\ Before(T, j) \in Nat
    BY <1>1, BeforeType
  <2> QED BY <2>1, BeforeInjective
<1>6. f \in Injection(T, R)
  BY <1>5 DEF Injection, IsInjective
<1>7. ExistsBijection(T, R)
  BY <1>4, <1>6 DEF Bijection, ExistsBijection
<1>8. Cardinality(R) = n
  BY <1>1, <1>7, FS_Bijection
<1>9. IsFiniteSet(1..n) /\ Cardinality(1..n) = n
  BY <1>1, FS_Interval
<1>10. R = 1..n
  BY <1>3, <1>8, <1>9, FS_Subset
<1>11. k + 1 \in R
  BY <1>1, <1>10
<1>12. PICK i \in T : f[i] = k + 1
  BY <1>11
<1>13. Before(T, i) \in Nat /\ Before(T, i) + 1 = k + 1
  BY <1>1, <1>12, BeforeType
<1> QED BY <1>1, <1>13

(* InOrder(items) is the items, each once.                                 *)
LEMMA InOrderElems ==
  ASSUME NEW T \in SUBSET Items
  PROVE  /\ InOrder(T) \in Seq(T) /\ InOrder(T) \in Seq(Items)
         /\ Len(InOrder(T)) = Cardinality(T)
         /\ Elems(InOrder(T)) = T /\ NoRepeats(InOrder(T))
<1> DEFINE n == Cardinality(T)
           At(k) == CHOOSE i \in T : Before(T, i) = k - 1
           q == InOrder(T)
<1>1. n \in Nat
  BY SubsetFinite
<1>2. q = [k \in 1..n |-> At(k)]
  BY DEF InOrder
<1>3. \A k \in 1..n : q[k] \in T /\ Before(T, q[k]) = k - 1
  <2> TAKE k \in 1..n
  <2>1. k - 1 \in 0..n - 1
    BY <1>1
  <2>2. \E i \in T : Before(T, i) = k - 1
    BY <2>1, BeforeOnto
  <2> QED BY <1>2, <2>2
<1> HIDE DEF q
<1>4. q \in [1..n -> T]
  BY <1>2, <1>3
<1>5. q \in Seq(T) /\ Len(q) = n
  BY <1>1, <1>4
<1>6. ASSUME NEW i \in T PROVE i \in Elems(q)
  <2> DEFINE k == Before(T, i) + 1
  <2>1. Before(T, i) \in 0..n - 1
    BY BeforeType
  <2>2. k \in 1..n /\ k - 1 = Before(T, i)
    BY <1>1, <2>1
  <2>3. q[k] \in T /\ Before(T, q[k]) = Before(T, i)
    BY <1>3, <2>2
  <2>4. q[k] = i
    BY <2>3, BeforeInjective
  <2> QED BY <1>5, <2>2, <2>4 DEF Elems
<1>7. Elems(q) = T
  BY <1>5, <1>6, <1>3 DEF Elems
<1>8. NoRepeats(q)
  <2> SUFFICES ASSUME NEW k \in 1..n, NEW m \in 1..n, q[k] = q[m] PROVE k = m
    BY <1>5 DEF NoRepeats
  <2>1. k - 1 = m - 1
    BY <1>3
  <2> QED BY <1>1, <2>1
<1> QED BY <1>5, <1>7, <1>8 DEF q

LEMMA InOrderItems ==
  ASSUME NEW i \in Items
  PROVE  InOrder(Items)[i] = i
<1>1. Before(Items, i) = i - 1
  <2>0. ItemCount \in Nat /\ i \in 1..ItemCount
    BY ItemsFinite DEF Items
  <2>1. {j \in Items : j < i} = 1..(i - 1)
    BY <2>0 DEF Items
  <2>2. i - 1 \in Nat
    BY <2>0
  <2>3. Cardinality(1..(i - 1)) = i - 1
    BY <2>2, FS_Interval
  <2> QED BY <2>1, <2>3 DEF Before
<1>2. InOrder(Items)[i] = CHOOSE j \in Items : Before(Items, j) = i - 1
  BY ItemsFinite DEF InOrder, Items
<1>3. \A j \in Items : Before(Items, j) = i - 1 => j = i
  BY <1>1, BeforeInjective
<1> QED BY <1>1, <1>2, <1>3

(* The first n of the items, of which there are n unless they are all.     *)
LEMMA FirstItems ==
  ASSUME NEW T \in SUBSET Items, NEW n \in Nat
  PROVE  LET first == {i \in T : Before(T, i) < n} IN
         /\ Cardinality(first) \in Nat /\ Cardinality(first) <= n
         /\ T \ first # {} => Cardinality(first) = n
<1> DEFINE first == {i \in T : Before(T, i) < n}
           f == [i \in first |-> Before(T, i) + 1]
           R == {f[i] : i \in first}
<1>1. first \subseteq T /\ first \subseteq Items
  OBVIOUS
<1>2. IsFiniteSet(first) /\ Cardinality(first) \in Nat /\ Cardinality(T) \in Nat
  BY <1>1, SubsetFinite
<1>3. \A i \in T : Before(T, i) \in 0..Cardinality(T) - 1
  BY BeforeType
<1>4. R \subseteq 1..n
  <2> SUFFICES ASSUME NEW i \in first PROVE Before(T, i) + 1 \in 1..n
    OBVIOUS
  <2> QED BY <1>2, <1>3
<1>5. f \in Surjection(first, R)
  BY DEF Surjection
<1>6. \A i, j \in first : f[i] = f[j] => i = j
  <2> TAKE i, j \in first
  <2>1. Before(T, i) \in Nat /\ Before(T, j) \in Nat
    BY <1>2, <1>3
  <2> QED BY <2>1, BeforeInjective
<1>7. f \in Injection(first, R)
  BY <1>6 DEF Injection, IsInjective
<1>8. ExistsBijection(first, R)
  BY <1>5, <1>7 DEF Bijection, ExistsBijection
<1>9. Cardinality(R) = Cardinality(first)
  BY <1>2, <1>8, FS_Bijection
<1>10. IsFiniteSet(1..n) /\ Cardinality(1..n) = n
  BY FS_Interval
<1>11. Cardinality(first) <= n
  BY <1>4, <1>9, <1>10, FS_Subset
<1>12. ASSUME T \ first # {} PROVE Cardinality(first) = n
  <2>1. PICK i \in T : ~(Before(T, i) < n)
    BY <1>12
  <2>2. n <= Cardinality(T) - 1
    BY <1>2, <1>3, <2>1
  <2>3. ASSUME NEW k \in 1..n PROVE k \in R
    <3>1. k - 1 \in 0..Cardinality(T) - 1
      BY <1>2, <2>2
    <3>2. PICK j \in T : Before(T, j) = k - 1
      BY <3>1, BeforeOnto
    <3>3. j \in first /\ f[j] = k
      BY <3>2
    <3> QED BY <3>3
  <2>4. R = 1..n
    BY <1>4, <2>3
  <2> QED BY <1>9, <1>10, <2>4
<1> QED BY <1>2, <1>11, <1>12

-----------------------------------------------------------------------------
(* createLimiter(): a limit is a number, and none of those given is less.  *)
LEMMA StrictestOf ==
  ASSUME NEW a \in Nat, NEW b \in Nat, NEW c \in Nat
  PROVE  LET limits == {a, b, c} \ {0} IN
         /\ Strictest(limits) \in Nat
         /\ \A n \in limits : Strictest(limits) <= n
<1> DEFINE limits == {a, b, c} \ {0}
<1>1. CASE limits = {}
  BY <1>1, ItemsFinite DEF Strictest
<1>2. CASE limits # {}
  <2>1. \E n \in limits : \A m \in limits : n <= m
    BY <1>2
  <2> HIDE DEF limits
  <2>2. Strictest(limits) = CHOOSE n \in limits : \A m \in limits : n <= m
    BY <1>2 DEF Strictest
  <2>3. /\ Strictest(limits) \in limits
        /\ \A m \in limits : Strictest(limits) <= m
    BY <2>1, <2>2
  <2>4. limits \subseteq Nat
    BY DEF limits
  <2> QED BY <2>3, <2>4 DEF limits
<1> QED BY <1>1, <1>2

LEMMA Limits ==
  /\ \A l \in Limiters : Limit(l) \in Nat
  /\ Concurrency # 0 => Limit(0) <= Concurrency
  /\ \A s \in Stages : \A n \in Given(s) : Limit(s) <= n
<1>1. Limit(0) \in Nat /\ (Concurrency # 0 => Limit(0) <= Concurrency)
  <2>1. Concurrency \in Nat
    BY PipelineAssumption
  <2>2. Limit(0) = Strictest({Concurrency, Concurrency, Concurrency} \ {0})
    BY DEF Limit
  <2> QED BY <2>1, <2>2, StrictestOf
<1>2. ASSUME NEW s \in Stages
      PROVE  Limit(s) \in Nat /\ \A n \in Given(s) : Limit(s) <= n
  <2>1. StageConcurrency[s] \in Nat /\ Concurrency \in Nat /\ StageOption[s] \in Nat
    BY PipelineAssumption
  <2>2. Limit(s) = Strictest(Given(s))
    BY DEF Limit, Stages
  <2> QED BY <2>1, <2>2, StrictestOf DEF Given
<1> QED BY <1>1, <1>2 DEF Limiters

-----------------------------------------------------------------------------
(* Who holds a slot of a limiter, and who waits for one.                   *)
UnderWay == {"granted", "atStage", "entering", "running", "saving", "concluding",
             "finishing"}
Working == {"entering", "running", "saving"}
Launched == {"atItem", "granted", "atStage", "entering", "running", "saving"}

Has(j, l) == IF l = 0 THEN pc[j] \in UnderWay ELSE pc[j] \in Working /\ Stage(j) = l
Awaits(j, l) == IF l = 0 THEN pc[j] = "atItem" ELSE pc[j] = "atStage" /\ Stage(j) = l

Holders(l) == {j \in Items : Has(j, l)}
Waiters(l) == {j \in Items : Awaits(j, l)}

(* ConcurrencyLimiter: the counter is exact and within the limit, and the  *)
(* queue holds whoever waits, once, and only while every slot is taken.    *)
SlotsExact(active_, queue_, holders, waiters, limit) ==
  /\ active_ = Cardinality(holders) /\ active_ <= limit
  /\ queue_ # <<>> => active_ = limit
  /\ Elems(queue_) = waiters /\ NoRepeats(queue_)

SlotsOK == \A l \in Limiters :
  SlotsExact(active[l], queue[l], Holders(l), Waiters(l), Limit(l))

-----------------------------------------------------------------------------
(* The inductive invariant.                                                *)
AllSucceeded(statuses) == \A n \in 1..Len(statuses) : statuses[n] = "succeeded"

Types ==
  /\ strategy \in Strategies
  /\ phase \in {"starting", "working", "collecting", "publishing", "returned", "thrown"}
  /\ parent \in {"none", "user", "timeout"}
  /\ signal \in {"none", "fail-fast", "user", "timeout"}
  /\ pc \in [Items -> {"ready", "atItem", "granted", "atStage", "entering", "running",
                       "saving", "concluding", "finishing", "done", "lost"}]
  /\ outcome \in [Items -> StageStatuses \cup {"none"}]
  /\ results \in [Items -> Seq(StageStatuses)]
  /\ status \in [Items -> ItemStatuses \cup {"active"}]
  /\ active \in [Limiters -> Nat]
  /\ queue \in [Limiters -> Seq(Items)]
  /\ order \in Seq(Items)
  /\ crashed \in BOOLEAN
  /\ verdict \in {"none", "succeeded", "failed", "cancelled"}
  /\ answer \in Seq(Items)

(* An item on its way has a stage to go and nothing but successes behind   *)
(* it; one that is through has a status for every stage, and its own is    *)
(* theirs.                                                                 *)
ItemOK(i) ==
  /\ Len(results[i]) <= StageCount
  /\ pc[i] \in Launched \cup {"concluding"} =>
       status[i] = "active" /\ Len(results[i]) < StageCount
  /\ pc[i] \in {"saving", "concluding"} => outcome[i] # "none"
  /\ pc[i] \in {"concluding", "finishing"} => Streaming
  /\ pc[i] \in {"finishing", "done"} =>
       status[i] # "active" /\ Len(results[i]) = StageCount
  /\ pc[i] = "lost" => crashed
  /\ WellFormed(results[i])
  /\ status[i] \in {"active", "succeeded"} => AllSucceeded(results[i])
  /\ status[i] = "succeeded" => Len(results[i]) = StageCount
  /\ status[i] \notin {"active", "succeeded"} =>
       Len(results[i]) < StageCount \/ ~AllSucceeded(results[i])

(* What follows from an abort, and what must have caused one.              *)
SignalOK(i) ==
  /\ signal # "none" => pc[i] # "running"
  /\ status[i] = "cancelled" \/ outcome[i] = "cancelled" => signal # "none"
  /\ FailFast /\ status[i] \in {"failed", "timed_out"} => signal # "none"

(* Stage by stage, the items that are still eligible keep abreast.         *)
Abreast(i, j) ==
  ~Streaming /\ status[i] = "active" /\ status[j] = "active" =>
    /\ pc[i] \in Launched /\ pc[j] \in Launched \cup {"lost"} =>
         Len(results[j]) = Len(results[i])
    /\ pc[i] \in Launched /\ pc[j] = "ready" => Len(results[j]) = Len(results[i]) + 1
    /\ pc[i] = "ready" /\ pc[j] = "ready" => Len(results[j]) = Len(results[i])

(* How far runPipeline() is, and how far the items are then.               *)
Promise ==
  /\ ToSet(answer) = Items /\ Len(answer) = ItemCount
  /\ PreserveOrder => \A i \in Items : answer[i] = i
  /\ verdict = "succeeded" => \A i \in Items : status[i] = "succeeded"
  /\ verdict = "failed" => \A i \in Items : status[i] # "cancelled"
  /\ verdict = "cancelled" => signal # "none"

PhaseOK ==
  /\ parent # "none" => signal # "none"
  /\ phase = "starting" =>
       /\ ~crashed
       /\ \A i \in Items : pc[i] = "ready" /\ status[i] = "active" /\ results[i] = <<>>
  /\ phase = "collecting" =>
       /\ ~Streaming
       /\ \A i \in Items : pc[i] \in {"ready", "done", "lost"}
       /\ \A i \in Items : status[i] = "active" => Len(results[i]) = StageCount
       /\ ~crashed =>
            \A i \in Items : pc[i] = IF i <= Len(order) THEN "done" ELSE "ready"
  /\ phase \in {"publishing", "returned"} /\ ~crashed =>
       Promise /\ \A i \in Items : pc[i] = "done"
  /\ phase = "returned" => ~crashed

OrderOK == NoRepeats(order) /\ Elems(order) = {i \in Items : pc[i] = "done"}

IInv ==
  /\ Types
  /\ SlotsOK
  /\ \A i \in Items : ItemOK(i)
  /\ \A i \in Items : SignalOK(i)
  /\ \A i, j \in Items : Abreast(i, j)
  /\ PhaseOK
  /\ OrderOK

-----------------------------------------------------------------------------
(* What happens to a limiter: a slot is taken, somebody joins the queue, a *)
(* slot is given back and passes to the head of the queue if there is one. *)
LEMMA SlotTaken ==
  ASSUME NEW a, NEW q, NEW H \in SUBSET Items, NEW W, NEW n \in Nat, NEW i \in Items,
         SlotsExact(a, q, H, W, n), a < n, i \notin H
  PROVE  SlotsExact(a + 1, q, H \cup {i}, W, n)
<1>1. IsFiniteSet(H) /\ Cardinality(H) \in Nat /\ Cardinality(H \cup {i}) = Cardinality(H) + 1
  BY SubsetFinite, FS_AddElement
<1>2. q = <<>>
  BY <1>1 DEF SlotsExact
<1> QED BY <1>1, <1>2 DEF SlotsExact

LEMMA QueueJoined ==
  ASSUME NEW a, NEW q \in Seq(Items), NEW H \in SUBSET Items, NEW W, NEW n \in Nat,
         NEW i \in Items, SlotsExact(a, q, H, W, n), ~(a < n), i \notin W
  PROVE  SlotsExact(a, Append(q, i), H, W \cup {i}, n)
<1>1. Cardinality(H) \in Nat /\ a = n
  BY SubsetFinite DEF SlotsExact
<1> QED BY <1>1, AppendElems DEF SlotsExact

LEMMA SlotFreed ==
  ASSUME NEW a, NEW H \in SUBSET Items, NEW W, NEW n \in Nat, NEW i \in H,
         SlotsExact(a, <<>>, H, W, n)
  PROVE  a - 1 \in Nat /\ SlotsExact(a - 1, <<>>, H \ {i}, W, n)
<1>1. IsFiniteSet(H) /\ Cardinality(H) \in Nat /\ Cardinality(H \ {i}) = Cardinality(H) - 1
  BY SubsetFinite, FS_RemoveElement
<1>2. Cardinality(H \ {i}) \in Nat
  BY SubsetFinite
<1> QED BY <1>1, <1>2 DEF SlotsExact

LEMMA SlotPassed ==
  ASSUME NEW a, NEW q \in Seq(Items), q # <<>>, NEW H \in SUBSET Items, NEW W,
         NEW n \in Nat, NEW i \in H, SlotsExact(a, q, H, W, n), W \cap H = {}
  PROVE  /\ q[1] \in W /\ Tail(q) \in Seq(Items)
         /\ SlotsExact(a, Tail(q), (H \ {i}) \cup {q[1]}, W \ {q[1]}, n)
<1> DEFINE h == q[1]
<1>1. /\ h \in Items /\ h \in W /\ Tail(q) \in Seq(Items)
      /\ Elems(Tail(q)) = W \ {h} /\ NoRepeats(Tail(q))
  <2>1. Head(q) = h
    OBVIOUS
  <2> QED BY <2>1, TailElems DEF SlotsExact
<1>2. IsFiniteSet(H) /\ Cardinality(H) \in Nat /\ Cardinality(H \ {i}) = Cardinality(H) - 1
  BY SubsetFinite, FS_RemoveElement
<1>3. h \notin H \ {i} /\ IsFiniteSet(H \ {i})
  BY <1>1, SubsetFinite
<1>4. Cardinality((H \ {i}) \cup {h}) = Cardinality(H \ {i}) + 1
  BY <1>3, FS_AddElement
<1>5. a = Cardinality((H \ {i}) \cup {h}) /\ a = n
  BY <1>2, <1>4 DEF SlotsExact
<1> QED BY <1>1, <1>5 DEF SlotsExact

-----------------------------------------------------------------------------
(* The stages of an item.                                                  *)
LEMMA AppendStatus ==
  ASSUME NEW r \in Seq(StageStatuses), NEW x \in StageStatuses, AllSucceeded(r)
  PROVE  /\ Append(r, x) \in Seq(StageStatuses) /\ Len(Append(r, x)) = Len(r) + 1
         /\ WellFormed(Append(r, x))
         /\ AllSucceeded(Append(r, x)) <=> x = "succeeded"
<1> DEFINE t == Append(r, x)
           m == Len(r)
<1>1. /\ m \in Nat /\ t \in Seq(StageStatuses) /\ Len(t) = m + 1
      /\ \A n \in 1..m : t[n] = r[n]
      /\ t[m + 1] = x
  OBVIOUS
<1> HIDE DEF t
<1>2. \A n \in 1..m : t[n] = "succeeded"
  BY <1>1 DEF AllSucceeded
<1>3. AllSucceeded(t) <=> x = "succeeded"
  <2>1. ASSUME x = "succeeded", NEW n \in 1..Len(t) PROVE t[n] = "succeeded"
    <3>1. n \in 1..m \/ n = m + 1
      BY <1>1
    <3> QED BY <1>1, <1>2, <2>1, <3>1
  <2>2. m + 1 \in 1..Len(t)
    BY <1>1
  <2> QED BY <1>1, <2>1, <2>2 DEF AllSucceeded
<1>4. WellFormed(t)
  <2>1. CASE x = "succeeded"
    <3>1. Len(t) \in 0..Len(t) /\ \A n \in 1..Len(t) : t[n] = "succeeded"
      BY <1>1, <1>3, <2>1 DEF AllSucceeded
    <3>2. ~(Len(t) < Len(t)) /\ Len(t)+2..Len(t) = {}
      BY <1>1
    <3> QED BY <3>1, <3>2 DEF WellFormed
  <2>2. CASE x # "succeeded"
    <3>1. m \in 0..Len(t) /\ m+2..Len(t) = {}
      BY <1>1
    <3> QED BY <1>1, <1>2, <2>2, <3>1 DEF WellFormed
  <2> QED BY <2>1, <2>2
<1> QED BY <1>1, <1>3, <1>4 DEF t

LEMMA SkipRest ==
  ASSUME NEW r \in Seq(StageStatuses), WellFormed(r), NEW d \in Nat
  PROVE  LET t == r \o Skipped(d) IN
         /\ t \in Seq(StageStatuses) /\ Len(t) = Len(r) + d
         /\ WellFormed(t)
         /\ AllSucceeded(t) <=> AllSucceeded(r) /\ d = 0
<1> DEFINE t == r \o Skipped(d)
           m == Len(r)
<1>0. Skipped(d) \in Seq(StageStatuses) /\ Len(Skipped(d)) = d
  BY DEF Skipped, StageStatuses
<1>1. /\ m \in Nat /\ t \in Seq(StageStatuses) /\ Len(t) = m + d
      /\ \A n \in 1..m : t[n] = r[n]
      /\ \A n \in m+1..m+d : t[n] = Skipped(d)[n - m]
  BY <1>0
<1>2. \A n \in m+1..m+d : t[n] = "skipped"
  <2> TAKE n \in m+1..m+d
  <2>1. n - m \in 1..d
    BY <1>1
  <2>2. Skipped(d)[n - m] = "skipped"
    BY <2>1 DEF Skipped
  <2> QED BY <1>1, <2>2
<1> HIDE DEF t
<1>3. WellFormed(t)
  <2>1. PICK k \in 0..m : /\ \A n \in 1..k : r[n] = "succeeded"
                          /\ k < m => r[k + 1] # "succeeded"
                          /\ \A n \in k+2..m : r[n] = "skipped"
    BY DEF WellFormed
  <2>2. k \in 0..Len(t)
    BY <1>1
  <2>3. \A n \in 1..k : t[n] = "succeeded"
    BY <1>1, <2>1
  <2>4. ASSUME k < Len(t) PROVE t[k + 1] # "succeeded"
    <3>1. CASE k < m
      BY <1>1, <2>1, <3>1
    <3>2. CASE k = m
      BY <1>1, <1>2, <2>4, <3>2
    <3> QED BY <1>1, <2>1, <3>1, <3>2
  <2>5. ASSUME NEW n \in k+2..Len(t) PROVE t[n] = "skipped"
    <3>1. n \in k+2..m \/ n \in m+1..m+d
      BY <1>1
    <3>2. n \in k+2..m => n \in 1..m
      BY <1>1
    <3> QED BY <1>1, <1>2, <2>1, <3>1, <3>2
  <2> QED BY <2>2, <2>3, <2>4, <2>5 DEF WellFormed
<1>4. AllSucceeded(t) => AllSucceeded(r) /\ d = 0
  <2> SUFFICES ASSUME AllSucceeded(t) PROVE AllSucceeded(r) /\ d = 0
    OBVIOUS
  <2>1. \A n \in 1..m : n \in 1..Len(t)
    BY <1>1
  <2>2. AllSucceeded(r)
    BY <1>1, <2>1 DEF AllSucceeded
  <2>3. d # 0 => m + 1 \in m+1..m+d /\ m + 1 \in 1..Len(t)
    BY <1>1
  <2>4. d = 0
    BY <1>2, <2>3 DEF AllSucceeded
  <2> QED BY <2>2, <2>4
<1>5. AllSucceeded(r) /\ d = 0 => AllSucceeded(t)
  BY <1>1 DEF AllSucceeded
<1> QED BY <1>1, <1>3, <1>4, <1>5 DEF t

LEMMA NothingDone == AllSucceeded(<<>>) /\ WellFormed(<<>>) /\ Len(<<>>) = 0
  BY DEF AllSucceeded, WellFormed

-----------------------------------------------------------------------------
(* The limiters while nobody comes and goes, and while somebody gives back *)
(* slots.                                                                  *)
LEMMA HoldersAreItems ==
  ASSUME NEW l \in Limiters
  PROVE  /\ Holders(l) \in SUBSET Items /\ Waiters(l) \in SUBSET Items
         /\ Waiters(l) \cap Holders(l) = {}
BY DEF Holders, Waiters, Has, Awaits, UnderWay, Working

LEMMA SameSlots ==
  ASSUME SlotsOK, active' = active, queue' = queue,
         \A j \in Items : \A l \in Limiters :
           (Has(j, l)' <=> Has(j, l)) /\ (Awaits(j, l)' <=> Awaits(j, l))
  PROVE  SlotsOK'
<1>1. ASSUME NEW l \in Limiters PROVE Holders(l)' = Holders(l) /\ Waiters(l)' = Waiters(l)
  BY DEF Holders, Waiters
<1> QED BY <1>1 DEF SlotsOK

(* The pc of an item that has a slot given to it or is given up.           *)
Drifts(j) ==
  \/ pc'[j] = pc[j]
  \/ pc[j] = "running" /\ pc'[j] = "saving"
  \/ pc[j] = "atItem" /\ pc'[j] = "granted"
  \/ pc[j] = "atStage" /\ pc'[j] = "entering"

LEMMA HeirWaits ==
  ASSUME Types, SlotsOK, NEW l \in Limiters, queue[l] # <<>>
  PROVE  queue[l][1] \in Items /\ Awaits(queue[l][1], l)
<1>1. queue[l] \in Seq(Items)
  BY DEF Types
<1>2. queue[l][1] \in Elems(queue[l])
  BY <1>1 DEF Elems
<1>3. queue[l][1] \in Waiters(l)
  BY <1>2 DEF SlotsOK, SlotsExact
<1> QED BY <1>3 DEF Waiters

(* An item gives back slots that it has, and the counters stay exact.      *)
GivesBack(i, released, after) ==
  /\ \A l \in released : Has(i, l)
  /\ pc[i] \notin {"atItem", "atStage"}
  /\ after[i] \notin {"atItem", "atStage"}
  /\ \A l \in Limiters :
       (IF l = 0 THEN after[i] \in UnderWay
        ELSE after[i] \in Working /\ Len(results'[i]) + 1 = l)
       <=> Has(i, l) /\ l \notin released
  /\ \A j \in Items \ {i} :
       /\ results'[j] = results[j]
       /\ after[j] = pc[j] \/ (pc[j] = "running" /\ after[j] = "saving")

LEMMA ReleaseSlots ==
  ASSUME Types, SlotsOK, NEW i \in Items, NEW released \in SUBSET Limiters, NEW after,
         Release(released, after), GivesBack(i, released, after)
  PROVE  /\ SlotsOK'
         /\ active' \in [Limiters -> Nat] /\ queue' \in [Limiters -> Seq(Items)]
         /\ pc'[i] = after[i]
         /\ \A j \in Items \ {i} : Drifts(j) /\ (pc[j] = "running" => pc'[j] = after[j])
<1> USE DEF GivesBack
<1> DEFINE Heir(j, l) == l \in released /\ queue[l] # <<>> /\ j = queue[l][1]
<1>1. \A j \in Items : \A l \in Limiters : Heir(j, l) => Awaits(j, l) /\ j # i
  BY HeirWaits DEF Awaits
<1>2. pc' = [j \in Items |-> IF j \in Heirs(released) THEN Promoted(pc[j]) ELSE after[j]]
  BY DEF Release
<1>3. \A j \in Items : j \in Heirs(released) <=> \E l \in Limiters : Heir(j, l)
  BY DEF Heirs
<1>4. i \notin Heirs(released) /\ pc'[i] = after[i]
  BY <1>1, <1>2, <1>3
<1>5. ASSUME NEW j \in Items, NEW m \in Limiters, Heir(j, m)
      PROVE  /\ j # i /\ results'[j] = results[j]
             /\ m = 0 => pc[j] = "atItem" /\ pc'[j] = "granted"
             /\ m # 0 => pc[j] = "atStage" /\ pc'[j] = "entering" /\ Stage(j) = m
  <2>1. j # i /\ Awaits(j, m) /\ j \in Heirs(released)
    BY <1>1, <1>3, <1>5
  <2>2. pc'[j] = Promoted(pc[j])
    BY <1>2, <2>1
  <2> QED BY <2>1, <2>2 DEF Awaits, Promoted
<1>6. ASSUME NEW j \in Items, j \notin Heirs(released), j # i
      PROVE  /\ results'[j] = results[j]
             /\ pc'[j] = pc[j] \/ (pc[j] = "running" /\ pc'[j] = "saving")
  BY <1>2, <1>6
<1>7. ASSUME NEW j \in Items, NEW l \in Limiters
      PROVE  /\ Has(j, l)' <=> (Has(j, l) /\ ~(j = i /\ l \in released)) \/ Heir(j, l)
             /\ Awaits(j, l)' <=> Awaits(j, l) /\ ~Heir(j, l)
  <2>1. CASE j = i
    <3>1. ~Heir(j, l)
      BY <1>1, <2>1
    <3>2. ~Awaits(j, l) /\ ~Awaits(j, l)'
      BY <1>4, <2>1 DEF Awaits
    <3>3. Has(j, l)' <=> Has(i, l) /\ l \notin released
      BY <1>4, <2>1 DEF Has, Stage
    <3> QED BY <2>1, <3>1, <3>2, <3>3
  <2>2. CASE j # i /\ j \in Heirs(released)
    <3>1. PICK m \in Limiters : Heir(j, m)
      BY <1>3, <2>2
    <3>2. /\ results'[j] = results[j]
          /\ m = 0 => pc[j] = "atItem" /\ pc'[j] = "granted"
          /\ m # 0 => pc[j] = "atStage" /\ pc'[j] = "entering" /\ Stage(j) = m
      BY <1>5, <3>1
    <3>3. Stage(j)' = Stage(j)
      BY <3>2 DEF Stage
    <3>4. Heir(j, l) <=> l = m
      BY <1>1, <3>1, <3>2 DEF Awaits
    <3>5. Has(j, l)' <=> Has(j, l) \/ l = m
      BY <3>2, <3>3 DEF Has, UnderWay, Working
    <3>6. Awaits(j, l)' <=> Awaits(j, l) /\ l # m
      BY <3>2, <3>3 DEF Awaits
    <3> QED BY <2>2, <3>4, <3>5, <3>6
  <2>3. CASE j # i /\ j \notin Heirs(released)
    <3>1. ~Heir(j, l)
      BY <1>3, <2>3
    <3>2. Stage(j)' = Stage(j)
      BY <1>6, <2>3 DEF Stage
    <3>3. Has(j, l)' <=> Has(j, l)
      BY <1>6, <2>3, <3>2 DEF Has, UnderWay, Working
    <3>4. Awaits(j, l)' <=> Awaits(j, l)
      BY <1>6, <2>3, <3>2 DEF Awaits
    <3> QED BY <2>3, <3>1, <3>3, <3>4
  <2> QED BY <2>1, <2>2, <2>3
<1>8. ASSUME NEW l \in Limiters
      PROVE  /\ active'[l] \in Nat /\ queue'[l] \in Seq(Items)
             /\ SlotsExact(active'[l], queue'[l], Holders(l)', Waiters(l)', Limit(l))
  <2> DEFINE H == Holders(l)
             W == Waiters(l)
             q == queue[l]
  <2>1. /\ H \in SUBSET Items /\ W \cap H = {} /\ q \in Seq(Items) /\ active[l] \in Nat
        /\ Limit(l) \in Nat
    BY HoldersAreItems, Limits DEF Types
  <2>2. SlotsExact(active[l], q, H, W, Limit(l))
    BY DEF SlotsOK
  <2>3. /\ active'[l] = IF l \in released /\ q = <<>> THEN active[l] - 1 ELSE active[l]
        /\ queue'[l] = IF l \in released /\ q # <<>> THEN Tail(q) ELSE q
    BY DEF Release
  <2>4. /\ Holders(l)' = {j \in Items : (j \in H /\ ~(j = i /\ l \in released)) \/ Heir(j, l)}
        /\ Waiters(l)' = {j \in Items : j \in W /\ ~Heir(j, l)}
    BY <1>7 DEF Holders, Waiters
  <2> HIDE DEF H, W, q
  <2>5. CASE l \notin released
    <3>1. Holders(l)' = H /\ Waiters(l)' = W
      BY <2>1, <2>4, <2>5, HoldersAreItems DEF W
    <3> QED BY <2>1, <2>2, <2>3, <2>5, <3>1
  <2>6. CASE l \in released /\ q = <<>>
    <3>1. Holders(l)' = H \ {i} /\ Waiters(l)' = W
      BY <2>1, <2>4, <2>6, HoldersAreItems DEF W, q
    <3>2. i \in H
      BY <2>6 DEF H, Holders
    <3>3. active[l] - 1 \in Nat /\ SlotsExact(active[l] - 1, <<>>, H \ {i}, W, Limit(l))
      BY <2>1, <2>2, <2>6, <3>2, SlotFreed
    <3> QED BY <2>1, <2>3, <2>6, <3>1, <3>3
  <2>7. CASE l \in released /\ q # <<>>
    <3>1. q[1] \in Items
      BY <2>7, HeirWaits DEF q
    <3>2. Holders(l)' = (H \ {i}) \cup {q[1]} /\ Waiters(l)' = W \ {q[1]}
      BY <2>1, <2>4, <2>7, <3>1, HoldersAreItems DEF W, q
    <3>3. i \in H
      BY <2>7 DEF H, Holders
    <3>4. /\ Tail(q) \in Seq(Items)
          /\ SlotsExact(active[l], Tail(q), (H \ {i}) \cup {q[1]}, W \ {q[1]}, Limit(l))
      BY <2>1, <2>2, <2>7, <3>3, SlotPassed
    <3> QED BY <2>1, <2>3, <2>7, <3>2, <3>4
  <2> QED BY <2>5, <2>6, <2>7
<1>9. SlotsOK'
  BY <1>8 DEF SlotsOK
<1>10. active' \in [Limiters -> Nat] /\ queue' \in [Limiters -> Seq(Items)]
  <2>1. active' = [l \in Limiters |-> active'[l]] /\ queue' = [l \in Limiters |-> queue'[l]]
    BY DEF Release
  <2> QED BY <1>8, <2>1
<1>11. ASSUME NEW j \in Items \ {i}
      PROVE  Drifts(j) /\ (pc[j] = "running" => pc'[j] = after[j])
  <2>1. CASE j \in Heirs(released)
    <3>1. PICK m \in Limiters : Heir(j, m)
      BY <1>3, <2>1
    <3> QED BY <1>5, <3>1 DEF Drifts
  <2>2. CASE j \notin Heirs(released)
    BY <1>2, <1>6, <2>2 DEF Drifts
  <2> QED BY <2>1, <2>2
<1> QED BY <1>4, <1>9, <1>10, <1>11

Positions == {"ready", "atItem", "granted", "atStage", "entering", "running", "saving",
              "concluding", "finishing", "done", "lost"}

LEMMA ReleasedPcs ==
  ASSUME Types, NEW i \in Items, NEW released, NEW after, Release(released, after),
         pc'[i] \in Positions,
         \A j \in Items \ {i} : Drifts(j)
  PROVE  pc' \in [Items -> Positions]
<1>1. pc' = [j \in Items |-> pc'[j]]
  BY DEF Release
<1>2. \A j \in Items : pc'[j] \in Positions
  <2> TAKE j \in Items
  <2>1. CASE j # i
    BY <2>1 DEF Drifts, Positions, Types
  <2> QED BY <2>1
<1> QED BY <1>1, <1>2

-----------------------------------------------------------------------------
(* A step of one item, and what it does to the others: nothing but that    *)
(* slots may be given to them and that they may be given up.               *)
Bystander(j) ==
  /\ results'[j] = results[j] /\ status'[j] = status[j]
  /\ Drifts(j)
  /\ pc'[j] = "saving" => outcome'[j] = outcome[j] \/ outcome'[j] # "none"
  /\ pc[j] = "running" /\ pc'[j] = "saving" => outcome'[j] # "none"
  /\ pc'[j] = "concluding" => outcome'[j] = outcome[j]
  /\ outcome'[j] # outcome[j] => signal' # "none"
  /\ signal = "none" /\ signal' # "none" => pc'[j] # "running"

SameCourse ==
  /\ strategy' = strategy /\ phase' = phase /\ parent' = parent /\ order' = order
  /\ crashed => crashed'
  /\ signal # "none" => signal' # "none"
  /\ UNCHANGED <<verdict, answer>>

LEMMA BystanderOK ==
  ASSUME Types, NEW j \in Items, ItemOK(j), SignalOK(j), Bystander(j),
         strategy' = strategy, crashed => crashed', signal # "none" => signal' # "none"
  PROVE  ItemOK(j)' /\ SignalOK(j)'
<1>1. /\ pc'[j] \in Launched \cup {"concluding"} => pc[j] \in Launched \cup {"concluding"}
      /\ pc'[j] \in {"concluding", "finishing", "done", "lost"} => pc'[j] = pc[j]
  BY DEF Bystander, Drifts, Launched
<1>2. pc'[j] \in {"saving", "concluding"} => outcome'[j] # "none"
  BY DEF Bystander, Drifts, ItemOK
<1>3. ItemOK(j)'
  BY <1>1, <1>2 DEF Bystander, ItemOK, Streaming, AllSucceeded, WellFormed
<1>4. SignalOK(j)'
  BY DEF Bystander, Drifts, SignalOK
<1> QED BY <1>3, <1>4

LEMMA BystandersAbreast ==
  ASSUME NEW i \in Items, NEW j \in Items, Abreast(i, j), strategy' = strategy,
         Bystander(i), Bystander(j)
  PROVE  Abreast(i, j)'
<1>1. /\ pc'[i] \in Launched <=> pc[i] \in Launched
      /\ pc'[i] = "ready" <=> pc[i] = "ready"
      /\ pc'[i] = "lost" <=> pc[i] = "lost"
  BY DEF Bystander, Drifts, Launched
<1>2. /\ pc'[j] \in Launched <=> pc[j] \in Launched
      /\ pc'[j] = "ready" <=> pc[j] = "ready"
      /\ pc'[j] = "lost" <=> pc[j] = "lost"
  BY DEF Bystander, Drifts, Launched
<1>3. /\ results'[i] = results[i] /\ status'[i] = status[i]
      /\ results'[j] = results[j] /\ status'[j] = status[j]
  BY DEF Bystander
<1> QED BY <1>1, <1>2, <1>3 DEF Abreast, Streaming

LEMMA BusyPhase ==
  ASSUME PhaseOK, NEW i \in Items, pc[i] \notin {"ready", "done", "lost"}, SameCourse
  PROVE  PhaseOK'
<1>1. phase \notin {"starting", "collecting"}
  BY DEF PhaseOK
<1>2. phase \in {"publishing", "returned"} => crashed
  BY DEF PhaseOK
<1> QED BY <1>1, <1>2 DEF PhaseOK, SameCourse

LEMMA SameOrder ==
  ASSUME OrderOK, order' = order, \A j \in Items : pc'[j] = "done" <=> pc[j] = "done"
  PROVE  OrderOK'
BY DEF OrderOK

LEMMA ItemStep ==
  ASSUME IInv, NEW i \in Items, pc[i] \notin {"ready", "done", "lost"}, pc'[i] # "done",
         SameCourse, \A j \in Items \ {i} : Bystander(j),
         Types', SlotsOK', ItemOK(i)', SignalOK(i)',
         \A j \in Items : Abreast(i, j)' /\ Abreast(j, i)'
  PROVE  IInv'
<1>1. \A j \in Items : ItemOK(j)' /\ SignalOK(j)'
  <2> TAKE j \in Items
  <2>1. CASE j = i
    BY <2>1
  <2>2. CASE j # i
    BY <2>2, BystanderOK DEF IInv, SameCourse
  <2> QED BY <2>1, <2>2
<1>2. \A j, k \in Items : Abreast(j, k)'
  <2> TAKE j, k \in Items
  <2>1. CASE j # i /\ k # i
    BY <2>1, BystandersAbreast DEF IInv, SameCourse
  <2> QED BY <2>1
<1>3. PhaseOK'
  BY BusyPhase DEF IInv
<1>4. OrderOK'
  <2>1. \A j \in Items : pc'[j] = "done" <=> pc[j] = "done"
    BY DEF Bystander, Drifts
  <2> QED BY <2>1, SameOrder DEF IInv, SameCourse
<1> QED BY <1>1, <1>2, <1>3, <1>4 DEF IInv

(* When the item has not moved on to another stage, it has kept abreast.   *)
LEMMA SteadyStep ==
  ASSUME IInv, NEW i \in Items, pc[i] \in Launched, pc'[i] \in Launched,
         results' = results, status' = status,
         SameCourse, \A j \in Items \ {i} : Bystander(j),
         Types', SlotsOK', ItemOK(i)', SignalOK(i)'
  PROVE  IInv'
<1>1. ASSUME NEW j \in Items PROVE Abreast(i, j)' /\ Abreast(j, i)'
  <2>1. Abreast(i, j) /\ Abreast(j, i) /\ strategy' = strategy
    BY DEF IInv, SameCourse
  <2>2. /\ pc'[j] \in Launched <=> pc[j] \in Launched
        /\ pc'[j] = "ready" <=> pc[j] = "ready"
        /\ pc'[j] = "lost" <=> pc[j] = "lost"
    BY DEF Bystander, Drifts, Launched
  <2> QED BY <2>1, <2>2 DEF Abreast, Streaming, Launched
<1>2. pc[i] \notin {"ready", "done", "lost"} /\ pc'[i] # "done"
  BY DEF Launched
<1> QED BY <1>1, <1>2, ItemStep

(* Item by item, nobody need keep abreast.                                 *)
LEMMA StreamingStep ==
  ASSUME IInv, Streaming, NEW i \in Items, pc[i] \notin {"ready", "done", "lost"},
         pc'[i] # "done", SameCourse, \A j \in Items \ {i} : Bystander(j),
         Types', SlotsOK', ItemOK(i)', SignalOK(i)'
  PROVE  IInv'
<1>1. \A j \in Items : Abreast(i, j)' /\ Abreast(j, i)'
  BY DEF Abreast, Streaming, SameCourse
<1> QED BY <1>1, ItemStep

-----------------------------------------------------------------------------
LEMMA InitIInv ==
  Init => IInv
<1> SUFFICES ASSUME Init PROVE IInv
  OBVIOUS
<1>1. Types
  <2>1. /\ strategy \in Strategies /\ phase = "starting"
        /\ parent = "none" /\ signal = "none" /\ crashed = FALSE /\ verdict = "none"
        /\ order = <<>> /\ answer = <<>>
    BY DEF Init
  <2>2. /\ pc \in [Items -> {"ready"}] /\ outcome \in [Items -> {"none"}]
        /\ status \in [Items -> {"active"}]
    BY DEF Init
  <2>3. results \in [Items -> Seq(StageStatuses)] /\ queue \in [Limiters -> Seq(Items)]
    BY DEF Init
  <2>4. active \in [Limiters -> Nat]
    BY DEF Init
  <2>5. order \in Seq(Items) /\ answer \in Seq(Items)
    BY <2>1
  <2> QED BY <2>1, <2>2, <2>3, <2>4, <2>5 DEF Types
<1>2. SlotsOK
  <2> SUFFICES ASSUME NEW l \in Limiters
               PROVE  SlotsExact(active[l], queue[l], Holders(l), Waiters(l), Limit(l))
    BY DEF SlotsOK
  <2>1. Holders(l) = {} /\ Waiters(l) = {}
    BY DEF Init, Holders, Waiters, Has, Awaits, UnderWay, Working
  <2>2. active[l] = 0 /\ queue[l] = <<>> /\ Limit(l) \in Nat
    BY Limits DEF Init
  <2> QED BY <2>1, <2>2, EmptyElems, FS_EmptySet DEF SlotsExact
<1>3. \A i \in Items : ItemOK(i)
  BY NothingDone, ItemsFinite DEF Init, ItemOK, Launched
<1>4. \A i \in Items : SignalOK(i)
  BY DEF Init, SignalOK
<1>5. \A i, j \in Items : Abreast(i, j)
  BY DEF Init, Abreast, Launched
<1>6. PhaseOK
  BY DEF Init, PhaseOK
<1>7. OrderOK
  BY EmptyElems DEF Init, OrderOK
<1> QED BY <1>1, <1>2, <1>3, <1>4, <1>5, <1>6, <1>7 DEF IInv

-----------------------------------------------------------------------------
(* One lemma for each action of an item.                                   *)
LEMMA StepEnterAborted ==
  ASSUME IInv, NEW i \in Items, EnterAborted(i)
  PROVE  IInv'
<1> DEFINE r == results[i]
<1>1. /\ Types /\ SlotsOK /\ ItemOK(i) /\ SignalOK(i)
      /\ pc[i] = "granted" /\ Streaming /\ signal # "none"
      /\ UNCHANGED <<strategy, phase, signal, parent, outcome, active, queue, order,
                     crashed, verdict, answer>>
  BY DEF IInv, EnterAborted, signalVars, limiterVars, endVars
<1>2. /\ r \in Seq(StageStatuses) /\ Len(r) \in Nat /\ Len(r) < StageCount
      /\ WellFormed(r) /\ StageCount - Len(r) \in Nat /\ StageCount - Len(r) # 0
  BY <1>1, ItemsFinite DEF Types, ItemOK, Launched
<1>3. /\ results' = [results EXCEPT ![i] = r \o Skipped(StageCount - Len(r))]
      /\ status' = [status EXCEPT ![i] = "cancelled"]
      /\ pc' = [pc EXCEPT ![i] = "finishing"]
  BY DEF EnterAborted
<1>4. /\ results'[i] = r \o Skipped(StageCount - Len(r))
      /\ results'[i] \in Seq(StageStatuses) /\ Len(results'[i]) = StageCount
      /\ WellFormed(results'[i]) /\ ~AllSucceeded(results'[i])
  <2>1. results'[i] = r \o Skipped(StageCount - Len(r))
    BY <1>1, <1>3 DEF Types
  <2> DEFINE d == StageCount - Len(r)
             t == r \o Skipped(d)
  <2>2. /\ t \in Seq(StageStatuses) /\ Len(t) = Len(r) + d
        /\ WellFormed(t)
        /\ AllSucceeded(t) <=> AllSucceeded(r) /\ d = 0
    BY <1>2, SkipRest
  <2>3. Len(r) + d = StageCount
    BY <1>2, ItemsFinite
  <2> QED BY <1>2, <2>1, <2>2, <2>3
<1>5. pc'[i] = "finishing" /\ status'[i] = "cancelled"
  BY <1>1, <1>3 DEF Types
<1>6. Types'
  BY <1>1, <1>3, <1>4 DEF Types, ItemStatuses
<1>7. \A j \in Items \ {i} : Bystander(j)
  BY <1>1, <1>3 DEF Bystander, Drifts, Types
<1>8. SlotsOK'
  <2>1. \A j \in Items : \A l \in Limiters :
          (Has(j, l)' <=> Has(j, l)) /\ (Awaits(j, l)' <=> Awaits(j, l))
    <3> TAKE j \in Items
    <3>1. CASE j = i
      BY <1>1, <1>5, <3>1 DEF Has, Awaits, UnderWay, Working
    <3>2. CASE j # i
      BY <1>1, <1>3, <3>2 DEF Has, Awaits, Stage, Types
    <3> QED BY <3>1, <3>2
  <2> QED BY <1>1, <2>1, SameSlots
<1>9. ItemOK(i)' /\ SignalOK(i)'
  <2>1. Streaming' /\ (signal # "none")'
    BY <1>1 DEF Streaming
  <2>2. Len(results'[i]) <= StageCount
    <3>1. Len(results'[i]) = StageCount
      BY <1>4
    <3>2. StageCount <= StageCount
      BY ItemsFinite
    <3> QED BY <3>1, <3>2
  <2> QED BY <1>4, <1>5, <2>1, <2>2 DEF ItemOK, SignalOK, Launched
<1>10. SameCourse
  BY <1>1 DEF SameCourse
<1> QED BY <1>1, <1>5, <1>6, <1>7, <1>8, <1>9, <1>10, StreamingStep

LEMMA StepEnter ==
  ASSUME IInv, NEW i \in Items, Enter(i)
  PROVE  IInv'
<1> DEFINE s == Stage(i)
<1>1. /\ Types /\ SlotsOK /\ ItemOK(i) /\ SignalOK(i)
      /\ pc[i] = "granted"
      /\ UNCHANGED <<strategy, phase, signal, parent, outcome, results, status, order,
                     crashed, verdict, answer>>
  BY DEF IInv, Enter, signalVars, endVars
<1>2. /\ s \in Stages /\ s \in Limiters /\ s # 0
      /\ active[s] \in Nat /\ queue[s] \in Seq(Items) /\ Limit(s) \in Nat
  <2>1. Len(results[i]) \in Nat /\ Len(results[i]) < StageCount
    BY <1>1 DEF Types, ItemOK, Launched
  <2>2. s \in Stages /\ s # 0 /\ s \in Limiters
    BY <2>1, ItemsFinite DEF Stage, Stages, Limiters
  <2> QED BY <1>1, <2>2, Limits DEF Types
<1>3. \/ /\ active[s] < Limit(s)
         /\ active' = [active EXCEPT ![s] = @ + 1]
         /\ pc' = [pc EXCEPT ![i] = "entering"] /\ queue' = queue
      \/ /\ ~(active[s] < Limit(s))
         /\ queue' = [queue EXCEPT ![s] = Append(@, i)]
         /\ pc' = [pc EXCEPT ![i] = "atStage"] /\ active' = active
  BY DEF Enter
<1>4. Types'
  <2>1. /\ pc' \in [Items -> {"ready", "atItem", "granted", "atStage", "entering",
                              "running", "saving", "concluding", "finishing", "done",
                              "lost"}]
    BY <1>1, <1>3 DEF Types
  <2>2. queue' \in [Limiters -> Seq(Items)]
    <3>1. Append(queue[s], i) \in Seq(Items)
      BY <1>2
    <3> QED BY <1>1, <1>2, <1>3, <3>1 DEF Types
  <2>3. active' \in [Limiters -> Nat]
    <3>1. active[s] + 1 \in Nat /\ active \in [Limiters -> Nat]
      BY <1>1, <1>2 DEF Types
    <3> QED BY <1>2, <1>3, <3>1
  <2> QED BY <1>1, <2>1, <2>2, <2>3 DEF Types
<1>5. /\ pc'[i] \in {"entering", "atStage"}
      /\ \A j \in Items \ {i} : pc'[j] = pc[j]
  BY <1>1, <1>3 DEF Types
<1>6. \A j \in Items \ {i} : Bystander(j)
  BY <1>1, <1>5 DEF Bystander, Drifts
<1>7. \A j \in Items : Stage(j)' = Stage(j)
  BY <1>1 DEF Stage
<1>8. SlotsOK'
  <2> SUFFICES ASSUME NEW l \in Limiters
               PROVE  SlotsExact(active'[l], queue'[l], Holders(l)', Waiters(l)', Limit(l))
    BY DEF SlotsOK
  <2>1. /\ SlotsExact(active[l], queue[l], Holders(l), Waiters(l), Limit(l))
        /\ Holders(l) \in SUBSET Items /\ i \notin Waiters(l)
        /\ l = s => i \notin Holders(l)
    BY <1>1, <1>2, HoldersAreItems DEF SlotsOK, Holders, Waiters, Has, Awaits, Working
  <2>2. CASE l # s
    <3>1. \A j \in Items : (Has(j, l)' <=> Has(j, l)) /\ (Awaits(j, l)' <=> Awaits(j, l))
      <4> TAKE j \in Items
      <4>1. CASE j = i
        BY <1>1, <1>5, <1>7, <2>2, <4>1 DEF Has, Awaits, UnderWay, Working
      <4>2. CASE j # i
        BY <1>5, <1>7, <4>2 DEF Has, Awaits
      <4> QED BY <4>1, <4>2
    <3>2. Holders(l)' = Holders(l) /\ Waiters(l)' = Waiters(l)
      BY <3>1 DEF Holders, Waiters
    <3>3. active'[l] = active[l] /\ queue'[l] = queue[l]
      BY <1>1, <1>3, <2>2 DEF Types
    <3> QED BY <2>1, <3>2, <3>3
  <2>3. CASE l = s /\ active[s] < Limit(s)
    <3>1. /\ active'[l] = active[l] + 1 /\ queue'[l] = queue[l] /\ pc'[i] = "entering"
      BY <1>1, <1>2, <1>3, <2>3 DEF Types
    <3>2. \A j \in Items : (Has(j, l)' <=> Has(j, l) \/ j = i) /\ (Awaits(j, l)' <=> Awaits(j, l))
      <4> TAKE j \in Items
      <4>1. CASE j = i
        BY <1>1, <1>2, <1>7, <2>3, <3>1, <4>1 DEF Has, Awaits, Working
      <4>2. CASE j # i
        BY <1>5, <1>7, <4>2 DEF Has, Awaits
      <4> QED BY <4>1, <4>2
    <3>3. Holders(l)' = Holders(l) \cup {i} /\ Waiters(l)' = Waiters(l)
      BY <3>2 DEF Holders, Waiters
    <3> QED BY <1>2, <2>1, <2>3, <3>1, <3>3, SlotTaken
  <2>4. CASE l = s /\ ~(active[s] < Limit(s))
    <3>1. /\ active'[l] = active[l] /\ queue'[l] = Append(queue[l], i) /\ pc'[i] = "atStage"
      BY <1>1, <1>2, <1>3, <2>4 DEF Types
    <3>2. \A j \in Items : (Has(j, l)' <=> Has(j, l)) /\ (Awaits(j, l)' <=> Awaits(j, l) \/ j = i)
      <4> TAKE j \in Items
      <4>1. CASE j = i
        BY <1>1, <1>2, <1>7, <2>4, <3>1, <4>1 DEF Has, Awaits, Working
      <4>2. CASE j # i
        BY <1>5, <1>7, <4>2 DEF Has, Awaits
      <4> QED BY <4>1, <4>2
    <3>3. Holders(l)' = Holders(l) /\ Waiters(l)' = Waiters(l) \cup {i}
      BY <3>2 DEF Holders, Waiters
    <3> QED BY <1>2, <2>1, <2>4, <3>1, <3>3, QueueJoined
  <2> QED BY <2>2, <2>3, <2>4
<1>9. ItemOK(i)' /\ SignalOK(i)'
  BY <1>1, <1>5 DEF ItemOK, SignalOK, Launched, Streaming, AllSucceeded, WellFormed
<1>10. SameCourse
  BY <1>1 DEF SameCourse
<1>11. pc[i] \in Launched /\ pc'[i] \in Launched
  BY <1>1, <1>5 DEF Launched
<1> QED BY <1>1, <1>4, <1>6, <1>8, <1>9, <1>10, <1>11, SteadyStep

LEMMA StepBegin ==
  ASSUME IInv, NEW i \in Items, Begin(i)
  PROVE  IInv'
<1>1. /\ Types /\ SlotsOK /\ ItemOK(i) /\ SignalOK(i)
      /\ pc[i] = "entering" /\ signal = "none" /\ pc' = [pc EXCEPT ![i] = "running"]
      /\ UNCHANGED <<strategy, phase, signal, parent, outcome, results, status, active,
                     queue, order, crashed, verdict, answer>>
  BY DEF IInv, Begin, signalVars, limiterVars, endVars
<1>2. pc'[i] = "running" /\ \A j \in Items \ {i} : pc'[j] = pc[j]
  BY <1>1 DEF Types
<1>3. Types'
  BY <1>1 DEF Types
<1>4. \A j \in Items \ {i} : Bystander(j)
  BY <1>1, <1>2 DEF Bystander, Drifts
<1>5. SlotsOK'
  <2>1. \A j \in Items : \A l \in Limiters :
          (Has(j, l)' <=> Has(j, l)) /\ (Awaits(j, l)' <=> Awaits(j, l))
    BY <1>1, <1>2 DEF Has, Awaits, Stage, UnderWay, Working
  <2> QED BY <1>1, <2>1, SameSlots
<1>6. ItemOK(i)' /\ SignalOK(i)'
  BY <1>1, <1>2 DEF ItemOK, SignalOK, Launched, Streaming, AllSucceeded, WellFormed
<1>7. SameCourse /\ pc[i] \in Launched /\ pc'[i] \in Launched
  BY <1>1, <1>2 DEF SameCourse, Launched
<1> QED BY <1>1, <1>3, <1>4, <1>5, <1>6, <1>7, SteadyStep

LEMMA StepStageEnds ==
  ASSUME IInv, NEW i \in Items, NEW how \in {"succeeded", "failed", "timed_out"},
         StageEnds(i, how)
  PROVE  IInv'
<1>1. /\ Types /\ SlotsOK /\ ItemOK(i) /\ SignalOK(i)
      /\ pc[i] = "running" /\ pc' = [pc EXCEPT ![i] = "saving"]
      /\ outcome' = [outcome EXCEPT ![i] = how]
      /\ UNCHANGED <<strategy, phase, signal, parent, results, status, active,
                     queue, order, crashed, verdict, answer>>
  BY DEF IInv, StageEnds, signalVars, limiterVars, endVars
<1>2. /\ pc'[i] = "saving" /\ outcome'[i] = how
      /\ \A j \in Items \ {i} : pc'[j] = pc[j] /\ outcome'[j] = outcome[j]
  BY <1>1 DEF Types
<1>3. Types'
  BY <1>1 DEF Types, StageStatuses
<1>4. \A j \in Items \ {i} : Bystander(j)
  BY <1>1, <1>2 DEF Bystander, Drifts
<1>5. SlotsOK'
  <2>1. \A j \in Items : \A l \in Limiters :
          (Has(j, l)' <=> Has(j, l)) /\ (Awaits(j, l)' <=> Awaits(j, l))
    BY <1>1, <1>2 DEF Has, Awaits, Stage, UnderWay, Working
  <2> QED BY <1>1, <2>1, SameSlots
<1>6. ItemOK(i)' /\ SignalOK(i)'
  BY <1>1, <1>2 DEF ItemOK, SignalOK, Launched, Streaming, AllSucceeded, WellFormed
<1>7. SameCourse /\ pc[i] \in Launched /\ pc'[i] \in Launched
  BY <1>1, <1>2 DEF SameCourse, Launched
<1> QED BY <1>1, <1>3, <1>4, <1>5, <1>6, <1>7, SteadyStep

(* The stage is skipped: the item keeps its slot of the pipeline, or both  *)
(* are given back.                                                         *)
LEMMA StepBeginSkipped ==
  ASSUME IInv, NEW i \in Items, BeginSkipped(i)
  PROVE  IInv'
<1> DEFINE r == results[i]
           s == Stage(i)
<1>1. /\ Types /\ SlotsOK /\ ItemOK(i) /\ SignalOK(i)
      /\ pc[i] = "entering" /\ signal # "none"
      /\ UNCHANGED <<strategy, phase, signal, parent, order, crashed, verdict, answer>>
  BY DEF IInv, BeginSkipped, signalVars, endVars
<1>2. /\ r \in Seq(StageStatuses) /\ Len(r) \in Nat /\ Len(r) < StageCount
      /\ AllSucceeded(r) /\ status[i] = "active"
      /\ s = Len(r) + 1 /\ s \in Stages /\ s \in Limiters /\ 0 \in Limiters /\ s # 0
  <2>1. /\ r \in Seq(StageStatuses) /\ Len(r) \in Nat /\ Len(r) < StageCount
        /\ AllSucceeded(r) /\ status[i] = "active"
    BY <1>1 DEF Types, ItemOK, Launched
  <2> QED BY <2>1, ItemsFinite DEF Stage, Stages, Limiters
<1>3. Has(i, 0) /\ Has(i, s)
  BY <1>1, <1>2 DEF Has, UnderWay, Working
<1>4. SameCourse /\ \A j \in Items : pc[j] # "running"
  BY <1>1 DEF SameCourse, IInv, SignalOK
<1>5. CASE Streaming
  <2> DEFINE after == [pc EXCEPT ![i] = "concluding"]
  <2>1. /\ Release({s}, after) /\ outcome' = [outcome EXCEPT ![i] = "skipped"]
        /\ results' = results /\ status' = status
    BY <1>5 DEF BeginSkipped
  <2>2. /\ after[i] = "concluding" /\ \A j \in Items \ {i} : after[j] = pc[j]
        /\ outcome'[i] = "skipped" /\ \A j \in Items \ {i} : outcome'[j] = outcome[j]
    BY <1>1, <2>1 DEF Types
  <2>3. \A l \in Limiters :
          (IF l = 0 THEN after[i] \in UnderWay
           ELSE after[i] \in Working /\ Len(results'[i]) + 1 = l)
          <=> Has(i, l) /\ l \notin {s}
    BY <1>1, <1>2, <2>1, <2>2 DEF Has, UnderWay, Working
  <2>0. {s} \in SUBSET Limiters /\ GivesBack(i, {s}, after)
    BY <1>1, <1>2, <1>3, <2>1, <2>2, <2>3 DEF GivesBack
  <2> HIDE DEF after, s
  <2>4. /\ SlotsOK'
        /\ active' \in [Limiters -> Nat] /\ queue' \in [Limiters -> Seq(Items)]
        /\ pc'[i] = "concluding"
        /\ \A j \in Items \ {i} : Drifts(j) /\ (pc[j] = "running" => pc'[j] = after[j])
    BY ZenonT(90), <1>1, <2>0, <2>1, <2>2, ReleaseSlots
  <2>5. \A j \in Items \ {i} : Bystander(j)
    BY <1>1, <1>4, <2>1, <2>2, <2>4 DEF Bystander, Drifts
  <2>6. Types'
    <3>1. pc' \in [Items -> Positions]
      BY <1>1, <2>1, <2>4, ReleasedPcs DEF Positions
    <3> QED BY <1>1, <2>1, <2>4, <3>1 DEF Types, StageStatuses, Positions
  <2>7. ItemOK(i)' /\ SignalOK(i)'
    BY <1>1, <1>5, <2>1, <2>2, <2>4
       DEF ItemOK, SignalOK, Launched, Streaming, AllSucceeded, WellFormed
  <2> QED BY <1>1, <1>4, <1>5, <2>4, <2>5, <2>6, <2>7, StreamingStep
<1>6. CASE ~Streaming
  <2> DEFINE after == [pc EXCEPT ![i] = "ready"]
  <2>1. /\ Release({0, s}, after) /\ outcome' = outcome
        /\ results' = [results EXCEPT ![i] = Append(@, "skipped")]
        /\ status' = [status EXCEPT ![i] = "cancelled"]
    BY <1>6 DEF BeginSkipped
  <2>2. /\ after[i] = "ready" /\ \A j \in Items \ {i} : after[j] = pc[j]
        /\ \A j \in Items \ {i} : results'[j] = results[j] /\ status'[j] = status[j]
        /\ results'[i] = Append(r, "skipped") /\ status'[i] = "cancelled"
    BY <1>1, <2>1 DEF Types
  <2>3. \A l \in Limiters :
          (IF l = 0 THEN after[i] \in UnderWay
           ELSE after[i] \in Working /\ Len(results'[i]) + 1 = l)
          <=> Has(i, l) /\ l \notin {0, s}
    BY <1>1, <1>2, <2>2 DEF Has, UnderWay, Working
  <2>0. {0, s} \in SUBSET Limiters /\ GivesBack(i, {0, s}, after)
    BY <1>1, <1>2, <1>3, <2>2, <2>3 DEF GivesBack
  <2> HIDE DEF after, s
  <2>4. /\ SlotsOK'
        /\ active' \in [Limiters -> Nat] /\ queue' \in [Limiters -> Seq(Items)]
        /\ pc'[i] = "ready"
        /\ \A j \in Items \ {i} : Drifts(j) /\ (pc[j] = "running" => pc'[j] = after[j])
    <3>1. Types /\ SlotsOK /\ Release({0, s}, after)
      BY <1>1, <2>1
    <3> QED BY <2>0, <2>2, <3>1, ReleaseSlots
  <2>5. \A j \in Items \ {i} : Bystander(j)
    BY <1>1, <1>4, <2>1, <2>2, <2>4 DEF Bystander, Drifts
  <2>6. /\ results'[i] \in Seq(StageStatuses) /\ Len(results'[i]) = Len(r) + 1
        /\ WellFormed(results'[i]) /\ ~AllSucceeded(results'[i])
    BY <1>2, <2>2, AppendStatus DEF StageStatuses
  <2>7. Types'
    <3>1. pc' \in [Items -> Positions]
      BY <1>1, <2>1, <2>4, ReleasedPcs DEF Positions
    <3>2. results' \in [Items -> Seq(StageStatuses)]
      BY <1>1, <2>1, <2>2, <2>6 DEF Types
    <3>3. status' \in [Items -> ItemStatuses \cup {"active"}]
      BY <1>1, <2>1 DEF Types, ItemStatuses
    <3> QED BY <1>1, <2>1, <2>4, <3>1, <3>2, <3>3 DEF Types, Positions
  <2>8. ItemOK(i)' /\ SignalOK(i)'
    <3>1. Len(results'[i]) <= StageCount
      BY <1>2, <2>6, ItemsFinite
    <3>2. (signal # "none")'
      BY <1>1
    <3> QED BY <2>2, <2>4, <2>6, <3>1, <3>2 DEF ItemOK, SignalOK, Launched
  <2>9. \A j \in Items : Abreast(i, j)' /\ Abreast(j, i)'
    BY <2>2 DEF Abreast
  <2> QED BY <1>1, <1>4, <2>4, <2>5, <2>7, <2>8, <2>9, ItemStep
<1> QED BY <1>5, <1>6

(* What the abort of the signal does to the items, and what it leaves.     *)
LEMMA AbortedItems ==
  ASSUME Types, NEW why \in {"fail-fast", "user", "timeout"}, Aborts(why)
  PROVE  /\ signal' # "none" /\ signal' \in {"none", "fail-fast", "user", "timeout"}
         /\ outcome' \in [Items -> StageStatuses \cup {"none"}]
         /\ AfterAbort \in [Items -> Positions]
         /\ \A j \in Items :
              IF pc[j] = "running" /\ signal = "none"
              THEN outcome'[j] # "none" /\ AfterAbort[j] = "saving"
              ELSE outcome'[j] = outcome[j] /\ AfterAbort[j] = pc[j]
<1>1. AbortedOutcome(why) \in StageStatuses /\ AbortedOutcome(why) # "none"
  BY DEF AbortedOutcome, StageStatuses
<1>2. signal' # "none" /\ signal' \in {"none", "fail-fast", "user", "timeout"}
  BY DEF Aborts, Types
<1>3. outcome' = [j \in Items |-> IF j \in GivenUp /\ signal = "none"
                                  THEN AbortedOutcome(why) ELSE outcome[j]]
  BY DEF Aborts
<1>4. outcome' \in [Items -> StageStatuses \cup {"none"}]
  BY <1>1, <1>3 DEF Types
<1>5. AfterAbort \in [Items -> Positions]
  BY DEF AfterAbort, Types, Positions
<1>6. \A j \in Items :
        IF pc[j] = "running" /\ signal = "none"
        THEN outcome'[j] # "none" /\ AfterAbort[j] = "saving"
        ELSE outcome'[j] = outcome[j] /\ AfterAbort[j] = pc[j]
  BY <1>1, <1>3 DEF AfterAbort, GivenUp
<1> QED BY <1>2, <1>4, <1>5, <1>6

LEMMA StepStageSavedStreaming ==
  ASSUME IInv, NEW i \in Items, StageSavedStreaming(i)
  PROVE  IInv'
<1> DEFINE s == Stage(i)
           after == [pc EXCEPT ![i] = "concluding"]
<1>1. /\ Types /\ SlotsOK /\ ItemOK(i) /\ SignalOK(i)
      /\ pc[i] = "saving" /\ Streaming /\ Release({s}, after)
      /\ UNCHANGED <<strategy, phase, signal, parent, outcome, results, status, order,
                     crashed, verdict, answer>>
  BY DEF IInv, StageSavedStreaming, signalVars, endVars
<1>2. s = Len(results[i]) + 1 /\ s \in Stages /\ s \in Limiters /\ 0 \in Limiters /\ s # 0
  <2>1. Len(results[i]) \in Nat /\ Len(results[i]) < StageCount
    BY <1>1 DEF Types, ItemOK, Launched
  <2> QED BY <2>1, ItemsFinite DEF Stage, Stages, Limiters
<1>3. after[i] = "concluding" /\ \A j \in Items \ {i} : after[j] = pc[j]
  BY <1>1 DEF Types
<1>4. {s} \in SUBSET Limiters /\ GivesBack(i, {s}, after)
  <2>1. \A l \in {s} : Has(i, l)
    BY <1>1, <1>2 DEF Has, Working
  <2>2. \A l \in Limiters :
          (IF l = 0 THEN after[i] \in UnderWay
           ELSE after[i] \in Working /\ Len(results'[i]) + 1 = l)
          <=> Has(i, l) /\ l \notin {s}
    BY <1>1, <1>2, <1>3 DEF Has, UnderWay, Working
  <2> QED BY <1>1, <1>2, <1>3, <2>1, <2>2 DEF GivesBack
<1> HIDE DEF after, s
<1>5. /\ SlotsOK'
      /\ active' \in [Limiters -> Nat] /\ queue' \in [Limiters -> Seq(Items)]
      /\ pc'[i] = "concluding"
      /\ \A j \in Items \ {i} : Drifts(j) /\ (pc[j] = "running" => pc'[j] = after[j])
  <2>1. Types /\ SlotsOK /\ Release({s}, after)
    BY <1>1
  <2> QED BY <1>3, <1>4, <2>1, ReleaseSlots
<1>6. \A j \in Items \ {i} : Bystander(j)
  BY <1>1, <1>3, <1>5 DEF Bystander, Drifts
<1>7. Types'
  <2>1. pc' \in [Items -> Positions]
    BY <1>1, <1>5, ReleasedPcs DEF Positions
  <2> QED BY <1>1, <1>5, <2>1 DEF Types, Positions
<1>8. ItemOK(i)' /\ SignalOK(i)'
  BY <1>1, <1>5 DEF ItemOK, SignalOK, Launched, Streaming, AllSucceeded, WellFormed
<1>9. SameCourse
  BY <1>1 DEF SameCourse
<1> QED BY <1>1, <1>5, <1>6, <1>7, <1>8, <1>9, StreamingStep

LEMMA StepStageSavedBarrier ==
  ASSUME IInv, NEW i \in Items, StageSavedBarrier(i)
  PROVE  IInv'
<1> DEFINE s == Stage(i)
           r == results[i]
<1>1. /\ Types /\ SlotsOK /\ ItemOK(i) /\ SignalOK(i)
      /\ pc[i] = "saving" /\ ~Streaming
      /\ results' = [results EXCEPT ![i] = Append(@, outcome[i])]
      /\ status' = IF outcome[i] = "succeeded" THEN status
                   ELSE [status EXCEPT ![i] = StatusOf(outcome[i])]
      /\ UNCHANGED <<strategy, phase, parent, order, crashed, verdict, answer>>
  BY DEF IInv, StageSavedBarrier, endVars
<1>2. /\ r \in Seq(StageStatuses) /\ Len(r) \in Nat /\ Len(r) < StageCount
      /\ AllSucceeded(r) /\ status[i] = "active"
      /\ outcome[i] \in StageStatuses
      /\ s = Len(r) + 1 /\ s \in Stages /\ s \in Limiters /\ 0 \in Limiters /\ s # 0
  <2>1. /\ r \in Seq(StageStatuses) /\ Len(r) \in Nat /\ Len(r) < StageCount
        /\ AllSucceeded(r) /\ status[i] = "active"
        /\ outcome[i] \in StageStatuses
    BY <1>1 DEF Types, ItemOK, Launched
  <2> QED BY <2>1, ItemsFinite DEF Stage, Stages, Limiters
<1>3. PICK after : /\ Release({0, s}, after) /\ after[i] = "ready"
                   /\ \A j \in Items \ {i} :
                        IF pc[j] = "running" /\ signal = "none" /\ signal' # "none"
                        THEN outcome'[j] # "none" /\ after[j] = "saving"
                        ELSE outcome'[j] = outcome[j] /\ after[j] = pc[j]
                   /\ signal # "none" \/ TriggersFailFast(i) => signal' # "none"
                   /\ signal' \in {"none", "fail-fast", "user", "timeout"}
                   /\ outcome' \in [Items -> StageStatuses \cup {"none"}]
                   /\ outcome'[i] = outcome[i]
  <2>1. CASE TriggersFailFast(i)
    <3> DEFINE a == [AfterAbort EXCEPT ![i] = "ready"]
    <3>1. Aborts("fail-fast") /\ Release({0, s}, a)
      BY <2>1 DEF StageSavedBarrier
    <3>2. /\ signal' # "none" /\ signal' \in {"none", "fail-fast", "user", "timeout"}
          /\ outcome' \in [Items -> StageStatuses \cup {"none"}]
          /\ AfterAbort \in [Items -> Positions]
          /\ \A j \in Items :
               IF pc[j] = "running" /\ signal = "none"
               THEN outcome'[j] # "none" /\ AfterAbort[j] = "saving"
               ELSE outcome'[j] = outcome[j] /\ AfterAbort[j] = pc[j]
      BY <1>1, <3>1, AbortedItems
    <3>3. a[i] = "ready" /\ \A j \in Items \ {i} : a[j] = AfterAbort[j]
      BY <3>2
    <3>4. outcome'[i] = outcome[i]
      BY <1>1, <3>2
    <3> HIDE DEF a
    <3> QED BY <3>1, <3>2, <3>3, <3>4
  <2>2. CASE ~TriggersFailFast(i)
    <3> DEFINE a == [pc EXCEPT ![i] = "ready"]
    <3>1. signal' = signal /\ outcome' = outcome /\ Release({0, s}, a)
      BY <2>2 DEF StageSavedBarrier
    <3>2. a[i] = "ready" /\ \A j \in Items \ {i} : a[j] = pc[j]
      BY <1>1 DEF Types
    <3> HIDE DEF a
    <3> QED BY <1>1, <2>2, <3>1, <3>2 DEF Types
  <2> QED BY <2>1, <2>2
<1>4. /\ results'[i] = Append(r, outcome[i])
      /\ \A j \in Items \ {i} : results'[j] = results[j] /\ status'[j] = status[j]
  BY <1>1 DEF Types
<1>5. /\ results'[i] \in Seq(StageStatuses) /\ Len(results'[i]) = Len(r) + 1
      /\ WellFormed(results'[i])
      /\ AllSucceeded(results'[i]) <=> outcome[i] = "succeeded"
  BY <1>2, <1>4, AppendStatus
<1>6. {0, s} \in SUBSET Limiters /\ GivesBack(i, {0, s}, after)
  <2>1. \A l \in {0, s} : Has(i, l)
    BY <1>1, <1>2 DEF Has, Working, UnderWay
  <2>2. \A l \in Limiters :
          (IF l = 0 THEN after[i] \in UnderWay
           ELSE after[i] \in Working /\ Len(results'[i]) + 1 = l)
          <=> Has(i, l) /\ l \notin {0, s}
    BY <1>1, <1>2, <1>3 DEF Has, UnderWay, Working
  <2> QED BY <1>1, <1>2, <1>3, <1>4, <2>1, <2>2 DEF GivesBack
<1> HIDE DEF s
<1>7. /\ SlotsOK'
      /\ active' \in [Limiters -> Nat] /\ queue' \in [Limiters -> Seq(Items)]
      /\ pc'[i] = "ready"
      /\ \A j \in Items \ {i} : Drifts(j) /\ (pc[j] = "running" => pc'[j] = after[j])
  <2>1. Types /\ SlotsOK /\ Release({0, s}, after) /\ after[i] = "ready"
    BY <1>1, <1>3
  <2> QED BY <1>6, <2>1, ReleaseSlots
<1>8. \A j \in Items \ {i} : Bystander(j)
  <2> TAKE j \in Items \ {i}
  <2>1. results'[j] = results[j] /\ status'[j] = status[j] /\ Drifts(j)
    BY <1>4, <1>7
  <2>2. pc[j] = "running" /\ pc'[j] = "saving" => outcome'[j] # "none"
    BY <1>3, <1>7
  <2>3. /\ outcome'[j] = outcome[j] \/ outcome'[j] # "none"
        /\ outcome'[j] # outcome[j] => signal' # "none"
    BY <1>3
  <2>4. pc'[j] = "concluding" => outcome'[j] = outcome[j]
    BY <1>3, <2>1 DEF Drifts
  <2>5. signal = "none" /\ signal' # "none" => pc'[j] # "running"
    BY <1>3, <1>7, <2>1 DEF Drifts
  <2> QED BY <2>1, <2>2, <2>3, <2>4, <2>5 DEF Bystander
<1>9. Types'
  <2>1. pc' \in [Items -> Positions]
    BY <1>1, <1>3, <1>7, ReleasedPcs DEF Positions
  <2>2. results' \in [Items -> Seq(StageStatuses)]
    BY <1>1, <1>4, <1>5 DEF Types
  <2>3. status' \in [Items -> ItemStatuses \cup {"active"}]
    BY <1>1 DEF Types, ItemStatuses, StatusOf
  <2> QED BY <1>1, <1>3, <1>7, <2>1, <2>2, <2>3 DEF Types, Positions
<1>10. /\ status'[i] = IF outcome[i] = "succeeded" THEN "active" ELSE StatusOf(outcome[i])
       /\ StatusOf(outcome[i]) \notin {"active", "succeeded"}
  BY <1>1, <1>2 DEF Types, StatusOf
<1>11. ItemOK(i)'
  <2>1. Len(results'[i]) <= StageCount
    BY <1>2, <1>5, ItemsFinite
  <2> QED BY <1>5, <1>7, <1>10, <2>1 DEF ItemOK, Launched
<1>12. SignalOK(i)'
  <2>1. status'[i] = "cancelled" => outcome[i] = "cancelled"
    BY <1>10 DEF StatusOf
  <2>2. FailFast /\ status'[i] \in {"failed", "timed_out"} => TriggersFailFast(i)
    BY <1>10 DEF TriggersFailFast
  <2> QED BY <1>1, <1>3, <1>7, <2>1, <2>2 DEF SignalOK
<1>13. ASSUME NEW j \in Items PROVE Abreast(i, j)' /\ Abreast(j, i)'
  <2>1. CASE j = i
    BY <1>7, <2>1 DEF Abreast, Launched
  <2>2. CASE j # i
    <3>1. /\ pc'[j] \in Launched <=> pc[j] \in Launched
          /\ pc'[j] = "ready" <=> pc[j] = "ready"
      BY <1>7, <2>2 DEF Drifts, Launched
    <3>2. Abreast(i, j) /\ results'[j] = results[j] /\ status'[j] = status[j]
      BY <1>4, <2>2 DEF IInv
    <3>3. status[j] = "active" =>
            /\ pc[j] \in Launched => Len(results[j]) = Len(r)
            /\ pc[j] = "ready" => Len(results[j]) = Len(r) + 1
      BY <1>1, <1>2, <3>2 DEF Abreast, Launched
    <3> QED BY <1>5, <1>7, <3>1, <3>2, <3>3 DEF Abreast, Launched
  <2> QED BY <2>1, <2>2
<1>14. SameCourse
  BY <1>1, <1>3 DEF SameCourse
<1> QED BY <1>1, <1>7, <1>8, <1>9, <1>11, <1>12, <1>13, <1>14, ItemStep

LEMMA StepConclude ==
  ASSUME IInv, NEW i \in Items, Conclude(i)
  PROVE  IInv'
<1> DEFINE r == results[i]
<1>1. /\ Types /\ SlotsOK /\ ItemOK(i) /\ SignalOK(i)
      /\ pc[i] = "concluding" /\ Streaming
      /\ UNCHANGED <<strategy, phase, parent, active, queue, order, crashed, verdict,
                     answer>>
  BY DEF IInv, Conclude, ItemOK, limiterVars, endVars
<1>2. /\ r \in Seq(StageStatuses) /\ Len(r) \in Nat /\ Len(r) < StageCount
      /\ AllSucceeded(r) /\ status[i] = "active" /\ outcome[i] \in StageStatuses
      /\ Stage(i) = Len(r) + 1
  BY <1>1 DEF Types, ItemOK, Stage
<1>3. /\ signal # "none" => signal' # "none"
      /\ signal' \in {"none", "fail-fast", "user", "timeout"}
      /\ outcome' \in [Items -> StageStatuses \cup {"none"}]
      /\ pc' \in [Items -> Positions]
      /\ status' \in [Items -> ItemStatuses \cup {"active"}]
      /\ results' = [results EXCEPT ![i] = results'[i]]
      /\ outcome'[i] = outcome[i]
      /\ \A j \in Items \ {i} :
           /\ status'[j] = status[j]
           /\ IF pc[j] = "running" /\ signal = "none" /\ signal' # "none"
              THEN outcome'[j] # "none" /\ pc'[j] = "saving"
              ELSE outcome'[j] = outcome[j] /\ pc'[j] = pc[j]
      /\ \/ /\ pc'[i] = "granted" /\ status'[i] = "active"
            /\ results'[i] = Append(r, "succeeded") /\ Len(r) + 1 # StageCount
         \/ /\ pc'[i] = "finishing" /\ status'[i] = "succeeded"
            /\ results'[i] = Append(r, "succeeded") /\ Len(r) + 1 = StageCount
         \/ /\ pc'[i] = "finishing" /\ status'[i] = StatusOf(outcome[i])
            /\ outcome[i] # "succeeded" /\ (TriggersFailFast(i) => signal' # "none")
            /\ results'[i] = Append(r, outcome[i]) \o Skipped(StageCount - (Len(r) + 1))
  <2>1. CASE outcome[i] = "succeeded"
    <3>1. /\ results' = [results EXCEPT ![i] = Append(@, "succeeded")]
          /\ signal' = signal /\ outcome' = outcome
          /\ \/ /\ Len(r) + 1 = StageCount
                /\ status' = [status EXCEPT ![i] = "succeeded"]
                /\ pc' = [pc EXCEPT ![i] = "finishing"]
             \/ /\ Len(r) + 1 # StageCount /\ status' = status
                /\ pc' = [pc EXCEPT ![i] = "granted"]
      BY <1>2, <2>1 DEF Conclude, ConcludeSuccess
    <3>2. results'[i] = Append(r, "succeeded") /\ results' = [results EXCEPT ![i] = results'[i]]
      BY <1>1, <3>1 DEF Types
    <3>3. /\ pc' \in [Items -> Positions]
          /\ status' \in [Items -> ItemStatuses \cup {"active"}]
          /\ \A j \in Items \ {i} : status'[j] = status[j] /\ pc'[j] = pc[j]
      BY <1>1, <3>1 DEF Types, Positions, ItemStatuses
    <3>4. \/ /\ pc'[i] = "granted" /\ status'[i] = "active" /\ Len(r) + 1 # StageCount
          \/ /\ pc'[i] = "finishing" /\ status'[i] = "succeeded" /\ Len(r) + 1 = StageCount
      BY <1>1, <1>2, <3>1 DEF Types
    <3> QED BY <1>1, <3>1, <3>2, <3>3, <3>4 DEF Types
  <2>2. CASE outcome[i] # "succeeded" /\ TriggersFailFast(i)
    <3>1. /\ status' = [status EXCEPT ![i] = StatusOf(outcome[i])]
          /\ results' = [results EXCEPT ![i] =
               Append(@, outcome[i]) \o Skipped(StageCount - (Len(r) + 1))]
          /\ Aborts("fail-fast")
          /\ pc' = [AfterAbort EXCEPT ![i] = "finishing"]
      BY <1>2, <2>2 DEF Conclude, ConcludeFailure
    <3>2. /\ signal' # "none" /\ signal' \in {"none", "fail-fast", "user", "timeout"}
          /\ outcome' \in [Items -> StageStatuses \cup {"none"}]
          /\ AfterAbort \in [Items -> Positions]
          /\ \A j \in Items :
               IF pc[j] = "running" /\ signal = "none"
               THEN outcome'[j] # "none" /\ AfterAbort[j] = "saving"
               ELSE outcome'[j] = outcome[j] /\ AfterAbort[j] = pc[j]
      BY <1>1, <3>1, AbortedItems
    <3>3. /\ results'[i] = Append(r, outcome[i]) \o Skipped(StageCount - (Len(r) + 1))
          /\ results' = [results EXCEPT ![i] = results'[i]]
      BY <1>1, <3>1 DEF Types
    <3>4. /\ pc' \in [Items -> Positions] /\ pc'[i] = "finishing"
          /\ \A j \in Items \ {i} : pc'[j] = AfterAbort[j]
      BY <3>1, <3>2 DEF Positions
    <3>5. /\ status' \in [Items -> ItemStatuses \cup {"active"}]
          /\ status'[i] = StatusOf(outcome[i])
          /\ \A j \in Items \ {i} : status'[j] = status[j]
      BY <1>1, <3>1 DEF Types, ItemStatuses, StatusOf
    <3>6. outcome'[i] = outcome[i]
      BY <1>1, <3>2
    <3> QED BY <2>2, <3>2, <3>3, <3>4, <3>5, <3>6
  <2>3. CASE outcome[i] # "succeeded" /\ ~TriggersFailFast(i)
    <3>1. /\ status' = [status EXCEPT ![i] = StatusOf(outcome[i])]
          /\ results' = [results EXCEPT ![i] =
               Append(@, outcome[i]) \o Skipped(StageCount - (Len(r) + 1))]
          /\ signal' = signal /\ outcome' = outcome
          /\ pc' = [pc EXCEPT ![i] = "finishing"]
      BY <1>2, <2>3 DEF Conclude, ConcludeFailure
    <3>2. /\ results'[i] = Append(r, outcome[i]) \o Skipped(StageCount - (Len(r) + 1))
          /\ results' = [results EXCEPT ![i] = results'[i]]
      BY <1>1, <3>1 DEF Types
    <3>3. /\ pc' \in [Items -> Positions] /\ pc'[i] = "finishing"
          /\ \A j \in Items \ {i} : pc'[j] = pc[j]
      BY <1>1, <3>1 DEF Types, Positions
    <3>4. /\ status' \in [Items -> ItemStatuses \cup {"active"}]
          /\ status'[i] = StatusOf(outcome[i])
          /\ \A j \in Items \ {i} : status'[j] = status[j]
      BY <1>1, <3>1 DEF Types, ItemStatuses, StatusOf
    <3> QED BY <1>1, <2>3, <3>1, <3>2, <3>3, <3>4 DEF Types
  <2> QED BY <2>1, <2>2, <2>3
<1>4. /\ results'[i] \in Seq(StageStatuses) /\ WellFormed(results'[i])
      /\ Len(results'[i]) <= StageCount
      /\ pc'[i] = "granted" =>
           status'[i] = "active" /\ Len(results'[i]) < StageCount /\ AllSucceeded(results'[i])
      /\ pc'[i] = "finishing" =>
           /\ status'[i] # "active" /\ Len(results'[i]) = StageCount
           /\ status'[i] = "succeeded" => AllSucceeded(results'[i])
           /\ status'[i] # "succeeded" => ~AllSucceeded(results'[i])
  <2>1. CASE /\ pc'[i] = "granted" /\ status'[i] = "active"
             /\ results'[i] = Append(r, "succeeded") /\ Len(r) + 1 # StageCount
    <3>1. /\ results'[i] \in Seq(StageStatuses) /\ Len(results'[i]) = Len(r) + 1
          /\ WellFormed(results'[i]) /\ AllSucceeded(results'[i])
      BY <1>2, <2>1, AppendStatus DEF StageStatuses
    <3>2. Len(r) + 1 < StageCount /\ Len(r) + 1 <= StageCount
      BY <1>2, <2>1, ItemsFinite
    <3> QED BY <2>1, <3>1, <3>2
  <2>2. CASE /\ pc'[i] = "finishing" /\ status'[i] = "succeeded"
             /\ results'[i] = Append(r, "succeeded") /\ Len(r) + 1 = StageCount
    <3>1. /\ results'[i] \in Seq(StageStatuses) /\ Len(results'[i]) = Len(r) + 1
          /\ WellFormed(results'[i]) /\ AllSucceeded(results'[i])
      BY <1>2, <2>2, AppendStatus DEF StageStatuses
    <3>2. Len(results'[i]) = StageCount /\ StageCount <= StageCount
      BY <2>2, <3>1, ItemsFinite
    <3> QED BY <2>2, <3>1, <3>2
  <2>3. CASE /\ results'[i] = Append(r, outcome[i]) \o Skipped(StageCount - (Len(r) + 1))
             /\ pc'[i] = "finishing" /\ status'[i] = StatusOf(outcome[i])
             /\ outcome[i] # "succeeded"
    <3> DEFINE a == Append(r, outcome[i])
               d == StageCount - (Len(r) + 1)
               t == a \o Skipped(d)
    <3>1. /\ a \in Seq(StageStatuses) /\ Len(a) = Len(r) + 1 /\ WellFormed(a)
          /\ ~AllSucceeded(a)
      BY <1>2, <2>3, AppendStatus
    <3>2. d \in Nat /\ Len(r) + 1 + d = StageCount
      <4> DEFINE m == Len(r)
      <4>1. m \in Nat /\ m < StageCount /\ StageCount \in Nat
        BY <1>2, ItemsFinite
      <4> HIDE DEF m
      <4>2. StageCount - (m + 1) \in Nat /\ m + 1 + (StageCount - (m + 1)) = StageCount
        BY <4>1
      <4> QED BY <4>2 DEF m
    <3> HIDE DEF a, d
    <3>3. /\ t \in Seq(StageStatuses) /\ Len(t) = Len(a) + d /\ WellFormed(t)
          /\ ~AllSucceeded(t)
      BY <3>1, <3>2, SkipRest
    <3>4. results'[i] = t
      BY <2>3 DEF a, d
    <3> HIDE DEF t
    <3>5. Len(results'[i]) = StageCount /\ Len(results'[i]) <= StageCount
      BY <3>1, <3>2, <3>3, <3>4, ItemsFinite
    <3>6. StatusOf(outcome[i]) \notin {"active", "succeeded"}
      BY <1>2 DEF StatusOf
    <3> QED BY <2>3, <3>3, <3>4, <3>5, <3>6
  <2> QED BY <1>3, <2>1, <2>2, <2>3
<1>5. \A j \in Items \ {i} : results'[j] = results[j]
  BY <1>1, <1>3 DEF Types
<1>6. \A j \in Items \ {i} : Bystander(j)
  BY <1>3, <1>5 DEF Bystander, Drifts
<1>7. Types'
  <2>1. results' \in [Items -> Seq(StageStatuses)]
    BY <1>1, <1>3, <1>4 DEF Types
  <2> QED BY <1>1, <1>3, <2>1 DEF Types, Positions
<1>8. SlotsOK'
  <2>1. \A j \in Items : \A l \in Limiters :
          (Has(j, l)' <=> Has(j, l)) /\ (Awaits(j, l)' <=> Awaits(j, l))
    <3> TAKE j \in Items
    <3> TAKE l \in Limiters
    <3>1. CASE j = i
      BY <1>1, <1>3, <3>1 DEF Has, Awaits, UnderWay, Working
    <3>2. CASE j # i
      <4>1. Stage(j)' = Stage(j)
        BY <1>5, <3>2 DEF Stage
      <4> QED BY <1>3, <3>2, <4>1 DEF Has, Awaits, UnderWay, Working
    <3> QED BY <3>1, <3>2
  <2> QED BY <1>1, <2>1, SameSlots
<1>9. ItemOK(i)'
  <2>1. Streaming' /\ outcome'[i] # "none" /\ pc'[i] \in {"granted", "finishing"}
    BY <1>1, <1>2, <1>3 DEF Streaming, StageStatuses
  <2> QED BY <1>4, <2>1 DEF ItemOK, Launched
<1>10. SignalOK(i)'
  <2>1. pc'[i] \in {"granted", "finishing"}
    BY <1>3
  <2>2. status'[i] = "cancelled" => outcome[i] = "cancelled"
    BY <1>3 DEF StatusOf
  <2>3. FailFast /\ status'[i] \in {"failed", "timed_out"} => signal' # "none"
    BY <1>3 DEF TriggersFailFast
  <2>4. outcome[i] = "cancelled" => signal # "none"
    BY <1>1 DEF SignalOK
  <2> QED BY <1>3, <2>1, <2>2, <2>3, <2>4 DEF SignalOK
<1>11. SameCourse
  BY <1>1, <1>3 DEF SameCourse
<1>12. pc'[i] # "done"
  BY <1>3
<1> QED BY <1>1, <1>6, <1>7, <1>8, <1>9, <1>10, <1>11, <1>12, StreamingStep

LEMMA StepFinish ==
  ASSUME IInv, NEW i \in Items, Finish(i)
  PROVE  IInv'
<1> DEFINE after == [pc EXCEPT ![i] = "done"]
<1>1. /\ Types /\ SlotsOK /\ ItemOK(i) /\ SignalOK(i)
      /\ pc[i] = "finishing" /\ Streaming /\ Release({0}, after)
      /\ order' = Append(order, i)
      /\ UNCHANGED <<strategy, phase, signal, parent, outcome, results, status,
                     crashed, verdict, answer>>
  BY DEF IInv, Finish, ItemOK, signalVars, endVars
<1>2. after[i] = "done" /\ \A j \in Items \ {i} : after[j] = pc[j]
  BY <1>1 DEF Types
<1>3. {0} \in SUBSET Limiters /\ GivesBack(i, {0}, after)
  <2>1. \A l \in Limiters :
          (IF l = 0 THEN after[i] \in UnderWay
           ELSE after[i] \in Working /\ Len(results'[i]) + 1 = l)
          <=> Has(i, l) /\ l \notin {0}
    BY <1>1, <1>2 DEF Has, UnderWay, Working
  <2>2. \A l \in {0} : Has(i, l)
    BY <1>1 DEF Has, UnderWay
  <2> QED BY <1>1, <1>2, <2>1, <2>2 DEF GivesBack, Limiters
<1> HIDE DEF after
<1>4. /\ SlotsOK'
      /\ active' \in [Limiters -> Nat] /\ queue' \in [Limiters -> Seq(Items)]
      /\ pc'[i] = "done"
      /\ \A j \in Items \ {i} : Drifts(j) /\ (pc[j] = "running" => pc'[j] = after[j])
  <2>1. Types /\ SlotsOK /\ Release({0}, after)
    BY <1>1
  <2> QED BY <1>2, <1>3, <2>1, ReleaseSlots
<1>5. \A j \in Items \ {i} : Bystander(j)
  BY <1>1, <1>2, <1>4 DEF Bystander, Drifts
<1>6. Types'
  <2>1. pc' \in [Items -> Positions]
    BY <1>1, <1>4, ReleasedPcs DEF Positions
  <2>2. order' \in Seq(Items)
    BY <1>1 DEF Types
  <2> QED BY <1>1, <1>4, <2>1, <2>2 DEF Types, Positions
<1>7. \A j \in Items : ItemOK(j)' /\ SignalOK(j)'
  <2> TAKE j \in Items
  <2>1. CASE j = i
    BY <1>1, <1>4, <2>1 DEF ItemOK, SignalOK, Launched, AllSucceeded, WellFormed
  <2>2. CASE j # i
    <3>1. ItemOK(j) /\ SignalOK(j) /\ Bystander(j)
      BY <1>5, <2>2 DEF IInv
    <3>2. /\ pc'[j] \in Launched \cup {"concluding"} => pc[j] \in Launched \cup {"concluding"}
          /\ pc'[j] \in {"concluding", "finishing", "done", "lost"} => pc'[j] = pc[j]
      BY <3>1 DEF Bystander, Drifts, Launched
    <3>3. pc'[j] \in {"saving", "concluding"} => outcome'[j] # "none"
      BY <3>1 DEF Bystander, Drifts, ItemOK
    <3>4. ItemOK(j)'
      BY <1>1, <3>1, <3>2, <3>3
         DEF Bystander, ItemOK, Streaming, AllSucceeded, WellFormed
    <3>5. SignalOK(j)'
      BY <1>1, <3>1 DEF Bystander, Drifts, SignalOK
    <3> QED BY <3>4, <3>5
  <2> QED BY <2>1, <2>2
<1>8. \A j, k \in Items : Abreast(j, k)'
  BY <1>1 DEF Abreast, Streaming
<1>9. phase \in {"working", "thrown"} \/ crashed
  BY <1>1 DEF IInv, PhaseOK, Types
<1>10. PhaseOK'
  <2>1. phase \notin {"starting", "collecting"} /\ (phase \in {"publishing", "returned"} => crashed)
    BY <1>1 DEF IInv, PhaseOK
  <2> QED BY <1>1, <2>1 DEF IInv, PhaseOK
<1>11. OrderOK'
  <2>1. order \in Seq(Items) /\ NoRepeats(order) /\ Elems(order) = {j \in Items : pc[j] = "done"}
    BY <1>1 DEF IInv, Types, OrderOK
  <2>2. i \notin Elems(order)
    BY <1>1, <2>1
  <2>3. NoRepeats(order') /\ Elems(order') = Elems(order) \cup {i}
    BY <1>1, <2>1, <2>2, AppendElems
  <2>4. \A j \in Items : pc'[j] = "done" <=> pc[j] = "done" \/ j = i
    BY <1>4, <1>5 DEF Bystander, Drifts
  <2> QED BY <2>1, <2>3, <2>4 DEF OrderOK
<1> QED BY <1>6, <1>4, <1>7, <1>8, <1>10, <1>11 DEF IInv

(* A file that cannot be written: the item keeps nothing and is lost.      *)
LEMMA StepWriteFailsWorking ==
  ASSUME IInv, NEW i \in Items, NEW released \in SUBSET Limiters,
         Release(released, [pc EXCEPT ![i] = "lost"]), crashed' = TRUE,
         UNCHANGED <<strategy, phase, signalVars, outcome, results, status, order,
                     endVars>>,
         \/ pc[i] = "saving" /\ released = {0, Stage(i)}
         \/ pc[i] = "finishing" /\ released = {0}
  PROVE  IInv'
<1> DEFINE after == [pc EXCEPT ![i] = "lost"]
<1>1. /\ Types /\ SlotsOK /\ ItemOK(i) /\ SignalOK(i)
      /\ Release(released, after) /\ pc[i] \in {"saving", "finishing"}
      /\ crashed' = TRUE
      /\ UNCHANGED <<strategy, phase, signal, parent, outcome, results, status, order,
                     verdict, answer>>
  BY DEF IInv, signalVars, endVars
<1>2. after[i] = "lost" /\ \A j \in Items \ {i} : after[j] = pc[j]
  BY <1>1 DEF Types
<1>3. GivesBack(i, released, after)
  <2>1. Len(results[i]) \in Nat /\ Stage(i) # 0
    BY <1>1 DEF Types, Stage
  <2>2. \A l \in Limiters :
          (IF l = 0 THEN after[i] \in UnderWay
           ELSE after[i] \in Working /\ Len(results'[i]) + 1 = l)
          <=> Has(i, l) /\ l \notin released
    BY <1>2, <2>1 DEF Has, UnderWay, Working
  <2>3. \A l \in released : Has(i, l)
    BY <2>1 DEF Has, UnderWay, Working
  <2>4. \A j \in Items : results'[j] = results[j]
    BY <1>1
  <2> QED BY <1>1, <1>2, <2>2, <2>3, <2>4 DEF GivesBack
<1> HIDE DEF after
<1>4. /\ SlotsOK'
      /\ active' \in [Limiters -> Nat] /\ queue' \in [Limiters -> Seq(Items)]
      /\ pc'[i] = "lost"
      /\ \A j \in Items \ {i} : Drifts(j) /\ (pc[j] = "running" => pc'[j] = after[j])
  <2>1. Types /\ SlotsOK /\ Release(released, after)
    BY <1>1
  <2> QED BY <1>2, <1>3, <2>1, ReleaseSlots
<1>5. \A j \in Items \ {i} : Bystander(j)
  BY <1>1, <1>2, <1>4 DEF Bystander, Drifts
<1>6. Types'
  <2>1. pc' \in [Items -> Positions]
    BY <1>1, <1>4, ReleasedPcs DEF Positions
  <2> QED BY <1>1, <1>4, <2>1 DEF Types, Positions
<1>7. ItemOK(i)' /\ SignalOK(i)'
  BY <1>1, <1>4 DEF ItemOK, SignalOK, Launched, AllSucceeded, WellFormed
<1>8. SameCourse
  BY <1>1 DEF SameCourse
<1>9. ASSUME NEW j \in Items PROVE Abreast(i, j)' /\ Abreast(j, i)'
  <2>1. CASE j = i
    BY <1>4, <2>1 DEF Abreast, Launched
  <2>2. CASE j # i
    <3>1. /\ pc'[j] \in Launched <=> pc[j] \in Launched
          /\ pc'[j] = "ready" <=> pc[j] = "ready"
      BY <1>4, <2>2 DEF Drifts, Launched
    <3>2. Abreast(i, j) /\ Abreast(j, i)
      BY DEF IInv
    <3>3. pc[i] = "finishing" => Streaming
      BY <1>1 DEF ItemOK
    <3> QED BY <1>1, <1>4, <3>1, <3>2, <3>3 DEF Abreast, Launched, Streaming
  <2> QED BY <2>1, <2>2
<1>10. pc[i] \notin {"ready", "done", "lost"} /\ pc'[i] # "done"
  BY <1>1, <1>4
<1> QED BY <1>1, <1>4, <1>5, <1>6, <1>7, <1>8, <1>9, <1>10, ItemStep

LEMMA StepWriteFails ==
  ASSUME IInv, NEW i \in Items, WriteFails(i)
  PROVE  IInv'
<1>1. /\ Types /\ SlotsOK /\ ItemOK(i) /\ crashed' = TRUE
      /\ UNCHANGED <<strategy, phase, signalVars, outcome, results, status, order,
                     endVars>>
  BY DEF IInv, WriteFails
<1>2. CASE pc[i] = "saving" /\ Release({0, Stage(i)}, [pc EXCEPT ![i] = "lost"])
  <2>1. Len(results[i]) \in Nat /\ Len(results[i]) < StageCount
    BY <1>1, <1>2 DEF Types, ItemOK, Launched
  <2>2. {0, Stage(i)} \in SUBSET Limiters
    BY <2>1, ItemsFinite DEF Stage, Stages, Limiters
  <2> QED BY <1>1, <1>2, <2>2, StepWriteFailsWorking
<1>3. CASE pc[i] = "finishing" /\ Release({0}, [pc EXCEPT ![i] = "lost"])
  <2>1. {0} \in SUBSET Limiters
    BY DEF Limiters
  <2> QED BY <1>1, <1>3, <2>1, StepWriteFailsWorking
<1>4. CASE /\ phase = "collecting" /\ i = Len(order) + 1 /\ ~crashed
           /\ pc' = [pc EXCEPT ![i] = "lost"] /\ UNCHANGED limiterVars
  <2>1. /\ ~Streaming /\ pc[i] = "ready"
        /\ \A j \in Items : pc[j] \in {"ready", "done", "lost"}
    <3>1. Len(order) \in Nat
      BY <1>1 DEF Types
    <3> QED BY <1>4, <3>1 DEF IInv, PhaseOK
  <2>2. /\ UNCHANGED <<strategy, phase, parent, signal, outcome, results, status,
                       active, queue, order, verdict, answer>>
        /\ pc'[i] = "lost" /\ \A j \in Items \ {i} : pc'[j] = pc[j]
    BY <1>1, <1>4 DEF signalVars, endVars, limiterVars, Types
  <2>3. Types'
    BY <1>1, <1>4, <2>2 DEF Types
  <2>4. SlotsOK'
    <3>1. \A j \in Items : \A l \in Limiters :
            (Has(j, l)' <=> Has(j, l)) /\ (Awaits(j, l)' <=> Awaits(j, l))
      BY <2>1, <2>2 DEF Has, Awaits, UnderWay, Working, Stage
    <3> QED BY <1>1, <2>2, <3>1, SameSlots
  <2>5. \A j \in Items : ItemOK(j)'
    <3> TAKE j \in Items
    <3>1. ItemOK(j)
      BY DEF IInv
    <3>2. pc'[j] = "lost" \/ pc'[j] = pc[j]
      BY <2>2
    <3> QED BY <1>1, <2>2, <3>1, <3>2
            DEF ItemOK, Launched, Streaming, AllSucceeded, WellFormed
  <2>6. \A j \in Items : SignalOK(j)'
    <3> TAKE j \in Items
    <3>1. SignalOK(j) /\ (pc'[j] = "lost" \/ pc'[j] = pc[j])
      BY <2>2 DEF IInv
    <3> QED BY <2>2, <3>1 DEF SignalOK
  <2>7. \A j, k \in Items : Abreast(j, k)'
    <3> TAKE j, k \in Items
    <3>1. Abreast(j, k) /\ pc'[j] \notin Launched
          /\ (pc'[j] = "ready" => pc[j] = "ready") /\ (pc'[k] = "ready" => pc[k] = "ready")
      BY <2>1, <2>2 DEF IInv, Launched
    <3> QED BY <2>2, <3>1 DEF Abreast, Streaming
  <2>8. PhaseOK'
    BY <1>1, <1>4, <2>1, <2>2 DEF IInv, PhaseOK, Streaming
  <2>9. OrderOK'
    BY <2>1, <2>2, SameOrder DEF IInv
  <2> QED BY <2>3, <2>4, <2>5, <2>6, <2>7, <2>8, <2>9 DEF IInv
<1> QED BY <1>2, <1>3, <1>4 DEF WriteFails

LEMMA StepCollect ==
  ASSUME IInv, NEW i \in Items, Collect(i)
  PROVE  IInv'
<1> DEFINE r == results[i]
           d == StageCount - Len(r)
           t == r \o Skipped(d)
<1>1. /\ Types /\ SlotsOK /\ ItemOK(i) /\ SignalOK(i) /\ PhaseOK
      /\ phase = "collecting" /\ ~crashed /\ i = Len(order) + 1
      /\ status' = [status EXCEPT ![i] = IF @ = "active" THEN "succeeded" ELSE @]
      /\ results' = [results EXCEPT ![i] = t]
      /\ order' = Append(order, i)
      /\ pc' = [pc EXCEPT ![i] = "done"]
      /\ UNCHANGED <<strategy, phase, parent, signal, outcome, active, queue, crashed,
                     verdict, answer>>
  BY DEF IInv, Collect, signalVars, limiterVars, endVars
<1>2. /\ Len(order) \in Nat /\ order \in Seq(Items)
      /\ \A j \in Items : pc[j] = IF j <= Len(order) THEN "done" ELSE "ready"
      /\ ~Streaming /\ pc[i] = "ready"
      /\ \A j \in Items : status[j] = "active" => Len(results[j]) = StageCount
  BY <1>1 DEF Types, PhaseOK
<1>3. /\ results'[i] = t /\ pc'[i] = "done"
      /\ status'[i] = IF status[i] = "active" THEN "succeeded" ELSE status[i]
      /\ \A j \in Items \ {i} :
           results'[j] = results[j] /\ status'[j] = status[j] /\ pc'[j] = pc[j]
  BY <1>1 DEF Types
<1>4. /\ r \in Seq(StageStatuses) /\ Len(r) \in Nat /\ WellFormed(r)
      /\ d \in Nat /\ Len(r) + d = StageCount /\ (d = 0 <=> Len(r) = StageCount)
  <2> DEFINE m == Len(r)
  <2>1. /\ r \in Seq(StageStatuses) /\ m \in Nat /\ WellFormed(r)
        /\ m <= StageCount /\ StageCount \in Nat
    BY <1>1, ItemsFinite DEF Types, ItemOK
  <2> HIDE DEF m
  <2>2. StageCount - m \in Nat /\ m + (StageCount - m) = StageCount
        /\ (StageCount - m = 0 <=> m = StageCount)
    BY <2>1
  <2> QED BY <2>1, <2>2 DEF m
<1>5. /\ t \in Seq(StageStatuses) /\ Len(t) = StageCount /\ WellFormed(t)
      /\ AllSucceeded(t) <=> AllSucceeded(r) /\ Len(r) = StageCount
  <2>1. /\ t \in Seq(StageStatuses) /\ Len(t) = Len(r) + d /\ WellFormed(t)
        /\ AllSucceeded(t) <=> AllSucceeded(r) /\ d = 0
    BY <1>4, SkipRest
  <2> HIDE DEF t, d
  <2> QED BY <1>4, <2>1
<1> HIDE DEF t, d
<1>6. Types'
  <2>1. results' \in [Items -> Seq(StageStatuses)]
    BY <1>1, <1>5 DEF Types
  <2>2. status' \in [Items -> ItemStatuses \cup {"active"}]
    BY <1>1 DEF Types, ItemStatuses
  <2>3. order' \in Seq(Items) /\ pc' \in [Items -> Positions]
    BY <1>1 DEF Types, Positions
  <2> QED BY <1>1, <2>1, <2>2, <2>3 DEF Types, Positions
<1>7. SlotsOK'
  <2>1. \A j \in Items : \A l \in Limiters :
          (Has(j, l)' <=> Has(j, l)) /\ (Awaits(j, l)' <=> Awaits(j, l))
    <3> TAKE j \in Items
    <3> TAKE l \in Limiters
    <3>1. pc[j] \in {"ready", "done"} /\ pc'[j] \in {"ready", "done"}
      BY <1>2, <1>3
    <3> QED BY <3>1 DEF Has, Awaits, UnderWay, Working
  <2> QED BY <1>1, <2>1, SameSlots
<1>8. \A j \in Items : ItemOK(j)'
  <2> TAKE j \in Items
  <2>1. CASE j = i
    <3>1. Len(results'[i]) = StageCount /\ Len(results'[i]) <= StageCount
      BY <1>3, <1>5, ItemsFinite
    <3>2. WellFormed(results'[i])
      BY <1>3, <1>5
    <3>3. status'[i] # "active" /\ (status'[i] = "succeeded" => AllSucceeded(results'[i]))
          /\ (status'[i] # "succeeded" => ~AllSucceeded(results'[i]))
      <4>1. /\ status[i] \in {"active", "succeeded"} =>
                 AllSucceeded(r) /\ Len(r) = StageCount
            /\ status[i] \notin {"active", "succeeded"} =>
                 ~(AllSucceeded(r) /\ Len(r) = StageCount)
        <5>1. Len(r) < StageCount => Len(r) # StageCount
          BY <1>4, ItemsFinite
        <5> QED BY <1>1, <1>2, <5>1 DEF ItemOK
      <4> QED BY <1>3, <1>5, <4>1
    <3> QED BY <1>3, <2>1, <3>1, <3>2, <3>3 DEF ItemOK, Launched
  <2>2. CASE j # i
    <3>1. ItemOK(j)
      BY DEF IInv
    <3>2. /\ results'[j] = results[j] /\ status'[j] = status[j] /\ pc'[j] = pc[j]
          /\ outcome'[j] = outcome[j] /\ (Streaming' <=> Streaming) /\ crashed' = crashed
      BY <1>1, <1>3, <2>2 DEF Streaming
    <3> QED BY <3>1, <3>2 DEF ItemOK
  <2> QED BY <2>1, <2>2
<1>9. \A j \in Items : SignalOK(j)'
  <2> TAKE j \in Items
  <2>1. SignalOK(j) /\ (status'[j] = "succeeded" \/ status'[j] = status[j])
    BY <1>3 DEF IInv
  <2>2. pc'[j] # "running"
    BY <1>2, <1>3
  <2> QED BY <1>1, <2>1, <2>2 DEF SignalOK
<1>10. \A j, k \in Items : Abreast(j, k)'
  <2> TAKE j, k \in Items
  <2>1. /\ Abreast(j, k) /\ pc'[j] \notin Launched
        /\ pc'[j] = "ready" => j # i /\ pc[j] = "ready"
        /\ pc'[k] = "ready" => k # i /\ pc[k] = "ready"
    BY <1>2, <1>3 DEF IInv, Launched
  <2> QED BY <1>1, <1>3, <2>1 DEF Abreast, Streaming
<1>11. PhaseOK'
  <2>1. Len(order') = Len(order) + 1
    BY <1>1, <1>2
  <2>2. \A j \in Items : pc'[j] = IF j <= Len(order') THEN "done" ELSE "ready"
    <3> TAKE j \in Items
    <3>1. j \in Nat
      BY ItemsFinite
    <3>2. CASE j = i
      BY <1>1, <1>2, <1>3, <2>1, <3>2
    <3>3. CASE j # i
      BY <1>1, <1>2, <1>3, <2>1, <3>1, <3>3
    <3> QED BY <3>2, <3>3
  <2>3. \A j \in Items : status'[j] = "active" => Len(results'[j]) = StageCount
    BY <1>2, <1>3
  <2>4. \A j \in Items : pc'[j] \in {"ready", "done", "lost"}
    BY <2>2
  <2>5. ~Streaming' /\ phase' = "collecting" /\ (parent' # "none" => signal' # "none")
    BY <1>1, <1>2 DEF Streaming, PhaseOK
  <2> QED BY <2>2, <2>3, <2>4, <2>5 DEF PhaseOK
<1>12. OrderOK'
  <2>1. NoRepeats(order) /\ Elems(order) = {j \in Items : pc[j] = "done"}
    BY DEF IInv, OrderOK
  <2>2. i \notin Elems(order)
    BY <1>2, <2>1
  <2>3. NoRepeats(order') /\ Elems(order') = Elems(order) \cup {i}
    BY <1>1, <1>2, <2>1, <2>2, AppendElems
  <2>4. \A j \in Items : pc'[j] = "done" <=> pc[j] = "done" \/ j = i
    BY <1>3
  <2> QED BY <2>1, <2>3, <2>4 DEF OrderOK
<1> QED BY <1>6, <1>7, <1>8, <1>9, <1>10, <1>11, <1>12 DEF IInv

-----------------------------------------------------------------------------
(* The caller is aborted, and the steps of runPipeline() itself.           *)
LEMMA StepAbortParent ==
  ASSUME IInv, NEW why \in {"user", "timeout"}, AbortParent(why)
  PROVE  IInv'
<1>1. /\ Types /\ SlotsOK /\ PhaseOK /\ phase # "returned"
      /\ parent' = why /\ Aborts(why) /\ pc' = AfterAbort
      /\ UNCHANGED <<strategy, phase, results, status, active, queue, order, crashed,
                     verdict, answer>>
  BY DEF IInv, AbortParent, limiterVars, endVars
<1>2. /\ signal' # "none" /\ signal' \in {"none", "fail-fast", "user", "timeout"}
      /\ outcome' \in [Items -> StageStatuses \cup {"none"}]
      /\ pc' \in [Items -> Positions]
      /\ \A j \in Items :
           IF pc[j] = "running" /\ signal = "none"
           THEN outcome'[j] # "none" /\ pc'[j] = "saving"
           ELSE outcome'[j] = outcome[j] /\ pc'[j] = pc[j]
  BY <1>1, AbortedItems
<1>3. Types'
  BY <1>1, <1>2 DEF Types, Positions
<1>4. \A j \in Items : Bystander(j)
  BY <1>1, <1>2 DEF Bystander, Drifts
<1>5. SlotsOK'
  <2>1. \A j \in Items : \A l \in Limiters :
          (Has(j, l)' <=> Has(j, l)) /\ (Awaits(j, l)' <=> Awaits(j, l))
    <3> TAKE j \in Items
    <3>1. Stage(j)' = Stage(j)
      BY <1>1 DEF Stage
    <3> QED BY <1>2, <3>1 DEF Has, Awaits, UnderWay, Working
  <2> QED BY <1>1, <2>1, SameSlots
<1>6. \A j \in Items : ItemOK(j)' /\ SignalOK(j)'
  BY <1>1, <1>2, <1>4, BystanderOK DEF IInv
<1>7. \A i, j \in Items : Abreast(i, j)'
  BY <1>1, <1>4, BystandersAbreast DEF IInv
<1>8. PhaseOK'
  <2>1. \A j \in Items : pc[j] \in {"ready", "done", "lost"} => pc'[j] = pc[j]
    BY <1>2
  <2>2. phase \in {"publishing", "returned"} /\ ~crashed => Promise'
    BY <1>1, <1>2 DEF PhaseOK, Promise
  <2>3. phase \in {"publishing", "returned"} /\ ~crashed => \A j \in Items : pc'[j] = "done"
    BY <1>1, <2>1 DEF PhaseOK
  <2>4. phase = "starting" =>
          /\ ~crashed
          /\ \A i \in Items : pc'[i] = "ready" /\ status[i] = "active" /\ results[i] = <<>>
    BY <1>1, <2>1 DEF PhaseOK
  <2>5. phase = "collecting" =>
          /\ ~Streaming
          /\ \A i \in Items : pc'[i] \in {"ready", "done", "lost"}
          /\ \A i \in Items : status[i] = "active" => Len(results[i]) = StageCount
          /\ ~crashed =>
               \A i \in Items : pc'[i] = IF i <= Len(order) THEN "done" ELSE "ready"
    BY <1>1, <2>1 DEF PhaseOK
  <2> QED BY <1>1, <1>2, <2>2, <2>3, <2>4, <2>5 DEF PhaseOK, Streaming
<1>9. OrderOK'
  <2>1. \A j \in Items : pc'[j] = "done" <=> pc[j] = "done"
    BY <1>2
  <2> QED BY <1>1, <2>1, SameOrder DEF IInv
<1> QED BY <1>3, <1>5, <1>6, <1>7, <1>8, <1>9 DEF IInv

(* Items that are launched: the first take the slots, the others wait.     *)
LEMMA LaunchedItems ==
  ASSUME Types, SlotsOK, \A j \in Items : pc[j] = "ready", results' = results,
         NEW eligible \in SUBSET Items, LaunchItems(eligible)
  PROVE  /\ SlotsOK'
         /\ active' \in [Limiters -> Nat] /\ queue' \in [Limiters -> Seq(Items)]
         /\ pc' \in [Items -> Positions]
         /\ \A j \in eligible : pc'[j] \in {"granted", "atItem"}
         /\ \A j \in Items \ eligible : pc'[j] = "ready"
<1> DEFINE first == {i \in eligible : Before(eligible, i) < Limit(0)}
           rest == eligible \ first
<1>1. /\ active' = [active EXCEPT ![0] = Cardinality(first)]
      /\ queue' = [queue EXCEPT ![0] = InOrder(rest)]
      /\ pc' = [i \in Items |-> IF i \in first THEN "granted"
                                ELSE IF i \in eligible THEN "atItem" ELSE pc[i]]
  BY DEF LaunchItems
<1>2. /\ 0 \in Limiters /\ Limit(0) \in Nat
      /\ first \in SUBSET eligible /\ rest \in SUBSET Items /\ first \in SUBSET Items
  BY Limits DEF Limiters
<1>3. /\ Cardinality(first) \in Nat /\ Cardinality(first) <= Limit(0)
      /\ rest # {} => Cardinality(first) = Limit(0)
  BY <1>2, FirstItems
<1>4. /\ InOrder(rest) \in Seq(Items)
      /\ Elems(InOrder(rest)) = rest /\ NoRepeats(InOrder(rest))
  BY <1>2, InOrderElems
<1> HIDE DEF first, rest
<1>5. /\ \A j \in first : pc'[j] = "granted"
      /\ \A j \in rest : pc'[j] = "atItem"
      /\ \A j \in Items \ eligible : pc'[j] = "ready"
      /\ eligible = first \cup rest /\ first \cap rest = {}
  BY <1>1, <1>2 DEF rest
<1>6. /\ active' \in [Limiters -> Nat] /\ queue' \in [Limiters -> Seq(Items)]
      /\ pc' \in [Items -> Positions]
  BY <1>1, <1>3, <1>4 DEF Types, Positions
<1>7. ASSUME NEW l \in Limiters
      PROVE  SlotsExact(active'[l], queue'[l], Holders(l)', Waiters(l)', Limit(l))
  <2>1. CASE l = 0
    <3>1. Holders(l)' = first /\ Waiters(l)' = rest
      <4>1. \A j \in Items : (pc'[j] \in UnderWay <=> j \in first) /\ (pc'[j] = "atItem" <=> j \in rest)
        BY <1>5 DEF UnderWay
      <4>2. first \subseteq Items /\ rest \subseteq Items
        BY <1>2
      <4> QED BY <2>1, <4>1, <4>2 DEF Holders, Waiters, Has, Awaits
    <3>2. active'[l] = Cardinality(first) /\ queue'[l] = InOrder(rest)
      BY <1>1, <1>2, <2>1 DEF Types
    <3>3. queue'[l] # <<>> => rest # {}
      BY <1>4, <3>2, EmptyQueue
    <3> QED BY <1>3, <1>4, <2>1, <3>1, <3>2, <3>3 DEF SlotsExact
  <2>2. CASE l # 0
    <3>1. \A j \in Items : pc'[j] \in {"ready", "granted", "atItem"}
      BY <1>5
    <3>2. Holders(l)' = {} /\ Waiters(l)' = {}
      BY <2>2, <3>1 DEF Holders, Waiters, Has, Awaits, Working
    <3>3. Holders(l) = {} /\ Waiters(l) = {}
      BY <2>2 DEF Holders, Waiters, Has, Awaits, Working
    <3>4. active'[l] = active[l] /\ queue'[l] = queue[l]
      BY <1>1, <2>2 DEF Types
    <3>5. SlotsExact(active[l], queue[l], Holders(l), Waiters(l), Limit(l))
      BY DEF SlotsOK
    <3> QED BY <3>2, <3>3, <3>4, <3>5
  <2> QED BY <2>1, <2>2
<1>8. SlotsOK'
  BY <1>7 DEF SlotsOK
<1> QED BY <1>5, <1>6, <1>8

(* The items of a launch have a stage to go, and the same if they keep     *)
(* abreast; the others are out of it.                                      *)
LEMMA StepLaunch ==
  ASSUME IInv, \A j \in Items : pc[j] = "ready",
         NEW eligible \in SUBSET Items, LaunchItems(eligible),
         \A j \in Items : status[j] = "active" => j \in eligible,
         \A j \in eligible : status[j] = "active" /\ Len(results[j]) < StageCount,
         phase' = "working",
         UNCHANGED <<strategy, signalVars, outcome, results, status, order, crashed,
                     endVars>>
  PROVE  IInv'
<1>1. /\ Types /\ SlotsOK /\ PhaseOK
      /\ UNCHANGED <<strategy, parent, signal, outcome, results, status, order, crashed,
                     verdict, answer>>
  BY DEF IInv, signalVars, endVars
<1>2. /\ SlotsOK'
      /\ active' \in [Limiters -> Nat] /\ queue' \in [Limiters -> Seq(Items)]
      /\ pc' \in [Items -> Positions]
      /\ \A j \in eligible : pc'[j] \in {"granted", "atItem"}
      /\ \A j \in Items \ eligible : pc'[j] = "ready"
  BY <1>1, LaunchedItems
<1>3. Types'
  BY <1>1, <1>2 DEF Types, Positions
<1>4. \A j \in Items : ItemOK(j)' /\ SignalOK(j)'
  <2> TAKE j \in Items
  <2>1. /\ ItemOK(j) /\ SignalOK(j)
        /\ (pc'[j] \in {"granted", "atItem"} /\ j \in eligible) \/ pc'[j] = "ready"
    BY <1>2 DEF IInv
  <2>2. ItemOK(j)'
    BY <1>1, <2>1 DEF ItemOK, Launched, Streaming, AllSucceeded, WellFormed
  <2>3. SignalOK(j)'
    BY <1>1, <2>1 DEF SignalOK
  <2> QED BY <2>2, <2>3
<1>5. \A i, j \in Items : Abreast(i, j)'
  <2> TAKE i, j \in Items
  <2>1. Abreast(i, j) /\ pc[i] = "ready" /\ pc[j] = "ready"
    BY DEF IInv
  <2>2. status[j] = "active" => pc'[j] # "ready" /\ pc'[j] # "lost"
    BY <1>2
  <2>3. status[i] = "active" => pc'[i] # "ready"
    BY <1>2
  <2> QED BY <1>1, <2>1, <2>2, <2>3 DEF Abreast, Streaming
<1>6. PhaseOK'
  BY <1>1 DEF PhaseOK
<1>7. OrderOK'
  <2>1. \A j \in Items : pc'[j] = "done" <=> pc[j] = "done"
    BY <1>2
  <2> QED BY <1>1, <2>1, SameOrder DEF IInv
<1> QED BY <1>2, <1>3, <1>4, <1>5, <1>6, <1>7 DEF IInv

LEMMA StepLaunchStreaming ==
  ASSUME IInv, LaunchStreaming
  PROVE  IInv'
<1>1. \A j \in Items : pc[j] = "ready" /\ status[j] = "active" /\ results[j] = <<>>
  BY DEF IInv, PhaseOK, LaunchStreaming
<1>2. \A j \in Items : status[j] = "active" /\ Len(results[j]) < StageCount
  BY <1>1, ItemsFinite, NothingDone
<1> QED BY <1>1, <1>2, StepLaunch DEF LaunchStreaming

(* At a barrier every eligible item has come to the same stage.            *)
LEMMA AtBarrier ==
  ASSUME IInv, ~Streaming, \A j \in Items : pc[j] = "ready"
  PROVE  IF MoreStages THEN \A j \in Eligible : Len(results[j]) < StageCount
         ELSE \A j \in Eligible : Len(results[j]) = StageCount
<1>1. \A i \in Items : Len(results[i]) \in Nat /\ Len(results[i]) <= StageCount
  BY DEF IInv, Types, ItemOK
<1>2. ASSUME MoreStages, NEW j \in Eligible PROVE Len(results[j]) < StageCount
  <2>1. PICK i \in Eligible : Stage(i) <= StageCount
    BY <1>2 DEF MoreStages
  <2>2. Abreast(i, j) /\ status[i] = "active" /\ status[j] = "active"
    BY DEF Eligible, IInv
  <2>3. Len(results[j]) = Len(results[i])
    BY <2>2 DEF Abreast, Eligible
  <2>4. Len(results[i]) \in Nat /\ Len(results[i]) + 1 <= StageCount
    BY <1>1, <2>1 DEF Stage, Eligible
  <2> QED BY <2>3, <2>4, ItemsFinite
<1>3. ASSUME ~MoreStages, NEW j \in Eligible PROVE Len(results[j]) = StageCount
  <2>1. ~(Len(results[j]) + 1 <= StageCount)
    BY <1>3 DEF MoreStages, Stage
  <2>2. Len(results[j]) \in Nat /\ Len(results[j]) <= StageCount
    BY <1>1 DEF Eligible
  <2> QED BY <2>1, <2>2, ItemsFinite
<1> QED BY <1>2, <1>3

LEMMA StepLaunchStage ==
  ASSUME IInv, LaunchStage
  PROVE  IInv'
<1>1. \A j \in Items : pc[j] = "ready"
  BY DEF LaunchStage, Barrier
<1>2. \A j \in Eligible : Len(results[j]) < StageCount
  BY <1>1, AtBarrier DEF LaunchStage
<1> DEFINE eligible == {i \in Eligible : pc[i] = "ready"}
<1>3. /\ eligible \in SUBSET Items
      /\ \A j \in Items : status[j] = "active" => j \in eligible
      /\ \A j \in eligible : status[j] = "active" /\ Len(results[j]) < StageCount
  BY <1>1, <1>2 DEF Eligible
<1>4. /\ LaunchItems(eligible) /\ phase' = "working"
      /\ UNCHANGED <<strategy, signalVars, outcome, results, status, order, crashed,
                     endVars>>
  BY DEF LaunchStage
<1> HIDE DEF eligible
<1> QED BY <1>1, <1>3, <1>4, StepLaunch

LEMMA StepLeaveStages ==
  ASSUME IInv, LeaveStages
  PROVE  IInv'
<1>1. /\ Types /\ SlotsOK /\ PhaseOK /\ OrderOK /\ ~Streaming /\ ~crashed
      /\ \A j \in Items : pc[j] = "ready"
      /\ MoreStages => signal # "none"
      /\ phase' = "collecting"
      /\ status' = [j \in Items |->
           IF j \in CancelledAtBarrier THEN "cancelled" ELSE status[j]]
      /\ UNCHANGED <<strategy, parent, signal, pc, outcome, results, active, queue,
                     order, crashed, verdict, answer>>
  BY DEF IInv, LeaveStages, signalVars, limiterVars, endVars
<1>2. IF MoreStages THEN \A j \in Eligible : Len(results[j]) < StageCount
      ELSE \A j \in Eligible : Len(results[j]) = StageCount
  BY <1>1, AtBarrier
<1>3. \A j \in Items :
        \/ /\ status[j] = "active" /\ status'[j] = "cancelled"
           /\ signal # "none" /\ Len(results[j]) < StageCount
        \/ /\ status'[j] = status[j]
           /\ status[j] = "active" => Len(results[j]) = StageCount
  BY <1>1, <1>2 DEF CancelledAtBarrier, Eligible
<1>4. Types'
  <2>1. status' \in [Items -> ItemStatuses \cup {"active"}]
    BY <1>1 DEF Types, ItemStatuses
  <2> QED BY <1>1, <2>1 DEF Types
<1>5. SlotsOK'
  <2>1. \A j \in Items : \A l \in Limiters :
          (Has(j, l)' <=> Has(j, l)) /\ (Awaits(j, l)' <=> Awaits(j, l))
    BY <1>1 DEF Has, Awaits, Stage
  <2> QED BY <1>1, <2>1, SameSlots
<1>6. \A j \in Items : ItemOK(j)' /\ SignalOK(j)'
  <2> TAKE j \in Items
  <2>1. ItemOK(j) /\ SignalOK(j)
    BY DEF IInv
  <2>2. ItemOK(j)'
    BY <1>1, <1>3, <2>1 DEF ItemOK, Launched, AllSucceeded, WellFormed
  <2>3. SignalOK(j)'
    BY <1>1, <1>3, <2>1 DEF SignalOK
  <2> QED BY <2>2, <2>3
<1>7. \A i, j \in Items : Abreast(i, j)'
  <2> TAKE i, j \in Items
  <2>1. Abreast(i, j) /\ pc[i] = "ready" /\ pc[j] = "ready"
    BY <1>1 DEF IInv
  <2>2. /\ status'[i] = "active" => status[i] = "active"
        /\ status'[j] = "active" => status[j] = "active"
    BY <1>3
  <2> QED BY <1>1, <2>1, <2>2 DEF Abreast, Streaming
<1>8. Len(order) = 0
  <2>1. order \in Seq(Items) /\ Elems(order) = {}
    BY <1>1 DEF Types, OrderOK
  <2> QED BY <2>1, EmptyQueue
<1>9. PhaseOK'
  <2>1. \A j \in Items : status'[j] = "active" => Len(results'[j]) = StageCount
    BY <1>1, <1>3
  <2>2. \A j \in Items : pc'[j] = IF j <= Len(order') THEN "done" ELSE "ready"
    BY <1>1, <1>8, ItemsFinite DEF Items
  <2>3. \A j \in Items : pc'[j] \in {"ready", "done", "lost"}
    BY <1>1
  <2>4. ~Streaming' /\ (parent' # "none" => signal' # "none")
    BY <1>1 DEF Streaming, PhaseOK
  <2> QED BY <1>1, <2>1, <2>2, <2>3, <2>4 DEF PhaseOK
<1>10. OrderOK'
  BY <1>1 DEF OrderOK
<1> QED BY <1>4, <1>5, <1>6, <1>7, <1>9, <1>10 DEF IInv

(* Every item has come through when as many have as there are.             *)
LEMMA AllCollected ==
  ASSUME Types, OrderOK, Len(order) = ItemCount
  PROVE  Elems(order) = Items /\ ToSet(order) = Items
<1>1. order \in Seq(Items) /\ NoRepeats(order)
  BY DEF Types, OrderOK
<1>2. Cardinality(Elems(order)) = ItemCount
  BY <1>1, LenIsCardinality
<1>3. Elems(order) \subseteq Items
  BY <1>1 DEF Elems
<1>4. Elems(order) = Items
  BY <1>2, <1>3, ItemsFinite, FS_Subset
<1> QED BY <1>1, <1>4, ToSetElems

LEMMA StepDecide ==
  ASSUME IInv, Decide
  PROVE  IInv'
<1>1. /\ Types /\ SlotsOK /\ PhaseOK /\ OrderOK
      /\ crashed \/ Len(order) = ItemCount
      /\ phase' = "publishing" /\ verdict' = Verdict
      /\ answer' = IF crashed THEN <<>> ELSE Answer
      /\ UNCHANGED <<strategy, parent, signal, pc, outcome, results, status, active,
                     queue, order, crashed>>
  BY DEF IInv, Decide, signalVars, itemVars, limiterVars
<1>2. answer' \in Seq(Items) /\ (~crashed =>
        /\ ToSet(answer') = Items /\ Len(answer') = ItemCount
        /\ PreserveOrder => \A i \in Items : answer'[i] = i)
  <2>1. CASE crashed
    BY <1>1, <2>1
  <2>2. CASE ~crashed
    <3>1. ToSet(order) = Items /\ Len(order) = ItemCount /\ order \in Seq(Items)
      BY <1>1, <2>2, AllCollected DEF Types
    <3>2. CASE PreserveOrder
      <4>1. answer' = InOrder(Items)
        BY <1>1, <2>2, <3>1, <3>2 DEF Answer
      <4>2. /\ InOrder(Items) \in Seq(Items) /\ Len(InOrder(Items)) = ItemCount
            /\ Elems(InOrder(Items)) = Items
        BY InOrderElems, ItemsFinite
      <4>3. ToSet(InOrder(Items)) = Items
        BY <4>2, ToSetElems
      <4>4. \A i \in Items : InOrder(Items)[i] = i
        BY InOrderItems
      <4> QED BY <4>1, <4>2, <4>3, <4>4
    <3>3. CASE ~PreserveOrder
      <4>1. answer' = order
        BY <1>1, <2>2, <3>3 DEF Answer
      <4> QED BY <3>1, <3>3, <4>1
    <3> QED BY <3>2, <3>3
  <2> QED BY <2>1, <2>2
<1>3. ~crashed => \A i \in Items : pc[i] = "done" /\ status[i] # "active"
  <2> SUFFICES ASSUME ~crashed, NEW i \in Items PROVE pc[i] = "done" /\ status[i] # "active"
    OBVIOUS
  <2>1. Elems(order) = Items
    BY <1>1, AllCollected
  <2>2. pc[i] = "done"
    BY <1>1, <2>1 DEF OrderOK
  <2> QED BY <2>2 DEF IInv, ItemOK
<1>4. Types'
  <2>1. verdict' \in {"none", "succeeded", "failed", "cancelled"}
    BY <1>1 DEF Verdict
  <2> QED BY <1>1, <1>2, <2>1 DEF Types
<1>5. SlotsOK'
  <2>1. \A j \in Items : \A l \in Limiters :
          (Has(j, l)' <=> Has(j, l)) /\ (Awaits(j, l)' <=> Awaits(j, l))
    BY <1>1 DEF Has, Awaits, Stage
  <2> QED BY <1>1, <2>1, SameSlots
<1>6. \A j \in Items : ItemOK(j)' /\ SignalOK(j)'
  <2> TAKE j \in Items
  <2>1. ItemOK(j)'
    BY <1>1 DEF IInv, ItemOK, Streaming, AllSucceeded, WellFormed
  <2>2. SignalOK(j)'
    BY <1>1 DEF IInv, SignalOK
  <2> QED BY <2>1, <2>2
<1>7. \A i, j \in Items : Abreast(i, j)'
  BY <1>1 DEF IInv, Abreast, Streaming
<1>8. ~crashed =>
        /\ verdict' = "succeeded" => \A i \in Items : status[i] = "succeeded"
        /\ verdict' = "failed" => \A i \in Items : status[i] # "cancelled"
        /\ verdict' = "cancelled" => signal # "none"
  <2> SUFFICES ASSUME ~crashed
               PROVE  /\ Verdict = "succeeded" => \A i \in Items : status[i] = "succeeded"
                      /\ Verdict = "failed" => \A i \in Items : status[i] # "cancelled"
                      /\ Verdict = "cancelled" => signal # "none"
    BY <1>1
  <2>1. \A i \in Items : status[i] \in {"succeeded", "failed", "timed_out", "cancelled"}
    BY <1>1, <1>3 DEF Types, ItemStatuses
  <2>2. parent # "none" => signal # "none"
    BY <1>1 DEF PhaseOK
  <2>3. \A i \in Items : status[i] = "cancelled" => signal # "none"
    BY DEF IInv, SignalOK
  <2> QED BY <2>1, <2>2, <2>3 DEF Verdict, Some
<1>9. PhaseOK'
  <2>1. ~crashed => Promise' /\ \A i \in Items : pc'[i] = "done"
    BY <1>1, <1>2, <1>3, <1>8 DEF Promise
  <2>2. parent' # "none" => signal' # "none"
    BY <1>1 DEF PhaseOK
  <2> QED BY <1>1, <2>1, <2>2 DEF PhaseOK
<1>10. OrderOK'
  BY <1>1 DEF OrderOK
<1> QED BY <1>4, <1>5, <1>6, <1>7, <1>9, <1>10 DEF IInv

LEMMA StepPublish ==
  ASSUME IInv, Publish \/ PublishFails
  PROVE  IInv'
<1>1. /\ Types /\ SlotsOK /\ PhaseOK /\ OrderOK
      /\ phase = "publishing" /\ phase' \in {"thrown", "returned"}
      /\ crashed => phase' = "thrown"
      /\ UNCHANGED <<strategy, parent, signal, pc, outcome, results, status, active,
                     queue, order, crashed, verdict, answer>>
  BY DEF IInv, Publish, PublishFails, signalVars, itemVars, limiterVars, endVars
<1>2. Types'
  BY <1>1 DEF Types
<1>3. SlotsOK'
  <2>1. \A j \in Items : \A l \in Limiters :
          (Has(j, l)' <=> Has(j, l)) /\ (Awaits(j, l)' <=> Awaits(j, l))
    BY <1>1 DEF Has, Awaits, Stage
  <2> QED BY <1>1, <2>1, SameSlots
<1>4. \A j \in Items : ItemOK(j)' /\ SignalOK(j)'
  BY <1>1 DEF IInv, ItemOK, SignalOK, Streaming, AllSucceeded, WellFormed
<1>5. \A i, j \in Items : Abreast(i, j)'
  BY <1>1 DEF IInv, Abreast, Streaming
<1>6. PhaseOK'
  BY <1>1 DEF PhaseOK, Promise
<1>7. OrderOK'
  BY <1>1 DEF OrderOK
<1> QED BY <1>2, <1>3, <1>4, <1>5, <1>6, <1>7 DEF IInv

LEMMA StepNothing ==
  ASSUME IInv, UNCHANGED vars
  PROVE  IInv'
<1>1. /\ Types /\ SlotsOK /\ PhaseOK /\ OrderOK
      /\ UNCHANGED <<strategy, phase, parent, signal, pc, outcome, results, status, active,
                     queue, order, crashed, verdict, answer>>
  BY DEF IInv, vars, signalVars, itemVars, limiterVars, endVars
<1>2. Types'
  BY <1>1 DEF Types
<1>3. SlotsOK'
  <2>1. \A j \in Items : \A l \in Limiters :
          (Has(j, l)' <=> Has(j, l)) /\ (Awaits(j, l)' <=> Awaits(j, l))
    BY <1>1 DEF Has, Awaits, Stage
  <2> QED BY <1>1, <2>1, SameSlots
<1>4. \A j \in Items : ItemOK(j)' /\ SignalOK(j)'
  <2> TAKE j \in Items
  <2>1. ItemOK(j)'
    BY <1>1 DEF IInv, ItemOK, Streaming, AllSucceeded, WellFormed
  <2>2. SignalOK(j)'
    BY <1>1 DEF IInv, SignalOK
  <2> QED BY <2>1, <2>2
<1>5. \A i, j \in Items : Abreast(i, j)'
  BY <1>1 DEF IInv, Abreast, Streaming
<1>6. PhaseOK'
  BY <1>1 DEF PhaseOK, Promise, Streaming
<1>7. OrderOK'
  BY <1>1 DEF OrderOK
<1> QED BY <1>2, <1>3, <1>4, <1>5, <1>6, <1>7 DEF IInv

-----------------------------------------------------------------------------
LEMMA StepIInv ==
  IInv /\ [Next]_vars => IInv'
<1> SUFFICES ASSUME IInv, [Next]_vars PROVE IInv'
  OBVIOUS
<1>1. CASE UNCHANGED vars
  BY <1>1, StepNothing
<1>2. CASE LaunchStreaming \/ LaunchStage \/ LeaveStages
  BY <1>2, StepLaunchStreaming, StepLaunchStage, StepLeaveStages
<1>3. CASE Decide \/ Publish \/ PublishFails
  BY <1>3, StepDecide, StepPublish
<1>4. ASSUME NEW i \in Items,
             \/ Enter(i) \/ EnterAborted(i) \/ Begin(i) \/ BeginSkipped(i)
             \/ StageSavedBarrier(i) \/ StageSavedStreaming(i) \/ Conclude(i)
             \/ Finish(i) \/ Collect(i) \/ WriteFails(i)
      PROVE  IInv'
  BY <1>4, StepEnter, StepEnterAborted, StepBegin, StepBeginSkipped,
     StepStageSavedBarrier, StepStageSavedStreaming, StepConclude, StepFinish,
     StepCollect, StepWriteFails
<1>5. ASSUME NEW i \in Items,
             (\E how \in {"succeeded", "failed"} : StageEnds(i, how)) \/ StageTimesOut(i)
      PROVE  IInv'
  BY <1>5, StepStageEnds DEF StageTimesOut
<1>6. ASSUME NEW why \in {"user", "timeout"}, AbortParent(why) PROVE IInv'
  BY <1>6, StepAbortParent
<1> QED BY <1>1, <1>2, <1>3, <1>4, <1>5, <1>6 DEF Next, Program

LEMMA Invariance ==
  Spec => []IInv
<1>1. Init => IInv
  BY InitIInv
<1>2. IInv /\ [Next]_vars => IInv'
  BY StepIInv
<1> QED BY <1>1, <1>2, PTL DEF Spec

LEMMA IInvLimits ==
  ASSUME IInv
  PROVE  LimitsHold
<1>1. ASSUME NEW l \in Limiters
      PROVE  /\ active[l] = Cardinality(Holders(l)) /\ active[l] <= Limit(l)
             /\ active[l] \in Nat /\ Limit(l) \in Nat
             /\ queue[l] # <<>> => active[l] = Limit(l)
             /\ ToSet(queue[l]) = Waiters(l)
  <2>1. SlotsExact(active[l], queue[l], Holders(l), Waiters(l), Limit(l))
    BY DEF IInv, SlotsOK
  <2>2. queue[l] \in Seq(Items) /\ active[l] \in Nat /\ Limit(l) \in Nat
    BY Limits DEF IInv, Types
  <2> QED BY <2>1, <2>2, ToSetElems DEF SlotsExact
<1>2. 0 \in Limiters /\ \A s \in Stages : s \in Limiters /\ s # 0
  BY DEF Limiters, Stages
<1>3. InPipeline = Holders(0)
  BY DEF InPipeline, Holders, Has, UnderWay
<1>4. \A s \in Stages : AtWork(s) = Holders(s)
  BY <1>2 DEF AtWork, Holders, Has, Working
<1>5. Concurrency # 0 => Cardinality(InPipeline) <= Concurrency
  <2>1. Concurrency # 0 => Limit(0) <= Concurrency
    BY Limits
  <2>2. Concurrency \in Nat
    BY PipelineAssumption
  <2>3. Cardinality(InPipeline) <= Limit(0) /\ Cardinality(InPipeline) \in Nat /\ Limit(0) \in Nat
    BY <1>1, <1>2, <1>3
  <2> QED BY <2>1, <2>2, <2>3
<1>6. ASSUME NEW s \in Stages, NEW n \in Given(s)
      PROVE  Cardinality(AtWork(s)) <= n
  <2>1. Limit(s) <= n
    BY Limits
  <2>2. n \in Nat
    BY PipelineAssumption DEF Given
  <2>3. Cardinality(AtWork(s)) <= Limit(s) /\ Cardinality(AtWork(s)) \in Nat /\ Limit(s) \in Nat
    BY <1>1, <1>2, <1>4
  <2> QED BY <2>1, <2>2, <2>3
<1>7. \A l \in Limiters : ToSet(queue[l]) =
        IF l = 0 THEN {i \in Items : pc[i] = "atItem"}
        ELSE {i \in Items : pc[i] = "atStage" /\ Stage(i) = l}
  BY <1>1 DEF Waiters, Awaits
<1> QED BY <1>1, <1>2, <1>3, <1>4, <1>5, <1>6, <1>7 DEF LimitsHold, Given

(* Whatever the items, the stages and the limits given: no stage is run by *)
(* more items than its strictest limit allows and no more than             *)
(* options.concurrency are under way, the counters of the limiters are     *)
(* exact through skips, failures, aborts and failing writes, and an item   *)
(* waits only while every slot is taken.                                   *)
THEOREM LimitsAlwaysHold ==
  Spec => []LimitsHold
<1>1. IInv => LimitsHold
  BY IInvLimits
<1> QED BY <1>1, Invariance, PTL

LEMMA IInvTypes ==
  ASSUME IInv
  PROVE  TypeOK
<1>1. Types
  BY DEF IInv
<1>2. \A i \in Items : results[i] \in Seq(StageStatuses) /\ Len(results[i]) <= StageCount
  BY DEF IInv, Types, ItemOK
<1>3. active \in [Limiters -> 0..ItemCount]
  <2>1. ASSUME NEW l \in Limiters PROVE active[l] \in 0..ItemCount
    <3>1. active[l] = Cardinality(Holders(l))
      BY DEF IInv, SlotsOK, SlotsExact
    <3>2. Holders(l) \in SUBSET Items
      BY HoldersAreItems
    <3>3. Cardinality(Holders(l)) \in Nat /\ Cardinality(Holders(l)) <= ItemCount
      BY <3>2, SubsetFinite
    <3> QED BY <3>1, <3>3, ItemsFinite
  <2>2. active = [l \in Limiters |-> active[l]]
    BY <1>1 DEF Types
  <2> QED BY <2>1, <2>2
<1>4. Len(order) <= ItemCount
  <2>1. order \in Seq(Items) /\ NoRepeats(order) /\ Elems(order) \in SUBSET Items
    BY DEF IInv, Types, OrderOK
  <2>2. Cardinality(Elems(order)) = Len(order)
    BY <2>1, LenIsCardinality
  <2>3. Cardinality(Elems(order)) <= ItemCount
    BY <2>1, SubsetFinite
  <2> QED BY <2>2, <2>3
<1> QED BY <1>1, <1>2, <1>3, <1>4 DEF TypeOK, Types

LEMMA IInvFlow ==
  ASSUME IInv
  PROVE  ItemsFlow
<1>1. TypeOK
  BY IInvTypes
<1>2. FailureStopsAll
  BY DEF IInv, SignalOK, FailureStopsAll, Some
<1>3. \A i \in Items : WellFormed(results[i])
  BY DEF IInv, ItemOK
<1>4. ASSUME phase = "returned"
      PROVE  /\ Promise
             /\ \A i \in Items :
                  /\ pc[i] = "done" /\ Len(results[i]) = StageCount
                  /\ status[i] = "succeeded" <=> ToSet(results[i]) = {"succeeded"}
  <2>1. Promise /\ \A i \in Items : pc[i] = "done"
    BY <1>4 DEF IInv, PhaseOK
  <2>2. ASSUME NEW i \in Items
        PROVE  /\ Len(results[i]) = StageCount
               /\ status[i] = "succeeded" <=> ToSet(results[i]) = {"succeeded"}
    <3>1. /\ results[i] \in Seq(StageStatuses) /\ Len(results[i]) = StageCount
          /\ status[i] # "active"
          /\ status[i] = "succeeded" => AllSucceeded(results[i])
          /\ status[i] # "succeeded" => ~AllSucceeded(results[i])
      <4>1. results[i] \in Seq(StageStatuses) /\ ItemOK(i) /\ pc[i] = "done"
        BY <2>1 DEF IInv, Types
      <4>2. ~(StageCount < StageCount)
        BY ItemsFinite
      <4> QED BY <4>1, <4>2 DEF ItemOK
    <3>2. AllSucceeded(results[i]) <=> Elems(results[i]) = {"succeeded"}
      <4>1. 1 \in 1..Len(results[i])
        BY <3>1, ItemsFinite
      <4>2. results[i][1] \in Elems(results[i])
        BY <4>1 DEF Elems
      <4>3. AllSucceeded(results[i]) => Elems(results[i]) = {"succeeded"}
        BY <4>2 DEF AllSucceeded, Elems
      <4>4. Elems(results[i]) = {"succeeded"} => AllSucceeded(results[i])
        BY DEF AllSucceeded, Elems
      <4> QED BY <4>3, <4>4
    <3>3. ToSet(results[i]) = Elems(results[i])
      BY <3>1, ToSetElems
    <3> QED BY <3>1, <3>2, <3>3
  <2> QED BY <2>1, <2>2
<1>5. ASSUME ~Streaming, NEW i \in Items, NEW j \in Items, pc[i] = "running"
      PROVE  Len(results[j]) >= Len(results[i]) \/ status[j] # "active"
  <2>1. /\ ItemOK(i) /\ ItemOK(j) /\ Abreast(i, j)
        /\ Len(results[i]) \in Nat /\ Len(results[j]) \in Nat
        /\ pc[j] \in Positions
    BY DEF IInv, Types, Positions
  <2>2. status[i] = "active" /\ pc[i] \in Launched
    BY <1>5, <2>1 DEF ItemOK, Launched
  <2>3. status[j] = "active" => pc[j] \in Launched \cup {"lost", "ready"}
    BY <1>5, <2>1 DEF ItemOK, Positions, Launched
  <2>4. status[j] = "active" =>
          Len(results[j]) = Len(results[i]) \/ Len(results[j]) = Len(results[i]) + 1
    BY <1>5, <2>1, <2>2, <2>3 DEF Abreast
  <2> QED BY <2>1, <2>4
<1> QED BY <1>1, <1>2, <1>3, <1>4, <1>5 DEF ItemsFlow, Promise

(* Whatever the items, the stages and the limits given: a pipeline that    *)
(* returns has one result for every item, in the order it promised, each   *)
(* with one status for every stage, and its verdict is theirs; stage by    *)
(* stage, no item runs ahead of one that is still eligible; and with       *)
(* failFast no function of a stage is at work once an item has failed.     *)
THEOREM ItemsAlwaysFlow ==
  Spec => []ItemsFlow
<1>1. IInv => ItemsFlow
  BY IInvFlow
<1> QED BY <1>1, Invariance, PTL

=============================================================================
