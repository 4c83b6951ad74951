------------------------- MODULE ToolExecutorProofs -------------------------
(***************************************************************************)
(* Proofs about ToolExecutor, for any number of calls and slots.           *)
(***************************************************************************)
EXTENDS ToolExecutor, FiniteSetTheorems, NaturalsInduction, WellFoundedInduction, TLAPS

-----------------------------------------------------------------------------
(* Facts about queues, prefixes of them and counting.                      *)
Elems(q) == {q[i] : i \in 1..Len(q)}

NoRepeats(q) == \A i, j \in 1..Len(q) : q[i] = q[j] => i = j

(* Induction over the natural numbers, for the set of those that satisfy   *)
(* what is to be shown.                                                    *)
LEMMA SetInduction ==
  ASSUME NEW T \in SUBSET Nat, 0 \in T, \A n \in T : n + 1 \in T
  PROVE  T = Nat
<1> SUFFICES ASSUME Nat \ T # {} PROVE FALSE
  OBVIOUS
<1> DEFINE R == OpToRel(<, Nat)
<1>1. IsWellFoundedOn(R, Nat)
  BY NatLessThanWellFounded
<1>2. PICK x \in Nat \ T : \A y \in Nat \ T : <<y, x>> \notin R
  BY <1>1, WFMin
<1>3. x # 0 /\ x - 1 \in Nat /\ x - 1 < x
  OBVIOUS
<1>4. <<x - 1, x>> \in R
  BY <1>3 DEF OpToRel
<1>5. x - 1 \in T
  BY <1>2, <1>3, <1>4
<1> QED BY <1>5, <1>3

(* What Append and Tail do to the elements of a queue.                     *)
LEMMA AppendElems ==
  ASSUME NEW S, NEW q \in Seq(S), NEW t \in S
  PROVE  /\ Append(q, t) \in Seq(S)
         /\ Elems(Append(q, t)) = Elems(q) \cup {t}
         /\ NoRepeats(q) /\ t \notin Elems(q) => NoRepeats(Append(q, t))
<1> DEFINE r == Append(q, t)
<1>1. /\ r \in Seq(S)
      /\ Len(r) = Len(q) + 1
      /\ Len(q) \in Nat
      /\ \A i \in 1..Len(q) : r[i] = q[i]
      /\ r[Len(q) + 1] = t
  OBVIOUS
<1>2. Elems(r) \subseteq Elems(q) \cup {t}
  BY <1>1 DEF Elems
<1>3. Elems(q) \cup {t} \subseteq Elems(r)
  BY <1>1 DEF Elems
<1>4. ASSUME NoRepeats(q), t \notin Elems(q) PROVE NoRepeats(r)
  BY <1>1, <1>4 DEF NoRepeats, Elems
<1> QED BY <1>1, <1>2, <1>3, <1>4

LEMMA TailElems ==
  ASSUME NEW S, NEW q \in Seq(S), q # <<>>
  PROVE  /\ Tail(q) \in Seq(S)
         /\ Head(q) \in S
         /\ Elems(q) = Elems(Tail(q)) \cup {Head(q)}
         /\ NoRepeats(q) => NoRepeats(Tail(q)) /\ Head(q) \notin Elems(Tail(q))
<1> DEFINE r == Tail(q)
<1>1. /\ r \in Seq(S)
      /\ Head(q) \in S
      /\ Len(q) \in Nat /\ Len(q) >= 1
      /\ Len(r) = Len(q) - 1
      /\ \A i \in 1..Len(r) : r[i] = q[i + 1]
      /\ Head(q) = q[1]
  OBVIOUS
<1>2. Elems(r) \cup {Head(q)} \subseteq Elems(q)
  BY <1>1 DEF Elems
<1>3. ASSUME NEW x \in Elems(q) PROVE x \in Elems(r) \cup {Head(q)}
  <2>1. PICK i \in 1..Len(q) : x = q[i]
    BY DEF Elems
  <2>2. CASE i = 1
    BY <1>1, <2>1, <2>2
  <2>3. CASE i # 1
    <3>1. i - 1 \in 1..Len(r) /\ r[i - 1] = x
      BY <1>1, <2>1, <2>3
    <3> QED BY <3>1 DEF Elems
  <2> QED BY <2>2, <2>3
<1>4. ASSUME NoRepeats(q) PROVE NoRepeats(r) /\ Head(q) \notin Elems(r)
  <2>1. \A i \in 1..Len(r) : i + 1 \in 1..Len(q) /\ i + 1 # 1
    BY <1>1
  <2> QED BY <1>1, <1>4, <2>1 DEF NoRepeats, Elems
<1> QED BY <1>1, <1>2, <1>3, <1>4

LEMMA EmptyElems == Elems(<<>>) = {} /\ NoRepeats(<<>>)
  BY DEF Elems, NoRepeats

LEMMA EmptyQueue ==
  ASSUME NEW S, NEW q \in Seq(S)
  PROVE  Elems(q) = {} <=> q = <<>>
<1>1. q # <<>> => q[1] \in Elems(q)
  BY DEF Elems
<1> QED BY <1>1, EmptyElems

-----------------------------------------------------------------------------
(* The first n elements of a queue, and what is left of it.                *)
Prefix(q, n) == {q[i] : i \in 1..n}

LEMMA PrefixCardinality ==
  ASSUME NEW S, NEW q \in Seq(S), NoRepeats(q), NEW n \in 0..Len(q)
  PROVE  IsFiniteSet(Prefix(q, n)) /\ Cardinality(Prefix(q, n)) = n
<1> DEFINE f == [i \in 1..n |-> q[i]]
<1>0. n \in Nat /\ 1..n \subseteq 1..Len(q)
  OBVIOUS
<1>1. f \in Surjection(1..n, Prefix(q, n))
  BY DEF Surjection, Prefix
<1>2. f \in Injection(1..n, Prefix(q, n))
  BY <1>0 DEF Injection, IsInjective, Prefix, NoRepeats
<1>3. ExistsBijection(1..n, Prefix(q, n))
  BY <1>1, <1>2 DEF Bijection, ExistsBijection
<1>4. IsFiniteSet(1..n) /\ Cardinality(1..n) = n
  BY <1>0, FS_Interval
<1> QED BY <1>3, <1>4, FS_Bijection

LEMMA RestElems ==
  ASSUME NEW S, NEW q \in Seq(S), NEW n \in 0..Len(q)
  PROVE  LET r == SubSeq(q, n + 1, Len(q)) IN
         /\ r \in Seq(S)
         /\ Elems(q) = Prefix(q, n) \cup Elems(r)
         /\ NoRepeats(q) => NoRepeats(r) /\ Prefix(q, n) \cap Elems(r) = {}
         /\ n = Len(q) => r = <<>>
<1> DEFINE r == SubSeq(q, n + 1, Len(q))
<1>1. /\ n \in Nat /\ Len(q) \in Nat /\ n <= Len(q)
      /\ r \in Seq(S)
      /\ Len(r) = Len(q) - n
      /\ \A i \in 1..Len(r) : r[i] = q[i + n]
  OBVIOUS
<1>2. Prefix(q, n) \cup Elems(r) \subseteq Elems(q)
  BY <1>1 DEF Elems, Prefix
<1>3. ASSUME NEW x \in Elems(q) PROVE x \in Prefix(q, n) \cup Elems(r)
  <2>1. PICK i \in 1..Len(q) : x = q[i]
    BY DEF Elems
  <2>2. CASE i <= n
    BY <1>1, <2>1, <2>2 DEF Prefix
  <2>3. CASE i > n
    <3>1. i - n \in 1..Len(r) /\ r[i - n] = x
      BY <1>1, <2>1, <2>3
    <3> QED BY <3>1 DEF Elems
  <2> QED BY <1>1, <2>2, <2>3
<1>4. ASSUME NoRepeats(q) PROVE NoRepeats(r) /\ Prefix(q, n) \cap Elems(r) = {}
  <2>1. \A i \in 1..Len(r) : i + n \in 1..Len(q) /\ i + n > n
    BY <1>1
  <2>2. \A i \in 1..n : i \in 1..Len(q) /\ i <= n
    BY <1>1
  <2>3. NoRepeats(r)
    BY <1>1, <1>4, <2>1 DEF NoRepeats
  <2>4. ASSUME NEW i \in 1..n, NEW j \in 1..Len(r), q[i] = r[j] PROVE FALSE
    BY <1>1, <1>4, <2>1, <2>2, <2>4 DEF NoRepeats
  <2> QED BY <2>3, <2>4 DEF Elems, Prefix
<1> QED BY <1>1, <1>2, <1>3, <1>4

-----------------------------------------------------------------------------

LEMMA ToSetElems ==
  ASSUME NEW S, NEW q \in Seq(S)
  PROVE  ToSet(q) = Elems(q)
  BY DEF ToSet, Elems

-----------------------------------------------------------------------------
(* The queue without the calls that were stopped: the recursive function   *)
(* exists, and what it returns has the elements of q that are not in D.    *)
Kept(q, D, f, m) ==
  f = [n \in 0..m |-> IF n = 0 THEN <<>>
                      ELSE IF q[n] \in D THEN f[n - 1] ELSE Append(f[n - 1], q[n])]

LEMMA KeptExists ==
  ASSUME NEW q, NEW D
  PROVE  \A m \in Nat : \E f : Kept(q, D, f, m)
<1> DEFINE T == {m \in Nat : \E f : Kept(q, D, f, m)}
<1>1. 0 \in T
  <2> DEFINE f == [n \in 0..0 |-> <<>>]
  <2>1. Kept(q, D, f, 0)
    BY DEF Kept
  <2> QED BY <2>1
<1>2. ASSUME NEW m \in T PROVE m + 1 \in T
  <2>1. PICK f : Kept(q, D, f, m)
    OBVIOUS
  <2> DEFINE last == IF q[m + 1] \in D THEN f[m] ELSE Append(f[m], q[m + 1])
             g == [n \in 0..(m + 1) |-> IF n = m + 1 THEN last ELSE f[n]]
  <2>2. \A n \in 0..m : n # m + 1 /\ n \in 0..(m + 1)
    OBVIOUS
  <2>3. \A n \in 0..(m + 1) : n # m + 1 => n \in 0..m
    OBVIOUS
  <2>4. ASSUME NEW n \in 0..(m + 1)
        PROVE  g[n] = IF n = 0 THEN <<>>
                      ELSE IF q[n] \in D THEN g[n - 1] ELSE Append(g[n - 1], q[n])
    <3>1. CASE n = m + 1
      <4>1. g[n] = last /\ g[n - 1] = f[m] /\ n # 0
        BY <3>1
      <4> QED BY <3>1, <4>1
    <3>2. CASE n # m + 1
      <4>1. n \in 0..m /\ (n # 0 => n - 1 \in 0..m)
        BY <3>2
      <4>2. g[n] = f[n] /\ (n # 0 => g[n - 1] = f[n - 1])
        BY <4>1, <2>2
      <4>3. f[n] = IF n = 0 THEN <<>>
                   ELSE IF q[n] \in D THEN f[n - 1] ELSE Append(f[n - 1], q[n])
        BY <2>1, <4>1 DEF Kept
      <4> QED BY <4>2, <4>3
    <3> QED BY <3>1, <3>2
  <2> HIDE DEF g
  <2>5. g = [n \in 0..(m + 1) |-> g[n]]
    BY DEF g
  <2>6. Kept(q, D, g, m + 1)
    BY <2>4, <2>5 DEF Kept
  <2> QED BY <2>6
<1>3. T \in SUBSET Nat
  OBVIOUS
<1> HIDE DEF T
<1>4. T = Nat
  BY <1>1, <1>2, <1>3, SetInduction
<1> QED BY <1>4 DEF T

LEMMA WithoutElems ==
  ASSUME NEW S, NEW q \in Seq(S), NEW D
  PROVE  /\ Without(q, D) \in Seq(S)
         /\ Elems(Without(q, D)) = Elems(q) \ D
         /\ NoRepeats(q) => NoRepeats(Without(q, D))
<1> DEFINE f == CHOOSE f : Kept(q, D, f, Len(q))
<1>0. Len(q) \in Nat /\ \A i \in 1..Len(q) : q[i] \in S
  OBVIOUS
<1>1. Kept(q, D, f, Len(q))
  BY <1>0, KeptExists
<1>2. Without(q, D) = f[Len(q)]
  BY DEF Without, Kept
<1> DEFINE Good(n) ==
             /\ f[n] \in Seq(S)
             /\ Elems(f[n]) = Prefix(q, n) \ D
             /\ NoRepeats(q) => NoRepeats(f[n])
           T == {n \in Nat : n <= Len(q) => Good(n)}
<1> HIDE DEF f
<1>3. 0 \in T
  <2>1. f[0] = <<>>
    BY <1>0, <1>1 DEF Kept
  <2>2. Prefix(q, 0) = {}
    BY DEF Prefix
  <2>3. <<>> \in Seq(S)
    OBVIOUS
  <2> QED BY <2>1, <2>2, <2>3, EmptyElems
<1>4. ASSUME NEW n \in T PROVE n + 1 \in T
  <2> SUFFICES ASSUME n + 1 <= Len(q) PROVE Good(n + 1)
    OBVIOUS
  <2>1. Good(n) /\ n + 1 \in 1..Len(q)
    BY <1>0
  <2>2. f[n + 1] = IF q[n + 1] \in D THEN f[n] ELSE Append(f[n], q[n + 1])
    <3>1. n + 1 \in 0..Len(q) /\ n + 1 # 0 /\ (n + 1) - 1 = n
      BY <2>1
    <3> QED BY <1>1, <3>1 DEF Kept
  <2>3. Prefix(q, n + 1) = Prefix(q, n) \cup {q[n + 1]}
    <3>1. 1..(n + 1) = (1..n) \cup {n + 1}
      OBVIOUS
    <3> QED BY <3>1 DEF Prefix
  <2>4. NoRepeats(q) => q[n + 1] \notin Prefix(q, n)
    BY <1>0, <2>1 DEF NoRepeats, Prefix
  <2>5. CASE q[n + 1] \in D
    BY <2>1, <2>2, <2>3, <2>5
  <2>6. CASE q[n + 1] \notin D
    <3>1. f[n + 1] = Append(f[n], q[n + 1])
      BY <2>2, <2>6
    <3>2. Elems(f[n + 1]) = Elems(f[n]) \cup {q[n + 1]} /\ f[n + 1] \in Seq(S)
      BY <1>0, <2>1, <3>1, AppendElems
    <3>3. NoRepeats(q) => NoRepeats(f[n + 1])
      BY <1>0, <2>1, <2>4, <3>1, AppendElems
    <3> QED BY <2>1, <2>3, <2>6, <3>2, <3>3
  <2> QED BY <2>5, <2>6
<1>5. T \in SUBSET Nat
  OBVIOUS
<1>6. Good(Len(q))
  <2> HIDE DEF Good
  <2>1. T = Nat
    BY <1>3, <1>4, <1>5, SetInduction
  <2> QED BY <1>0, <2>1
<1>7. Prefix(q, Len(q)) = Elems(q)
  BY DEF Prefix, Elems
<1> QED BY <1>2, <1>6, <1>7

-----------------------------------------------------------------------------
(* The inductive invariant.  The queue holds the calls that wait, each     *)
(* once, and only while every slot is taken.                               *)
Waiting ==
  /\ Elems(queue) = {c \in Calls : pc[c] = "queued"}
  /\ NoRepeats(queue)
  /\ queue # <<>> => active = Limit

(* The slots that are counted are those of the calls that hold one.        *)
HeldSlots ==
  /\ IsFiniteSet(held) /\ active = Cardinality(held)
  /\ \A c \in held : pc[c] \in {"granted", "running", "saving", "failing"}
  /\ \A c \in Calls : pc[c] \in {"granted", "running", "saving"} => c \in held

(* A call has a verdict only on its way out, and reports what it settled.  *)
Verdicts ==
  \A c \in Calls :
    /\ verdict[c] # "none" => pc[c] \in {"failing", "done"}
    /\ pc[c] = "failing" => verdict[c] \in Statuses
    /\ reported[c] # "none" => pc[c] = "done" /\ reported[c] = verdict[c]

(* A call that waits or holds a slot has not missed an abort.              *)
Aborts ==
  /\ \A c \in Calls : pc[c] = "queued" => reason[c] = "none"
  /\ \A c \in Calls : (c \in held \/ pc[c] = "queued")
                      /\ (invocation[c] # "none" \/ cancelReason # "none")
                    => reason[c] # "none"

(* A timer belongs to a linked call; what close() does not wait for has    *)
(* nothing of the executor, and never will.                                *)
Timers == \A c \in timer : c \in Calls /\ Linked(c)
Closing ==
  closed => \A c \in Calls \ awaited :
              pc[c] \in {"idle", "failing", "done"} /\ c \notin held /\ c \notin timer

IInv == TypeOK /\ Waiting /\ HeldSlots /\ Verdicts /\ Aborts /\ Timers /\ Closing

LEMMA StatusOfType == \A r : StatusOf(r) \in Statuses
  BY DEF StatusOf, Statuses

LEMMA InitIInv == Init => IInv
<1> SUFFICES ASSUME Init PROVE IInv
  OBVIOUS
<1>1. <<>> \in Seq(Calls)
  OBVIOUS
<1>2. TypeOK
  <2>1. 0 \in 0..Limit
    BY LimitAssumption
  <2> QED BY <1>1, <2>1 DEF Init, TypeOK, Statuses
<1>3. Waiting /\ HeldSlots
  BY EmptyElems, FS_EmptySet DEF Init, Waiting, HeldSlots
<1>4. Verdicts /\ Aborts /\ Timers /\ Closing
  BY DEF Init, Verdicts, Aborts, Timers, Closing
<1> QED BY <1>2, <1>3, <1>4 DEF IInv

-----------------------------------------------------------------------------
(* The finally block moves slots from the call to the head of the queue,   *)
(* and leaves no call waiting while a slot is free.                        *)
LEMMA FinallyStep ==
  ASSUME IInv, NEW c \in Calls, pc[c] \in {"granted", "saving", "failing"},
         Finally(c, "done")
  PROVE  /\ Granted(c) \subseteq {d \in Calls : pc[d] = "queued"}
         /\ active' \in 0..Limit /\ queue' \in Seq(Calls) /\ held' \subseteq Calls
         /\ Waiting' /\ HeldSlots'
<1> DEFINE G == Granted(c)
           others == held \ {c}
<1>1. /\ active \in 0..Limit /\ Limit \in Nat /\ active \in Nat
      /\ queue \in Seq(Calls) /\ Len(queue) \in Nat
      /\ IsFiniteSet(held) /\ active = Cardinality(held)
  BY LimitAssumption DEF IInv, TypeOK, HeldSlots
<1>2. /\ IsFiniteSet(others)
      /\ Slots(c) = Cardinality(others)
      /\ Slots(c) \in 0..Limit
  <2>1. IsFiniteSet(others) /\ Cardinality(others) \in Nat
        /\ Cardinality(others) = IF c \in held THEN active - 1 ELSE active
    BY <1>1, FS_RemoveElement, FS_CardinalityType
  <2>2. Cardinality({c} \cap held) = IF c \in held THEN 1 ELSE 0
    <3>1. {c} \cap held = IF c \in held THEN {c} ELSE {}
      OBVIOUS
    <3> QED BY <3>1, FS_Singleton, FS_EmptySet
  <2> QED BY <1>1, <2>1, <2>2 DEF Slots
<1>3. /\ Grants(c) \in 0..Len(queue)
      /\ Slots(c) + Grants(c) \in 0..Limit
      /\ Grants(c) # Len(queue) => Slots(c) + Grants(c) = Limit
  BY <1>1, <1>2 DEF Grants
<1>4. G = Prefix(queue, Grants(c))
  BY DEF Granted, Prefix
<1>5. NoRepeats(queue) /\ Elems(queue) = {d \in Calls : pc[d] = "queued"}
  BY DEF IInv, Waiting
<1>6. /\ queue' \in Seq(Calls)
      /\ Elems(queue) = G \cup Elems(queue')
      /\ NoRepeats(queue') /\ G \cap Elems(queue') = {}
      /\ Grants(c) = Len(queue) => queue' = <<>>
  BY <1>1, <1>3, <1>4, <1>5, RestElems DEF Finally
<1>7. IsFiniteSet(G) /\ Cardinality(G) = Grants(c)
  BY <1>1, <1>3, <1>4, <1>5, PrefixCardinality
<1> HIDE DEF G
<1>8. /\ active' = Slots(c) + Grants(c)
      /\ held' = others \cup G
      /\ \A d \in Calls : pc'[d] = IF d = c THEN "done"
                                   ELSE IF d \in G THEN "granted" ELSE pc[d]
  BY DEF Finally, G
<1>9. G \subseteq {d \in Calls : pc[d] = "queued"}
  BY <1>5, <1>6
<1>10. others \cap G = {} /\ c \notin G
  BY <1>9 DEF IInv, HeldSlots
<1>11. IsFiniteSet(held') /\ active' = Cardinality(held')
  <2>1. Cardinality(others \cap G) = 0
    BY <1>10, FS_EmptySet
  <2>2. Cardinality(others) \in Nat /\ Cardinality(G) \in Nat
    BY <1>2, <1>7, FS_CardinalityType
  <2>3. /\ IsFiniteSet(others \cup G)
        /\ Cardinality(others \cup G) = Cardinality(others) + Cardinality(G)
    <3> HIDE DEF others
    <3>1. Cardinality(others \cup G) =
            Cardinality(others) + Cardinality(G) - Cardinality(others \cap G)
      BY <1>2, <1>7, FS_Union
    <3>2. IsFiniteSet(others \cup G)
      BY <1>2, <1>7, FS_Union
    <3> QED BY <2>1, <2>2, <3>1, <3>2
  <2> QED BY <1>2, <1>7, <1>8, <2>3
<1>12. HeldSlots'
  <2>1. held \subseteq Calls
    BY DEF IInv, TypeOK
  <2> QED BY <1>8, <1>9, <1>10, <1>11, <2>1 DEF IInv, HeldSlots
<1>13. Waiting'
  <2>1. Elems(queue') = {d \in Calls : pc'[d] = "queued"}
    BY <1>5, <1>6, <1>8
  <2>2. queue' # <<>> => active' = Limit
    BY <1>3, <1>6, <1>8
  <2> QED BY <1>6, <2>1, <2>2 DEF Waiting
<1>14. held' \subseteq Calls
  BY <1>8, <1>9 DEF IInv, TypeOK
<1> QED BY <1>3, <1>6, <1>8, <1>9, <1>12, <1>13, <1>14 DEF G

(* What follows for the rest of the invariant, whatever verdict the call   *)
(* leaves with.                                                            *)
LEMMA FinallyIInv ==
  ASSUME IInv, NEW c \in Calls, pc[c] \in {"granted", "saving", "failing"},
         NEW v \in Statuses \cup {"rejected"}, NEW r \in Statuses \cup {"none"},
         r \in {v, "none"},
         Finally(c, "done"),
         verdict' = [verdict EXCEPT ![c] = v],
         reported' = [reported EXCEPT ![c] = r],
         UNCHANGED <<reason, invocation, cancelReason, executing, closeVars>>
  PROVE  IInv'
<1>1. /\ Granted(c) \subseteq {d \in Calls : pc[d] = "queued"}
      /\ active' \in 0..Limit /\ queue' \in Seq(Calls) /\ held' \subseteq Calls
      /\ Waiting' /\ HeldSlots'
  BY FinallyStep
<1>2. /\ timer' = timer \ {c}
      /\ held' = (held \ {c}) \cup Granted(c)
      /\ pc' = [d \in Calls |-> IF d = c THEN "done"
                               ELSE IF d \in Granted(c) THEN "granted" ELSE pc[d]]
  BY DEF Finally
<1>3. \A d \in Calls : /\ verdict'[d] = IF d = c THEN v ELSE verdict[d]
                       /\ reported'[d] = IF d = c THEN r ELSE reported[d]
  BY DEF IInv, TypeOK
<1>4. TypeOK'
  BY <1>1, <1>2 DEF IInv, TypeOK, closeVars
<1>5. Verdicts'
  BY <1>1, <1>2, <1>3 DEF IInv, Verdicts, Statuses
<1>6. Aborts'
  BY <1>1, <1>2 DEF IInv, Aborts
<1>7. Timers'
  BY <1>1, <1>2 DEF IInv, Timers, Linked
<1>8. Closing'
  BY <1>1, <1>2 DEF IInv, Closing, closeVars, TypeOK
<1> QED BY <1>1, <1>4, <1>5, <1>6, <1>7, <1>8 DEF IInv

-----------------------------------------------------------------------------
(* An abort takes the calls it stops out of the queue and settles them.    *)
LEMMA AbortIInv ==
  ASSUME IInv, NEW S \in SUBSET Calls, NEW r \in Reasons \cup {"timeout"},
         AbortSignals(S, r),
         timer' \subseteq timer,
         invocation' \in [Calls -> Reasons \cup {"none"}],
         cancelReason' \in Reasons \cup {"none"},
         \A d \in Calls : invocation'[d] # invocation[d] => d \in S,
         cancelReason' # cancelReason => S = Calls
  PROVE  IInv'
<1>1. /\ queue \in Seq(Calls)
      /\ Elems(queue) = {d \in Calls : pc[d] = "queued"}
      /\ NoRepeats(queue)
      /\ active \in 0..Limit
  BY DEF IInv, TypeOK, Waiting
<1>2. /\ queue' \in Seq(Calls)
      /\ Elems(queue') = Elems(queue) \ Stopped(S)
      /\ NoRepeats(queue')
  BY <1>1, WithoutElems DEF AbortSignals, Unqueue
<1>3. \A d \in Calls :
        /\ reason'[d] = IF d \in Stopped(S) THEN r ELSE reason[d]
        /\ pc'[d] = IF d \in Settled(S) THEN "failing" ELSE pc[d]
        /\ verdict'[d] = IF d \in Settled(S) THEN StatusOf(r) ELSE verdict[d]
  BY DEF AbortSignals
<1>4. UNCHANGED <<reported, active, held, executing, closed, awaited>>
  BY DEF AbortSignals, closeVars
<1>5. \A d : d \in Settled(S) <=> d \in Stopped(S) /\ pc[d] \in {"queued", "running"}
  BY DEF Settled
<1>6. \A d \in Calls : d \in Stopped(S) <=> d \in S /\ Linked(d) /\ reason[d] = "none"
  BY DEF Stopped
<1>7. r # "none" /\ StatusOf(r) \in Statuses
  BY ReasonsAssumption, StatusOfType
<1>8. TypeOK'
  <2>1. reason' \in [Calls -> Reasons \cup {"none", "timeout"}]
    BY DEF AbortSignals, IInv, TypeOK
  <2>2. /\ pc' \in [Calls -> {"idle", "preparing", "queued", "granted", "running",
                              "saving", "failing", "done"}]
        /\ verdict' \in [Calls -> Statuses \cup {"none", "rejected"}]
    BY <1>7 DEF AbortSignals, IInv, TypeOK
  <2> QED BY <1>2, <1>4, <2>1, <2>2 DEF IInv, TypeOK
<1>9. Waiting'
  <2>1. Elems(queue') = {d \in Calls : pc'[d] = "queued"}
    BY <1>1, <1>2, <1>3, <1>5
  <2>2. queue' # <<>> => queue # <<>>
    BY <1>1, <1>2, EmptyQueue
  <2> QED BY <1>2, <1>4, <2>1, <2>2 DEF IInv, Waiting
<1>10. HeldSlots'
  BY <1>3, <1>4, <1>5 DEF IInv, HeldSlots, TypeOK
<1>11. Verdicts'
  BY <1>3, <1>4, <1>5, <1>7 DEF IInv, Verdicts
<1>12. Aborts'
  <2>1. \A d \in Calls : pc'[d] = "queued" => d \notin Stopped(S) /\ pc[d] = "queued"
    BY <1>3, <1>5
  <2>2. \A d \in Calls : pc'[d] = "queued" => reason'[d] = "none"
    BY <1>3, <2>1 DEF IInv, Aborts
  <2>3. ASSUME NEW d \in Calls, d \in held' \/ pc'[d] = "queued",
               invocation'[d] # "none" \/ cancelReason' # "none"
        PROVE  reason'[d] # "none"
    <3>1. d \in held \/ pc[d] = "queued"
      BY <1>4, <2>1, <2>3
    <3>2. Linked(d)
      BY <3>1 DEF Linked, IInv, HeldSlots
    <3>3. CASE d \in S
      BY <1>3, <1>6, <1>7, <3>2, <3>3
    <3>4. CASE d \notin S
      <4>1. invocation[d] # "none" \/ cancelReason # "none"
        BY <2>3, <3>4
      <4> QED BY <1>3, <1>7, <3>1, <4>1 DEF IInv, Aborts
    <3> QED BY <3>3, <3>4
  <2> QED BY <2>2, <2>3 DEF Aborts
<1>13. Timers'
  BY <1>3, <1>5 DEF IInv, Timers, Linked
<1>14. Closing'
  BY <1>3, <1>4, <1>5 DEF IInv, Closing
<1> QED BY <1>8, <1>9, <1>10, <1>11, <1>12, <1>13, <1>14 DEF IInv

-----------------------------------------------------------------------------
(* The steps that leave the limiter alone move one call only.              *)
LEMMA StepIInv == IInv /\ [Next]_vars => IInv'
<1> SUFFICES ASSUME IInv, [Next]_vars PROVE IInv'
  OBVIOUS
<1> USE DEF IInv
<1>1. CASE UNCHANGED vars
  BY <1>1 DEF vars, signalVars, limiterVars, closeVars, TypeOK, Waiting,
              HeldSlots, Verdicts, Aborts, Timers, Linked, Closing
<1>2. ASSUME NEW c \in Calls, Execute(c) PROVE IInv'
  <2> USE DEF limiterVars, signalVars, closeVars
  <2>1. /\ c \notin held /\ c \notin timer /\ verdict[c] = "none" /\ reported[c] = "none"
        /\ closed => pc'[c] = "failing"
    BY <1>2 DEF Execute, Refuses, HeldSlots, Timers, Linked, Verdicts, TypeOK
  <2>2. TypeOK'
    BY <1>2 DEF Execute, TypeOK, Statuses
  <2>3. Waiting' /\ HeldSlots'
    BY <1>2, <2>1 DEF Execute, TypeOK, Waiting, HeldSlots
  <2>4. Verdicts'
    BY <1>2, <2>1 DEF Execute, TypeOK, Verdicts, Statuses
  <2>5. Aborts' /\ Timers' /\ Closing'
    BY <1>2, <2>1 DEF Execute, TypeOK, Aborts, Timers, Linked, Closing
  <2> QED BY <2>2, <2>3, <2>4, <2>5
<1>3. ASSUME NEW c \in Calls, Prepared(c) PROVE IInv'
  <2> USE DEF closeVars
  <2>1. /\ c \notin held /\ c \notin timer /\ c \notin Elems(queue)
        /\ verdict[c] = "none" /\ reported[c] = "none"
        /\ closed => c \in awaited
    BY <1>3 DEF Prepared, HeldSlots, Timers, Linked, Verdicts, Waiting, Closing
  <2>2. /\ UNCHANGED <<reported, invocation, cancelReason, executing, closed, awaited>>
        /\ timer' \subseteq timer \cup ({c} \cap Timed)
        /\ reason' = [reason EXCEPT ![c] = Inherited(c)]
        /\ Inherited(c) \in Reasons \cup {"none"}
        /\ Inherited(c) = "none" => invocation[c] = "none" /\ cancelReason = "none"
    BY <1>3 DEF Prepared, Inherited, TypeOK
  <2>3. CASE Inherited(c) # "none"
    <3>1. /\ pc' = [pc EXCEPT ![c] = "failing"]
          /\ verdict' = [verdict EXCEPT ![c] = StatusOf(Inherited(c))]
          /\ UNCHANGED <<active, queue, held>>
      BY <1>3, <2>2, <2>3 DEF Prepared, limiterVars, TypeOK
    <3>2. TypeOK'
      BY <2>2, <3>1, StatusOfType DEF TypeOK
    <3>3. Waiting' /\ HeldSlots'
      BY <1>3, <2>1, <3>1 DEF Prepared, TypeOK, Waiting, HeldSlots
    <3>4. Verdicts'
      BY <2>1, <2>2, <3>1, StatusOfType DEF TypeOK, Verdicts
    <3>5. Aborts' /\ Timers' /\ Closing'
      BY <2>1, <2>2, <3>1 DEF TypeOK, Aborts, Timers, Linked, Closing
    <3> QED BY <3>2, <3>3, <3>4, <3>5
  <2>4. CASE Inherited(c) = "none" /\ HasSlot
    <3>1. /\ pc' = [pc EXCEPT ![c] = "granted"]
          /\ active' = active + 1 /\ held' = held \cup {c}
          /\ UNCHANGED <<verdict, queue>>
      BY <1>3, <2>2, <2>4 DEF Prepared, TypeOK
    <3>2. queue = <<>> /\ active' \in 0..Limit
      BY <2>4, <3>1, LimitAssumption DEF HasSlot, Waiting, TypeOK
    <3>3. TypeOK'
      BY <2>2, <3>1, <3>2 DEF TypeOK
    <3>4. IsFiniteSet(held') /\ active' = Cardinality(held')
      BY <2>1, <3>1, FS_AddElement DEF HeldSlots
    <3>5. Waiting' /\ HeldSlots'
      BY <1>3, <2>1, <3>1, <3>2, <3>4 DEF Prepared, TypeOK, Waiting, HeldSlots
    <3>6. Verdicts' /\ Aborts'
      BY <2>1, <2>2, <2>4, <3>1 DEF TypeOK, Verdicts, Aborts
    <3>7. Timers' /\ Closing'
      BY <2>1, <2>2, <3>1 DEF TypeOK, Timers, Linked, Closing
    <3> QED BY <3>3, <3>5, <3>6, <3>7
  <2>5. CASE Inherited(c) = "none" /\ ~HasSlot
    <3>1. /\ pc' = [pc EXCEPT ![c] = "queued"]
          /\ queue' = Append(queue, c)
          /\ UNCHANGED <<verdict, active, held>>
      BY <1>3, <2>2, <2>5 DEF Prepared, TypeOK
    <3>2. /\ queue' \in Seq(Calls) /\ NoRepeats(queue')
          /\ Elems(queue') = Elems(queue) \cup {c}
      BY <2>1, <3>1, AppendElems DEF TypeOK, Waiting
    <3>3. active = Limit
      BY <2>5, LimitAssumption DEF HasSlot, TypeOK
    <3>4. TypeOK'
      BY <2>2, <3>1, <3>2 DEF TypeOK
    <3>5. Waiting'
      <4>1. Elems(queue') = {d \in Calls : pc'[d] = "queued"}
        BY <1>3, <3>1, <3>2 DEF Prepared, TypeOK, Waiting
      <4> QED BY <3>1, <3>2, <3>3, <4>1 DEF Waiting
    <3>6. HeldSlots' /\ Verdicts' /\ Aborts'
      BY <2>1, <2>2, <2>5, <3>1 DEF TypeOK, HeldSlots, Verdicts, Aborts
    <3>7. Timers' /\ Closing'
      BY <2>1, <2>2, <3>1 DEF TypeOK, Timers, Linked, Closing
    <3> QED BY <3>4, <3>5, <3>6, <3>7
  <2> QED BY <2>3, <2>4, <2>5
<1>4. ASSUME NEW c \in Calls, Begin(c) \/ BeginReturns(c) \/ ToolEnds(c) PROVE IInv'
  <2> USE DEF limiterVars, signalVars, closeVars
  <2>1. PICK label \in {"running", "saving", "failing", pc[c]},
             v \in Statuses \cup {"none", "rejected"} :
          /\ pc' = [pc EXCEPT ![c] = label]
          /\ verdict' = [verdict EXCEPT ![c] = v]
          /\ label # pc[c] => /\ pc[c] \in {"granted", "running"}
                              /\ IF label = "failing" THEN v \in Statuses ELSE v = verdict[c]
          /\ label = pc[c] => v = verdict[c]
    <3>1. CASE Begin(c)
      BY <3>1, StatusOfType DEF Begin, TypeOK
    <3>2. CASE BeginReturns(c)
      BY <3>2 DEF BeginReturns, TypeOK, Thrown, Statuses
    <3>3. CASE ToolEnds(c)
      BY <3>3 DEF ToolEnds, ResultUsed, TypeOK, Thrown, Statuses
    <3> QED BY <1>4, <3>1, <3>2, <3>3
  <2>2. /\ UNCHANGED <<reported, reason, invocation, cancelReason, timer, active,
                       queue, held, closed, awaited>>
        /\ executing' \subseteq Calls
    BY <1>4 DEF Begin, BeginReturns, ToolEnds, TypeOK
  <2>3. /\ label # pc[c] => c \in held /\ verdict[c] = "none" /\ reported[c] = "none"
        /\ closed /\ label # pc[c] => c \in awaited
    BY <2>1 DEF HeldSlots, Verdicts, Closing
  <2>4. TypeOK'
    BY <2>1, <2>2 DEF TypeOK
  <2>5. Waiting' /\ HeldSlots'
    BY <2>1, <2>2, <2>3 DEF TypeOK, Waiting, HeldSlots
  <2>6. Verdicts'
    BY <2>1, <2>2, <2>3 DEF TypeOK, Verdicts, Statuses
  <2>7. Aborts' /\ Timers' /\ Closing'
    BY <2>1, <2>2, <2>3 DEF TypeOK, Aborts, Timers, Linked, Closing
  <2> QED BY <2>4, <2>5, <2>6, <2>7
<1>5. ASSUME NEW c \in Calls, Saved(c) \/ Failed(c) \/ WriteRejects(c) PROVE IInv'
  <2>1. CASE Saved(c)
    <3>1. "succeeded" \in Statuses
      BY DEF Statuses
    <3> QED BY <2>1, <3>1, FinallyIInv DEF Saved
  <2>2. CASE Failed(c)
    <3>1. verdict[c] \in Statuses /\ verdict = [verdict EXCEPT ![c] = verdict[c]]
      BY <2>2 DEF Failed, Verdicts, TypeOK
    <3>2. verdict' = verdict
      BY <2>2 DEF Failed
    <3>3. verdict' = [verdict EXCEPT ![c] = verdict[c]]
      BY <3>1, <3>2
    <3> QED BY <2>2, <3>1, <3>3, FinallyIInv DEF Failed
  <2>3. CASE WriteRejects(c)
    <3>1. reported[c] = "none"
      BY <2>3 DEF WriteRejects, Verdicts
    <3>2. reported' = [reported EXCEPT ![c] = "none"]
      BY <2>3, <3>1 DEF WriteRejects, TypeOK
    <3> QED BY <2>3, <3>2, FinallyIInv DEF WriteRejects
  <2> QED BY <1>5, <2>1, <2>2, <2>3
<1>6. ASSUME NEW c \in Calls, PrepareFails(c) PROVE IInv'
  <2> USE DEF limiterVars, signalVars, closeVars
  <2>1. /\ c \notin held /\ c \notin timer /\ verdict[c] = "none" /\ reported[c] = "none"
    BY <1>6 DEF PrepareFails, HeldSlots, Timers, Linked, Verdicts
  <2>2. TypeOK'
    BY <1>6 DEF PrepareFails, TypeOK, Statuses
  <2>3. Waiting' /\ HeldSlots' /\ Verdicts'
    BY <1>6, <2>1 DEF PrepareFails, TypeOK, Waiting, HeldSlots, Verdicts
  <2>4. Aborts' /\ Timers' /\ Closing'
    BY <1>6, <2>1 DEF PrepareFails, TypeOK, Aborts, Timers, Linked, Closing
  <2> QED BY <2>2, <2>3, <2>4
<1>7. ASSUME NEW c \in Calls, SaveFails(c) PROVE IInv'
  <2> USE DEF limiterVars, signalVars, closeVars
  <2>1. TypeOK'
    BY <1>7 DEF SaveFails, TypeOK, Statuses
  <2>2. Waiting' /\ HeldSlots'
    BY <1>7 DEF SaveFails, TypeOK, Waiting, HeldSlots
  <2>3. Verdicts' /\ Aborts'
    BY <1>7 DEF SaveFails, TypeOK, Verdicts, Aborts, Statuses
  <2>4. Timers' /\ Closing'
    BY <1>7 DEF SaveFails, TypeOK, Timers, Linked, Closing
  <2> QED BY <2>1, <2>2, <2>3, <2>4
<1>8. ASSUME NEW c \in Calls, TimerFires(c) PROVE IInv'
  BY <1>8, AbortIInv DEF TimerFires, TypeOK
<1>9. ASSUME NEW c \in Calls, NEW r \in Reasons, AbortInvocation(c, r) PROVE IInv'
  <2>1. /\ invocation' \in [Calls -> Reasons \cup {"none"}]
        /\ \A d \in Calls : invocation'[d] # invocation[d] => d \in {c}
    BY <1>9 DEF AbortInvocation, TypeOK
  <2> QED BY <1>9, <2>1, AbortIInv DEF AbortInvocation, TypeOK
<1>10. ASSUME NEW r \in Reasons, Cancel(r) PROVE IInv'
  BY <1>10, AbortIInv DEF Cancel, TypeOK
<1>11. CASE Close
  <2> USE DEF limiterVars, signalVars
  <2>1. TypeOK' /\ Waiting' /\ HeldSlots' /\ Verdicts' /\ Aborts' /\ Timers'
    BY <1>11 DEF Close, InProgress, TypeOK, Waiting, HeldSlots, Verdicts, Aborts,
                 Timers, Linked
  <2>2. Closing'
    BY <1>11 DEF Close, InProgress, Closing, HeldSlots, Timers, Linked, TypeOK
  <2> QED BY <2>1, <2>2
<1> QED
  BY <1>1, <1>2, <1>3, <1>4, <1>5, <1>6, <1>7, <1>8, <1>9, <1>10, <1>11 DEF Next, Step

LEMMA Invariance == Spec => []IInv
<1> QED BY InitIInv, StepIInv, PTL DEF Spec

-----------------------------------------------------------------------------
(* How often a call is in the queue, read off the set of its elements.     *)
LEMMA QueuePositions ==
  ASSUME NEW S, NEW q \in Seq(S), NoRepeats(q), NEW c
  PROVE  Cardinality({i \in DOMAIN q : q[i] = c}) = IF c \in Elems(q) THEN 1 ELSE 0
<1>1. DOMAIN q = 1..Len(q)
  OBVIOUS
<1>2. CASE c \in Elems(q)
  <2>1. PICK i \in 1..Len(q) : q[i] = c
    BY <1>2 DEF Elems
  <2>2. {j \in DOMAIN q : q[j] = c} = {i}
    BY <1>1, <2>1 DEF NoRepeats
  <2> QED BY <1>2, <2>2, FS_Singleton
<1>3. CASE c \notin Elems(q)
  <2>1. {j \in DOMAIN q : q[j] = c} = {}
    BY <1>1, <1>3 DEF Elems
  <2> QED BY <1>3, <2>1, FS_EmptySet
<1> QED BY <1>2, <1>3

(* Slots are neither lost nor given twice on any path through errors,      *)
(* aborts and failing writes, and no call waits in vain, for any number of *)
(* calls and any limit.                                                    *)
THEOREM LimiterExactHolds == Spec => []LimiterExact
<1>1. ASSUME IInv PROVE LimiterExact
  <2>1. queue \in Seq(Calls) /\ ToSet(queue) = Elems(queue)
    BY <1>1, ToSetElems DEF IInv, TypeOK
  <2>2. \A c \in Calls :
          Cardinality({i \in DOMAIN queue : queue[i] = c}) =
            IF pc[c] = "queued" THEN 1 ELSE 0
    BY <1>1, <2>1, QueuePositions DEF IInv, Waiting
  <2>3. SlotsExact
    BY <1>1, <2>2 DEF IInv, SlotsExact, TypeOK, HeldSlots, Waiting
  <2>4. NoMissedAbort
    BY <1>1, <2>1 DEF IInv, NoMissedAbort, Waiting, Aborts
  <2> QED BY <1>1, <2>3, <2>4 DEF IInv, LimiterExact
<1> QED BY <1>1, Invariance, PTL

(* When close() has returned no slot, timer or waiting call of the         *)
(* executor is left, and what was reported is what the calls settled on.   *)
THEOREM CloseLeavesNothingHolds == Spec => []CloseLeavesNothing
<1>1. ASSUME IInv, CloseReturned PROVE CloseLeavesNothing
  <2>1. \A c \in Calls : pc[c] \in {"idle", "failing", "done"} /\ c \notin timer /\ c \notin held
    BY <1>1 DEF IInv, CloseReturned, Closing, Timers, Linked, HeldSlots
  <2>2. held = {} /\ timer = {}
    BY <1>1, <2>1, CallsAssumption DEF IInv, TypeOK
  <2>3. active = 0
    BY <1>1, <2>2, FS_EmptySet DEF IInv, HeldSlots
  <2>4. queue = <<>>
    <3>1. Elems(queue) = {} /\ queue \in Seq(Calls)
      BY <1>1, <2>1 DEF IInv, TypeOK, Waiting
    <3> QED BY <3>1, EmptyQueue
  <2> QED BY <1>1, <2>1, <2>2, <2>3, <2>4 DEF IInv, Verdicts, CloseLeavesNothing
<1>2. IInv => CloseLeavesNothing
  BY <1>1 DEF CloseLeavesNothing
<1> QED BY <1>2, Invariance, PTL

(* No late result, error, timer or abort replaces what a call settled on.  *)
THEOREM VerdictIsFinalHolds == Spec => VerdictIsFinal
<1> DEFINE A == \A c \in Calls : verdict[c] # "none" =>
                  verdict'[c] \in {verdict[c], "rejected"} /\ pc'[c] \in {pc[c], "done"}
<1>1. ASSUME IInv, Next PROVE A
  <2> SUFFICES ASSUME NEW d \in Calls, verdict[d] # "none"
               PROVE  verdict'[d] \in {verdict[d], "rejected"} /\ pc'[d] \in {pc[d], "done"}
    OBVIOUS
  <2> USE <1>1 DEF IInv, TypeOK
  <2>0. pc[d] \in {"failing", "done"}
    BY DEF Verdicts
  <2>1. ASSUME NEW c \in Calls,
               Execute(c) \/ Prepared(c) \/ Begin(c) \/ BeginReturns(c) \/ ToolEnds(c)
                 \/ PrepareFails(c) \/ SaveFails(c)
        PROVE  verdict'[d] = verdict[d] /\ pc'[d] = pc[d]
    BY <2>0, <2>1 DEF Execute, Prepared, Begin, BeginReturns, ToolEnds, ResultUsed,
                      PrepareFails, SaveFails
  <2>2. ASSUME NEW c \in Calls, Saved(c) \/ Failed(c) \/ WriteRejects(c)
        PROVE  verdict'[d] \in {verdict[d], "rejected"} /\ pc'[d] \in {pc[d], "done"}
    <3>1. pc[c] \in {"granted", "saving", "failing"} /\ Finally(c, "done")
      BY <2>2 DEF Saved, Failed, WriteRejects
    <3>2. d \notin Granted(c)
      BY <2>0, <3>1, FinallyStep
    <3>3. pc'[d] \in {pc[d], "done"}
      BY <3>1, <3>2 DEF Finally
    <3>4. verdict'[d] \in {verdict[d], "rejected"}
      BY <2>0, <2>2 DEF Saved, Failed, WriteRejects
    <3> QED BY <3>3, <3>4
  <2>3. ASSUME NEW S, NEW r, AbortSignals(S, r)
        PROVE  verdict'[d] = verdict[d] /\ pc'[d] = pc[d]
    BY <2>0, <2>3 DEF AbortSignals, Settled
  <2>4. ASSUME NEW c \in Calls, TimerFires(c) \/ \E r \in Reasons : AbortInvocation(c, r)
        PROVE  verdict'[d] = verdict[d] /\ pc'[d] = pc[d]
    BY <2>3, <2>4 DEF TimerFires, AbortInvocation
  <2>5. ASSUME NEW r \in Reasons, Cancel(r)
        PROVE  verdict'[d] = verdict[d] /\ pc'[d] = pc[d]
    BY <2>3, <2>5 DEF Cancel
  <2>6. CASE Close
    BY <2>6 DEF Close
  <2> QED BY <1>1, <2>1, <2>2, <2>4, <2>5, <2>6 DEF Next, Step
<1>2. IInv /\ [Next]_vars => [A]_vars
  BY <1>1
<1> QED BY <1>2, Invariance, PTL DEF Spec, VerdictIsFinal
=============================================================================
