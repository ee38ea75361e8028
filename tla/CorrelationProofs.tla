-------------------------- MODULE CorrelationProofs --------------------------
(***************************************************************************)
(* Proofs about Correlation, for every set of rules, inputs and tasks: the *)
(* search for a chain finds one exactly if there is one, what is reported  *)
(* is a chain, what is complete is reported, and reports are spaced.       *)
(*                                                                         *)
(* What the recursive search computes is proved by induction on the number *)
(* of stages, with the least element of a set of naturals in the place of  *)
(* an induction theorem.                                                   *)
(***************************************************************************)
EXTENDS Correlation, FiniteSetTheorems, SequenceTheorems, WellFoundedInduction, TLAPS

(* A task works on an input it took, and records a stage the input has. *)
Working ==
    \A t \in Task : /\ ~Busy(t, "idle") => task[t].input \in taken
                    /\ Busy(t, "append") => task[t].next \in DOMAIN Matches[task[t].input]

(* What is held, and what a task has seen of it, was read. *)
HitsWereRead ==
    /\ \A h \in Hits(held) : h.input \in taken
    /\ \A t \in Task : \A h \in Hits(task[t].view) : h.input \in taken

Base == TypeOK /\ Working /\ HitsWereRead

(* A task that is to publish found a chain. *)
PublishesChains == \A t \in Task : Busy(t, "publish") => HasChain(in_window(task[t].view))

ChainsInv == ReportsAreChains /\ PublishesChains

(* A chain is claimed when its suppression key is set; the claim is a task *)
(* that is to publish, then a report. a is the time of some claim.         *)
ClaimedAt(a) ==
    \/ \E i \in DOMAIN reports : a = reports[i].at
    \/ \E t \in Task : Busy(t, "publish") /\ a = task[t].at

Apart(a, b) == a >= b + rule.suppression \/ b >= a + rule.suppression

(* Two claims are a suppression window apart, and the key outlives the     *)
(* window of every claim.                                                  *)
SpacedInv ==
    /\ ReportsAreSpaced
    /\ \A i \in DOMAIN reports, t \in Task : Busy(t, "publish") => Apart(reports[i].at, task[t].at)
    /\ \A s, t \in Task : s # t /\ Busy(s, "publish") /\ Busy(t, "publish") => Apart(task[s].at, task[t].at)
    /\ \A a \in Nat : ClaimedAt(a) =>
        /\ a <= clock
        /\ rule.suppression > 0 => a + rule.suppression <= suppressed

appended_at == expires_at - rule.window

(* Some task has seen all that is held, and is to evaluate it. *)
Pending == \E t \in Task : (Busy(t, "append") \/ Busy(t, "evaluate")) /\ task[t].view = held

(* What is held was claimed since, or is suppressed by a claim. *)
Accounted == \E a \in Nat : ClaimedAt(a) /\ (appended_at <= a \/ appended_at < a + rule.suppression)

ReportedInv ==
    /\ appended_at <= clock
    /\ faults = 0 =>
        /\ suppressed # 0 => \E a \in Nat : ClaimedAt(a) /\ suppressed = a + rule.suppression
        /\ HasChain(in_window(held)) => Pending \/ Accounted

-----------------------------------------------------------------------------
(* A set of naturals has a least element. *)
LEMMA LeastNatural ==
    ASSUME NEW T \in SUBSET Nat, T # {}
    PROVE  \E n \in T : \A m \in T : n <= m
<1>1. PICK R : R = OpToRel(<, Nat)
      OBVIOUS
<1>2. IsWellFoundedOn(R, Nat)
      BY <1>1, NatLessThanWellFounded
<1>3. PICK x \in T : \A y \in T : ~(<<y, x>> \in R)
      BY <1>2, WFMin
<1>4. \A y \in T : y < x => <<y, x>> \in R
      BY <1>1 DEF OpToRel
<1>5. \A y \in T : ~(y < x)
      BY <1>3, <1>4, Zenon
<1>6. \A y \in T : x <= y
      BY <1>5
<1> QED BY <1>6

(* Induction up to n, on membership in a set. *)
LEMMA UpTo ==
    ASSUME NEW n \in Nat, NEW S, 0 \in S, \A k \in 0..n : k < n /\ k \in S => k + 1 \in S
    PROVE  \A k \in 0..n : k \in S
<1>1. PICK T : T = {k \in 0..n : k \notin S}
      OBVIOUS
<1> SUFFICES ASSUME T # {} PROVE FALSE
    BY <1>1
<1>2. T \in SUBSET Nat
      BY <1>1
<1>3. PICK m \in Nat : m \in T /\ \A k \in T : m <= k
      BY <1>2, LeastNatural
<1>4. m # 0 /\ m - 1 \in 0..n /\ m - 1 < n /\ m \notin S /\ m - 1 + 1 = m
      BY <1>1, <1>3
<1>5. m - 1 \in S
      BY <1>1, <1>3, <1>4
<1>6. m - 1 + 1 \in S
      BY <1>4, <1>5
<1> QED BY <1>4, <1>6

(* A finite set has subsets of every size up to its own. *)
LEMMA SubsetOfSize ==
    ASSUME NEW S, IsFiniteSet(S), NEW n \in Nat, Cardinality(S) >= n
    PROVE  \E U \in SUBSET S : Cardinality(U) = n
<1> DEFINE Sizes == {Cardinality(U) : U \in {V \in SUBSET S : Cardinality(V) >= n}}
<1>1. \A U \in SUBSET S : IsFiniteSet(U) /\ Cardinality(U) \in Nat
      BY FS_Subset, FS_CardinalityType
<1>2. Sizes \in SUBSET Nat /\ Cardinality(S) \in Sizes
      BY <1>1
<1>3. PICK c \in Sizes : \A d \in Sizes : c <= d
      BY <1>2, LeastNatural
<1>4. PICK U \in SUBSET S : Cardinality(U) = c /\ c >= n /\ c \in Nat
      BY <1>1, <1>3
<1>5. CASE c > n
      <2>1. PICK x : x \in U
            BY <1>1, <1>4, <1>5, FS_EmptySet
      <2>2. Cardinality(U \ {x}) = c - 1
            BY <1>1, <1>4, <2>1, FS_RemoveElement
      <2>3. U \ {x} \in SUBSET S /\ c - 1 >= n
            BY <1>4, <1>5
      <2>4. c - 1 \in Sizes
            BY <2>2, <2>3
      <2> QED BY <1>3, <1>4, <2>4
<1> QED BY <1>4, <1>5

-----------------------------------------------------------------------------
(* Where and when a hit is. *)
LEMMA HitTime ==
    ASSUME NEW h \in StageHit
    PROVE  occurred_at(h) \in Nat /\ h.input \in Input
<1>1. PICK m \in Input : \E i \in DOMAIN Matches[m] : h = [input |-> m, stage |-> Matches[m][i]]
      BY DEF StageHit
<1>2. h.input = m /\ Claimed[m] \in Nat /\ Ingested[m] \in Nat
      BY <1>1, CorrelationConstants
<1> QED BY <1>2 DEF occurred_at, effective_time

(* There is an n-th earliest time: the first by which n hits occurred. *)
LEMMA NthTimeExists ==
    ASSUME NEW H \in SUBSET StageHit, IsFiniteSet(H), NEW n \in Nat \ {0}, Cardinality(H) >= n
    PROVE  /\ \E h \in H : NthTime(H, n) = occurred_at(h)
           /\ NthTime(H, n) \in Nat
           /\ Cardinality({h \in H : occurred_at(h) < NthTime(H, n)}) < n
           /\ Cardinality({h \in H : occurred_at(h) <= NthTime(H, n)}) >= n
<1> DEFINE By(t) == {h \in H : occurred_at(h) <= t}
           Before(t) == {h \in H : occurred_at(h) < t}
           Late(t) == Cardinality(H) - Cardinality(By(t))
<1>1. \A h \in H : occurred_at(h) \in Nat
      BY HitTime
<1>2. \A U \in SUBSET H : IsFiniteSet(U) /\ Cardinality(U) \in Nat /\ Cardinality(U) <= Cardinality(H)
      BY FS_Subset, FS_CardinalityType
<1>3. Cardinality(H) \in Nat
      BY FS_CardinalityType
<1>4. \A t : By(t) \in SUBSET H /\ Before(t) \in SUBSET H
      OBVIOUS
<1> HIDE DEF By, Before
<1>5. \E t \in Nat : By(t) = H
      <2>1. {Late(t) : t \in Nat} \in SUBSET Nat
            BY <1>2, <1>3, <1>4
      <2>2. PICK t \in Nat : \A u \in Nat : Late(t) <= Late(u)
            <3>1. PICK T : T = {Late(t) : t \in Nat}
                  OBVIOUS
            <3>2. T \in SUBSET Nat /\ Late(0) \in T
                  BY <2>1, <3>1
            <3>3. PICK c \in T : \A d \in T : c <= d
                  BY <3>2, LeastNatural
            <3> QED BY <3>1, <3>3
      <2>3. ASSUME NEW h \in H, occurred_at(h) > t PROVE FALSE
            <3>1. PICK u \in Nat : u = occurred_at(h)
                  BY <1>1
            <3>2. By(t) \in SUBSET By(u) /\ h \in By(u) /\ h \notin By(t)
                  BY <1>1, <2>3, <3>1 DEF By
            <3>3. IsFiniteSet(By(u))
                  BY <1>2, <1>4
            <3>4. Cardinality(By(t)) <= Cardinality(By(u)) /\ Cardinality(By(t)) # Cardinality(By(u))
                  BY <3>2, <3>3, FS_Subset
            <3>5. Late(u) < Late(t)
                  BY <1>2, <1>3, <1>4, <3>4
            <3> QED BY <1>2, <1>3, <1>4, <2>2, <3>5
      <2>4. By(t) = H
            BY <1>1, <2>3 DEF By
      <2> QED BY <2>4
<1>6. PICK t \in Nat : /\ Cardinality(By(t)) >= n
                       /\ \A u \in Nat : Cardinality(By(u)) >= n => t <= u
      <2>1. {t \in Nat : Cardinality(By(t)) >= n} # {}
            BY <1>5
      <2>2. {t \in Nat : Cardinality(By(t)) >= n} \in SUBSET Nat
            OBVIOUS
      <2>3. PICK t \in {t \in Nat : Cardinality(By(t)) >= n} :
                \A u \in {u \in Nat : Cardinality(By(u)) >= n} : t <= u
            BY <2>1, <2>2, LeastNatural
      <2> QED BY <2>3
<1>7. Cardinality(Before(t)) < n
      <2>1. CASE t = 0
            <3>1. Before(t) = {}
                  BY <1>1, <2>1 DEF Before
            <3> QED BY <3>1, FS_EmptySet
      <2>2. CASE t # 0
            <3>1. t - 1 \in Nat /\ Before(t) = By(t - 1)
                  BY <1>1, <2>2 DEF Before, By
            <3>2. ~(Cardinality(By(t - 1)) >= n) /\ Cardinality(By(t - 1)) \in Nat
                  BY <1>2, <1>4, <1>6, <3>1
            <3> QED BY <3>1, <3>2
      <2> QED BY <2>1, <2>2
<1>8. \E h \in H : t = occurred_at(h)
      <2> SUFFICES ASSUME \A h \in H : t # occurred_at(h) PROVE FALSE
          OBVIOUS
      <2>1. By(t) = Before(t)
            BY <1>1 DEF By, Before
      <2> QED BY <1>2, <1>4, <1>6, <1>7, <2>1
<1>9. PICK s : s = NthTime(H, n)
      OBVIOUS
<1>10. /\ s \in {occurred_at(h) : h \in H}
       /\ Cardinality({h \in H : occurred_at(h) < s}) < n
       /\ Cardinality({h \in H : occurred_at(h) <= s}) >= n
      <2>1. \E u \in {occurred_at(h) : h \in H} :
                /\ Cardinality({h \in H : occurred_at(h) < u}) < n
                /\ Cardinality({h \in H : occurred_at(h) <= u}) >= n
            BY <1>6, <1>7, <1>8 DEF By, Before
      <2> QED BY <1>9, <2>1 DEF NthTime
<1> QED BY <1>1, <1>9, <1>10

-----------------------------------------------------------------------------
(* One step of the ordered search, from cursor c to stage k. *)
Candidates(H, c, k) == {h \in hits_by_stage(H, k) : occurred_at(h) >= c}

Advance(H, c, k) ==
    IF \/ c = Infeasible
       \/ Cardinality(Candidates(H, c, k)) < rule.required[k].min_count
    THEN Infeasible
    ELSE NthTime(Candidates(H, c, k), rule.required[k].min_count)

(* The first n steps. *)
Cursors(H, f, n) == f = [k \in 0..n |-> IF k = 0 THEN -1 ELSE Advance(H, f[k - 1], k)]

(* The recursive definition of the search has a solution. *)
LEMMA CursorsExist ==
    ASSUME NEW H, NEW n \in Nat
    PROVE  \E f : Cursors(H, f, n)
<1>1. PICK S : S = {m \in Nat : \E f : Cursors(H, f, m)}
      OBVIOUS
<1>2. 0 \in S
      <2>1. PICK f : f = [k \in 0..0 |-> -1]
            OBVIOUS
      <2>2. f = [k \in 0..0 |-> IF k = 0 THEN -1 ELSE Advance(H, f[k - 1], k)]
            BY <2>1
      <2> QED BY <1>1, <2>2 DEF Cursors
<1>3. ASSUME NEW m \in Nat, m \in S PROVE m + 1 \in S
      <2>1. PICK f : Cursors(H, f, m)
            BY <1>1, <1>3
      <2>2. PICK g : g = [k \in 0..(m + 1) |-> IF k = m + 1 THEN Advance(H, f[m], m + 1) ELSE f[k]]
            OBVIOUS
      <2>3. \A k \in 0..m : f[k] = IF k = 0 THEN -1 ELSE Advance(H, f[k - 1], k)
            BY <2>1 DEF Cursors
      <2>4. ASSUME NEW k \in 0..(m + 1)
            PROVE  g[k] = IF k = 0 THEN -1 ELSE Advance(H, g[k - 1], k)
            <3>1. CASE k = m + 1
                  <4>1. k # 0 /\ k - 1 = m /\ g[m] = f[m]
                        BY <2>2, <3>1
                  <4> QED BY <2>2, <3>1, <4>1
            <3>2. CASE k # m + 1 /\ k # 0
                  <4>1. k \in 0..m /\ k - 1 \in 0..(m + 1) /\ k - 1 # m + 1
                        BY <3>2
                  <4>2. g[k] = f[k] /\ g[k - 1] = f[k - 1]
                        BY <2>2, <3>2, <4>1
                  <4> QED BY <2>3, <3>2, <4>1, <4>2
            <3>3. CASE k = 0
                  <4>1. g[k] = f[k] /\ k \in 0..m
                        BY <2>2, <3>3
                  <4> QED BY <2>3, <3>3, <4>1
            <3> QED BY <3>1, <3>2, <3>3
      <2>5. g = [k \in 0..(m + 1) |-> IF k = 0 THEN -1 ELSE Advance(H, g[k - 1], k)]
            <3>1. g = [k \in 0..(m + 1) |-> g[k]]
                  BY <2>2
            <3> QED BY <2>4, <3>1
      <2> QED BY <1>1, <2>5 DEF Cursors
<1>4. \A k \in 0..n : k \in S
      BY <1>2, <1>3, UpTo
<1> QED BY <1>1, <1>4

(* ordered_completion follows the cursors to the last stage. *)
LEMMA SearchFollows ==
    ASSUME rule \in Rule, NEW H
    PROVE  \E f : Cursors(H, f, Len(rule.required))
                  /\ (ordered_completion(H) <=> f[Len(rule.required)] # Infeasible)
<1> DEFINE C == CHOOSE f : f = [k \in 0..Len(rule.required) |->
                    IF k = 0 THEN -1
                    ELSE LET candidates == {h \in hits_by_stage(H, k) : occurred_at(h) >= f[k - 1]}
                         IN  IF \/ f[k - 1] = Infeasible
                                \/ Cardinality(candidates) < rule.required[k].min_count
                             THEN Infeasible
                             ELSE NthTime(candidates, rule.required[k].min_count)]
<1>1. ordered_completion(H) <=> C[Len(rule.required)] # Infeasible
      BY DEF ordered_completion
<1>2. C = CHOOSE f : Cursors(H, f, Len(rule.required))
      BY DEF Cursors, Advance, Candidates
<1>3. Len(rule.required) \in Nat
      BY CorrelationConstants
<1>4. PICK n \in Nat : n = Len(rule.required)
      BY <1>3
<1>5. \E f : Cursors(H, f, n)
      BY CursorsExist
<1>6. Cursors(H, C, Len(rule.required))
      BY <1>2, <1>4, <1>5
<1> QED BY <1>1, <1>6

(* What a rule requires. *)
LEMMA RuleParts ==
    ASSUME rule \in Rule
    PROVE  /\ Len(rule.required) \in Nat \ {0} /\ DOMAIN rule.required = 1..Len(rule.required)
           /\ \A k \in DOMAIN rule.required : rule.required[k].min_count \in Nat \ {0}
           /\ rule.window \in Nat \ {0} /\ rule.suppression \in Nat
BY CorrelationConstants

(* The hits before, and up to, a time. *)
Before(C, d) == {h \in C : occurred_at(h) < d}
By(C, d) == {h \in C : occurred_at(h) <= d}

(* A stage is reached from a stage that was reached, by its earliest       *)
(* min_count candidates.                                                   *)
LEMMA AdvanceFacts ==
    ASSUME rule \in Rule, NEW H \in SUBSET StageHit, IsFiniteSet(H), NEW k \in DOMAIN rule.required,
           NEW c \in Int, NEW d, d = Advance(H, c, k), NEW m, m = rule.required[k].min_count,
           NEW C, C = Candidates(H, c, k)
    PROVE  /\ C \in SUBSET H /\ IsFiniteSet(C)
           /\ d # Infeasible <=> c # Infeasible /\ Cardinality(C) >= m
           /\ d # Infeasible => /\ d \in Nat /\ d >= c
                                /\ Cardinality(Before(C, d)) < m
                                /\ Cardinality(By(C, d)) >= m
<1>1. m \in Nat \ {0}
      BY RuleParts
<1>2. C \in SUBSET H /\ IsFiniteSet(C) /\ C \in SUBSET StageHit
      <2>1. C \in SUBSET H
            BY DEF Candidates, hits_by_stage
      <2> QED BY <2>1, FS_Subset
<1>3. Cardinality(C) \in Nat
      BY <1>2, FS_CardinalityType
<1>4. d = IF c = Infeasible \/ Cardinality(C) < m THEN Infeasible ELSE NthTime(C, m)
      BY DEF Advance
<1>5. CASE c = Infeasible \/ Cardinality(C) < m
      BY <1>1, <1>2, <1>3, <1>4, <1>5
<1>6. CASE c # Infeasible /\ Cardinality(C) >= m
      <2>1. d = NthTime(C, m)
            BY <1>1, <1>3, <1>4, <1>6
      <2>2. /\ \E h \in C : d = occurred_at(h)
            /\ d \in Nat
            /\ Cardinality(Before(C, d)) < m
            /\ Cardinality(By(C, d)) >= m
            BY <1>1, <1>2, <1>6, <2>1, NthTimeExists DEF Before, By
      <2>3. d >= c
            BY <2>2 DEF Candidates
      <2>4. d # Infeasible
            BY <2>2 DEF Infeasible
      <2> QED BY <1>2, <1>6, <2>2, <2>3, <2>4
<1> QED BY <1>1, <1>3, <1>5, <1>6

(* Unfolding the cursors. *)
LEMMA CursorSteps ==
    ASSUME NEW H, NEW n \in Nat, NEW f, Cursors(H, f, n)
    PROVE  f[0] = -1 /\ \A k \in 1..n : f[k] = Advance(H, f[k - 1], k)
<1>1. \A k \in 0..n : f[k] = IF k = 0 THEN -1 ELSE Advance(H, f[k - 1], k)
      BY DEF Cursors
<1> QED BY <1>1

(* When the search succeeds it reached every stage, and never went back in *)
(* time.                                                                   *)
LEMMA CursorsAscend ==
    ASSUME rule \in Rule, NEW H \in SUBSET StageHit, IsFiniteSet(H),
           NEW n, n = Len(rule.required), NEW f, Cursors(H, f, n), f[n] # Infeasible
    PROVE  \A k \in 0..n : /\ f[k] \in Int /\ f[k] # Infeasible
                           /\ \A j \in 0..k : f[j] <= f[k]
<1>1. n \in Nat /\ DOMAIN rule.required = 1..n
      BY RuleParts
<1>2. f[0] = -1 /\ \A k \in 1..n : f[k] = Advance(H, f[k - 1], k)
      BY <1>1, CursorSteps
<1>3. ASSUME NEW k \in 0..n, k < n, f[k] \in Int
      PROVE  /\ f[k + 1] \in Int
             /\ f[k + 1] # Infeasible => f[k] # Infeasible /\ f[k] <= f[k + 1]
      <2>1. k + 1 \in 1..n /\ k + 1 - 1 = k
            BY <1>1, <1>3
      <2>2. PICK c, d, m, C : c \in Int /\ c = f[k] /\ d = Advance(H, c, k + 1)
                    /\ m = rule.required[k + 1].min_count /\ C = Candidates(H, c, k + 1)
            BY <1>3
      <2>3. f[k + 1] = d
            BY <1>2, <2>1, <2>2
      <2>4. /\ d # Infeasible <=> c # Infeasible /\ Cardinality(C) >= m
            /\ d # Infeasible => d \in Nat /\ d >= c
            BY <1>1, <2>1, <2>2, AdvanceFacts
      <2> QED BY <2>2, <2>3, <2>4 DEF Infeasible
<1>4. \A k \in 0..n : f[k] \in Int
      <2>1. PICK S : S = {k \in 0..n : f[k] \in Int}
            OBVIOUS
      <2>2. 0 \in S /\ \A k \in 0..n : k < n /\ k \in S => k + 1 \in S
            BY <1>1, <1>2, <1>3, <2>1
      <2> QED BY <1>1, <2>1, <2>2, UpTo
<1>5. \A k \in 0..n : f[k] # Infeasible => \A j \in 0..k : f[j] # Infeasible /\ f[j] <= f[k]
      <2>1. PICK S : S = {k \in 0..n : f[k] # Infeasible => \A j \in 0..k : f[j] # Infeasible /\ f[j] <= f[k]}
            OBVIOUS
      <2>2. 0 \in S
            <3>1. \A j \in 0..0 : j = 0
                  OBVIOUS
            <3>2. f[0] <= f[0]
                  BY <1>2
            <3> QED BY <1>1, <2>1, <3>1, <3>2
      <2>3. ASSUME NEW k \in 0..n, k < n, k \in S PROVE k + 1 \in S
            <3> SUFFICES ASSUME f[k + 1] # Infeasible, NEW j \in 0..(k + 1)
                         PROVE  f[j] # Infeasible /\ f[j] <= f[k + 1]
                BY <1>1, <2>1, <2>3
            <3>1. f[k] # Infeasible /\ f[k] <= f[k + 1] /\ f[k + 1] \in Int /\ f[k] \in Int
                  BY <1>3, <1>4, <2>3
            <3>2. CASE j = k + 1
                  BY <3>1, <3>2
            <3>3. CASE j # k + 1
                  <4>1. j \in 0..k /\ j \in 0..n
                        BY <1>1, <3>3
                  <4>2. f[j] # Infeasible /\ f[j] <= f[k] /\ f[j] \in Int
                        BY <1>4, <2>1, <2>3, <3>1, <4>1
                  <4> QED BY <3>1, <4>2
            <3> QED BY <3>2, <3>3
      <2>4. \A k \in 0..n : k \in S
            BY <1>1, <2>2, <2>3, UpTo
      <2> QED BY <2>1, <2>4
<1>6. n \in 0..n
      BY <1>1
<1> QED BY <1>1, <1>4, <1>5, <1>6

(* A search that succeeds has found a chain: at every stage the hits       *)
(* between the cursors.                                                    *)
LEMMA OrderedSound ==
    ASSUME rule \in Rule, rule.ordered, NEW H \in SUBSET StageHit, IsFiniteSet(H),
           \A g, h \in H : occurred_at(h) - occurred_at(g) <= rule.window,
           ordered_completion(H)
    PROVE  HasChain(H)
<1>1. PICK n \in Nat : n = Len(rule.required) /\ DOMAIN rule.required = 1..n
      BY RuleParts
<1>2. PICK f : Cursors(H, f, n) /\ f[n] # Infeasible
      BY <1>1, SearchFollows
<1>3. \A k \in 0..n : /\ f[k] \in Int /\ f[k] # Infeasible
                      /\ \A j \in 0..k : f[j] <= f[k]
      BY <1>1, <1>2, CursorsAscend
<1>4. \A k \in 1..n : f[k] = Advance(H, f[k - 1], k)
      BY <1>2, CursorSteps
<1> DEFINE Between(k) == {h \in hits_by_stage(H, k) : f[k - 1] <= occurred_at(h) /\ occurred_at(h) <= f[k]}
<1>5. ASSUME NEW k \in 1..n
      PROVE  \E P \in SUBSET Between(k) : Cardinality(P) = rule.required[k].min_count
      <2>1. k - 1 \in 0..n /\ k \in 0..n /\ k \in DOMAIN rule.required
            BY <1>1
      <2>2. PICK c, d, m, C : c \in Int /\ c = f[k - 1] /\ d = Advance(H, c, k)
                    /\ m = rule.required[k].min_count /\ C = Candidates(H, c, k)
            BY <1>3, <2>1
      <2>3. d = f[k] /\ d # Infeasible /\ m \in Nat
            BY <1>3, <1>4, <2>1, <2>2, RuleParts
      <2>4. /\ C \in SUBSET H /\ IsFiniteSet(C)
            /\ d # Infeasible => /\ d \in Nat
                                 /\ Cardinality(By(C, d)) >= m
            BY <2>1, <2>2, AdvanceFacts
      <2>5. PICK U : U = By(C, d) /\ U = {h \in C : occurred_at(h) <= d}
            BY DEF By
      <2>6. IsFiniteSet(U) /\ Cardinality(U) >= m
            BY <2>3, <2>4, <2>5, FS_Subset
      <2>7. PICK P \in SUBSET U : Cardinality(P) = m
            BY <2>3, <2>6, SubsetOfSize
      <2>8. U \subseteq Between(k)
            <3>1. \A h \in H : occurred_at(h) \in Nat
                  BY HitTime
            <3>2. \A h \in C : h \in hits_by_stage(H, k) /\ occurred_at(h) >= c
                  BY <2>2 DEF Candidates
            <3>3. \A h \in C : c <= occurred_at(h)
                  BY <2>4, <3>1, <3>2
            <3> QED BY <2>2, <2>3, <2>5, <3>2, <3>3
      <2> QED BY <2>2, <2>7, <2>8
<1>6. PICK pick : pick = [k \in 1..n |-> CHOOSE P \in SUBSET Between(k) :
                                            Cardinality(P) = rule.required[k].min_count]
      OBVIOUS
<1>7. \A k \in 1..n : pick[k] \in SUBSET Between(k) /\ Cardinality(pick[k]) = rule.required[k].min_count
      <2>1. \A k \in 1..n : pick[k] = CHOOSE P \in SUBSET Between(k) :
                                        Cardinality(P) = rule.required[k].min_count
            BY <1>6
      <2> QED BY <1>5, <2>1, Zenon
<1>8. \A k \in 1..n : pick[k] \subseteq hits_by_stage(H, k) /\ pick[k] \subseteq H
      BY <1>7 DEF hits_by_stage
<1>9. pick \in [1..n -> SUBSET H]
      BY <1>6, <1>8
<1>10. ASSUME NEW j \in 1..n, NEW k \in 1..n, j < k, NEW g \in pick[j], NEW h \in pick[k]
       PROVE  occurred_at(g) <= occurred_at(h)
      <2>1. k - 1 \in 0..n /\ j \in 0..(k - 1) /\ j \in 0..n
            BY <1>10
      <2>2. f[j] <= f[k - 1] /\ f[j] \in Int /\ f[k - 1] \in Int
            BY <1>3, <2>1
      <2>3. occurred_at(g) <= f[j] /\ f[k - 1] <= occurred_at(h) /\ g \in H /\ h \in H
            BY <1>7, <1>8, <1>10
      <2>4. occurred_at(g) \in Nat /\ occurred_at(h) \in Nat
            BY <2>3, HitTime
      <2> QED BY <2>2, <2>3, <2>4
<1>11. IsChain(pick)
      <2>1. \A j, k \in 1..n : \A g \in pick[j], h \in pick[k] : occurred_at(h) - occurred_at(g) <= rule.window
            BY <1>8
      <2> QED BY <1>1, <1>7, <1>10, <2>1 DEF IsChain
<1> QED BY <1>1, <1>8, <1>9, <1>11 DEF HasChain

(* The greedy search misses no chain: at every stage its cursor is not     *)
(* later than the hits a chain has at the stages after it.                 *)
LEMMA OrderedComplete ==
    ASSUME rule \in Rule, rule.ordered, NEW H \in SUBSET StageHit, IsFiniteSet(H), HasChain(H)
    PROVE  ordered_completion(H)
<1>1. PICK n \in Nat : n = Len(rule.required) /\ DOMAIN rule.required = 1..n
      BY RuleParts
<1>2. PICK f : Cursors(H, f, n) /\ (ordered_completion(H) <=> f[n] # Infeasible)
      BY <1>1, SearchFollows
<1>3. f[0] = -1 /\ \A k \in 1..n : f[k] = Advance(H, f[k - 1], k)
      BY <1>2, CursorSteps
<1>4. PICK pick \in [1..n -> SUBSET H] :
        /\ \A k \in 1..n : pick[k] \subseteq hits_by_stage(H, k)
        /\ \A k \in 1..n : Cardinality(pick[k]) = rule.required[k].min_count
        /\ \A j, k \in 1..n : j < k => \A g \in pick[j], h \in pick[k] : occurred_at(g) <= occurred_at(h)
      BY <1>1 DEF HasChain, IsChain
<1>5. \A h \in H : occurred_at(h) \in Nat
      BY HitTime
<1>6. PICK S : S = {k \in 0..n : /\ f[k] \in Int /\ f[k] # Infeasible
                                /\ \A j \in 1..n : j > k => \A h \in pick[j] : f[k] <= occurred_at(h)}
      OBVIOUS
<1>7. 0 \in S
      <2>1. \A j \in 1..n : \A h \in pick[j] : h \in H
            BY <1>4
      <2>2. \A h \in H : -1 <= occurred_at(h)
            BY <1>5
      <2> QED BY <1>3, <1>6, <2>1, <2>2 DEF Infeasible
<1>8. ASSUME NEW i \in 0..n, i < n, i \in S PROVE i + 1 \in S
      <2>1. PICK k \in 1..n : k = i + 1 /\ k - 1 = i
            BY <1>8
      <2>2. PICK c, d, m, C : c \in Int /\ c = f[i] /\ d = Advance(H, c, k)
                    /\ m = rule.required[k].min_count /\ C = Candidates(H, c, k)
            BY <1>6, <1>8
      <2>3. d = f[k] /\ c # Infeasible /\ m \in Nat
            BY <1>1, <1>3, <1>6, <1>8, <2>1, <2>2, RuleParts
      <2>4. /\ C \in SUBSET H /\ IsFiniteSet(C)
            /\ d # Infeasible <=> c # Infeasible /\ Cardinality(C) >= m
            /\ d # Infeasible => /\ d \in Nat
                                 /\ Cardinality(Before(C, d)) < m
            BY <1>1, <2>2, AdvanceFacts
      <2>5. pick[k] \subseteq C
            <3>1. \A h \in pick[k] : h \in hits_by_stage(H, k) /\ c <= occurred_at(h) /\ h \in H
                  BY <1>4, <1>6, <1>8, <2>1, <2>2
            <3>2. \A h \in pick[k] : occurred_at(h) >= c
                  BY <1>5, <3>1
            <3> QED BY <2>2, <3>1, <3>2 DEF Candidates
      <2>6. Cardinality(pick[k]) <= Cardinality(C) /\ Cardinality(C) \in Nat /\ Cardinality(pick[k]) = m
            BY <1>4, <2>2, <2>4, <2>5, FS_Subset, FS_CardinalityType
      <2>7. d # Infeasible /\ d \in Nat
            BY <2>3, <2>4, <2>6
      <2>8. PICK g \in pick[k] : d <= occurred_at(g)
            <3>1. PICK B : B = Before(C, d) /\ B = {h \in C : occurred_at(h) < d}
                  BY DEF Before
            <3>2. B \in SUBSET C /\ Cardinality(B) < m /\ IsFiniteSet(B) /\ Cardinality(B) \in Nat
                  BY <2>4, <2>7, <3>1, FS_Subset, FS_CardinalityType
            <3>3. ~(pick[k] \subseteq B)
                  <4> SUFFICES ASSUME pick[k] \subseteq B PROVE FALSE
                      OBVIOUS
                  <4>1. Cardinality(pick[k]) <= Cardinality(B)
                        BY <3>2, FS_Subset
                  <4> QED BY <2>3, <2>6, <3>2, <4>1
            <3>4. PICK g \in pick[k] : g \notin B
                  BY <3>3
            <3>5. g \in C /\ occurred_at(g) \in Nat /\ ~(occurred_at(g) < d)
                  BY <1>5, <2>4, <2>5, <3>1, <3>4
            <3>6. d <= occurred_at(g)
                  BY <2>7, <3>5
            <3> QED BY <3>6
      <2>9. ASSUME NEW j \in 1..n, j > k, NEW h \in pick[j] PROVE d <= occurred_at(h)
            <3>1. k < j
                  BY <2>9
            <3>2. occurred_at(g) <= occurred_at(h) /\ g \in H /\ h \in H
                  BY <1>4, <2>8, <2>9, <3>1
            <3>3. occurred_at(g) \in Nat /\ occurred_at(h) \in Nat
                  BY <1>5, <3>2
            <3> QED BY <2>7, <2>8, <3>2, <3>3
      <2>10. k \in 0..n /\ f[k] \in Int
            BY <2>3, <2>7
      <2> QED BY <1>6, <2>1, <2>3, <2>7, <2>9, <2>10
<1>9. n \in S
      <2>1. \A k \in 0..n : k \in S
            BY <1>7, <1>8, UpTo
      <2> QED BY <2>1
<1> QED BY <1>2, <1>6, <1>9

(* _evaluate completes exactly if there is a chain within the window: for  *)
(* every rule, and every finite set of hits that lies within one window.   *)
THEOREM CompleteIffChain ==
    ASSUME rule \in Rule, NEW H \in SUBSET StageHit, IsFiniteSet(H),
           \A g, h \in H : occurred_at(h) - occurred_at(g) <= rule.window
    PROVE  Complete(H) <=> HasChain(H)
<1>1. PICK n \in Nat : n = Len(rule.required) /\ DOMAIN rule.required = 1..n
      BY RuleParts
<1>2. \A k : hits_by_stage(H, k) \in SUBSET H /\ IsFiniteSet(hits_by_stage(H, k))
      <2>1. \A k : hits_by_stage(H, k) \in SUBSET H
            BY DEF hits_by_stage
      <2> QED BY <2>1, FS_Subset
<1>3. CASE rule.ordered
      BY <1>3, OrderedSound, OrderedComplete DEF Complete
<1>4. CASE ~rule.ordered
      <2>1. ASSUME unordered_completion(H) PROVE HasChain(H)
            <3>1. ASSUME NEW k \in 1..n
                  PROVE  \E P \in SUBSET hits_by_stage(H, k) : Cardinality(P) = rule.required[k].min_count
                  <4>1. PICK m \in Nat : m = rule.required[k].min_count
                        BY <1>1, RuleParts
                  <4> DEFINE U == hits_by_stage(H, k)
                  <4>2. IsFiniteSet(U) /\ Cardinality(U) >= m
                        BY <1>1, <1>2, <2>1, <4>1 DEF unordered_completion
                  <4>3. \E P \in SUBSET U : Cardinality(P) = m
                        BY <4>2, SubsetOfSize
                  <4> QED BY <4>1, <4>3
            <3>2. PICK pick : pick = [k \in 1..n |-> CHOOSE P \in SUBSET hits_by_stage(H, k) :
                                                        Cardinality(P) = rule.required[k].min_count]
                  OBVIOUS
            <3>3. \A k \in 1..n : /\ pick[k] \in SUBSET hits_by_stage(H, k)
                                  /\ Cardinality(pick[k]) = rule.required[k].min_count
                  <4>1. \A k \in 1..n : pick[k] = CHOOSE P \in SUBSET hits_by_stage(H, k) :
                                                    Cardinality(P) = rule.required[k].min_count
                        BY <3>2
                  <4> QED BY <3>1, <4>1, Zenon
            <3>4. pick \in [1..n -> SUBSET H]
                  BY <1>2, <3>2, <3>3
            <3>5. \A j, k \in 1..n : \A g \in pick[j], h \in pick[k] :
                        occurred_at(h) - occurred_at(g) <= rule.window
                  BY <3>4
            <3>6. IsChain(pick)
                  BY <1>1, <1>4, <3>3, <3>5 DEF IsChain
            <3> QED BY <1>1, <3>3, <3>4, <3>6 DEF HasChain
      <2>2. ASSUME HasChain(H) PROVE unordered_completion(H)
            <3>1. PICK pick \in [1..n -> SUBSET H] :
                    \A k \in 1..n : /\ pick[k] \subseteq hits_by_stage(H, k)
                                    /\ Cardinality(pick[k]) = rule.required[k].min_count
                  BY <1>1, <2>2 DEF HasChain, IsChain
            <3>2. ASSUME NEW k \in 1..n PROVE Cardinality(hits_by_stage(H, k)) >= rule.required[k].min_count
                  <4>1. PICK m \in Nat : m = rule.required[k].min_count
                        BY <1>1, RuleParts
                  <4> DEFINE U == hits_by_stage(H, k)
                             P == pick[k]
                  <4>2. IsFiniteSet(U) /\ P \in SUBSET U /\ Cardinality(P) = m
                        BY <1>2, <3>1, <4>1
                  <4>3. Cardinality(P) <= Cardinality(U) /\ Cardinality(U) \in Nat
                        BY <4>2, FS_Subset, FS_CardinalityType
                  <4>4. Cardinality(U) >= m
                        BY <4>2, <4>3
                  <4> QED BY <4>1, <4>4
            <3> QED BY <1>1, <3>2 DEF unordered_completion
      <2> QED BY <1>4, <2>1, <2>2 DEF Complete
<1> QED BY <1>3, <1>4

-----------------------------------------------------------------------------
(* What a list of hits holds: finitely many, and those that are evaluated  *)
(* lie within one window.                                                  *)
LEMMA ViewFacts ==
    ASSUME rule \in Rule, NEW v \in Seq(StageHit)
    PROVE  /\ Hits(v) \in SUBSET StageHit /\ IsFiniteSet(Hits(v))
           /\ in_window(v) \in SUBSET Hits(v)
           /\ in_window(v) \in SUBSET StageHit /\ IsFiniteSet(in_window(v))
           /\ \A g, h \in in_window(v) : occurred_at(h) - occurred_at(g) <= rule.window
<1>1. Hits(v) \in SUBSET StageHit
      BY DEF Hits
<1>2. IsFiniteSet(Hits(v))
      <2>1. v \in [1..Len(v) -> Hits(v)] /\ Len(v) \in Nat
            BY DEF Hits
      <2>2. v \in Surjection(1..Len(v), Hits(v))
            BY <2>1 DEF Surjection, Hits
      <2>3. IsFiniteSet(1..Len(v))
            BY <2>1, FS_Interval
      <2> QED BY <2>2, <2>3, FS_Surjection
<1>3. in_window(v) \in SUBSET Hits(v)
      BY DEF in_window
<1>4. \A h \in Hits(v) : occurred_at(h) \in Nat
      BY <1>1, HitTime
<1>5. ASSUME NEW g \in in_window(v), NEW h \in in_window(v)
      PROVE  occurred_at(h) - occurred_at(g) <= rule.window
      <2>1. PICK a \in Nat, b \in Nat, w \in Nat : a = occurred_at(g) /\ b = occurred_at(h) /\ w = rule.window
            BY <1>3, <1>4, <1>5, RuleParts
      <2>2. a >= b - w
            BY <1>3, <1>5, <2>1 DEF in_window
      <2>3. b - a <= w
            BY <2>2
      <2> QED BY <2>1, <2>3
<1> QED BY <1>1, <1>2, <1>3, <1>5, FS_Subset

(* Pushing keeps the list short, and brings in one hit. *)
LEMMA PushedFacts ==
    ASSUME NEW list \in Seq(StageHit), NEW h \in StageHit
    PROVE  /\ Pushed(list, h) \in Seq(StageHit) /\ Len(Pushed(list, h)) <= MaxHits
           /\ Hits(Pushed(list, h)) \subseteq Hits(list) \cup {h}
<1>1. PICK longer \in Seq(StageHit) : longer = Append(list, h)
      <2>1. Append(list, h) \in Seq(StageHit)
            BY AppendProperties
      <2> QED BY <2>1
<1>2. PICK n \in Nat, m \in Nat \ {0} : n = Len(longer) /\ m = MaxHits
      BY <1>1, CorrelationConstants
<1>3. \A i \in 1..n : longer[i] \in Hits(list) \cup {h}
      <2>1. n = Len(list) + 1 /\ DOMAIN list = 1..Len(list) /\ Len(list) \in Nat
            BY <1>1, <1>2
      <2>2. ASSUME NEW i \in 1..n PROVE longer[i] \in Hits(list) \cup {h}
            <3>1. CASE i = n
                  BY <1>1, <2>1, <3>1
            <3>2. CASE i # n
                  <4>1. i \in DOMAIN list /\ longer[i] = list[i]
                        BY <1>1, <2>1, <3>2
                  <4> QED BY <4>1 DEF Hits
            <3> QED BY <3>1, <3>2
      <2> QED BY <2>2
<1>4. CASE n > m
      <2>1. PICK p \in Seq(StageHit) : p = SubSeq(longer, n - m + 1, n)
            <3>1. \A i \in (n - m + 1)..n : longer[i] \in StageHit
                  BY <1>1, <1>2, <1>4
            <3>2. n - m + 1 \in 1..(n + 1) /\ n \in (n - m + 1 - 1)..n
                  BY <1>2, <1>4
            <3>3. SubSeq(longer, n - m + 1, n) \in Seq(StageHit)
                  BY <1>1, <1>2, <1>4, <3>1, <3>2, SubSeqProperties
            <3> QED BY <3>3
      <2>2. Len(p) = m /\ \A i \in 1..m : p[i] = longer[n - m + i]
            <3>1. PICK k \in 1..n : k = n - m + 1
                  <4>1. n - m + 1 \in 1..n
                        BY <1>4
                  <4> QED BY <4>1
            <3>2. k \in Int /\ n \in Int /\ p = SubSeq(longer, k, n)
                  BY <2>1, <3>1
            <3>3. p = [i \in 1..(n - k + 1) |-> longer[i + k - 1]]
                  BY <1>2, <3>1, <3>2
            <3>4. n - k + 1 = m /\ \A i \in 1..m : i + k - 1 = n - m + i
                  BY <1>2, <3>1
            <3>5. DOMAIN p = 1..m
                  BY <3>3, <3>4
            <3>6. Len(p) = m
                  BY <2>1, <3>5
            <3> QED BY <3>3, <3>4, <3>6
      <2>3. \A i \in 1..m : n - m + i \in 1..n
            BY <1>4
      <2>4. Hits(p) \subseteq Hits(list) \cup {h}
            <3>1. DOMAIN p = 1..m
                  BY <2>1, <2>2
            <3>2. \A i \in DOMAIN p : p[i] \in Hits(list) \cup {h}
                  BY <1>3, <2>2, <2>3, <3>1
            <3>3. Hits(p) = {p[i] : i \in DOMAIN p}
                  BY DEF Hits
            <3> QED BY <3>2, <3>3
      <2>5. Pushed(list, h) = p
            BY <1>1, <1>2, <1>4, <2>1 DEF Pushed
      <2>6. Len(p) <= m
            BY <2>2
      <2> QED BY <1>2, <2>1, <2>4, <2>5, <2>6
<1>5. CASE ~(n > m)
      <2>1. Pushed(list, h) = longer
            BY <1>1, <1>2, <1>5 DEF Pushed
      <2>2. DOMAIN longer = 1..n
            BY <1>1, <1>2
      <2>3. Hits(longer) = {longer[i] : i \in DOMAIN longer}
            BY DEF Hits
      <2>4. Hits(longer) \subseteq Hits(list) \cup {h}
            BY <1>3, <2>2, <2>3
      <2> QED BY <1>1, <1>2, <1>5, <2>1, <2>4
<1> QED BY <1>4, <1>5

(* The fields of a task, and of the task that waits. *)
LEMMA TaskFields ==
    /\ \A w \in TaskState : /\ w.input \in Input \cup {None} /\ w.next \in Nat /\ w.view \in Seq(StageHit)
                            /\ w.at \in Nat
    /\ NoTask \in TaskState /\ NoTask.phase = "idle" /\ NoTask.view = <<>>
    /\ Hits(<<>>) = {}
<1>1. <<>> \in Seq(StageHit)
      OBVIOUS
<1>2. Hits(<<>>) = {}
      BY DEF Hits
<1> QED BY <1>1, <1>2 DEF TaskState, NoTask

(* The effect of each step on its task. *)
LEMMA TakeEffect ==
    ASSUME TypeOK, NEW t \in Task, NEW m \in Input, Take(t, m)
    PROVE  \E w \in TaskState : /\ task' = [task EXCEPT ![t] = w]
                                /\ w.input = m /\ w.next = 1 /\ w.view = <<>>
                                /\ w.phase = "ack" \/ (w.phase = "append" /\ Matches[m] # <<>>)
<1>1. PICK p : p = IF m \in Undecodable \/ Matches[m] = <<>> THEN "ack" ELSE "append"
      OBVIOUS
<1>2. p = "ack" \/ (p = "append" /\ Matches[m] # <<>>)
      BY <1>1
<1>3. PICK w : w = [NoTask EXCEPT !.input = m, !.next = 1, !.phase = p]
      OBVIOUS
<1>4. w \in TaskState /\ w.input = m /\ w.next = 1 /\ w.view = <<>> /\ w.phase = p
      BY <1>2, <1>3, TaskFields DEF TaskState
<1>5. task' = [task EXCEPT ![t] = w]
      BY <1>1, <1>3 DEF Take
<1> QED BY <1>2, <1>4, <1>5

(* Recording a hit: what the task sees is what is held. *)
LEMMA RecordEffect ==
    ASSUME TypeOK, Working, NEW t \in Task, RecordHit(t)
    PROVE  \E w \in TaskState, h \in StageHit :
             /\ task' = [task EXCEPT ![t] = w]
             /\ w.input = task[t].input /\ h.input = task[t].input
             /\ w.view = held' /\ held' = Pushed(Live, h)
             /\ w.phase = "evaluate" \/ (w.phase = "append" /\ w.next \in DOMAIN Matches[w.input])
<1>1. PICK u \in TaskState : u = task[t]
      BY DEF TypeOK
<1>2. PICK m \in Input : m = u.input
      <2>1. u.phase = "append"
            BY <1>1 DEF RecordHit, Busy
      <2>2. u.input \in taken
            BY <1>1, <2>1 DEF Working, Busy
      <2> QED BY <2>2 DEF TypeOK
<1>3. PICK n \in Nat : n = Len(Matches[m]) /\ DOMAIN Matches[m] = 1..n
      BY CorrelationConstants
<1>4. u.next \in 1..n /\ u.phase = "append"
      BY <1>1, <1>2, <1>3 DEF RecordHit, Working, Busy
<1>5. PICK h : h = [input |-> m, stage |-> Matches[m][u.next]]
      OBVIOUS
<1>6. h \in StageHit /\ h.input = m
      BY <1>3, <1>4, <1>5 DEF StageHit
<1>7. Live \in Seq(StageHit)
      BY DEF Live, TypeOK
<1>8. PICK v \in Seq(StageHit) : v = Pushed(Live, h)
      <2>1. PICK l \in Seq(StageHit) : l = Live
            BY <1>7
      <2> QED BY <1>6, <2>1, PushedFacts
<1>9. PICK p : p = IF u.next = n THEN "evaluate" ELSE "append"
      OBVIOUS
<1>10. PICK w : w = [u EXCEPT !.view = v, !.next = u.next + 1, !.phase = p]
      OBVIOUS
<1>11. u.next + 1 \in Nat /\ (p = "evaluate" \/ (p = "append" /\ u.next + 1 \in 1..n))
      BY <1>4, <1>9
<1>12. /\ w \in TaskState /\ w.view = v /\ w.next = u.next + 1 /\ w.phase = p /\ w.input = m
      BY <1>2, <1>10, <1>11 DEF TaskState
<1>13. task' = [task EXCEPT ![t] = w] /\ held' = v
      BY <1>1, <1>2, <1>3, <1>5, <1>8, <1>9, <1>10 DEF RecordHit, append, TypeOK
<1> QED BY <1>1, <1>2, <1>3, <1>6, <1>8, <1>11, <1>12, <1>13

(* Going to another phase leaves the rest of the task alone. *)
LEMMA GotoEffect ==
    ASSUME TypeOK, NEW t \in Task, NEW p \in {"ack", "publish"}, Goto(t, p)
    PROVE  \E w \in TaskState : /\ task' = [task EXCEPT ![t] = w]
                                /\ w.phase = p /\ w.input = task[t].input /\ w.view = task[t].view
<1>1. PICK u \in TaskState : u = task[t]
      BY DEF TypeOK
<1>2. PICK w : w = [u EXCEPT !.phase = p]
      OBVIOUS
<1>3. w \in TaskState /\ w.phase = p /\ w.input = u.input /\ w.view = u.view
      BY <1>2 DEF TaskState
<1>4. task' = [task EXCEPT ![t] = w]
      BY <1>1, <1>2 DEF Goto, TypeOK
<1> QED BY <1>1, <1>3, <1>4

(* An evaluation ends, or claims the chain it found. *)
LEMMA EvaluateEffect ==
    ASSUME TypeOK, NEW t \in Task, Evaluate(t)
    PROVE  \E w \in TaskState :
             /\ task' = [task EXCEPT ![t] = w]
             /\ w.input = task[t].input /\ w.view = task[t].view
             /\ \/ /\ w.phase = "ack" /\ suppressed' = suppressed
                   /\ \/ ~Complete(in_window(task[t].view))
                      \/ rule.suppression > 0 /\ ~Claimable
                \/ /\ w.phase = "publish" /\ w.at = clock
                   /\ Complete(in_window(task[t].view))
                   /\ rule.suppression = 0 \/ Claimable
                   /\ suppressed' = IF rule.suppression > 0 THEN clock + rule.suppression ELSE suppressed
<1>1. PICK u \in TaskState : u = task[t]
      BY DEF TypeOK
<1>2. CASE Goto(t, "ack") /\ UNCHANGED suppressed
           /\ (~Complete(in_window(task[t].view)) \/ (rule.suppression > 0 /\ ~Claimable))
      <2>1. PICK w \in TaskState : /\ task' = [task EXCEPT ![t] = w]
                                   /\ w.phase = "ack" /\ w.input = task[t].input /\ w.view = task[t].view
            BY <1>2, GotoEffect
      <2> QED BY <1>2, <2>1
<1>3. CASE /\ Complete(in_window(task[t].view))
           /\ rule.suppression = 0 \/ Claimable
           /\ suppressed' = IF rule.suppression > 0 THEN clock + rule.suppression ELSE suppressed
           /\ task' = [task EXCEPT ![t].phase = "publish", ![t].at = clock]
      <2>1. PICK c \in Nat : c = clock
            BY DEF TypeOK
      <2>2. PICK w : w = [u EXCEPT !.phase = "publish", !.at = c]
            OBVIOUS
      <2>3. w \in TaskState /\ w.phase = "publish" /\ w.input = u.input /\ w.view = u.view /\ w.at = c
            BY <2>2 DEF TaskState
      <2>4. task' = [task EXCEPT ![t] = w]
            BY <1>1, <1>3, <2>1, <2>2 DEF TypeOK
      <2> QED BY <1>1, <1>3, <2>1, <2>3, <2>4
<1> QED BY <1>2, <1>3 DEF Evaluate

-----------------------------------------------------------------------------
(* A step of one task keeps what is known of all of them. *)
LEMMA MoveKeeps ==
    ASSUME Base, NEW t \in Task, NEW w \in TaskState, task' = [task EXCEPT ![t] = w],
           taken \subseteq taken',
           w.phase # "idle" => w.input \in taken',
           w.phase = "append" => w.next \in DOMAIN Matches[w.input],
           \A h \in Hits(w.view) : h.input \in taken',
           \A h \in Hits(held') : h.input \in taken'
    PROVE  task' \in [Task -> TaskState] /\ Working' /\ HitsWereRead'
<1>1. task' \in [Task -> TaskState]
      BY DEF Base, TypeOK
<1>2. \A s \in Task : task'[s] = IF s = t THEN w ELSE task[s]
      BY DEF Base, TypeOK
<1>3. Working'
      <2> SUFFICES ASSUME NEW s \in Task
                   PROVE  /\ task'[s].phase # "idle" => task'[s].input \in taken'
                          /\ task'[s].phase = "append" => task'[s].next \in DOMAIN Matches[task'[s].input]
          BY DEF Working, Busy
      <2>1. CASE s = t
            BY <1>2, <2>1
      <2>2. CASE s # t
            BY <1>2, <2>2 DEF Base, Working, Busy
      <2> QED BY <2>1, <2>2
<1>4. HitsWereRead'
      <2>1. ASSUME NEW s \in Task, NEW h \in Hits(task'[s].view) PROVE h.input \in taken'
            <3>1. CASE s = t
                  BY <1>2, <2>1, <3>1
            <3>2. CASE s # t
                  BY <1>2, <2>1, <3>2 DEF Base, HitsWereRead
            <3> QED BY <3>1, <3>2
      <2> QED BY <2>1 DEF HitsWereRead
<1> QED BY <1>1, <1>3, <1>4

(* Every step keeps the types, and what was read. *)
LEMMA BaseStep ==
    ASSUME Base, [Next]_vars
    PROVE  Base'
<1>1. Hits(held') = Hits(held)'
      BY DEF Hits
<1>2. /\ \A h \in Hits(held) : h.input \in taken
      /\ \A s \in Task : \A h \in Hits(task[s].view) : h.input \in taken
      /\ \A s \in Task : task[s] \in TaskState
      /\ \A s \in Task : task[s].phase # "idle" => task[s].input \in taken
      BY DEF Base, HitsWereRead, TypeOK, Working, Busy
<1>3. ASSUME NEW t \in Task, NEW m \in Input, Take(t, m) PROVE Base'
      <2>1. PICK w \in TaskState : /\ task' = [task EXCEPT ![t] = w]
                                   /\ w.input = m /\ w.next = 1 /\ w.view = <<>>
                                   /\ w.phase = "ack" \/ (w.phase = "append" /\ Matches[m] # <<>>)
            BY <1>3, TakeEffect DEF Base
      <2>2. taken' = taken \cup {m} /\ held' = held /\ UNCHANGED <<rule, clock, expires_at, suppressed, acked, reports, faults>>
            BY <1>3 DEF Take
      <2>3. w.phase = "append" => w.next \in DOMAIN Matches[w.input]
            <3>1. Len(Matches[m]) \in Nat /\ DOMAIN Matches[m] = 1..Len(Matches[m])
                  BY CorrelationConstants
            <3>2. Matches[m] # <<>> => Len(Matches[m]) # 0
                  BY <3>1
            <3> QED BY <2>1, <3>1, <3>2
      <2>4. Hits(w.view) = {}
            BY <2>1, TaskFields
      <2>5. task' \in [Task -> TaskState] /\ Working' /\ HitsWereRead'
            BY <1>2, <2>1, <2>2, <2>3, <2>4, MoveKeeps
      <2>6. deadletter' \subseteq Input
            BY <1>3 DEF Take, Base, TypeOK
      <2> QED BY <2>2, <2>5, <2>6 DEF Base, TypeOK
<1>4. ASSUME NEW t \in Task, RecordHit(t) PROVE Base'
      <2>1. PICK w \in TaskState, h \in StageHit :
             /\ task' = [task EXCEPT ![t] = w]
             /\ w.input = task[t].input /\ h.input = task[t].input
             /\ w.view = held' /\ held' = Pushed(Live, h)
             /\ w.phase = "evaluate" \/ (w.phase = "append" /\ w.next \in DOMAIN Matches[w.input])
            BY <1>4, RecordEffect DEF Base
      <2>2. UNCHANGED <<rule, clock, suppressed, taken, acked, deadletter, reports, faults>>
            BY <1>4 DEF RecordHit
      <2>3. task[t].input \in taken
            BY <1>2, <1>4 DEF RecordHit, Busy
      <2>4. PICK l \in Seq(StageHit) : l = Live /\ \A g \in Hits(l) : g.input \in taken
            <3>1. CASE clock < expires_at
                  BY <1>2, <3>1 DEF Live, Base, TypeOK
            <3>2. CASE ~(clock < expires_at)
                  BY <3>2, TaskFields DEF Live
            <3> QED BY <3>1, <3>2
      <2>5. PICK v \in Seq(StageHit) : v = held' /\ Len(v) <= MaxHits /\ Hits(v) \subseteq Hits(l) \cup {h}
            BY <2>1, <2>4, PushedFacts
      <2>6. \A g \in Hits(v) : g.input \in taken
            BY <2>1, <2>3, <2>4, <2>5
      <2>7. task' \in [Task -> TaskState] /\ Working' /\ HitsWereRead'
            BY <2>1, <2>2, <2>3, <2>5, <2>6, MoveKeeps
      <2>8. expires_at' \in Nat
            <3>1. expires_at' = clock + rule.window
                  BY <1>4 DEF RecordHit, append
            <3> QED BY <3>1, RuleParts DEF Base, TypeOK
      <2> QED BY <2>2, <2>5, <2>7, <2>8 DEF Base, TypeOK
<1>5. ASSUME NEW t \in Task, NEW w \in TaskState, task' = [task EXCEPT ![t] = w],
             w.phase \in {"ack", "publish"}, w.input = task[t].input, w.view = task[t].view,
             task[t].phase # "idle", UNCHANGED <<held, taken>>
      PROVE  task' \in [Task -> TaskState] /\ Working' /\ HitsWereRead'
      <2>1. w.input \in taken' /\ taken' = taken /\ w.phase # "append"
            BY <1>2, <1>5
      <2>2. \A h \in Hits(w.view) : h.input \in taken'
            BY <1>2, <1>5
      <2>3. \A h \in Hits(held') : h.input \in taken'
            BY <1>2, <1>5
      <2> QED BY <1>5, <2>1, <2>2, <2>3, MoveKeeps
<1>6. ASSUME NEW t \in Task, Evaluate(t) PROVE Base'
      <2>1. PICK w \in TaskState :
             /\ task' = [task EXCEPT ![t] = w]
             /\ w.input = task[t].input /\ w.view = task[t].view
             /\ \/ w.phase = "ack" /\ suppressed' = suppressed
                \/ /\ w.phase = "publish"
                   /\ suppressed' = IF rule.suppression > 0 THEN clock + rule.suppression ELSE suppressed
            BY <1>6, EvaluateEffect DEF Base
      <2>2. UNCHANGED <<rule, clock, held, expires_at, taken, acked, deadletter, reports, faults>>
            BY <1>6 DEF Evaluate
      <2>3. task[t].phase # "idle" /\ w.phase \in {"ack", "publish"}
            BY <1>6, <2>1 DEF Evaluate, Busy
      <2>4. task' \in [Task -> TaskState] /\ Working' /\ HitsWereRead'
            BY <1>5, <2>1, <2>2, <2>3
      <2>5. suppressed' \in Nat
            <3>1. clock + rule.suppression \in Nat /\ suppressed \in Nat
                  BY RuleParts DEF Base, TypeOK
            <3> QED BY <2>1, <3>1
      <2> QED BY <2>2, <2>4, <2>5 DEF Base, TypeOK
<1>7. ASSUME NEW t \in Task, Publish(t) PROVE Base'
      <2>1. PICK w \in TaskState : /\ task' = [task EXCEPT ![t] = w]
                                   /\ w.phase = "ack" /\ w.input = task[t].input /\ w.view = task[t].view
            BY <1>7, GotoEffect DEF Publish, Base
      <2>2. UNCHANGED <<rule, clock, held, expires_at, suppressed, taken, acked, deadletter, faults>>
            BY <1>7 DEF Publish
      <2>3. task[t].phase # "idle" /\ w.phase \in {"ack", "publish"}
            BY <1>7, <2>1 DEF Publish, Busy
      <2>4. task' \in [Task -> TaskState] /\ Working' /\ HitsWereRead'
            BY <1>5, <2>1, <2>2, <2>3
      <2>5. reports' \in Seq([at : Nat, hits : SUBSET StageHit])
            <3>1. PICK v \in Seq(StageHit), a \in Nat : v = task[t].view /\ a = task[t].at
                  BY <1>2, TaskFields
            <3>2. PICK r : r = [at |-> a, hits |-> in_window(v)]
                  OBVIOUS
            <3>3. in_window(v) \in SUBSET StageHit
                  BY ViewFacts DEF Base, TypeOK
            <3>4. r \in [at : Nat, hits : SUBSET StageHit]
                  BY <3>2, <3>3
            <3>5. PICK q \in Seq([at : Nat, hits : SUBSET StageHit]) : q = reports
                  BY DEF Base, TypeOK
            <3>6. Append(q, r) \in Seq([at : Nat, hits : SUBSET StageHit])
                  BY <3>4, AppendProperties
            <3>7. reports' = Append(q, r)
                  BY <1>7, <3>1, <3>2, <3>5 DEF Publish
            <3> QED BY <3>6, <3>7
      <2> QED BY <2>2, <2>4, <2>5 DEF Base, TypeOK
<1>8. ASSUME NEW t \in Task, Ack(t) \/ Crash(t) PROVE Base'
      <2>1. UNCHANGED <<rule, clock, held, expires_at, suppressed, taken, deadletter, reports>>
            /\ task' = [task EXCEPT ![t] = NoTask] /\ task[t].phase # "idle"
            BY <1>8 DEF Ack, Crash, Busy
      <2>2. PICK w \in TaskState : w = NoTask /\ w.phase = "idle" /\ Hits(w.view) = {}
            BY TaskFields
      <2>3. task' \in [Task -> TaskState] /\ Working' /\ HitsWereRead'
            BY <1>2, <2>1, <2>2, MoveKeeps
      <2>4. acked' \subseteq taken
            BY <1>2, <1>8, <2>1 DEF Ack, Crash, Base, TypeOK
      <2>5. faults' \in 0..MaxFaults
            BY <1>8, CorrelationConstants DEF Ack, Crash, Base, TypeOK
      <2> QED BY <2>1, <2>3, <2>4, <2>5 DEF Base, TypeOK
<1>9. ASSUME NEW t \in Task, RuleFails(t) PROVE Base'
      <2>1. PICK w \in TaskState : /\ task' = [task EXCEPT ![t] = w]
                                   /\ w.phase = "ack" /\ w.input = task[t].input /\ w.view = task[t].view
            BY <1>9, GotoEffect DEF RuleFails, Base
      <2>2. UNCHANGED <<rule, clock, held, expires_at, suppressed, taken, acked, deadletter, reports>>
            BY <1>9 DEF RuleFails
      <2>3. task[t].phase # "idle" /\ w.phase \in {"ack", "publish"}
            BY <1>9, <2>1 DEF RuleFails
      <2>4. task' \in [Task -> TaskState] /\ Working' /\ HitsWereRead'
            BY <1>5, <2>1, <2>2, <2>3
      <2>5. faults' \in 0..MaxFaults
            BY <1>9, CorrelationConstants DEF RuleFails, Base, TypeOK
      <2> QED BY <2>2, <2>4, <2>5 DEF Base, TypeOK
<1>10. CASE Tick \/ UNCHANGED vars
      <2>1. UNCHANGED <<rule, held, expires_at, suppressed, task, taken, acked, deadletter, reports, faults>>
            BY <1>10 DEF Tick, vars
      <2>2. clock' \in 0..MaxTime
            BY <1>10, CorrelationConstants DEF Tick, vars, Base, TypeOK
      <2>3. TypeOK'
            BY <2>1, <2>2 DEF Base, TypeOK
      <2>4. Working' /\ HitsWereRead'
            BY <2>1 DEF Base, Working, HitsWereRead, Busy, Hits
      <2> QED BY <2>3, <2>4 DEF Base
<1> QED BY <1>3, <1>4, <1>6, <1>7, <1>8, <1>9, <1>10 DEF Next

-----------------------------------------------------------------------------
(* No step changes the rule; what counts as a chain depends on it alone. *)
LEMMA RuleStays ==
    ASSUME [Next]_vars
    PROVE  rule' = rule
BY DEF Next, vars, Take, RecordHit, Evaluate, Publish, Ack, RuleFails, Crash, Tick

(* What counts as a chain, and as in the window, depends on the rule alone. *)
LEMMA ChainsStay ==
    ASSUME rule' = rule, NEW H, NEW v
    PROVE  (HasChain(H)' <=> HasChain(H)) /\ in_window(v)' = in_window(v)
BY DEF HasChain, IsChain, hits_by_stage, in_window, Hits, occurred_at, effective_time

(* Init has neither hits nor claims, and no chain without hits. *)
LEMMA BaseInit ==
    ASSUME Init
    PROVE  Base
<1>1. \A t \in Task : task[t] = NoTask
      BY DEF Init
<1>2. TypeOK
      <2>1. task \in [Task -> TaskState]
            BY TaskFields DEF Init
      <2>2. <<>> \in Seq(StageHit) /\ Len(<<>>) = 0 /\ <<>> \in Seq([at : Nat, hits : SUBSET StageHit])
            OBVIOUS
      <2> QED BY <2>1, <2>2, CorrelationConstants DEF Init, TypeOK
<1>3. Working
      BY <1>1, TaskFields DEF Working, Busy
<1>4. HitsWereRead
      BY <1>1, TaskFields DEF Init, HitsWereRead
<1> QED BY <1>2, <1>3, <1>4 DEF Base

(* What is reported is what the task that publishes it has seen. *)
LEMMA ChainsStep ==
    ASSUME Base, ChainsInv, [Next]_vars
    PROVE  ChainsInv'
<1>1. rule' = rule
      BY RuleStays
<1> DEFINE Good(H, T) == /\ HasChain(H)
                         /\ \A g, h \in H : occurred_at(h) - occurred_at(g) <= rule.window
                         /\ \A h \in H : h.input \in T
<1>2. ASSUME NEW t \in Task, NEW w \in TaskState, task' = [task EXCEPT ![t] = w],
             w.phase = "publish" => HasChain(in_window(w.view))
      PROVE  PublishesChains'
      <2> SUFFICES ASSUME NEW s \in Task, task'[s].phase = "publish"
                   PROVE  HasChain(in_window(task[s].view))'
          BY DEF PublishesChains, Busy
      <2>1. PICK u : u = task'[s]
            OBVIOUS
      <2>2. HasChain(in_window(u.view))
            <3>1. CASE s = t
                  BY <1>2, <2>1, <3>1 DEF Base, TypeOK
            <3>2. CASE s # t
                  BY <1>2, <2>1, <3>2 DEF Base, TypeOK, ChainsInv, PublishesChains, Busy
            <3> QED BY <3>1, <3>2
      <2>3. PICK v, H : v = u.view /\ H = in_window(v)
            OBVIOUS
      <2>4. HasChain(H)' /\ in_window(v)' = H
            BY <1>1, <2>2, <2>3, ChainsStay
      <2> QED BY <2>1, <2>3, <2>4
<1>3. ASSUME taken \subseteq taken', UNCHANGED reports PROVE ReportsAreChains'
      <2> SUFFICES ASSUME NEW i \in DOMAIN reports PROVE Good(reports[i].hits, taken)'
          BY <1>3 DEF ReportsAreChains
      <2>1. PICK H : H = reports[i].hits /\ Good(H, taken)
            BY DEF ChainsInv, ReportsAreChains
      <2>2. HasChain(H)'
            BY <1>1, <2>1, ChainsStay
      <2> QED BY <1>1, <1>3, <2>1, <2>2 DEF occurred_at, effective_time
<1>4. ASSUME NEW t \in Task, NEW m \in Input, Take(t, m) PROVE ChainsInv'
      <2>1. PICK w \in TaskState : /\ task' = [task EXCEPT ![t] = w]
                                   /\ w.phase = "ack" \/ w.phase = "append"
            BY <1>4, TakeEffect DEF Base
      <2>2. taken \subseteq taken' /\ UNCHANGED reports
            BY <1>4 DEF Take
      <2> QED BY <1>2, <1>3, <2>1, <2>2 DEF ChainsInv
<1>5. ASSUME NEW t \in Task, RecordHit(t) PROVE ChainsInv'
      <2>1. PICK w \in TaskState : /\ task' = [task EXCEPT ![t] = w]
                                   /\ w.phase = "evaluate" \/ w.phase = "append"
            BY <1>5, RecordEffect DEF Base
      <2>2. taken \subseteq taken' /\ UNCHANGED reports
            BY <1>5 DEF RecordHit
      <2> QED BY <1>2, <1>3, <2>1, <2>2 DEF ChainsInv
<1>6. ASSUME NEW t \in Task, Evaluate(t) PROVE ChainsInv'
      <2>1. PICK w \in TaskState :
             /\ task' = [task EXCEPT ![t] = w] /\ w.view = task[t].view
             /\ w.phase = "ack" \/ (w.phase = "publish" /\ Complete(in_window(task[t].view)))
            BY <1>6, EvaluateEffect DEF Base
      <2>2. taken \subseteq taken' /\ UNCHANGED reports
            BY <1>6 DEF Evaluate
      <2>3. w.phase = "publish" => HasChain(in_window(w.view))
            <3>1. PICK v \in Seq(StageHit) : v = w.view
                  BY TaskFields
            <3>2. PICK H : H = in_window(v)
                  OBVIOUS
            <3>3. /\ H \in SUBSET StageHit /\ IsFiniteSet(H)
                  /\ \A g, h \in H : occurred_at(h) - occurred_at(g) <= rule.window
                  BY <3>2, ViewFacts DEF Base, TypeOK
            <3>4. Complete(H) => HasChain(H)
                  BY <3>3, CompleteIffChain DEF Base, TypeOK
            <3> QED BY <2>1, <3>1, <3>2, <3>4
      <2> QED BY <1>2, <1>3, <2>1, <2>2, <2>3 DEF ChainsInv
<1>7. ASSUME NEW t \in Task, Publish(t) PROVE ChainsInv'
      <2>1. PICK w \in TaskState : /\ task' = [task EXCEPT ![t] = w] /\ w.phase = "ack"
            BY <1>7, GotoEffect DEF Publish, Base
      <2>2. PublishesChains'
            BY <1>2, <2>1
      <2>3. PICK v \in Seq(StageHit), a \in Nat : v = task[t].view /\ a = task[t].at
            BY TaskFields DEF Base, TypeOK
      <2>4. PICK H : H = in_window(v)
            OBVIOUS
      <2>5. PICK r : r = [at |-> a, hits |-> H]
            OBVIOUS
      <2>6. Good(H, taken)
            <3>1. HasChain(H)
                  BY <1>7, <2>3, <2>4 DEF Publish, ChainsInv, PublishesChains
            <3>2. /\ H \in SUBSET Hits(v)
                  /\ \A g, h \in H : occurred_at(h) - occurred_at(g) <= rule.window
                  BY <2>4, ViewFacts DEF Base, TypeOK
            <3>3. \A h \in H : h.input \in taken
                  BY <2>3, <3>2 DEF Base, HitsWereRead
            <3> QED BY <3>1, <3>2, <3>3
      <2>7. reports' = Append(reports, r) /\ taken' = taken
            BY <1>7, <2>3, <2>4, <2>5 DEF Publish
      <2>8. ASSUME NEW i \in DOMAIN reports' PROVE Good(reports'[i].hits, taken)
            <3>1. reports \in Seq([at : Nat, hits : SUBSET StageHit])
                  BY DEF Base, TypeOK
            <3>2. i \in 1..(Len(reports) + 1) /\ Len(reports) \in Nat /\ DOMAIN reports = 1..Len(reports)
                  BY <2>7, <2>8, <3>1
            <3>3. CASE i = Len(reports) + 1
                  <4>1. reports'[i] = r
                        BY <2>7, <3>1, <3>2, <3>3
                  <4>2. reports'[i].hits = H
                        BY <2>5, <4>1
                  <4> QED BY <2>6, <4>2
            <3>4. CASE i # Len(reports) + 1
                  <4>1. i \in DOMAIN reports /\ reports'[i] = reports[i]
                        BY <2>7, <3>1, <3>2, <3>4
                  <4>2. Good(reports[i].hits, taken)
                        BY <4>1 DEF ChainsInv, ReportsAreChains
                  <4> QED BY <4>1, <4>2
            <3> QED BY <3>2, <3>3, <3>4
      <2>9. ReportsAreChains'
            <3> SUFFICES ASSUME NEW i \in DOMAIN reports' PROVE Good(reports[i].hits, taken)'
                BY DEF ReportsAreChains
            <3>1. PICK G : G = reports'[i].hits /\ Good(G, taken)
                  BY <2>8
            <3>2. HasChain(G)'
                  BY <1>1, <3>1, ChainsStay
            <3> QED BY <1>1, <2>7, <3>1, <3>2 DEF occurred_at, effective_time
      <2> QED BY <2>2, <2>9 DEF ChainsInv
<1>8. ASSUME NEW t \in Task, Ack(t) \/ Crash(t) PROVE ChainsInv'
      <2>1. PICK w \in TaskState : task' = [task EXCEPT ![t] = w] /\ w.phase # "publish"
            BY <1>8, TaskFields DEF Ack, Crash
      <2>2. taken \subseteq taken' /\ UNCHANGED reports
            BY <1>8 DEF Ack, Crash
      <2> QED BY <1>2, <1>3, <2>1, <2>2 DEF ChainsInv
<1>9. ASSUME NEW t \in Task, RuleFails(t) PROVE ChainsInv'
      <2>1. PICK w \in TaskState : /\ task' = [task EXCEPT ![t] = w] /\ w.phase = "ack"
            BY <1>9, GotoEffect DEF RuleFails, Base
      <2>2. taken \subseteq taken' /\ UNCHANGED reports
            BY <1>9 DEF RuleFails
      <2> QED BY <1>2, <1>3, <2>1, <2>2 DEF ChainsInv
<1>10. CASE Tick \/ UNCHANGED vars
      <2>1. UNCHANGED <<task, taken, reports>>
            BY <1>10 DEF Tick, vars
      <2>2. PublishesChains'
            <3> SUFFICES ASSUME NEW s \in Task, task'[s].phase = "publish"
                         PROVE  HasChain(in_window(task[s].view))'
                BY DEF PublishesChains, Busy
            <3>1. PICK v, H : v = task[s].view /\ H = in_window(v) /\ HasChain(H)
                  BY <2>1 DEF ChainsInv, PublishesChains, Busy
            <3>2. HasChain(H)' /\ in_window(v)' = H
                  BY <1>1, <3>1, ChainsStay
            <3> QED BY <2>1, <3>1, <3>2
      <2> QED BY <1>3, <2>1, <2>2 DEF ChainsInv
<1> QED BY <1>4, <1>5, <1>6, <1>7, <1>8, <1>9, <1>10 DEF Next

(* The types are kept, by every behaviour. *)
THEOREM CorrelationTypeCorrect == Spec => []TypeOK
<1>1. Init => Base
      BY BaseInit
<1>2. Base /\ [Next]_vars => Base'
      BY BaseStep
<1>3. Base => TypeOK
      BY DEF Base
<1> QED BY <1>1, <1>2, <1>3, PTL DEF Spec

(* Every reported correlation contains a chain, lies within one window and *)
(* cites inputs that were read (engine.py: _evaluate, _publish).           *)
THEOREM ReportsAreChainsHolds == Spec => []ReportsAreChains
<1>1. Init => Base /\ ChainsInv
      <2> SUFFICES ASSUME Init PROVE ChainsInv
          BY BaseInit
      <2>1. DOMAIN reports = {}
            BY DEF Init
      <2>2. \A t \in Task : task[t].phase # "publish"
            BY TaskFields DEF Init
      <2> QED BY <2>1, <2>2 DEF ChainsInv, ReportsAreChains, PublishesChains, Busy
<1>2. Base /\ ChainsInv /\ [Next]_vars => (Base /\ ChainsInv)'
      BY BaseStep, ChainsStep
<1>3. ChainsInv => ReportsAreChains
      BY DEF ChainsInv
<1> QED BY <1>1, <1>2, <1>3, PTL DEF Spec

-----------------------------------------------------------------------------
(* What SpacedInv says of reports and of tasks that are to publish, the    *)
(* claims named by their times.                                            *)
LEMMA ClaimFacts ==
    ASSUME Base, SpacedInv
    PROVE  /\ \A i \in DOMAIN reports : reports[i].at \in Nat /\ ClaimedAt(reports[i].at)
           /\ \A t \in Task : task[t].at \in Nat
           /\ \A t \in Task : task[t].phase = "publish" => ClaimedAt(task[t].at)
           /\ \A a \in Nat : ClaimedAt(a) => /\ a <= clock
                                             /\ rule.suppression > 0 => a + rule.suppression <= suppressed
<1>1. \A i \in DOMAIN reports : reports[i].at \in Nat
      <2>1. \A r \in [at : Nat, hits : SUBSET StageHit] : r.at \in Nat
            OBVIOUS
      <2>2. PICK T : T = [at : Nat, hits : SUBSET StageHit]
            OBVIOUS
      <2>3. reports \in Seq(T)
            BY <2>2 DEF Base, TypeOK
      <2>4. \A i \in DOMAIN reports : reports[i] \in T
            BY <2>3
      <2> QED BY <2>1, <2>2, <2>4
<1>2. \A t \in Task : task[t].at \in Nat
      BY TaskFields DEF Base, TypeOK
<1> QED BY <1>1, <1>2 DEF ClaimedAt, Busy, SpacedInv

(* A step that claims nothing keeps the claims apart. *)
LEMMA FewerClaims ==
    ASSUME Base, SpacedInv, rule' = rule, reports' = reports, suppressed' = suppressed,
           clock' \in Nat, clock' >= clock,
           \A s \in Task : task'[s].phase = "publish" => task[s].phase = "publish" /\ task'[s].at = task[s].at
    PROVE  SpacedInv'
<1>1. ReportsAreSpaced'
      BY DEF SpacedInv, ReportsAreSpaced
<1>2. \A i \in DOMAIN reports, t \in Task : task'[t].phase = "publish" => Apart(reports[i].at, task'[t].at)
      BY DEF SpacedInv, Busy
<1>3. \A s, t \in Task : s # t /\ task'[s].phase = "publish" /\ task'[t].phase = "publish"
            => Apart(task'[s].at, task'[t].at)
      BY DEF SpacedInv, Busy
<1>4. ASSUME NEW a \in Nat, ClaimedAt(a)'
      PROVE  a <= clock' /\ (rule.suppression > 0 => a + rule.suppression <= suppressed)
      <2>1. ClaimedAt(a)
            BY <1>4 DEF ClaimedAt, Busy
      <2>2. a <= clock /\ clock \in Nat
            BY <2>1 DEF SpacedInv, Base, TypeOK
      <2> QED BY <2>1, <2>2 DEF SpacedInv
<1>5. \A a, b : Apart(a, b)' <=> Apart(a, b)
      BY DEF Apart
<1>6. (\A i \in DOMAIN reports, t \in Task : Busy(t, "publish") => Apart(reports[i].at, task[t].at))'
      BY <1>2 DEF Apart, Busy
<1>7. (\A s, t \in Task : s # t /\ Busy(s, "publish") /\ Busy(t, "publish") => Apart(task[s].at, task[t].at))'
      BY <1>3 DEF Apart, Busy
<1> QED BY <1>1, <1>4, <1>6, <1>7 DEF SpacedInv

(* Claims are a suppression window apart at every step. *)
LEMMA SpacedStep ==
    ASSUME Base, SpacedInv, [Next]_vars
    PROVE  SpacedInv'
<1>1. rule' = rule
      BY RuleStays
<1>2. clock \in Nat /\ clock' \in Nat
      BY BaseStep DEF Base, TypeOK
<1>3. ASSUME NEW t \in Task, NEW w \in TaskState, task' = [task EXCEPT ![t] = w], w.phase # "publish",
             UNCHANGED <<reports, suppressed, clock>>
      PROVE  SpacedInv'
      <2>1. \A s \in Task : task'[s] = IF s = t THEN w ELSE task[s]
            BY <1>3 DEF Base, TypeOK
      <2>2. \A s \in Task : task'[s].phase = "publish" => task[s].phase = "publish" /\ task'[s].at = task[s].at
            BY <1>3, <2>1
      <2> QED BY <1>1, <1>2, <1>3, <2>2, FewerClaims
<1>4. ASSUME NEW t \in Task, NEW m \in Input, Take(t, m) PROVE SpacedInv'
      <2>1. PICK w \in TaskState : task' = [task EXCEPT ![t] = w] /\ w.phase # "publish"
            BY <1>4, TakeEffect DEF Base
      <2>2. UNCHANGED <<reports, suppressed, clock>>
            BY <1>4 DEF Take
      <2> QED BY <1>3, <2>1, <2>2
<1>5. ASSUME NEW t \in Task, RecordHit(t) PROVE SpacedInv'
      <2>1. PICK w \in TaskState : task' = [task EXCEPT ![t] = w] /\ w.phase # "publish"
            BY <1>5, RecordEffect DEF Base
      <2>2. UNCHANGED <<reports, suppressed, clock>>
            BY <1>5 DEF RecordHit
      <2> QED BY <1>3, <2>1, <2>2
<1>6. ASSUME NEW t \in Task, Evaluate(t) PROVE SpacedInv'
      <2>1. PICK w \in TaskState :
             /\ task' = [task EXCEPT ![t] = w]
             /\ \/ w.phase = "ack" /\ suppressed' = suppressed
                \/ /\ w.phase = "publish" /\ w.at = clock
                   /\ rule.suppression = 0 \/ Claimable
                   /\ suppressed' = IF rule.suppression > 0 THEN clock + rule.suppression ELSE suppressed
            BY <1>6, EvaluateEffect DEF Base
      <2>2. UNCHANGED <<reports, clock>>
            BY <1>6 DEF Evaluate
      <2>3. CASE w.phase = "ack" /\ suppressed' = suppressed
            BY <1>3, <2>1, <2>2, <2>3
      <2>4. CASE /\ w.phase = "publish" /\ w.at = clock
                 /\ rule.suppression = 0 \/ Claimable
                 /\ suppressed' = IF rule.suppression > 0 THEN clock + rule.suppression ELSE suppressed
            <3>1. \A s \in Task : task'[s] = IF s = t THEN w ELSE task[s]
                  BY <2>1 DEF Base, TypeOK
            <3>2. PICK c \in Nat, x \in Nat, p \in Nat : c = clock /\ x = rule.suppression /\ p = suppressed
                  <4>1. rule.suppression \in Nat /\ suppressed \in Nat
                        BY RuleParts DEF Base, TypeOK
                  <4> QED BY <1>2, <4>1
            <3>3. x = 0 \/ p <= c
                  BY <2>4, <3>2 DEF Claimable
            <3>4. \A a \in Nat : ClaimedAt(a) => a <= c /\ (x > 0 => a + x <= p)
                  BY <3>2, ClaimFacts
            <3>5. \A a \in Nat : ClaimedAt(a) => a + x <= c
                  BY <3>3, <3>4
            <3>6. \A a \in Nat : ClaimedAt(a) => Apart(a, c) /\ Apart(c, a)
                  BY <3>2, <3>5 DEF Apart
            <3>7. \A i \in DOMAIN reports : Apart(reports[i].at, c) /\ Apart(c, reports[i].at)
                  BY <3>6, ClaimFacts
            <3>8. \A s \in Task : task[s].phase = "publish" => Apart(task[s].at, c) /\ Apart(c, task[s].at)
                  BY <3>6, ClaimFacts
            <3>9. ReportsAreSpaced'
                  BY <1>1, <2>2 DEF SpacedInv, ReportsAreSpaced
            <3>10. \A i \in DOMAIN reports, s \in Task : task'[s].phase = "publish" => Apart(reports[i].at, task'[s].at)
                  BY <2>4, <3>1, <3>2, <3>7 DEF SpacedInv, Busy
            <3>11. ASSUME NEW r \in Task, NEW s \in Task, r # s,
                          task'[r].phase = "publish", task'[s].phase = "publish"
                   PROVE  Apart(task'[r].at, task'[s].at)
                  <4>1. CASE r = t
                        <5>1. task'[r].at = c /\ task'[s] = task[s]
                              BY <2>4, <3>1, <3>2, <3>11, <4>1
                        <5> QED BY <3>8, <3>11, <5>1
                  <4>2. CASE s = t
                        <5>1. task'[s].at = c /\ task'[r] = task[r]
                              BY <2>4, <3>1, <3>2, <3>11, <4>2
                        <5> QED BY <3>8, <3>11, <5>1
                  <4>3. CASE r # t /\ s # t
                        BY <3>1, <3>11, <4>3 DEF SpacedInv, Busy
                  <4> QED BY <4>1, <4>2, <4>3
            <3>12. ASSUME NEW a \in Nat, ClaimedAt(a)'
                   PROVE  a <= c /\ (x > 0 => a + x <= suppressed')
                  <4>1. ClaimedAt(a) \/ a = c
                        BY <2>2, <2>4, <3>1, <3>2, <3>12 DEF ClaimedAt, Busy
                  <4>2. x > 0 => suppressed' = c + x
                        BY <2>4, <3>2
                  <4>3. a <= c
                        BY <3>4, <4>1
                  <4> QED BY <4>2, <4>3
            <3>13. (\A i \in DOMAIN reports, s \in Task : Busy(s, "publish") => Apart(reports[i].at, task[s].at))'
                  BY <1>1, <2>2, <3>10 DEF Apart, Busy
            <3>14. (\A r, s \in Task : r # s /\ Busy(r, "publish") /\ Busy(s, "publish") => Apart(task[r].at, task[s].at))'
                  BY <1>1, <3>11 DEF Apart, Busy
            <3>15. (\A a \in Nat : ClaimedAt(a) =>
                        /\ a <= clock
                        /\ rule.suppression > 0 => a + rule.suppression <= suppressed)'
                  BY <1>1, <2>2, <3>2, <3>12
            <3> QED BY <3>9, <3>13, <3>14, <3>15 DEF SpacedInv
      <2> QED BY <2>1, <2>3, <2>4
<1>7. ASSUME NEW t \in Task, Publish(t) PROVE SpacedInv'
      <2>1. PICK w \in TaskState : /\ task' = [task EXCEPT ![t] = w] /\ w.phase = "ack"
            BY <1>7, GotoEffect DEF Publish, Base
      <2>2. UNCHANGED <<clock, suppressed>> /\ task[t].phase = "publish"
            BY <1>7 DEF Publish, Busy
      <2>3. PICK a \in Nat : a = task[t].at
            BY ClaimFacts
      <2>4. PICK r : r.at = a /\ reports' = Append(reports, r)
            <3>1. PICK r : r = [at |-> a, hits |-> in_window(task[t].view)]
                  OBVIOUS
            <3>2. r.at = a
                  BY <3>1
            <3>3. reports' = Append(reports, r)
                  BY <1>7, <2>3, <3>1 DEF Publish
            <3> QED BY <3>2, <3>3
      <2>5. PICK n \in Nat : n = Len(reports) /\ DOMAIN reports = 1..n
            BY DEF Base, TypeOK
      <2>6. /\ DOMAIN reports' = 1..(n + 1)
            /\ reports'[n + 1] = r /\ \A i \in 1..n : reports'[i] = reports[i]
            BY <2>4, <2>5 DEF Base, TypeOK
      <2>7. \A s \in Task : task'[s] = IF s = t THEN w ELSE task[s]
            BY <2>1 DEF Base, TypeOK
      <2>8. \A i \in 1..(n + 1) : \/ i \in 1..n /\ reports'[i].at = reports[i].at
                                  \/ i = n + 1 /\ reports'[i].at = a
            BY <2>4, <2>6
      <2>9. \A i \in 1..n : Apart(reports[i].at, a) /\ Apart(a, reports[i].at)
            BY <2>2, <2>3, <2>5 DEF SpacedInv, Busy, Apart
      <2>10. \A i, j \in 1..n : i # j => Apart(reports[i].at, reports[j].at)
            BY <2>5 DEF SpacedInv, ReportsAreSpaced, Apart
      <2>11. \A i, j \in 1..(n + 1) : i # j => Apart(reports'[i].at, reports'[j].at)
            BY <2>8, <2>9, <2>10
      <2>12. \A s \in Task : task'[s].phase = "publish" => s # t /\ task'[s] = task[s]
            BY <2>1, <2>7
      <2>13. ASSUME NEW i \in 1..(n + 1), NEW s \in Task, task'[s].phase = "publish"
             PROVE  Apart(reports'[i].at, task'[s].at)
            <3>1. s # t /\ task'[s] = task[s] /\ task[s].phase = "publish"
                  BY <2>12, <2>13
            <3>2. CASE i \in 1..n /\ reports'[i].at = reports[i].at
                  BY <2>5, <3>1, <3>2 DEF SpacedInv, Busy
            <3>3. CASE reports'[i].at = a
                  BY <2>2, <2>3, <3>1, <3>3 DEF SpacedInv, Busy
            <3> QED BY <2>8, <3>2, <3>3
      <2>14. ASSUME NEW q \in Task, NEW s \in Task, q # s, task'[q].phase = "publish", task'[s].phase = "publish"
             PROVE  Apart(task'[q].at, task'[s].at)
            BY <2>12, <2>14 DEF SpacedInv, Busy
      <2>15. ASSUME NEW b \in Nat, ClaimedAt(b)' PROVE ClaimedAt(b)
            <3>1. \/ \E i \in 1..(n + 1) : b = reports'[i].at
                  \/ \E s \in Task : task'[s].phase = "publish" /\ b = task'[s].at
                  BY <2>6, <2>15 DEF ClaimedAt, Busy
            <3> QED BY <2>2, <2>3, <2>5, <2>8, <2>12, <3>1 DEF ClaimedAt, Busy
      <2>16. ReportsAreSpaced'
            BY <1>1, <2>6, <2>11 DEF ReportsAreSpaced, Apart
      <2>17. (\A i \in DOMAIN reports, s \in Task : Busy(s, "publish") => Apart(reports[i].at, task[s].at))'
            BY <1>1, <2>6, <2>13 DEF Apart, Busy
      <2>18. (\A q, s \in Task : q # s /\ Busy(q, "publish") /\ Busy(s, "publish") => Apart(task[q].at, task[s].at))'
            BY <1>1, <2>14 DEF Apart, Busy
      <2>19. (\A b \in Nat : ClaimedAt(b) =>
                  /\ b <= clock
                  /\ rule.suppression > 0 => b + rule.suppression <= suppressed)'
            BY <1>1, <2>2, <2>15 DEF SpacedInv
      <2> QED BY <2>16, <2>17, <2>18, <2>19 DEF SpacedInv
<1>8. ASSUME NEW t \in Task, Ack(t) \/ Crash(t) PROVE SpacedInv'
      <2>1. PICK w \in TaskState : task' = [task EXCEPT ![t] = w] /\ w.phase # "publish"
            BY <1>8, TaskFields DEF Ack, Crash
      <2>2. UNCHANGED <<reports, suppressed, clock>>
            BY <1>8 DEF Ack, Crash
      <2> QED BY <1>3, <2>1, <2>2
<1>9. ASSUME NEW t \in Task, RuleFails(t) PROVE SpacedInv'
      <2>1. PICK w \in TaskState : task' = [task EXCEPT ![t] = w] /\ w.phase # "publish"
            BY <1>9, GotoEffect DEF RuleFails, Base
      <2>2. UNCHANGED <<reports, suppressed, clock>>
            BY <1>9 DEF RuleFails
      <2> QED BY <1>3, <2>1, <2>2
<1>10. CASE Tick \/ UNCHANGED vars
      <2>1. UNCHANGED <<reports, suppressed, task>>
            BY <1>10 DEF Tick, vars
      <2>2. clock' >= clock
            BY <1>2, <1>10 DEF Tick, vars
      <2> QED BY <1>1, <1>2, <2>1, <2>2, FewerClaims
<1> QED BY <1>4, <1>5, <1>6, <1>7, <1>8, <1>9, <1>10 DEF Next

(* Reports of an entity are a suppression window apart, whichever tasks    *)
(* made them (engine.py: the SET NX of the suppression key).               *)
THEOREM ReportsAreSpacedHolds == Spec => []ReportsAreSpaced
<1>1. Init => Base /\ SpacedInv
      <2> SUFFICES ASSUME Init PROVE SpacedInv
          BY BaseInit
      <2>1. DOMAIN reports = {}
            BY DEF Init
      <2>2. \A t \in Task : task[t].phase # "publish"
            BY TaskFields DEF Init
      <2> QED BY <2>1, <2>2 DEF SpacedInv, ReportsAreSpaced, ClaimedAt, Busy
<1>2. Base /\ SpacedInv /\ [Next]_vars => (Base /\ SpacedInv)'
      BY BaseStep, SpacedStep
<1>3. SpacedInv => ReportsAreSpaced
      BY DEF SpacedInv
<1> QED BY <1>1, <1>2, <1>3, PTL DEF Spec

-----------------------------------------------------------------------------
(* There is no chain without hits: a rule requires some. *)
LEMMA NoHitsNoChain ==
    ASSUME rule \in Rule
    PROVE  ~HasChain(in_window(<<>>))
<1>1. in_window(<<>>) = {}
      BY TaskFields DEF in_window
<1> SUFFICES ASSUME HasChain({}) PROVE FALSE
    BY <1>1
<1>2. 1 \in DOMAIN rule.required /\ rule.required[1].min_count # 0
      BY RuleParts
<1>3. PICK pick : pick[1] \subseteq {} /\ Cardinality(pick[1]) = rule.required[1].min_count
      BY <1>2 DEF HasChain, IsChain, hits_by_stage
<1>4. pick[1] = {}
      BY <1>3
<1>5. Cardinality(pick[1]) = 0
      BY <1>4, FS_EmptySet
<1> QED BY <1>2, <1>3, <1>5

(* A step that neither records a hit nor ends an evaluation keeps what is  *)
(* held accounted for, if it gives up no claim.                            *)
LEMMA KeepsReported ==
    ASSUME Base, ReportedInv, rule' = rule, held' = held, expires_at' = expires_at,
           suppressed' = suppressed, faults' = faults, clock' \in Nat, clock' >= clock,
           \A a \in Nat : ClaimedAt(a) => ClaimedAt(a)',
           \A s \in Task : task[s].phase \in {"append", "evaluate"} => task'[s] = task[s]
    PROVE  ReportedInv'
<1>1. appended_at' = appended_at
      BY DEF appended_at
<1>2. appended_at' <= clock'
      <2>1. appended_at \in Int /\ clock \in Nat /\ appended_at <= clock
            BY RuleParts DEF appended_at, Base, TypeOK, ReportedInv
      <2> QED BY <1>1, <2>1
<1>3. HasChain(in_window(held))' <=> HasChain(in_window(held))
      <2>1. PICK v, H : v = held /\ H = in_window(v)
            OBVIOUS
      <2>2. (HasChain(H)' <=> HasChain(H)) /\ in_window(v)' = H
            BY <2>1, ChainsStay
      <2> QED BY <2>1, <2>2
<1>4. Pending => Pending'
      BY DEF Pending, Busy
<1>5. Accounted => Accounted'
      BY <1>1 DEF Accounted
<1>6. ASSUME faults = 0, suppressed # 0
      PROVE  (\E a \in Nat : ClaimedAt(a) /\ suppressed = a + rule.suppression)'
      BY <1>6 DEF ReportedInv
<1> QED BY <1>2, <1>3, <1>4, <1>5, <1>6 DEF ReportedInv

(* A hit is followed by an evaluation of all that was held with it, and    *)
(* that by a claim unless one is in force.                                 *)
LEMMA ReportedStep ==
    ASSUME Base, ReportedInv, [Next]_vars
    PROVE  ReportedInv'
<1>1. rule' = rule
      BY RuleStays
<1>2. clock \in Nat /\ clock' \in Nat
      BY BaseStep DEF Base, TypeOK
<1>3. rule.window \in Nat /\ rule.suppression \in Nat /\ expires_at \in Nat /\ suppressed \in Nat
      BY RuleParts DEF Base, TypeOK
<1>4. \A s \in Task : task[s] \in TaskState
      BY DEF Base, TypeOK
<1>5. ASSUME NEW t \in Task, NEW w, task' = [task EXCEPT ![t] = w], NEW s \in Task
      PROVE  task'[s] = IF s = t THEN w ELSE task[s]
      BY <1>5 DEF Base, TypeOK
<1>6. ASSUME NEW t \in Task, NEW w, task' = [task EXCEPT ![t] = w], task[t].phase # "publish", reports' = reports
      PROVE  \A a \in Nat : ClaimedAt(a) => ClaimedAt(a)'
      BY <1>5, <1>6 DEF ClaimedAt, Busy
<1>7. ASSUME NEW t \in Task, NEW m \in Input, Take(t, m) PROVE ReportedInv'
      <2>1. PICK w \in TaskState : task' = [task EXCEPT ![t] = w]
            BY <1>7, TakeEffect DEF Base
      <2>2. UNCHANGED <<clock, held, expires_at, suppressed, reports, faults>> /\ task[t].phase = "idle"
            BY <1>7 DEF Take, Busy
      <2>3. \A a \in Nat : ClaimedAt(a) => ClaimedAt(a)'
            BY <1>6, <2>1, <2>2
      <2>4. \A s \in Task : task[s].phase \in {"append", "evaluate"} => task'[s] = task[s]
            BY <1>5, <2>1, <2>2
      <2> QED BY <1>1, <1>2, <2>2, <2>3, <2>4, KeepsReported
<1>8. ASSUME NEW t \in Task, RecordHit(t) PROVE ReportedInv'
      <2>1. PICK w \in TaskState : /\ task' = [task EXCEPT ![t] = w]
                                   /\ w.view = held' /\ w.phase \in {"append", "evaluate"}
            BY <1>8, RecordEffect DEF Base
      <2>2. UNCHANGED <<clock, suppressed, reports, faults>> /\ task[t].phase = "append"
            /\ expires_at' = clock + rule.window
            BY <1>8 DEF RecordHit, append, Busy
      <2>3. \A a \in Nat : ClaimedAt(a) => ClaimedAt(a)'
            BY <1>6, <2>1, <2>2
      <2>4. Pending'
            <3>1. task'[t] = w
                  BY <2>1 DEF Base, TypeOK
            <3> QED BY <2>1, <3>1 DEF Pending, Busy
      <2>5. appended_at' <= clock'
            BY <1>1, <1>2, <1>3, <2>2 DEF appended_at
      <2>6. ASSUME faults = 0, suppressed # 0
            PROVE  (\E a \in Nat : ClaimedAt(a) /\ suppressed = a + rule.suppression)'
            BY <1>1, <2>2, <2>3, <2>6 DEF ReportedInv
      <2> QED BY <2>2, <2>4, <2>5, <2>6 DEF ReportedInv
<1>9. ASSUME NEW t \in Task, Evaluate(t) PROVE ReportedInv'
      <2>1. PICK w \in TaskState :
             /\ task' = [task EXCEPT ![t] = w]
             /\ \/ /\ w.phase = "ack" /\ suppressed' = suppressed
                   /\ \/ ~Complete(in_window(task[t].view))
                      \/ rule.suppression > 0 /\ ~Claimable
                \/ /\ w.phase = "publish" /\ w.at = clock
                   /\ suppressed' = IF rule.suppression > 0 THEN clock + rule.suppression ELSE suppressed
            BY <1>9, EvaluateEffect DEF Base
      <2>2. UNCHANGED <<clock, held, expires_at, reports, faults>> /\ task[t].phase = "evaluate"
            BY <1>9 DEF Evaluate, Busy
      <2>3. \A a \in Nat : ClaimedAt(a) => ClaimedAt(a)'
            BY <1>6, <2>1, <2>2
      <2>4. appended_at' = appended_at /\ appended_at' <= clock' /\ appended_at \in Int
            BY <1>1, <1>3, <2>2 DEF appended_at, ReportedInv
      <2>5. CASE /\ w.phase = "publish" /\ w.at = clock
                 /\ suppressed' = IF rule.suppression > 0 THEN clock + rule.suppression ELSE suppressed
            <3>1. PICK c \in Nat : c = clock
                  BY <1>2
            <3>2. ClaimedAt(c)'
                  <4>1. task'[t] = w
                        BY <2>1 DEF Base, TypeOK
                  <4> QED BY <2>5, <3>1, <4>1 DEF ClaimedAt, Busy
            <3>3. Accounted'
                  BY <2>2, <2>4, <3>1, <3>2 DEF Accounted
            <3>4. ASSUME faults = 0, suppressed' # 0
                  PROVE  (\E a \in Nat : ClaimedAt(a) /\ suppressed = a + rule.suppression)'
                  <4>1. CASE rule.suppression > 0
                        BY <1>1, <2>5, <3>1, <3>2, <4>1
                  <4>2. CASE ~(rule.suppression > 0)
                        BY <1>1, <2>3, <2>5, <3>4, <4>2 DEF ReportedInv
                  <4> QED BY <4>1, <4>2
            <3> QED BY <2>2, <2>4, <3>3, <3>4 DEF ReportedInv
      <2>6. CASE /\ w.phase = "ack" /\ suppressed' = suppressed
                 /\ \/ ~Complete(in_window(task[t].view))
                    \/ rule.suppression > 0 /\ ~Claimable
            <3>1. ASSUME faults = 0, suppressed' # 0
                  PROVE  (\E a \in Nat : ClaimedAt(a) /\ suppressed = a + rule.suppression)'
                  BY <1>1, <2>3, <2>6, <3>1 DEF ReportedInv
            <3>2. HasChain(in_window(held))' <=> HasChain(in_window(held))
                  <4>1. PICK v, H : v = held /\ H = in_window(v)
                        OBVIOUS
                  <4>2. (HasChain(H)' <=> HasChain(H)) /\ in_window(v)' = H
                        BY <1>1, <4>1, ChainsStay
                  <4> QED BY <2>2, <4>1, <4>2
            <3>3. ASSUME faults = 0, HasChain(in_window(held)) PROVE Pending' \/ Accounted'
                  <4>1. CASE Accounted
                        BY <1>1, <2>3, <2>4, <4>1 DEF Accounted
                  <4>2. CASE Pending
                        <5>1. PICK s \in Task : task[s].phase \in {"append", "evaluate"} /\ task[s].view = held
                              BY <4>2 DEF Pending, Busy
                        <5>2. CASE s # t
                              <6>1. task'[s] = task[s]
                                    BY <1>5, <2>1, <5>2
                              <6> QED BY <2>2, <5>1, <6>1 DEF Pending, Busy
                        <5>3. CASE s = t
                              <6>1. PICK v \in Seq(StageHit) : v = held
                                    BY DEF Base, TypeOK
                              <6>2. PICK H : H = in_window(v)
                                    OBVIOUS
                              <6>3. /\ H \in SUBSET StageHit /\ IsFiniteSet(H)
                                    /\ \A g, h \in H : occurred_at(h) - occurred_at(g) <= rule.window
                                    BY <6>2, ViewFacts DEF Base, TypeOK
                              <6>4. Complete(H)
                                    BY <3>3, <6>1, <6>2, <6>3, CompleteIffChain DEF Base, TypeOK
                              <6>5. rule.suppression > 0 /\ suppressed > clock
                                    BY <1>2, <1>3, <2>6, <5>1, <5>3, <6>1, <6>2, <6>4 DEF Claimable
                              <6>6. PICK a \in Nat : ClaimedAt(a) /\ suppressed = a + rule.suppression
                                    BY <1>2, <1>3, <3>3, <6>5 DEF ReportedInv
                              <6>7. appended_at < a + rule.suppression
                                    BY <1>2, <1>3, <2>2, <2>4, <6>5, <6>6
                              <6>8. ClaimedAt(a)' /\ appended_at' < a + rule'.suppression
                                    BY <1>1, <2>3, <2>4, <6>6, <6>7
                              <6> QED BY <6>8 DEF Accounted
                        <5> QED BY <5>2, <5>3
                  <4> QED BY <3>3, <4>1, <4>2 DEF ReportedInv
            <3> QED BY <2>2, <2>4, <3>1, <3>2, <3>3 DEF ReportedInv
      <2> QED BY <2>1, <2>5, <2>6
<1>10. ASSUME NEW t \in Task, Publish(t) PROVE ReportedInv'
      <2>1. PICK w \in TaskState : task' = [task EXCEPT ![t] = w]
            BY <1>10, GotoEffect DEF Publish, Base
      <2>2. UNCHANGED <<clock, held, expires_at, suppressed, faults>> /\ task[t].phase = "publish"
            BY <1>10 DEF Publish, Busy
      <2>3. PICK a \in Nat : a = task[t].at
            BY <1>4, TaskFields
      <2>4. PICK r : r.at = a /\ reports' = Append(reports, r)
            <3>1. PICK r : r = [at |-> a, hits |-> in_window(task[t].view)]
                  OBVIOUS
            <3>2. r.at = a
                  BY <3>1
            <3>3. reports' = Append(reports, r)
                  BY <1>10, <2>3, <3>1 DEF Publish
            <3> QED BY <3>2, <3>3
      <2>5. PICK n \in Nat : n = Len(reports) /\ DOMAIN reports = 1..n
            BY DEF Base, TypeOK
      <2>6. /\ DOMAIN reports' = 1..(n + 1)
            /\ reports'[n + 1] = r /\ \A i \in 1..n : reports'[i] = reports[i]
            BY <2>4, <2>5 DEF Base, TypeOK
      <2>7. ASSUME NEW b \in Nat, ClaimedAt(b) PROVE ClaimedAt(b)'
            <3>1. CASE \E i \in DOMAIN reports : b = reports[i].at
                  <4>1. PICK i \in 1..n : b = reports[i].at
                        BY <2>5, <3>1
                  <4>2. i \in DOMAIN reports' /\ b = reports'[i].at
                        BY <2>6, <4>1
                  <4> QED BY <4>2 DEF ClaimedAt
            <3>2. CASE \E s \in Task : task[s].phase = "publish" /\ b = task[s].at
                  <4>1. PICK s \in Task : task[s].phase = "publish" /\ b = task[s].at
                        BY <3>2
                  <4>2. CASE s = t
                        <5>1. n + 1 \in DOMAIN reports' /\ b = reports'[n + 1].at
                              BY <2>3, <2>4, <2>6, <4>1, <4>2
                        <5> QED BY <5>1 DEF ClaimedAt
                  <4>3. CASE s # t
                        BY <1>5, <2>1, <4>1, <4>3 DEF ClaimedAt, Busy
                  <4> QED BY <4>2, <4>3
            <3> QED BY <2>7, <3>1, <3>2 DEF ClaimedAt, Busy
      <2>8. \A s \in Task : task[s].phase \in {"append", "evaluate"} => task'[s] = task[s]
            BY <1>5, <2>1, <2>2
      <2> QED BY <1>1, <1>2, <2>2, <2>7, <2>8, KeepsReported
<1>11. ASSUME NEW t \in Task, Ack(t) PROVE ReportedInv'
      <2>1. PICK w \in TaskState : task' = [task EXCEPT ![t] = w]
            BY <1>11, TaskFields DEF Ack
      <2>2. UNCHANGED <<clock, held, expires_at, suppressed, reports, faults>> /\ task[t].phase = "ack"
            BY <1>11 DEF Ack, Busy
      <2>3. \A a \in Nat : ClaimedAt(a) => ClaimedAt(a)'
            BY <1>6, <2>1, <2>2
      <2>4. \A s \in Task : task[s].phase \in {"append", "evaluate"} => task'[s] = task[s]
            BY <1>5, <2>1, <2>2
      <2> QED BY <1>1, <1>2, <2>2, <2>3, <2>4, KeepsReported
<1>12. ASSUME NEW t \in Task, RuleFails(t) \/ Crash(t) PROVE ReportedInv'
      <2>1. faults' # 0 /\ UNCHANGED <<clock, expires_at>>
            BY <1>12 DEF RuleFails, Crash, Base, TypeOK
      <2> QED BY <1>1, <2>1 DEF ReportedInv, appended_at
<1>13. CASE Tick \/ UNCHANGED vars
      <2>1. UNCHANGED <<held, expires_at, suppressed, task, reports, faults>>
            BY <1>13 DEF Tick, vars
      <2>2. clock' >= clock
            BY <1>2, <1>13 DEF Tick, vars
      <2>3. \A a \in Nat : ClaimedAt(a) => ClaimedAt(a)'
            BY <2>1 DEF ClaimedAt, Busy
      <2> QED BY <1>1, <1>2, <2>1, <2>2, <2>3, KeepsReported
<1> QED BY <1>7, <1>8, <1>9, <1>10, <1>11, <1>12, <1>13 DEF Next

(* Once the tasks are done and none failed, a chain among the hits that    *)
(* are held has been reported, or an earlier report suppressed it: racing  *)
(* tasks do not both miss it, and the greedy search does not (state.py:13, *)
(* engine.py:294).                                                         *)
THEOREM CompletedChainIsReportedHolds == Spec => []CompletedChainIsReported
<1>1. Init => Base /\ ReportedInv
      <2> SUFFICES ASSUME Init PROVE ReportedInv
          BY BaseInit
      <2>1. ~HasChain(in_window(held))
            BY NoHitsNoChain DEF Init
      <2>2. appended_at <= clock
            BY RuleParts DEF Init, appended_at
      <2> QED BY <2>1, <2>2 DEF Init, ReportedInv
<1>2. Base /\ ReportedInv /\ [Next]_vars => (Base /\ ReportedInv)'
      BY BaseStep, ReportedStep
<1>3. ASSUME Base, ReportedInv, Quiet, HasChain(in_window(Live))
      PROVE  \E i \in DOMAIN reports : \/ expires_at - rule.window <= reports[i].at
                                       \/ expires_at - rule.window < reports[i].at + rule.suppression
      <2>1. Live = held
            BY <1>3, NoHitsNoChain DEF Live, Base, TypeOK
      <2>2. ~Pending
            BY <1>3 DEF Pending, Quiet, Busy
      <2>3. Accounted
            BY <1>3, <2>1, <2>2 DEF ReportedInv, Quiet
      <2>4. PICK a \in Nat : ClaimedAt(a) /\ (appended_at <= a \/ appended_at < a + rule.suppression)
            BY <2>3 DEF Accounted
      <2>5. PICK i \in DOMAIN reports : a = reports[i].at
            BY <1>3, <2>4 DEF ClaimedAt, Quiet, Busy
      <2> QED BY <2>4, <2>5 DEF appended_at
<1>4. Base /\ ReportedInv => CompletedChainIsReported
      BY <1>3 DEF CompletedChainIsReported
<1> QED BY <1>1, <1>2, <1>4, PTL DEF Spec
=============================================================================
