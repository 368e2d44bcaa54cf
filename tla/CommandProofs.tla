--------------------------- MODULE CommandProofs ----------------------------
(***************************************************************************)
(* Proofs about what the commands of the operator and the clean-up after   *)
(* zombies do: the configuration, telemetry, the install, the account of   *)
(* a refill, the convergence of the Lima context and the reaper.  Each has *)
(* an inductive invariant, what its initial states and its steps do to it, *)
(* and what it implies.                                                    *)
(***************************************************************************)
EXTENDS Configuration, Telemetry, ServiceInstall, RefillEvidence, LimaConvergence,
        Reaper, Folds, SequenceTheorems, FiniteSetTheorems, WellFoundedInduction, TLAPS

-----------------------------------------------------------------------------
(* Finite sets of naturals and sums over them                              *)

\* Every set of naturals has a least element.
LEMMA NatLeast ==
  ASSUME NEW T, T \subseteq Nat, T # {}
  PROVE  \E x \in T : \A y \in T : x <= y
<1>1. PICK x \in T : \A y \in T : ~(<<y, x>> \in OpToRel(<, Nat))
  BY NatLessThanWellFounded, WFMin
<1>2. \A y \in T : ~(y < x)
  BY <1>1 DEF OpToRel
<1>3. QED
  BY <1>2

\* What holds of no smallest subset fails of none.
LEMMA SmallestSubset ==
  ASSUME NEW S, IsFiniteSet(S), NEW F, F \subseteq SUBSET S, F # {}
  PROVE  \E A \in F : \A B \in SUBSET A : B \in F => B = A
<1> DEFINE N == {Cardinality(A) : A \in F}
<1>1. \A A \in F : IsFiniteSet(A) /\ Cardinality(A) \in Nat
  BY FS_Subset, FS_CardinalityType
<1>2. N \subseteq Nat /\ N # {}
  BY <1>1
<1>3. PICK n \in N : \A m \in N : n <= m
  BY <1>2, NatLeast
<1>4. PICK A \in F : Cardinality(A) = n
  OBVIOUS
<1>5. ASSUME NEW B \in SUBSET A, B \in F, B # A
      PROVE  FALSE
  <2>1. Cardinality(B) < Cardinality(A)
    BY <1>1, <1>5, FS_Subset
  <2>2. n <= Cardinality(B) /\ n \in Nat /\ Cardinality(B) \in Nat
    BY <1>1, <1>2, <1>3, <1>5
  <2>3. QED
    BY <1>4, <2>1, <2>2
<1>6. QED
  BY <1>5

----------------------------------------------------------------------------
(* Sums over finite sets.                                                  *)

\* The sums of f over the subsets of S.
Sums(g, f, S) ==
  /\ g \in [SUBSET S -> Int] /\ g[{}] = 0
  /\ \A T \in SUBSET S : \A x \in T : g[T] = f[x] + g[T \ {x}]

LEMMA SumsExist ==
  ASSUME NEW S, IsFiniteSet(S), NEW f, \A x \in S : f[x] \in Int
  PROVE  \E g : Sums(g, f, S)
<1> DEFINE F == {A \in SUBSET S : ~\E g : Sums(g, f, A)}
<1>1. SUFFICES ASSUME F # {}
               PROVE  FALSE
  <2>1. S \in SUBSET S
    OBVIOUS
  <2>2. QED
    BY <1>1, <2>1
<1>2. PICK A \in F : \A B \in SUBSET A : B \in F => B = A
  <2>1. F \subseteq SUBSET S
    OBVIOUS
  <2> HIDE DEF F
  <2>2. QED
    BY <1>1, <2>1, SmallestSubset
<1>3. A \in SUBSET S /\ ~\E g : Sums(g, f, A)
  BY <1>2
<1>4. A # {}
  <2>1. SUFFICES ASSUME A = {} PROVE FALSE
    OBVIOUS
  <2> DEFINE z == [T \in SUBSET A |-> 0]
  <2>2. Sums(z, f, A)
    <3>1. z \in [SUBSET A -> Int] /\ z[{}] = 0
      OBVIOUS
    <3>2. QED
      BY <2>1, <3>1 DEF Sums
  <2>3. QED
    BY <1>3, <2>2
<1>5. PICK e \in A : TRUE
  BY <1>4
<1>6. PICK g : Sums(g, f, A \ {e})
  <2>1. A \ {e} \in SUBSET A /\ A \ {e} # A /\ A \ {e} \in SUBSET S
    BY <1>3, <1>5
  <2>2. QED
    BY <1>2, <2>1
<1> DEFINE h == [T \in SUBSET A |-> IF e \in T THEN f[e] + g[T \ {e}] ELSE g[T]]
<1>7. h \in [SUBSET A -> Int]
  <2>1. SUFFICES ASSUME NEW T \in SUBSET A
                 PROVE  (IF e \in T THEN f[e] + g[T \ {e}] ELSE g[T]) \in Int
    OBVIOUS
  <2>2. f[e] \in Int
    BY <1>3, <1>5
  <2>3. T \ {e} \in SUBSET (A \ {e}) /\ (e \notin T => T \in SUBSET (A \ {e}))
    OBVIOUS
  <2>4. QED
    BY <1>6, <2>2, <2>3 DEF Sums
<1>8. h[{}] = 0
  BY <1>6 DEF Sums
<1>9. ASSUME NEW T \in SUBSET A, NEW x \in T
      PROVE  h[T] = f[x] + h[T \ {x}]
  <2>0. T \ {x} \in SUBSET A /\ x \in A
    OBVIOUS
  <2>1. CASE e \notin T
    <3>1. T \in SUBSET (A \ {e}) /\ e \notin T \ {x}
      BY <2>1
    <3>2. h[T] = g[T] /\ h[T \ {x}] = g[T \ {x}]
      BY <2>0, <2>1, <3>1
    <3>3. g[T] = f[x] + g[T \ {x}]
      BY <1>6, <3>1 DEF Sums
    <3>4. QED
      BY <3>2, <3>3
  <2>2. CASE e \in T /\ x = e
    <3>1. h[T] = f[e] + g[T \ {e}]
      BY <2>2
    <3>2. h[T \ {x}] = g[T \ {e}]
      BY <2>0, <2>2
    <3>3. QED
      BY <2>2, <3>1, <3>2
  <2>3. CASE e \in T /\ x # e
    <3>1. h[T] = f[e] + g[T \ {e}]
      BY <2>3
    <3>2. h[T \ {x}] = f[e] + g[(T \ {x}) \ {e}]
      BY <2>0, <2>3
    <3>3. T \ {e} \in SUBSET (A \ {e}) /\ x \in T \ {e}
          /\ (T \ {e}) \ {x} = (T \ {x}) \ {e} /\ (T \ {x}) \ {e} \in SUBSET (A \ {e})
      BY <2>3
    <3>4. g[T \ {e}] = f[x] + g[(T \ {x}) \ {e}]
      <4>1. \A U \in SUBSET (A \ {e}) : \A y \in U : g[U] = f[y] + g[U \ {y}]
        BY <1>6 DEF Sums
      <4>2. g[T \ {e}] = f[x] + g[(T \ {e}) \ {x}]
        BY <3>3, <4>1
      <4>3. QED
        BY <3>3, <4>2, Zenon
    <3>5. f[e] \in Int /\ f[x] \in Int
      BY <1>3, <1>5, <2>0
    <3>6. g[(T \ {x}) \ {e}] \in Int
      BY <1>6, <3>3 DEF Sums
    <3> HIDE DEF h
    <3>7. QED
      BY <3>1, <3>2, <3>4, <3>5, <3>6
  <2>4. QED
    BY <2>1, <2>2, <2>3
<1>10. Sums(h, f, A)
  <2> HIDE DEF h
  <2>1. QED
    BY <1>7, <1>8, <1>9 DEF Sums
<1>11. QED
  BY <1>3, <1>10

\* Where a function changes at one argument, its sum changes by as much.
LEMMA SumsChange ==
  ASSUME NEW S, IsFiniteSet(S), NEW x \in S, NEW f, NEW g, NEW a, NEW b,
         \A y \in S : f[y] \in Int /\ g[y] \in Int, \A y \in S \ {x} : f[y] = g[y],
         Sums(a, f, S), Sums(b, g, S)
  PROVE  b[S] = a[S] - f[x] + g[x]
<1> DEFINE F == {A \in SUBSET S : x \notin A /\ a[A] # b[A]}
<1>1. F = {}
  <2>1. SUFFICES ASSUME F # {}
                 PROVE  FALSE
    OBVIOUS
  <2>2. PICK A \in F : \A B \in SUBSET A : B \in F => B = A
    <3>1. F \subseteq SUBSET S
      OBVIOUS
    <3> HIDE DEF F
    <3>2. QED
      BY <2>1, <3>1, SmallestSubset
  <2>3. A # {}
    BY <2>2 DEF Sums
  <2>4. PICK e \in A : TRUE
    BY <2>3
  <2>5. A \ {e} \in SUBSET A /\ A \ {e} # A /\ A \in SUBSET S /\ A \ {e} \in SUBSET S
        /\ x \notin A \ {e} /\ e \in S \ {x}
    BY <2>2, <2>4
  <2>6. a[A \ {e}] = b[A \ {e}]
    BY <2>2, <2>5
  <2>7. a[A] = f[e] + a[A \ {e}] /\ b[A] = g[e] + b[A \ {e}] /\ f[e] = g[e]
    BY <2>4, <2>5 DEF Sums
  <2>8. QED
    BY <2>2, <2>6, <2>7
<1>2. a[S \ {x}] = b[S \ {x}]
  BY <1>1
<1>3. a[S] = f[x] + a[S \ {x}] /\ b[S] = g[x] + b[S \ {x}] /\ a[S \ {x}] \in Int
  BY DEF Sums
<1>4. QED
  BY <1>2, <1>3

\* A sum of at most m each is at most m times as many, and a sum of naturals a
\* natural.
LEMMA SumsBounded ==
  ASSUME NEW S, IsFiniteSet(S), NEW f, NEW a, Sums(a, f, S), NEW m \in Nat,
         \A x \in S : f[x] \in Nat /\ f[x] <= m
  PROVE  \A T \in SUBSET S : a[T] \in Nat /\ a[T] <= Cardinality(T) * m
<1> DEFINE F == {A \in SUBSET S : ~(a[A] \in Nat /\ a[A] <= Cardinality(A) * m)}
<1>1. SUFFICES ASSUME F # {}
               PROVE  FALSE
  OBVIOUS
<1>2. PICK A \in F : \A B \in SUBSET A : B \in F => B = A
  <2>1. F \subseteq SUBSET S
    OBVIOUS
  <2> HIDE DEF F
  <2>2. QED
    BY <1>1, <2>1, SmallestSubset
<1>3. A # {}
  <2>1. Cardinality({}) = 0
    BY FS_EmptySet
  <2>2. a[{}] = 0 /\ 0 * m = 0
    BY DEF Sums
  <2>3. a[{}] \in Nat /\ a[{}] <= Cardinality({}) * m
    BY <2>1, <2>2
  <2>4. QED
    BY <1>2, <2>3
<1>4. PICK e \in A : TRUE
  BY <1>3
<1>5. A \ {e} \in SUBSET A /\ A \ {e} # A /\ A \in SUBSET S /\ A \ {e} \in SUBSET S
  BY <1>2, <1>4
<1>6. a[A \ {e}] \in Nat /\ a[A \ {e}] <= Cardinality(A \ {e}) * m
  BY <1>2, <1>5
<1>7. a[A] = f[e] + a[A \ {e}] /\ f[e] \in Nat /\ f[e] <= m
  BY <1>4, <1>5 DEF Sums
<1>8. Cardinality(A) \in Nat /\ Cardinality(A \ {e}) = Cardinality(A) - 1
  <2>1. IsFiniteSet(A)
    BY <1>5, FS_Subset
  <2>2. QED
    BY <1>4, <2>1, FS_CardinalityType, FS_RemoveElement
<1>9. Cardinality(A) * m = (Cardinality(A) - 1) * m + m
  BY <1>8
<1>10. a[A] \in Nat /\ a[A] <= Cardinality(A) * m
  <2> DEFINE c == (Cardinality(A) - 1) * m
             k == Cardinality(A) * m
  <2>1. c \in Int /\ k = c + m /\ a[A \ {e}] <= c
    BY <1>6, <1>8, <1>9
  <2> HIDE DEF c, k
  <2>2. a[A] \in Nat /\ a[A] <= k
    BY <1>6, <1>7, <2>1
  <2>3. QED
    BY <2>2 DEF k
<1>11. QED
  BY <1>2, <1>10

LEMMA SumsOfNaturals ==
  ASSUME NEW S, IsFiniteSet(S), NEW f, NEW a, Sums(a, f, S), \A x \in S : f[x] \in Nat
  PROVE  \A T \in SUBSET S : a[T] \in Nat
<1> DEFINE F == {A \in SUBSET S : ~(a[A] \in Nat)}
<1>1. SUFFICES ASSUME F # {}
               PROVE  FALSE
  OBVIOUS
<1>2. PICK A \in F : \A B \in SUBSET A : B \in F => B = A
  <2>1. F \subseteq SUBSET S
    OBVIOUS
  <2> HIDE DEF F
  <2>2. QED
    BY <1>1, <2>1, SmallestSubset
<1>3. A # {}
  <2>1. a[{}] = 0
    BY DEF Sums
  <2>2. ~(a[A] \in Nat)
    BY <1>2
  <2>3. QED
    BY <2>1, <2>2
<1>4. PICK e \in A : TRUE
  BY <1>3
<1>5. A \ {e} \in SUBSET A /\ A \ {e} # A /\ A \in SUBSET S /\ A \ {e} \in SUBSET S
  BY <1>2, <1>4
<1>6. a[A \ {e}] \in Nat
  BY <1>2, <1>5
<1>7. a[A] = f[e] + a[A \ {e}] /\ f[e] \in Nat
  BY <1>4, <1>5 DEF Sums
<1>8. QED
  BY <1>2, <1>6, <1>7

-----------------------------------------------------------------------------
(* Sums as folds                                                           *)

\* The fold of the community modules is the sum.
LEMMA FoldIsSum ==
  ASSUME NEW S, IsFiniteSet(S), NEW f, \A x \in S : f[x] \in Int, NEW g, Sums(g, f, S)
  PROVE  MapThenFoldSet(+, 0, LAMBDA s : f[s], LAMBDA T : CHOOSE s \in T : TRUE, S) = g[S]
<1> DEFINE pick(T) == CHOOSE s \in T : TRUE
           Folds(h) == h = [T \in SUBSET S |-> IF T = {} THEN 0
                                               ELSE f[pick(T)] + h[T \ {pick(T)}]]
           iter == CHOOSE h : Folds(h)
<1>1. MapThenFoldSet(+, 0, LAMBDA s : f[s], LAMBDA T : CHOOSE s \in T : TRUE, S) = iter[S]
  BY DEF MapThenFoldSet
<1>2. \A T \in SUBSET S : T # {} => pick(T) \in T
  OBVIOUS
<1>3. Folds(g)
  <2>1. \A T \in SUBSET S : g[T] = IF T = {} THEN 0 ELSE f[pick(T)] + g[T \ {pick(T)}]
    <3> HIDE DEF pick
    <3>1. QED
      BY <1>2 DEF Sums
  <2>2. g \in [SUBSET S -> Int]
    BY DEF Sums
  <2> HIDE DEF pick
  <2>3. QED
    BY <2>1, <2>2
<1>4. Folds(iter)
  <2> HIDE DEF Folds
  <2>1. QED
    BY <1>3
<1>5. \A T \in SUBSET S : iter[T] = IF T = {} THEN 0 ELSE f[pick(T)] + iter[T \ {pick(T)}]
  <2> HIDE DEF pick, iter
  <2>1. QED
    BY <1>4
<1>6. \A T \in SUBSET S : iter[T] = g[T]
  <2> HIDE DEF pick, Folds, iter
  <2> DEFINE F == {A \in SUBSET S : iter[A] # g[A]}
  <2>1. SUFFICES ASSUME F # {}
                 PROVE  FALSE
    OBVIOUS
  <2>2. PICK A \in F : \A B \in SUBSET A : B \in F => B = A
    <3>1. F \subseteq SUBSET S
      OBVIOUS
    <3> HIDE DEF F
    <3>2. QED
      BY <2>1, <3>1, SmallestSubset
  <2>3. A # {}
    BY <2>2, <1>5 DEF Sums
  <2>4. pick(A) \in A /\ A \in SUBSET S
    BY <1>2, <2>2, <2>3
  <2>5. iter[A \ {pick(A)}] = g[A \ {pick(A)}]
    BY <2>2, <2>4
  <2>6. iter[A] = f[pick(A)] + iter[A \ {pick(A)}]
    BY <1>5, <2>3, <2>4
  <2>7. g[A] = f[pick(A)] + g[A \ {pick(A)}]
    BY <2>4 DEF Sums
  <2>8. QED
    BY <2>2, <2>5, <2>6, <2>7
<1>7. QED
  BY <1>1, <1>6

-----------------------------------------------------------------------------
(* Configuration                                                           *)

LadderFields == {"slotFailures", "failureWindow", "slotCooldown", "openSlots", "fleetCooldown"}
AlertFields == {"failureAlerts", "alertCooldown"}
QueueFields == {"tailWarn", "queueInterval", "staleHours", "badSamples", "watch", "watched"}
CanaryFields ==
    {"sloStart", "canaryInterval", "pollTimeout", "pollInterval", "canary", "canaryIn"}
OwnFields == {"scope", "target", "count", "memory", "cpus"}

LEMMA JoinedFields ==
  ASSUME NEW f, NEW g
  PROVE  /\ DOMAIN Joined(f, g) = DOMAIN f \cup DOMAIN g
         /\ \A x \in DOMAIN f : Joined(f, g)[x] = f[x]
         /\ \A x \in DOMAIN g \ DOMAIN f : Joined(f, g)[x] = g[x]
BY DEF Joined

LEMMA SectionFields ==
    /\ DOMAIN LadderDefaults = LadderFields
    /\ DOMAIN AlertDefaults = AlertFields
    /\ DOMAIN QueueDefaults = QueueFields
    /\ DOMAIN CanaryDefaults = CanaryFields
    /\ DOMAIN SamplerDefaults = {"sampleInterval"}
    /\ DOMAIN RunnerDefaults = {"version", "vmTotal", "runnerFloor"}
    /\ DOMAIN LimitDefaults = {"pids", "minFreeDisk"}
BY DEF LadderDefaults, LadderFields, AlertDefaults, AlertFields, QueueDefaults, QueueFields,
       CanaryDefaults, CanaryFields, SamplerDefaults, RunnerDefaults, LimitDefaults

LEMMA SectionsHave ==
    /\ DOMAIN SectionDefaults =
           LadderFields \cup AlertFields \cup QueueFields \cup CanaryFields
             \cup {"sampleInterval", "version", "vmTotal", "runnerFloor", "pids", "minFreeDisk"}
    /\ \A f \in LadderFields : SectionDefaults[f] = LadderDefaults[f]
    /\ \A f \in AlertFields : SectionDefaults[f] = AlertDefaults[f]
    /\ \A f \in QueueFields : SectionDefaults[f] = QueueDefaults[f]
    /\ \A f \in CanaryFields : SectionDefaults[f] = CanaryDefaults[f]
    /\ SectionDefaults["sampleInterval"] = 240
    /\ SectionDefaults["version"] = 1
    /\ SectionDefaults["vmTotal"] = 0
    /\ SectionDefaults["runnerFloor"] = 6
    /\ SectionDefaults["pids"] = 512
    /\ SectionDefaults["minFreeDisk"] = 10
<1> DEFINE s6 == Joined(RunnerDefaults, LimitDefaults)
           s5 == Joined(SamplerDefaults, s6)
           s4 == Joined(CanaryDefaults, s5)
           s3 == Joined(QueueDefaults, s4)
           s2 == Joined(AlertDefaults, s3)
           s1 == Joined(LadderDefaults, s2)
<1>6. /\ DOMAIN s6 = {"version", "vmTotal", "runnerFloor", "pids", "minFreeDisk"}
      /\ s6["version"] = 1 /\ s6["vmTotal"] = 0 /\ s6["runnerFloor"] = 6
      /\ s6["pids"] = 512 /\ s6["minFreeDisk"] = 10
  BY DEF Joined, RunnerDefaults, LimitDefaults
<1>z. s1 = SectionDefaults
  BY DEF SectionDefaults
<1> HIDE DEF s6
<1>5. /\ DOMAIN s5 = {"sampleInterval"} \cup DOMAIN s6
      /\ s5["sampleInterval"] = 240
      /\ \A f \in DOMAIN s6 : s5[f] = s6[f]
  <2>1. SamplerDefaults["sampleInterval"] = 240
    BY DEF SamplerDefaults
  <2>i. /\ DOMAIN s5 = DOMAIN SamplerDefaults \cup DOMAIN s6
        /\ \A f \in DOMAIN SamplerDefaults : s5[f] = SamplerDefaults[f]
        /\ \A f \in DOMAIN s6 \ DOMAIN SamplerDefaults : s5[f] = s6[f]
    BY JoinedFields
  <2> HIDE DEF s5
  <2>2. QED
    BY <1>6, <2>1, <2>i, SectionFields
<1> HIDE DEF s5
<1>4. /\ DOMAIN s4 = CanaryFields \cup DOMAIN s5
      /\ \A f \in CanaryFields : s4[f] = CanaryDefaults[f]
      /\ \A f \in DOMAIN s5 : s4[f] = s5[f]
  <2>1. CanaryFields \cap DOMAIN s5 = {}
    BY <1>6, <1>5 DEF CanaryFields
  <2>i. /\ DOMAIN s4 = DOMAIN CanaryDefaults \cup DOMAIN s5
        /\ \A f \in DOMAIN CanaryDefaults : s4[f] = CanaryDefaults[f]
        /\ \A f \in DOMAIN s5 \ DOMAIN CanaryDefaults : s4[f] = s5[f]
    BY JoinedFields
  <2> HIDE DEF s4
  <2>2. QED
    BY <2>1, <2>i, SectionFields
<1> HIDE DEF s4
<1>3. /\ DOMAIN s3 = QueueFields \cup DOMAIN s4
      /\ \A f \in QueueFields : s3[f] = QueueDefaults[f]
      /\ \A f \in DOMAIN s4 : s3[f] = s4[f]
  <2>1. QueueFields \cap DOMAIN s4 = {}
    BY <1>6, <1>5, <1>4 DEF CanaryFields, QueueFields
  <2>i. /\ DOMAIN s3 = DOMAIN QueueDefaults \cup DOMAIN s4
        /\ \A f \in DOMAIN QueueDefaults : s3[f] = QueueDefaults[f]
        /\ \A f \in DOMAIN s4 \ DOMAIN QueueDefaults : s3[f] = s4[f]
    BY JoinedFields
  <2> HIDE DEF s3
  <2>2. QED
    BY <2>1, <2>i, SectionFields
<1> HIDE DEF s3
<1>2. /\ DOMAIN s2 = AlertFields \cup DOMAIN s3
      /\ \A f \in AlertFields : s2[f] = AlertDefaults[f]
      /\ \A f \in DOMAIN s3 : s2[f] = s3[f]
  <2>1. AlertFields \cap DOMAIN s3 = {}
    BY <1>6, <1>5, <1>4, <1>3 DEF CanaryFields, QueueFields, AlertFields
  <2>i. /\ DOMAIN s2 = DOMAIN AlertDefaults \cup DOMAIN s3
        /\ \A f \in DOMAIN AlertDefaults : s2[f] = AlertDefaults[f]
        /\ \A f \in DOMAIN s3 \ DOMAIN AlertDefaults : s2[f] = s3[f]
    BY JoinedFields
  <2> HIDE DEF s2
  <2>2. QED
    BY <2>1, <2>i, SectionFields
<1> HIDE DEF s2
<1>1. /\ DOMAIN s1 = LadderFields \cup DOMAIN s2
      /\ \A f \in LadderFields : s1[f] = LadderDefaults[f]
      /\ \A f \in DOMAIN s2 : s1[f] = s2[f]
  <2>1. LadderFields \cap DOMAIN s2 = {}
    BY <1>6, <1>5, <1>4, <1>3, <1>2 DEF CanaryFields, QueueFields, AlertFields, LadderFields
  <2>i. /\ DOMAIN s1 = DOMAIN LadderDefaults \cup DOMAIN s2
        /\ \A f \in DOMAIN LadderDefaults : s1[f] = LadderDefaults[f]
        /\ \A f \in DOMAIN s2 \ DOMAIN LadderDefaults : s1[f] = s2[f]
    BY JoinedFields
  <2> HIDE DEF s1
  <2>2. QED
    BY <2>1, <2>i, SectionFields
<1> HIDE DEF s1
<1>7. DOMAIN SectionDefaults =
           LadderFields \cup AlertFields \cup QueueFields \cup CanaryFields
             \cup {"sampleInterval", "version", "vmTotal", "runnerFloor", "pids", "minFreeDisk"}
  BY <1>1, <1>2, <1>3, <1>4, <1>5, <1>6, <1>z
<1>8. QED
  BY <1>1, <1>2, <1>3, <1>4, <1>5, <1>6, <1>7, <1>z

\* What init starts from.
LEMMA DefaultsHave ==
  ASSUME NEW host \in [memory : Nat, cpus : Nat], NEW q
  PROVE  LET d == DefaultsFor(host, q)
         IN  /\ DOMAIN d = OwnFields \cup DOMAIN SectionDefaults
             /\ \A f \in DOMAIN SectionDefaults : d[f] = SectionDefaults[f]
             /\ d["scope"] = q.scope /\ d["target"] = q.target
             /\ d["count"] = 1
             /\ d["memory"] \in Nat /\ d["memory"] >= 1
             /\ d["cpus"] \in Nat /\ d["cpus"] >= 6
<1> DEFINE own == [scope |-> q.scope, target |-> q.target, count |-> 1,
                   memory |-> AtMost(AtLeast(host.memory \div 2, 4), 32),
                   cpus |-> CpuUnit * AtLeast(host.cpus \div 2, 1)]
           d == DefaultsFor(host, q)
<1>1. /\ DOMAIN own = OwnFields /\ own["scope"] = q.scope /\ own["target"] = q.target
      /\ own["count"] = 1
      /\ own["memory"] = AtMost(AtLeast(host.memory \div 2, 4), 32)
      /\ own["cpus"] = CpuUnit * AtLeast(host.cpus \div 2, 1)
  BY DEF OwnFields
<1>2. d = Joined(own, SectionDefaults)
  BY DEF DefaultsFor
<1>3. AtMost(AtLeast(host.memory \div 2, 4), 32) \in Nat /\ AtMost(AtLeast(host.memory \div 2, 4), 32) >= 1
  <2>1. host.memory \div 2 \in Nat
    OBVIOUS
  <2>2. QED
    BY <2>1 DEF AtMost, AtLeast
<1>4. CpuUnit * AtLeast(host.cpus \div 2, 1) \in Nat /\ CpuUnit * AtLeast(host.cpus \div 2, 1) >= 6
  <2>1. host.cpus \div 2 \in Nat
    OBVIOUS
  <2>2. AtLeast(host.cpus \div 2, 1) \in Nat /\ AtLeast(host.cpus \div 2, 1) >= 1
    BY <2>1 DEF AtLeast
  <2>3. QED
    BY <2>2 DEF CpuUnit
<1>5. OwnFields \cap DOMAIN SectionDefaults = {}
  BY SectionsHave DEF OwnFields, LadderFields, AlertFields, QueueFields, CanaryFields
<1> HIDE DEF own
<1>6. /\ DOMAIN d = OwnFields \cup DOMAIN SectionDefaults
      /\ \A f \in OwnFields : d[f] = own[f]
      /\ \A f \in DOMAIN SectionDefaults : d[f] = SectionDefaults[f]
  <2>1. /\ DOMAIN d = DOMAIN own \cup DOMAIN SectionDefaults
        /\ \A f \in DOMAIN own : d[f] = own[f]
        /\ \A f \in DOMAIN SectionDefaults \ DOMAIN own : d[f] = SectionDefaults[f]
    <3>1. /\ DOMAIN Joined(own, SectionDefaults) = DOMAIN own \cup DOMAIN SectionDefaults
          /\ \A f \in DOMAIN own : Joined(own, SectionDefaults)[f] = own[f]
          /\ \A f \in DOMAIN SectionDefaults \ DOMAIN own :
                Joined(own, SectionDefaults)[f] = SectionDefaults[f]
      BY JoinedFields
    <3> HIDE DEF d
    <3>2. QED
      BY <1>2, <3>1
  <2>2. QED
    BY <1>1, <1>5, <2>1
<1>7. QED
  BY <1>1, <1>3, <1>4, <1>6 DEF OwnFields

LEMMA SharesAre ==
  ASSUME NEW engine \in [memory : Nat, cpus : Nat], NEW n \in Nat
  PROVE  /\ CpuShare(engine, n) \in Nat /\ CpuShare(engine, n) >= 6
         /\ MemoryShare(engine, n) \in Nat /\ MemoryShare(engine, n) >= 1
<1>1. AtLeast(n, 1) \in Nat /\ AtLeast(n, 1) >= 1
  BY DEF AtLeast
<1>2. PICK k \in Nat : k = AtLeast(n, 1) /\ k >= 1
  BY <1>1
<1>3. CpuUnit * engine.cpus \in Nat
  BY DEF CpuUnit
<1>4. PICK c \in Nat, e \in Nat : c = CpuUnit * engine.cpus /\ e = engine.memory
  BY <1>3
<1>5. c \div k \in Nat /\ e \div k \in Nat
  BY <1>2
<1>6. CpuUnit \div 2 = 6
  BY DEF CpuUnit
<1>7. CpuShare(engine, n) = AtLeast(c \div k, 6) /\ MemoryShare(engine, n) = AtLeast(e \div k, 1)
  BY <1>2, <1>4, <1>6 DEF CpuShare, MemoryShare
<1>8. QED
  BY <1>5, <1>7 DEF AtLeast

NumbersTyped(c) == NumberFields \subseteq DOMAIN c /\ \A f \in NumberFields : c[f] \in Nat

AllFields == OwnFields \cup DOMAIN SectionDefaults

LEMMA MadeHas ==
  ASSUME NEW host \in [memory : Nat, cpus : Nat], NEW engine \in [memory : Nat, cpus : Nat],
         NEW q, q.count \in Nat
  PROVE  LET m == Made(host, engine, q)
         IN  /\ DOMAIN m = AllFields
             /\ \A f \in DOMAIN SectionDefaults \ {"vmTotal"} : m[f] = SectionDefaults[f]
             /\ m["scope"] = q.scope /\ m["target"] = q.target /\ m["count"] = q.count
             /\ m["memory"] \in Nat /\ m["memory"] >= 1
             /\ m["cpus"] \in Nat /\ m["cpus"] >= 6
             /\ m["vmTotal"] \in Nat
             /\ engine # Silent => m["cpus"] <= CpuShare(engine, q.count)
<1> DEFINE m == Made(host, engine, q)
           d == DefaultsFor(host, q)
           n == [d EXCEPT !.count = q.count]
<1>1. /\ DOMAIN d = AllFields
      /\ \A f \in DOMAIN SectionDefaults : d[f] = SectionDefaults[f]
      /\ d["scope"] = q.scope /\ d["target"] = q.target
      /\ d["memory"] \in Nat /\ d["memory"] >= 1
      /\ d["cpus"] \in Nat /\ d["cpus"] >= 6
  BY DefaultsHave DEF AllFields
<1>2. m = Sized(n, engine)
  BY DEF Made
<1> HIDE DEF d, m
<1>3. /\ OwnFields \subseteq AllFields /\ "vmTotal" \in AllFields /\ "vmTotal" \in DOMAIN SectionDefaults
      /\ "count" \notin DOMAIN SectionDefaults
      /\ "memory" \notin DOMAIN SectionDefaults /\ "cpus" \notin DOMAIN SectionDefaults
      /\ SectionDefaults["vmTotal"] = 0
  BY SectionsHave DEF OwnFields, AllFields, LadderFields, AlertFields, QueueFields, CanaryFields
<1>4. /\ DOMAIN n = AllFields /\ n["count"] = q.count
      /\ \A f \in AllFields \ {"count"} : n[f] = d[f]
  BY <1>1, <1>3 DEF OwnFields
<1> HIDE DEF n
<1>5. CASE engine = Silent
  <2>1. m = n
    BY <1>2, <1>5 DEF Sized
  <2>2. QED
    <3>1. /\ "scope" \in AllFields /\ "target" \in AllFields /\ "memory" \in AllFields
          /\ "cpus" \in AllFields /\ DOMAIN SectionDefaults \subseteq AllFields
      BY <1>3 DEF OwnFields, AllFields
    <3>2. \A f \in AllFields \ {"count"} : m[f] = d[f]
      BY <1>4, <2>1
    <3>3. /\ DOMAIN m = AllFields /\ m["count"] = q.count
          /\ m["scope"] = q.scope /\ m["target"] = q.target
          /\ m["memory"] = d["memory"] /\ m["cpus"] = d["cpus"] /\ m["vmTotal"] = 0
      BY <1>1, <1>3, <1>4, <2>1, <3>1, <3>2
    <3>4. \A f \in DOMAIN SectionDefaults \ {"vmTotal"} : m[f] = SectionDefaults[f]
      BY <1>1, <1>3, <3>1, <3>2
    <3>5. QED
      BY <1>1, <1>5, <3>3, <3>4 DEF m
<1>6. CASE engine # Silent
  <2>1. m = [n EXCEPT !.cpus = AtMost(n.cpus, CpuShare(engine, q.count)),
                      !.memory = AtMost(n.memory, MemoryShare(engine, q.count)),
                      !.vmTotal = engine.memory]
    BY <1>2, <1>4, <1>6 DEF Sized
  <2>2. /\ DOMAIN m = AllFields
        /\ m["cpus"] = AtMost(d["cpus"], CpuShare(engine, q.count))
        /\ m["memory"] = AtMost(d["memory"], MemoryShare(engine, q.count))
        /\ m["vmTotal"] = engine.memory
        /\ \A f \in AllFields \ {"cpus", "memory", "vmTotal"} : m[f] = n[f]
    BY <1>3, <1>4, <2>1 DEF OwnFields
  <2>3. /\ m["cpus"] \in Nat /\ m["cpus"] >= 6 /\ m["cpus"] <= CpuShare(engine, q.count)
        /\ m["memory"] \in Nat /\ m["memory"] >= 1
    BY <1>1, <2>2, SharesAre DEF AtMost
  <2>4. QED
    BY <1>1, <1>3, <1>4, <2>2, <2>3 DEF OwnFields, AllFields, m
<1>7. QED
  BY <1>5, <1>6

LEMMA CpusTimes ==
  ASSUME NEW n \in Nat, NEW a \in Nat, NEW b \in Nat, a <= b
  PROVE  n * a <= n * b
OBVIOUS

\* What an init made, if it made one.
MadeSound(r) ==
    /\ NumbersTyped(r.config)
    /\ Sensible(r.flags) =>
         /\ ConfigValid(r.config)
         /\ r.engine # Silent => r.config.count * r.config.cpus <= CpuUnit * r.engine.cpus

LEMMA MadeIsSound ==
  ASSUME NEW host \in [memory : Nat, cpus : Nat], NEW engine \in [memory : Nat, cpus : Nat],
         NEW q \in [scope : {"repo", "org"}, target : DOMAIN Slashes, count : Nat],
         ~InitRefuses(q, engine)
  PROVE  MadeSound([flags |-> q, engine |-> engine, config |-> Made(host, engine, q)])
<1> DEFINE m == Made(host, engine, q)
<1>1. /\ DOMAIN m = AllFields
      /\ \A f \in DOMAIN SectionDefaults \ {"vmTotal"} : m[f] = SectionDefaults[f]
      /\ m["scope"] = q.scope /\ m["target"] = q.target /\ m["count"] = q.count
      /\ m["memory"] \in Nat /\ m["memory"] >= 1
      /\ m["cpus"] \in Nat /\ m["cpus"] >= 6
      /\ m["vmTotal"] \in Nat
      /\ engine # Silent => m["cpus"] <= CpuShare(engine, q.count)
  BY MadeHas
<1> HIDE DEF m
<1>2. /\ m["slotFailures"] = 3 /\ m["failureWindow"] = 600 /\ m["slotCooldown"] = 900
      /\ m["openSlots"] = 3 /\ m["fleetCooldown"] = 600
  BY <1>1, SectionsHave DEF LadderFields, LadderDefaults
<1>3. m["failureAlerts"] = 3 /\ m["alertCooldown"] = 900
  BY <1>1, SectionsHave DEF AlertFields, AlertDefaults
<1>4. /\ m["tailWarn"] = 20 /\ m["queueInterval"] = 300 /\ m["staleHours"] = 8
      /\ m["badSamples"] = 2 /\ m["watched"] = "none"
  BY <1>1, SectionsHave DEF QueueFields, QueueDefaults
<1>5. /\ m["sloStart"] = 90 /\ m["canaryInterval"] = 600 /\ m["pollTimeout"] = 600
      /\ m["pollInterval"] = 15 /\ m["canaryIn"] = "none"
  BY <1>1, SectionsHave DEF CanaryFields, CanaryDefaults
<1>6. /\ m["sampleInterval"] = 240 /\ m["version"] = 1 /\ m["runnerFloor"] = 6
      /\ m["pids"] = 512 /\ m["minFreeDisk"] = 10
  BY <1>1, SectionsHave
<1>7. NumbersTyped(m)
  <2>1. NumberFields \subseteq AllFields
    BY SectionsHave
       DEF NumberFields, AllFields, OwnFields, LadderFields, AlertFields, QueueFields, CanaryFields
  <2>2. ASSUME NEW f \in NumberFields
        PROVE  m[f] \in Nat
    BY <1>1, <1>2, <1>3, <1>4, <1>5, <1>6 DEF NumberFields
  <2>3. QED
    BY <1>1, <2>1, <2>2 DEF NumbersTyped
<1>8. ASSUME Sensible(q)
      PROVE  ConfigValid(m)
  <2>1. Meets(m, Least)
    BY <1>1, <1>6, <1>8 DEF Meets, Least, Sensible, CpuUnit
  <2>2. Meets(m, LeastOfLadder)
    BY <1>2, <1>3 DEF Meets, LeastOfLadder
  <2>3. Meets(m, LeastOfWatchers)
    BY <1>4, <1>5, <1>6 DEF Meets, LeastOfWatchers
  <2>4. \A f \in DOMAIN Most : m[f] <= Most[f]
    BY <1>4, <1>6 DEF Most
  <2>5. TargetValid(m)
    BY <1>1, <1>8 DEF TargetValid, Sensible, Slashes
  <2>6. RepoKnown(m, m.watch, m.watched) /\ RepoKnown(m, m.canary, m.canaryIn)
    BY <1>1, <1>4, <1>5, <1>8 DEF RepoKnown, Sensible
  <2>7. QED
    BY <1>5, <1>6, <2>1, <2>2, <2>3, <2>4, <2>5, <2>6 DEF ConfigValid
<1>9. ASSUME engine # Silent
      PROVE  m["count"] * m["cpus"] <= CpuUnit * engine.cpus
  <2>1. PICK n \in Nat, a \in Nat, b \in Nat, c \in Nat :
          n = q.count /\ a = m["cpus"] /\ b = CpuShare(engine, q.count)
          /\ c = CpuUnit * engine.cpus
    <3>1. CpuUnit * engine.cpus \in Nat
      BY DEF CpuUnit
    <3>2. q.count \in Nat /\ CpuShare(engine, q.count) \in Nat
      BY SharesAre
    <3>3. QED
      BY <1>1, <3>1, <3>2
  <2>2. a <= b /\ ~(n * b > c)
    BY <1>1, <1>9, <2>1 DEF InitRefuses
  <2>3. n * a <= n * b /\ n * b \in Nat /\ n * a \in Nat
    BY <2>2, CpusTimes
  <2>4. n * a <= c
    BY <2>1, <2>2, <2>3
  <2>5. QED
    BY <1>1, <2>1, <2>4
<1>10. QED
  BY <1>7, <1>8, <1>9 DEF MadeSound, m

----------------------------------------------------------------------------
FileSound(f) ==
    /\ f.state \in {"none", "torn", "whole"}
    /\ f.state = "whole" => NumbersTyped(f.config)

\* While no two inits were at the temporary file at once, it is what the one
\* that has it open put there.
SavedAlone ==
    ~shared =>
        /\ \A p, q \in Setups : {initStage[p], initStage[q]} \subseteq {"open", "full"} => p = q
        /\ \A p \in Setups : initStage[p] = "open" => written[p] = "temp" /\ tempFile.state = "torn"
        /\ \A p \in Setups : initStage[p] = "full" => tempFile.state = "whole"

MadesSound ==
    /\ DOMAIN made = Setups
    /\ \A p \in Setups : made[p] = NoFile \/ MadeSound(made[p])
    /\ \A p \in Setups : initStage[p] \in {"made", "open", "full"} => MadeSound(made[p])

HoldsSound ==
    /\ DOMAIN holds = Loaders
    /\ \A l \in Loaders : holds[l].state = "whole" =>
         ConfigValid(holds[l].config) /\ NumbersTyped(holds[l].config)

ConfigInv ==
    /\ ConfigurationTypeOK
    /\ FileSound(configFile) /\ FileSound(tempFile)
    /\ MadesSound /\ HoldsSound /\ SavedAlone

NotTornAlone == configFile.state # "torn" /\ configFile'.state = "torn" => shared

LEMMA ConfigInitInv == ConfigurationInit => ConfigInv
<1> SUFFICES ASSUME ConfigurationInit
             PROVE  ConfigInv
  OBVIOUS
<1>1. NoFile.state = "none"
  BY DEF NoFile
<1>2. ConfigurationTypeOK
  <2>1. 0 \in 0..MaxTypos
    BY ConfigurationAssumption
  <2>2. \A l \in Loaders : holds[l].state = "none"
    BY <1>1 DEF ConfigurationInit
  <2>3. written \in [Setups -> {"nothing", "temp", "config", "lost"}]
        /\ initStage \in [Setups -> {"new", "made", "open", "full", "done", "refused"}]
    BY DEF ConfigurationInit
  <2>4. QED
    BY <1>1, <2>1, <2>2, <2>3 DEF ConfigurationInit, ConfigurationTypeOK
<1>3. FileSound(configFile) /\ FileSound(tempFile)
  BY <1>1 DEF ConfigurationInit, FileSound
<1>4. MadesSound /\ HoldsSound /\ SavedAlone
  BY <1>1 DEF ConfigurationInit, MadesSound, HoldsSound, SavedAlone
<1>5. QED
  BY <1>2, <1>3, <1>4 DEF ConfigInv

LEMMA FilesAre ==
    /\ NoFile.state = "none" /\ HalfWritten.state = "torn"
    /\ \A c : WholeFile(c).state = "whole" /\ WholeFile(c).config = c
BY DEF NoFile, HalfWritten, WholeFile

LEMMA ConfigStepInv == ConfigInv /\ [ConfigurationNext]_configVars => ConfigInv' /\ NotTornAlone
<1> SUFFICES ASSUME ConfigInv, [ConfigurationNext]_configVars
             PROVE  ConfigInv' /\ NotTornAlone
  OBVIOUS
<1>t. /\ ConfigurationTypeOK /\ FileSound(configFile) /\ FileSound(tempFile)
      /\ MadesSound /\ HoldsSound /\ SavedAlone
  BY DEF ConfigInv
<1>b. /\ written \in [Setups -> {"nothing", "temp", "config", "lost"}]
      /\ initStage \in [Setups -> {"new", "made", "open", "full", "done", "refused"}]
      /\ typos \in 0..MaxTypos /\ shared \in BOOLEAN /\ MaxTypos \in Nat
      /\ \A l \in Loaders : holds[l].state \in {"none", "refused", "whole"}
  BY <1>t, ConfigurationAssumption DEF ConfigurationTypeOK
<1>1. ASSUME NEW p \in Setups, MakeConfig(p)
      PROVE  ConfigInv' /\ NotTornAlone
  <2>1. /\ initStage[p] = "new"
        /\ UNCHANGED <<configFile, tempFile, written, typos, holds, shared>>
    BY <1>1 DEF MakeConfig
  <2>2. PICK q \in Requests, host \in HostSizes, engine \in EngineSizes :
          IF InitRefuses(q, engine)
          THEN initStage' = [initStage EXCEPT ![p] = "refused"] /\ UNCHANGED made
          ELSE /\ initStage' = [initStage EXCEPT ![p] = "made"]
               /\ made' = [made EXCEPT ![p] = [flags |-> q, engine |-> engine,
                                               config |-> Made(host, engine, q)]]
    BY <1>1 DEF MakeConfig
  <2>3. PICK st \in {"refused", "made"} : initStage' = [initStage EXCEPT ![p] = st]
    BY <2>2
  <2>4. MadesSound'
    <3>1. CASE InitRefuses(q, engine)
      BY <1>b, <1>t, <2>2, <3>1 DEF MadesSound
    <3>2. CASE ~InitRefuses(q, engine)
      <4>1. PICK r : r = [flags |-> q, engine |-> engine, config |-> Made(host, engine, q)]
        OBVIOUS
      <4>2. MadeSound(r)
        BY <3>2, <4>1, MadeIsSound, ConfigurationAssumption
      <4>3. made' = [made EXCEPT ![p] = r] /\ initStage' = [initStage EXCEPT ![p] = "made"]
        BY <2>2, <3>2, <4>1
      <4>4. QED
        BY <1>b, <1>t, <4>2, <4>3 DEF MadesSound
    <3>3. QED
      BY <3>1, <3>2
  <2>5. ConfigurationTypeOK'
    BY <1>b, <1>t, <2>1, <2>3 DEF ConfigurationTypeOK
  <2>6. SavedAlone'
    BY <1>b, <1>t, <2>1, <2>3 DEF SavedAlone
  <2>7. QED
    BY <1>t, <2>1, <2>4, <2>5, <2>6 DEF ConfigInv, HoldsSound, FileSound, NotTornAlone
<1>2. ASSUME NEW p \in Setups, StartSave(p)
      PROVE  ConfigInv' /\ NotTornAlone
  <2>1. /\ initStage[p] = "made" /\ tempFile' = HalfWritten
        /\ written' = [written EXCEPT ![p] = "temp"]
        /\ initStage' = [initStage EXCEPT ![p] = "open"]
        /\ shared' = (shared \/ \E q \in Setups : initStage[q] \in {"open", "full"})
        /\ UNCHANGED <<configFile, made, typos, holds>>
    BY <1>2 DEF StartSave, OpenTemp
  <2>2. tempFile'.state = "torn" /\ shared' \in BOOLEAN
    BY <1>b, <2>1, FilesAre
  <2>3. ConfigurationTypeOK'
    BY <1>b, <1>t, <2>1, <2>2 DEF ConfigurationTypeOK
  <2>4. MadesSound'
    BY <1>b, <1>t, <2>1 DEF MadesSound
  <2>5. SavedAlone'
    BY <1>b, <2>1, <2>2 DEF SavedAlone
  <2>6. QED
    BY <1>t, <2>1, <2>2, <2>3, <2>4, <2>5 DEF ConfigInv, HoldsSound, FileSound, NotTornAlone
<1>3. ASSUME NEW p \in Setups, FillFile(p)
      PROVE  ConfigInv' /\ NotTornAlone
  <2>1. /\ initStage[p] = "open" /\ initStage' = [initStage EXCEPT ![p] = "full"]
        /\ UNCHANGED <<written, made, typos, holds, shared>>
    BY <1>3 DEF FillFile
  <2>2. /\ tempFile' \in Overwritten(p, tempFile) \/ tempFile' = tempFile
        /\ configFile' \in Overwritten(p, configFile) \/ configFile' = configFile
        /\ written[p] = "temp" => tempFile' \in Overwritten(p, tempFile) /\ configFile' = configFile
    BY <1>3 DEF FillFile
  <2>3. MadeSound(made[p])
    BY <1>t, <2>1 DEF MadesSound
  <2>4. ASSUME NEW f, NEW old, f \in Overwritten(p, old)
        PROVE  FileSound(f) /\ (old.state = "torn" => f.state = "whole")
    <3>1. f = WholeFile(made[p].config) \/ (f = HalfWritten /\ old.state = "whole")
      BY <2>4 DEF Overwritten
    <3>2. QED
      BY <2>3, <3>1, FilesAre DEF FileSound, MadeSound
  <2>5. FileSound(tempFile)' /\ FileSound(configFile)'
    <3>1. FileSound(tempFile') /\ FileSound(configFile')
      BY <1>t, <2>2, <2>4
    <3>2. QED
      BY <3>1 DEF FileSound
  <2>6. ConfigurationTypeOK'
    BY <1>b, <1>t, <2>1, <2>5 DEF ConfigurationTypeOK, FileSound
  <2>7. MadesSound'
    BY <1>b, <1>t, <2>1 DEF MadesSound
  <2>8. ~shared => tempFile'.state = "whole" /\ configFile' = configFile
    BY <1>t, <2>1, <2>2, <2>4 DEF SavedAlone
  <2>9. SavedAlone'
    BY <1>b, <1>t, <2>1, <2>8 DEF SavedAlone
  <2>10. NotTornAlone
    BY <2>8, <1>b DEF NotTornAlone
  <2>11. QED
    BY <1>t, <2>1, <2>5, <2>6, <2>7, <2>9, <2>10 DEF ConfigInv, HoldsSound
<1>4. ASSUME NEW p \in Setups, RenameOver(p)
      PROVE  ConfigInv' /\ NotTornAlone
  <2>1. initStage[p] = "full" /\ UNCHANGED <<made, typos, holds, shared>>
    BY <1>4 DEF RenameOver
  <2>2. PICK st \in {"refused", "done"} : initStage' = [initStage EXCEPT ![p] = st]
    BY <1>4 DEF RenameOver
  <2>3. \/ UNCHANGED <<configFile, tempFile, written>>
        \/ /\ configFile' = tempFile /\ tempFile' = NoFile
           /\ written' = [q \in Setups |-> CASE written[q] = "temp"   -> "config"
                                             [] written[q] = "config" -> "lost"
                                             [] OTHER                 -> written[q]]
    BY <1>4 DEF RenameOver
  <2>4. written' \in [Setups -> {"nothing", "temp", "config", "lost"}]
    <3>1. CASE UNCHANGED <<configFile, tempFile, written>>
      BY <1>b, <3>1
    <3>2. CASE written' = [q \in Setups |-> CASE written[q] = "temp"   -> "config"
                                              [] written[q] = "config" -> "lost"
                                              [] OTHER                 -> written[q]]
      <4>1. ASSUME NEW q \in Setups
            PROVE  (CASE written[q] = "temp"   -> "config"
                      [] written[q] = "config" -> "lost"
                      [] OTHER                 -> written[q])
                   \in {"nothing", "temp", "config", "lost"}
        BY <1>b
      <4>2. QED
        BY <3>2, <4>1
    <3>3. QED
      BY <2>3, <3>1, <3>2
  <2>5. FileSound(configFile)' /\ FileSound(tempFile)'
    BY <1>t, <2>3, FilesAre DEF FileSound
  <2>6. ConfigurationTypeOK'
    BY <1>b, <1>t, <2>1, <2>2, <2>4, <2>5 DEF ConfigurationTypeOK, FileSound
  <2>7. MadesSound'
    BY <1>b, <1>t, <2>1, <2>2 DEF MadesSound
  <2>8. SavedAlone'
    BY <1>b, <1>t, <2>1, <2>2 DEF SavedAlone
  <2>9. NotTornAlone
    BY <1>b, <1>t, <2>1, <2>3 DEF NotTornAlone, SavedAlone
  <2>10. QED
    BY <1>t, <2>1, <2>5, <2>6, <2>7, <2>8, <2>9 DEF ConfigInv, HoldsSound
<1>5. ASSUME NEW p \in Setups, InitKilled(p)
      PROVE  ConfigInv' /\ NotTornAlone
  <2>1. /\ initStage' = [initStage EXCEPT ![p] = "refused"]
        /\ UNCHANGED <<configFile, tempFile, written, made, typos, holds, shared>>
    BY <1>5 DEF InitKilled
  <2>2. ConfigurationTypeOK' /\ MadesSound' /\ SavedAlone'
    BY <1>b, <1>t, <2>1 DEF ConfigurationTypeOK, MadesSound, SavedAlone
  <2>3. QED
    BY <1>t, <2>1, <2>2 DEF ConfigInv, FileSound, HoldsSound, NotTornAlone
<1>6. CASE Edit
  <2>1. /\ typos < MaxTypos /\ configFile.state = "whole" /\ typos' = typos + 1
        /\ UNCHANGED <<tempFile, written, initStage, made, holds, shared>>
    BY <1>6 DEF Edit
  <2>2. PICK t \in Typos :
          configFile' = WholeFile([configFile.config EXCEPT ![t.field] = t.value])
    BY <1>6 DEF Edit
  <2>3. NumbersTyped(configFile.config)
    BY <1>t, <2>1 DEF FileSound
  <2>4. PICK c, d : c = configFile.config /\ d = [c EXCEPT ![t.field] = t.value]
    OBVIOUS
  <2>5. NumbersTyped(d)
    BY <2>3, <2>4, ConfigurationAssumption DEF NumbersTyped
  <2>6. configFile'.state = "whole" /\ configFile'.config = d
    BY <2>2, <2>4, FilesAre
  <2>7. typos' \in 0..MaxTypos
    BY <1>b, <2>1
  <2>8. ConfigurationTypeOK'
    BY <1>b, <1>t, <2>1, <2>6, <2>7 DEF ConfigurationTypeOK
  <2>9. QED
    BY <1>t, <2>1, <2>5, <2>6, <2>8
       DEF ConfigInv, FileSound, MadesSound, HoldsSound, SavedAlone, NotTornAlone
<1>7. ASSUME NEW l \in Loaders, LoadConfig(l)
      PROVE  ConfigInv' /\ NotTornAlone
  <2>1. UNCHANGED <<configFile, tempFile, written, initStage, made, typos, shared>>
    BY <1>7 DEF LoadConfig
  <2>2. PICK h : /\ h = IF Accepted(configFile) THEN configFile ELSE [state |-> "refused"]
                 /\ holds' = [holds EXCEPT ![l] = h]
    BY <1>7 DEF LoadConfig
  <2>3. /\ h.state \in {"refused", "whole"}
        /\ h.state = "whole" => ConfigValid(h.config) /\ NumbersTyped(h.config)
    <3>1. CASE Accepted(configFile)
      BY <1>t, <2>2, <3>1 DEF Accepted, FileSound
    <3>2. CASE ~Accepted(configFile)
      BY <2>2, <3>2
    <3>3. QED
      BY <3>1, <3>2
  <2>4. HoldsSound'
    BY <1>t, <2>2, <2>3 DEF HoldsSound
  <2>5. ConfigurationTypeOK'
    BY <1>b, <1>t, <2>1, <2>2, <2>3 DEF ConfigurationTypeOK, HoldsSound
  <2>6. QED
    BY <1>t, <2>1, <2>4, <2>5
       DEF ConfigInv, FileSound, MadesSound, SavedAlone, NotTornAlone
<1>8. CASE UNCHANGED configVars
  BY <1>8, <1>t
     DEF configVars, ConfigInv, ConfigurationTypeOK, FileSound, MadesSound, HoldsSound,
         SavedAlone, NotTornAlone
<1>9. QED
  BY <1>1, <1>2, <1>3, <1>4, <1>5, <1>6, <1>7, <1>8 DEF ConfigurationNext, SetupStep

LEMMA ConfigInvSays == ConfigInv => ConfigurationTypeOK /\ StarterFits /\ RunsBounded
<1> SUFFICES ASSUME ConfigInv
             PROVE  ConfigurationTypeOK /\ StarterFits /\ RunsBounded
  OBVIOUS
<1>1. ConfigurationTypeOK /\ MadesSound /\ HoldsSound
  BY DEF ConfigInv
<1>2. StarterFits
  BY <1>1 DEF StarterFits, MadesSound, MadeSound
<1>3. ASSUME NEW l \in Loaders, holds[l].state = "whole", NEW c, c = holds[l].config
      PROVE  /\ 0 \notin {c.memory, c.cpus, c.pids, c.count}
             /\ \A f \in DOMAIN LadderDefaults \cup DOMAIN AlertDefaults : c[f] > 0
             /\ c.pollInterval \in 1..c.pollTimeout /\ c.staleHours \in 1..8
  <2>1. ConfigValid(c) /\ NumbersTyped(c)
    BY <1>1, <1>3 DEF HoldsSound
  <2>2. /\ c["memory"] \in Nat /\ c["cpus"] \in Nat /\ c["pids"] \in Nat /\ c["count"] \in Nat
        /\ c["pollInterval"] \in Nat /\ c["pollTimeout"] \in Nat /\ c["staleHours"] \in Nat
        /\ \A f \in LadderFields \cup AlertFields : c[f] \in Nat
    BY <2>1 DEF NumbersTyped, NumberFields, LadderFields, AlertFields
  <2>3. /\ c["memory"] >= 1 /\ c["cpus"] >= 6 /\ c["pids"] >= 1 /\ c["count"] >= 1
    BY <2>1 DEF ConfigValid, Meets, Least, CpuUnit
  <2>4. \A f \in LadderFields \cup AlertFields : c[f] >= 1
    BY <2>1 DEF ConfigValid, Meets, LeastOfLadder, LadderFields, AlertFields
  <2>5. c["pollInterval"] >= 1 /\ c["staleHours"] >= 1
    BY <2>1 DEF ConfigValid, Meets, LeastOfWatchers
  <2>6. c["pollInterval"] <= c["pollTimeout"] /\ c["staleHours"] <= 8
    BY <2>1 DEF ConfigValid, Most
  <2>7. \A f \in DOMAIN LadderDefaults \cup DOMAIN AlertDefaults : c[f] > 0
    BY <2>2, <2>4, SectionFields
  <2>8. QED
    BY <2>2, <2>3, <2>5, <2>6, <2>7
<1>4. RunsBounded
  BY <1>3 DEF RunsBounded
<1>5. QED
  BY <1>1, <1>2, <1>4

-----------------------------------------------------------------------------
(* Telemetry                                                               *)

\* The ring of a slot holds the last decisions on it, in their order, and all
\* of them as long as it has room.
IsRingOf(r, d) ==
  /\ r \in Seq(Nat) /\ d \in Seq(Nat) /\ Len(r) <= Len(d)
  /\ Len(r) <= RingCap /\ Len(d) <= MaxDecisions
  /\ \A k \in 1..Len(r) : r[k] = d[k + (Len(d) - Len(r))]
  /\ Len(d) <= RingCap => Len(r) = Len(d)

PeakOf(peak, sampled) ==
  /\ peak \in Usages \cup {0} /\ sampled \subseteq Nat
  /\ peak \in sampled \cup {0} /\ \A m \in sampled : m <= peak

TelemetryInv ==
  /\ usage \in [Boxnames -> Usages \cup {NotUp}] /\ changed \in BOOLEAN
  /\ tickAt \in {"idle", "listed", "polled", "reaped"} /\ names \subseteq Boxnames
  /\ pollAge \in 0..Debounce
  /\ ring = [n \in Boxnames |-> ring[n]] /\ decisions = [n \in Boxnames |-> decisions[n]]
  /\ peaks = [n \in Boxnames |-> peaks[n]] /\ readings = [n \in Boxnames |-> readings[n]]
  /\ \A n \in Boxnames : IsRingOf(ring[n], decisions[n]) /\ PeakOf(peaks[n], readings[n])
  /\ tickAt = "reaped" => \A n \in Boxnames : peaks[n] # 0 => n \in names

LEMMA TelemetryNumbers ==
  /\ Usages \subseteq Nat /\ MaxDecisions \in Nat /\ NotUp = 0
  /\ Debounce \in Nat /\ Debounce > 0 /\ RingCap \in Nat /\ RingCap > 0
  BY TelemetryAssumption DEF NotUp

LEMMA RingGrows ==
  ASSUME NEW r, NEW d, IsRingOf(r, d), Len(d) + 1 <= MaxDecisions
  PROVE  IsRingOf(Append(Kept(r), Len(d) + 1), Append(d, Len(d) + 1))
<1> DEFINE e == Append(d, Len(d) + 1)
           q == Append(Kept(r), Len(d) + 1)
<1>1. /\ r \in Seq(Nat) /\ d \in Seq(Nat) /\ Len(r) \in Nat /\ Len(d) \in Nat /\ Len(r) <= Len(d)
      /\ Len(r) <= RingCap /\ \A k \in 1..Len(r) : r[k] = d[k + (Len(d) - Len(r))]
      /\ Len(d) <= RingCap => Len(r) = Len(d)
  BY DEF IsRingOf
<1>2. /\ e \in Seq(Nat) /\ Len(e) = Len(d) + 1 /\ e[Len(d) + 1] = Len(d) + 1
      /\ \A k \in 1..Len(d) : e[k] = d[k]
  BY <1>1
<1>3. CASE Len(r) >= RingCap
  <2>1. Len(r) = RingCap /\ r # << >> /\ Kept(r) = Tail(r)
    BY <1>1, <1>3, TelemetryNumbers DEF Kept
  <2>2. /\ Tail(r) \in Seq(Nat) /\ Len(Tail(r)) = Len(r) - 1
        /\ \A k \in 1..(Len(r) - 1) : Tail(r)[k] = r[k + 1]
    BY <1>1, <2>1
  <2>3. /\ q \in Seq(Nat) /\ Len(q) = Len(r) /\ q[Len(r)] = Len(d) + 1
        /\ \A k \in 1..(Len(r) - 1) : q[k] = Tail(r)[k]
    BY <1>1, <2>1, <2>2
  <2> HIDE DEF e, q
  <2>4. \A k \in 1..Len(q) : q[k] = e[k + (Len(e) - Len(q))]
    <3>1. SUFFICES ASSUME NEW k \in 1..Len(r)
                   PROVE  q[k] = e[k + ((Len(d) + 1) - Len(r))]
      BY <1>2, <2>3
    <3>2. CASE k = Len(r)
      <4>1. k + ((Len(d) + 1) - Len(r)) = Len(d) + 1
        BY <1>1, <3>2
      <4>2. QED
        BY <1>2, <2>3, <3>2, <4>1
    <3>3. CASE k < Len(r)
      <4>1. /\ k \in 1..(Len(r) - 1) /\ k + 1 \in 1..Len(r)
            /\ (k + 1) + (Len(d) - Len(r)) = k + ((Len(d) + 1) - Len(r))
            /\ k + ((Len(d) + 1) - Len(r)) \in 1..Len(d)
        <5>1. PICK m \in Nat, n \in Nat : m = Len(r) /\ n = Len(d) /\ m <= n /\ k \in 1..m /\ k < m
          BY <1>1, <3>3
        <5>2. /\ k \in 1..(m - 1) /\ k + 1 \in 1..m /\ (k + 1) + (n - m) = k + ((n + 1) - m)
              /\ k + ((n + 1) - m) \in 1..n
          BY <5>1
        <5>3. QED
          BY <5>1, <5>2
      <4>2. q[k] = r[k + 1] /\ r[k + 1] = d[(k + 1) + (Len(d) - Len(r))]
        BY <1>1, <2>2, <2>3, <4>1
      <4>3. QED
        BY <1>2, <4>1, <4>2
    <3>4. QED
      BY <1>1, <3>2, <3>3
  <2>5. Len(q) <= Len(e) /\ Len(q) <= RingCap /\ Len(e) <= MaxDecisions
        /\ (Len(e) <= RingCap => Len(q) = Len(e))
    BY <1>1, <1>2, <2>1, <2>3
  <2>6. IsRingOf(q, e)
    BY <1>2, <2>3, <2>4, <2>5 DEF IsRingOf
  <2>7. QED
    BY <2>6 DEF q, e
<1>4. CASE Len(r) < RingCap
  <2>1. Kept(r) = r
    BY <1>1, <1>4, TelemetryNumbers DEF Kept
  <2>2. /\ q \in Seq(Nat) /\ Len(q) = Len(r) + 1 /\ q[Len(r) + 1] = Len(d) + 1
        /\ \A k \in 1..Len(r) : q[k] = r[k]
    BY <1>1, <2>1
  <2> HIDE DEF e, q
  <2>3. \A k \in 1..Len(q) : q[k] = e[k + (Len(e) - Len(q))]
    <3>1. SUFFICES ASSUME NEW k \in 1..(Len(r) + 1)
                   PROVE  q[k] = e[k + (Len(d) - Len(r))]
      <4>1. Len(e) - Len(q) = Len(d) - Len(r)
        BY <1>1, <1>2, <2>2
      <4>2. QED
        BY <2>2, <4>1
    <3>2. CASE k = Len(r) + 1
      <4>1. k + (Len(d) - Len(r)) = Len(d) + 1
        BY <1>1, <3>2
      <4>2. QED
        BY <1>2, <2>2, <3>2, <4>1
    <3>3. CASE k \in 1..Len(r)
      <4>1. k + (Len(d) - Len(r)) \in 1..Len(d)
        BY <1>1, <3>3
      <4>2. QED
        BY <1>1, <1>2, <2>2, <3>3, <4>1
    <3>4. QED
      BY <1>1, <3>2, <3>3
  <2>4. Len(q) <= Len(e) /\ Len(q) <= RingCap /\ Len(e) <= MaxDecisions
        /\ (Len(e) <= RingCap => Len(q) = Len(e))
    BY <1>1, <1>2, <1>4, <2>2, TelemetryNumbers
  <2>5. IsRingOf(q, e)
    BY <1>2, <2>2, <2>3, <2>4 DEF IsRingOf
  <2>6. QED
    BY <2>5 DEF q, e
<1>5. QED
  BY <1>1, <1>3, <1>4, TelemetryNumbers

LEMMA TelemetryInitInv == TelemetryInit => TelemetryInv
<1> SUFFICES ASSUME TelemetryInit
             PROVE  TelemetryInv
  OBVIOUS
<1>1. IsRingOf(<< >>, << >>) /\ PeakOf(0, {}) /\ Debounce \in 0..Debounce
  BY TelemetryNumbers DEF IsRingOf, PeakOf
<1>2. \A n \in Boxnames : IsRingOf(ring[n], decisions[n]) /\ PeakOf(peaks[n], readings[n])
  BY <1>1 DEF TelemetryInit
<1>3. QED
  BY <1>1, <1>2 DEF TelemetryInit, TelemetryInv

LEMMA TelemetryStepInv == TelemetryInv /\ [TelemetryNext]_telemetryVars => TelemetryInv'
<1> SUFFICES ASSUME TelemetryInv, [TelemetryNext]_telemetryVars
             PROVE  TelemetryInv'
  OBVIOUS
<1> USE DEF TelemetryInv
<1>1. CASE Use
  <2>1. PICK n \in Boxnames, m \in Usages : usage' = [usage EXCEPT ![n] = m]
    BY <1>1 DEF Use
  <2>2. UNCHANGED <<changed, tickAt, names, peaks, pollAge, readings, ring, decisions>>
    BY <1>1 DEF Use
  <2>3. QED
    BY <2>1, <2>2
<1>2. CASE Vanish
  <2>1. PICK n \in Boxnames : usage' = [usage EXCEPT ![n] = NotUp]
    BY <1>2 DEF Vanish, UpNow
  <2>2. changed' = TRUE /\ UNCHANGED <<tickAt, names, peaks, pollAge, readings, ring, decisions>>
    BY <1>2 DEF Vanish
  <2>3. QED
    BY <2>1, <2>2
<1>3. CASE ListContainers
  BY <1>3 DEF ListContainers, UpNow
<1>4. CASE PollPeak
  <2>1. /\ tickAt' = "polled" /\ pollAge' = (IF pollAge < Debounce THEN pollAge ELSE 0)
        /\ UNCHANGED <<usage, changed, names, ring, decisions>>
    BY <1>4 DEF PollPeak
  <2>2. pollAge' \in 0..Debounce
    BY <2>1, TelemetryNumbers
  <2>3. CASE UNCHANGED <<peaks, readings>>
    BY <2>1, <2>2, <2>3
  <2>4. CASE /\ peaks' = [n \in Boxnames |-> IF n \in names THEN Raised(n, usage[n]) ELSE peaks[n]]
             /\ readings' = [n \in Boxnames |->
                               IF n \in names THEN readings[n] \cup {usage[n]} ELSE readings[n]]
    <3>1. ASSUME NEW n \in Boxnames
          PROVE  PeakOf(peaks'[n], readings'[n])
      <4>1. PeakOf(peaks[n], readings[n]) /\ usage[n] \in Usages \cup {0}
        BY TelemetryNumbers
      <4>2. CASE n \in names
        <5>1. peaks'[n] = Raised(n, usage[n]) /\ readings'[n] = readings[n] \cup {usage[n]}
          BY <2>4, <4>2
        <5>2. peaks[n] \in Nat /\ usage[n] \in Nat
          BY <4>1, TelemetryNumbers DEF PeakOf
        <5>3. /\ peaks'[n] \in {peaks[n], usage[n]} /\ peaks[n] <= peaks'[n] /\ usage[n] <= peaks'[n]
              /\ peaks'[n] \in Nat
          BY <5>1, <5>2 DEF Raised
        <5>4. \A m \in readings[n] : m \in Nat /\ m <= peaks[n]
          BY <4>1 DEF PeakOf
        <5>5. \A m \in readings'[n] : m <= peaks'[n]
          BY <5>1, <5>2, <5>3, <5>4
        <5>6. QED
          BY <4>1, <5>1, <5>2, <5>3, <5>5 DEF PeakOf
      <4>3. CASE n \notin names
        BY <2>4, <4>1, <4>3
      <4>4. QED
        BY <4>2, <4>3
    <3>2. peaks' = [n \in Boxnames |-> peaks'[n]] /\ readings' = [n \in Boxnames |-> readings'[n]]
      BY <2>4
    <3>3. QED
      BY <2>1, <2>2, <3>1, <3>2
  <2>5. QED
    BY <1>4, <2>3, <2>4 DEF PollPeak
<1>5. CASE ReapEntries
  <2>1. /\ tickAt' = "reaped"
        /\ peaks' = [n \in Boxnames |-> IF Gone(n) THEN 0 ELSE peaks[n]]
        /\ readings' = [n \in Boxnames |-> IF Gone(n) THEN {} ELSE readings[n]]
        /\ UNCHANGED <<usage, changed, names, pollAge, ring, decisions>>
    BY <1>5 DEF ReapEntries
  <2>2. ASSUME NEW n \in Boxnames
        PROVE  PeakOf(peaks'[n], readings'[n]) /\ (peaks'[n] # 0 => n \in names)
    <3>1. CASE Gone(n)
      BY <2>1, <3>1 DEF PeakOf
    <3>2. CASE ~Gone(n)
      BY <2>1, <3>2 DEF Gone
    <3>3. QED
      BY <3>1, <3>2
  <2>3. peaks' = [n \in Boxnames |-> peaks'[n]] /\ readings' = [n \in Boxnames |-> readings'[n]]
    BY <2>1
  <2>4. QED
    BY <2>1, <2>2, <2>3
<1>6. CASE Decide
  <2>1. PICK n \in Boxnames :
          /\ Len(decisions[n]) + 1 <= MaxDecisions
          /\ ring' = [ring EXCEPT ![n] = Append(Kept(ring[n]), Len(decisions[n]) + 1)]
          /\ decisions' = [decisions EXCEPT ![n] = Append(decisions[n], Len(decisions[n]) + 1)]
    BY <1>6 DEF Decide
  <2>2. tickAt = "reaped" /\ UNCHANGED <<usage, changed, tickAt, names, peaks, pollAge, readings>>
    BY <1>6 DEF Decide
  <2>3. ASSUME NEW b \in Boxnames
        PROVE  IsRingOf(ring'[b], decisions'[b])
    <3>1. IsRingOf(ring[b], decisions[b])
      OBVIOUS
    <3>2. CASE b = n
      <4>1. /\ ring'[b] = Append(Kept(ring[b]), Len(decisions[b]) + 1)
            /\ decisions'[b] = Append(decisions[b], Len(decisions[b]) + 1)
        BY <2>1, <3>2
      <4>2. IsRingOf(Append(Kept(ring[b]), Len(decisions[b]) + 1),
                     Append(decisions[b], Len(decisions[b]) + 1))
        BY <2>1, <3>1, <3>2, RingGrows
      <4>3. QED
        BY <4>1, <4>2
    <3>3. CASE b # n
      BY <2>1, <3>1, <3>3
    <3>4. QED
      BY <3>2, <3>3
  <2>4. ring' = [b \in Boxnames |-> ring'[b]] /\ decisions' = [b \in Boxnames |-> decisions'[b]]
    BY <2>1
  <2>5. QED
    BY <2>2, <2>3, <2>4
<1>7. CASE EndTick
  BY <1>7 DEF EndTick
<1>8. CASE TimePasses
  <2>1. pollAge' \in 0..Debounce
    BY <1>8, TelemetryNumbers DEF TimePasses
  <2>2. QED
    BY <1>8, <2>1 DEF TimePasses
<1>9. CASE UNCHANGED telemetryVars
  BY <1>9 DEF telemetryVars
<1>10. QED
  BY <1>1, <1>2, <1>3, <1>4, <1>5, <1>6, <1>7, <1>8, <1>9 DEF TelemetryNext

\* A ring of the last decisions, newest first, begins as their history does.
LEMMA SnapshotIsPrefix ==
  ASSUME NEW r, NEW d, IsRingOf(r, d)
  PROVE  IsPrefix(Reverse(r), Reverse(d))
<1>1. /\ r \in Seq(Nat) /\ d \in Seq(Nat) /\ Len(r) \in Nat /\ Len(d) \in Nat /\ Len(r) <= Len(d)
      /\ \A k \in 1..Len(r) : r[k] = d[k + (Len(d) - Len(r))]
  <2>1. /\ r \in Seq(Nat) /\ d \in Seq(Nat) /\ Len(r) <= Len(d)
        /\ \A k \in 1..Len(r) : r[k] = d[k + (Len(d) - Len(r))]
    BY Zenon DEF IsRingOf
  <2>2. Len(r) \in Nat /\ Len(d) \in Nat
    BY <2>1
  <2>3. QED
    BY <2>1, <2>2
<1>2. ASSUME NEW s \in Seq(Nat)
      PROVE  /\ Reverse(s) \in Seq(Nat) /\ Len(Reverse(s)) = Len(s)
             /\ \A k \in 1..Len(s) : Reverse(s)[k] = s[(Len(s) - k) + 1]
  BY <1>2 DEF Reverse
<1>3. \A k \in 1..Len(r) : Reverse(r)[k] = Reverse(d)[k]
  <2>1. SUFFICES ASSUME NEW k \in 1..Len(r)
                 PROVE  Reverse(r)[k] = Reverse(d)[k]
    OBVIOUS
  <2>2. Len(r) \in Nat /\ Len(d) \in Nat /\ Len(r) <= Len(d)
    BY <1>1
  <2>3. /\ (Len(r) - k) + 1 \in 1..Len(r) /\ k \in 1..Len(d)
        /\ ((Len(r) - k) + 1) + (Len(d) - Len(r)) = (Len(d) - k) + 1
    BY <2>1, <2>2, SMTT(30)
  <2>4. r[(Len(r) - k) + 1] = d[((Len(r) - k) + 1) + (Len(d) - Len(r))]
    BY <1>1, <2>3, Zenon
  <2>5. Reverse(r)[k] = r[(Len(r) - k) + 1] /\ Reverse(d)[k] = d[(Len(d) - k) + 1]
    <3>1. Reverse(r)[k] = r[(Len(r) - k) + 1]
      BY <1>1, <1>2, <2>1, Zenon
    <3>2. Reverse(d)[k] = d[(Len(d) - k) + 1]
      BY <1>1, <1>2, <2>3, Zenon
    <3>3. QED
      BY <3>1, <3>2
  <2>6. QED
    BY <2>3, <2>4, <2>5, Zenon
<1>4. SubSeq(Reverse(r), 1, Len(r)) = SubSeq(Reverse(d), 1, Len(r))
  <2>1. /\ Reverse(r) \in Seq(Nat) /\ Len(Reverse(r)) = Len(r)
        /\ Reverse(d) \in Seq(Nat) /\ Len(Reverse(d)) = Len(d)
        /\ Len(r) \in Nat /\ Len(d) \in Nat /\ Len(r) <= Len(d)
    BY <1>1, <1>2
  <2>2. QED
    BY <1>3, <2>1, SMTT(30)
<1>5. QED
  BY <1>1, <1>2, <1>4 DEF IsPrefix

LEMMA TelemetryInvSays == TelemetryInv => TelemetryTypeOK /\ TelemetryTrue
<1> SUFFICES ASSUME TelemetryInv
             PROVE  TelemetryTypeOK /\ TelemetryTrue
  OBVIOUS
<1>1. \A n \in Boxnames : IsRingOf(ring[n], decisions[n]) /\ PeakOf(peaks[n], readings[n])
  BY DEF TelemetryInv
<1>2. TelemetryTypeOK
  BY <1>1 DEF TelemetryInv, TelemetryTypeOK, IsRingOf, PeakOf
<1>3. \A n \in Boxnames : IsPrefix(Snapshot(n), Reverse(decisions[n]))
  BY <1>1, SnapshotIsPrefix DEF Snapshot
<1>4. tickAt = "reaped" => {n \in Boxnames : peaks[n] # 0} \subseteq names
  BY DEF TelemetryInv
<1>5. QED
  BY <1>1, <1>2, <1>3, <1>4 DEF TelemetryTrue, IsRingOf, PeakOf

-----------------------------------------------------------------------------
(* ServiceInstall                                                          *)

\* No file, nor what the supervisor has read, is of an install still to come.
FilesKnown ==
  /\ {mainFile, sideFile, agentRead.main, agentRead.side} \subseteq 0..installs \cup {Torn}
  /\ service <= installs

\* The order in which an install gets at the files: which of them are its own
\* when it is at a step.
SystemdOrdered ==
  /\ progress # "unload"
  /\ progress \in {"side", "side.fill", "load", "enable", "done"} => mainFile = installs
  /\ progress \in {"load", "enable", "done"} => sideFile = installs
  /\ progress \in {"enable", "done"} => agentRead = OnDisk
  /\ progress = "done" => service # 0 /\ enabled
  /\ enabled => sideFile # Missing

LaunchdOrdered ==
  /\ progress # "enable"
  /\ progress \in {"main", "main.fill", "unload", "load", "done"} => sideFile = installs
  /\ progress \in {"unload", "load", "done"} => mainFile = installs
  /\ progress = "done" => agentRead = OnDisk /\ service = installs /\ enabled

InstallInv ==
  /\ InstallTypeOK /\ FilesKnown
  /\ progress \in Steps \cup {"done"} => installs >= 1
  /\ supervisor = "systemd" => SystemdOrdered
  /\ supervisor = "launchd" => LaunchdOrdered

LEMMA InstallNumbers == MaxInstalls \in Nat /\ MaxInstalls >= 1 /\ Torn \in Nat /\ Torn > MaxInstalls
  BY InstallAssumption DEF Torn

LEMMA DaemonOfRead ==
  ASSUME NEW n \in 0..MaxInstalls, NEW r, r.main \in 0..n \cup {Torn}, r.side \in 0..n \cup {Torn}
  PROVE  /\ DaemonOf(r) \in 0..n
         /\ n >= 1 /\ r.main = n /\ r.side = n => DaemonOf(r) = n
<1>1. n \in Nat /\ n <= MaxInstalls
  BY InstallNumbers
<1>2. Runnable(r.main) => r.main \in 0..n
  BY <1>1, InstallNumbers DEF Runnable
<1>3. n >= 1 /\ r.main = n /\ r.side = n => Startable(r)
  BY <1>1, InstallNumbers DEF Startable, Runnable
<1>4. QED
  BY <1>1, <1>2, <1>3 DEF DaemonOf, Startable

LEMMA InstallInitInv == InstallInit => InstallInv
<1> SUFFICES ASSUME InstallInit
             PROVE  InstallInv
  OBVIOUS
<1>1. 0 \in 0..MaxInstalls /\ 0 \in Contents
  BY InstallNumbers DEF Contents
<1>2. agentRead = [main |-> 0, side |-> 0] /\ mainFile = 0 /\ sideFile = 0
  BY DEF InstallInit, Missing
<1>3. InstallTypeOK
  <2>1. agentRead \in [main : Contents, side : Contents]
    BY <1>1, <1>2
  <2>2. QED
    BY <1>1, <1>2, <2>1 DEF InstallInit, InstallTypeOK
<1>4. agentRead.main = 0 /\ agentRead.side = 0
  BY <1>2
<1>5. FilesKnown
  BY <1>2, <1>4 DEF InstallInit, FilesKnown
<1>6. QED
  BY <1>3, <1>5 DEF InstallInit, InstallInv, SystemdOrdered, LaunchdOrdered, Steps

\* What a step of the installation or of the supervisor may not do.
InstallSpares ==
  InstallStep /\ service # 0 /\ service' # service
    => supervisor = "launchd" /\ progress \in {"unload", "load"}

LEMMA InstallStepInv == InstallInv /\ [InstallNext]_installVars => InstallInv' /\ InstallSpares
<1> SUFFICES ASSUME InstallInv, [InstallNext]_installVars
             PROVE  InstallInv' /\ InstallSpares
  OBVIOUS
<1>t. /\ supervisor \in {"systemd", "launchd"} /\ enabled \in BOOLEAN
      /\ mainFile \in 0..installs \cup {Torn} /\ sideFile \in 0..installs \cup {Torn}
      /\ agentRead \in [main : Contents, side : Contents]
      /\ agentRead.main \in 0..installs \cup {Torn} /\ agentRead.side \in 0..installs \cup {Torn}
      /\ service \in 0..installs /\ installs \in 0..MaxInstalls
      /\ progress \in Steps \cup {"ended", "done"}
      /\ progress \in Steps \cup {"done"} => installs >= 1
      /\ supervisor = "systemd" => SystemdOrdered
      /\ supervisor = "launchd" => LaunchdOrdered
  BY InstallNumbers DEF InstallInv, InstallTypeOK, FilesKnown
\* Its numbers stay in range when those of the next state do.
<1>n. ASSUME supervisor' \in {"systemd", "launchd"}, enabled' \in BOOLEAN,
             mainFile' \in 0..installs' \cup {Torn}, sideFile' \in 0..installs' \cup {Torn},
             agentRead' = agentRead \/ agentRead' = [main |-> mainFile, side |-> sideFile],
             installs <= installs', service' \in 0..installs', installs' \in 0..MaxInstalls,
             progress' \in Steps \cup {"ended", "done"}
      PROVE  InstallTypeOK' /\ FilesKnown'
  <2>1. /\ 0..installs \subseteq 0..installs' /\ 0..installs' \subseteq 0..MaxInstalls
        /\ 0..MaxInstalls \cup {Torn} \subseteq Contents
    BY <1>n, <1>t, InstallNumbers DEF Contents
  <2>2. PICK m \in 0..installs' \cup {Torn}, s \in 0..installs' \cup {Torn} :
          agentRead' = [main |-> m, side |-> s]
    <3>1. CASE agentRead' = agentRead
      <4>1. agentRead = [main |-> agentRead.main, side |-> agentRead.side]
        BY <1>t
      <4>2. QED
        BY <1>t, <2>1, <3>1, <4>1
    <3>2. CASE agentRead' = [main |-> mainFile, side |-> sideFile]
      BY <1>t, <2>1, <3>2
    <3>3. QED
      BY <1>n, <3>1, <3>2
  <2>3. agentRead'.main = m /\ agentRead'.side = s /\ agentRead' \in [main : Contents, side : Contents]
    BY <2>1, <2>2
  <2>4. QED
    BY <1>n, <2>1, <2>3 DEF InstallTypeOK, FilesKnown
<1>d. DaemonOf(agentRead) \in 0..installs /\ DaemonOf(OnDisk) \in 0..installs
      /\ (installs >= 1 /\ mainFile = installs /\ sideFile = installs => DaemonOf(OnDisk) = installs)
  <2>1. OnDisk.main = mainFile /\ OnDisk.side = sideFile
    BY DEF OnDisk
  <2>2. DaemonOf(agentRead) \in 0..installs
    BY <1>t, DaemonOfRead
  <2>3. QED
    BY <1>t, <2>1, <2>2, DaemonOfRead
<1>s. InstallSpares
  <2>1. SUFFICES ASSUME InstallStep, service # 0, service' # service
                 PROVE  supervisor = "launchd" /\ progress \in {"unload", "load"}
    BY DEF InstallSpares
  <2>2. Unload \/ LoadAgent
    BY <2>1 DEF InstallStep, Install, WriteFile, Reload, EnableNow, InstallEnds
  <2>3. QED
    BY <1>t, <2>2 DEF Unload, LoadAgent, SystemdOrdered
<1> SUFFICES InstallInv'
  BY <1>s
<1>1. CASE Install
  <2>1. /\ progress \in {"ended", "done"} /\ installs < MaxInstalls /\ installs' = installs + 1
        /\ progress' = FirstStep
        /\ UNCHANGED <<supervisor, mainFile, sideFile, agentRead, enabled, service>>
    BY <1>1 DEF Install
  <2>2. /\ installs' \in 0..MaxInstalls /\ installs <= installs' /\ installs' >= 1
        /\ 0..installs \subseteq 0..installs'
    BY <1>t, <2>1, InstallNumbers
  <2>3. progress' = IF supervisor = "systemd" THEN "main" ELSE "side"
    BY <2>1 DEF FirstStep
  <2>4. InstallTypeOK' /\ FilesKnown'
    BY <1>n, <1>t, <2>1, <2>2, <2>3 DEF Steps
  <2>5. QED
    BY <1>t, <2>1, <2>2, <2>3, <2>4
       DEF InstallInv, SystemdOrdered, LaunchdOrdered, Missing
<1>2. CASE WriteFile
  <2>1. UNCHANGED <<supervisor, agentRead, enabled, service, installs>>
    BY <1>2 DEF WriteFile
  <2>2. progress \in Steps /\ installs >= 1
    BY <1>2, <1>t DEF WriteFile, Steps
  <2>3. installs \in 0..installs /\ installs # Missing /\ Torn # Missing
    BY <1>t, <2>2, InstallNumbers DEF Missing
  <2>4. CASE progress = "main" /\ mainFile' = Torn /\ progress' = "main.fill" /\ UNCHANGED sideFile
    <3>1. InstallTypeOK' /\ FilesKnown'
      BY <1>n, <1>t, <2>1, <2>4 DEF Steps
    <3>2. QED
      BY <1>t, <2>1, <2>2, <2>4, <3>1
         DEF InstallInv, SystemdOrdered, LaunchdOrdered
  <2>5. CASE progress = "side" /\ sideFile' = Torn /\ progress' = "side.fill" /\ UNCHANGED mainFile
    <3>1. InstallTypeOK' /\ FilesKnown'
      BY <1>n, <1>t, <2>1, <2>5 DEF Steps
    <3>2. QED
      BY <1>t, <2>1, <2>2, <2>3, <2>5, <3>1
         DEF InstallInv, SystemdOrdered, LaunchdOrdered
  <2>6. CASE progress = "main.fill" /\ mainFile' = installs /\ progress' = After(progress)
             /\ UNCHANGED sideFile
    <3>1. progress' = IF supervisor = "systemd" THEN "side" ELSE "unload"
      BY <2>6 DEF After
    <3>2. InstallTypeOK' /\ FilesKnown'
      BY <1>n, <1>t, <2>1, <2>3, <2>6, <3>1 DEF Steps
    <3>3. QED
      BY <1>t, <2>1, <2>2, <2>6, <3>1, <3>2
         DEF InstallInv, SystemdOrdered, LaunchdOrdered
  <2>7. CASE progress = "side.fill" /\ sideFile' = installs /\ progress' = After(progress)
             /\ UNCHANGED mainFile
    <3>1. progress' = IF supervisor = "systemd" THEN "load" ELSE "main"
      BY <2>7 DEF After
    <3>2. InstallTypeOK' /\ FilesKnown'
      BY <1>n, <1>t, <2>1, <2>3, <2>7, <3>1 DEF Steps
    <3>3. QED
      BY <1>t, <2>1, <2>2, <2>3, <2>7, <3>1, <3>2
         DEF InstallInv, SystemdOrdered, LaunchdOrdered
  <2>8. QED
    BY <1>2, <2>4, <2>5, <2>6, <2>7 DEF WriteFile
<1>3. CASE Reload
  <2>1. /\ progress = "load" /\ supervisor = "systemd" /\ agentRead' = OnDisk /\ progress' = "enable"
        /\ UNCHANGED <<supervisor, mainFile, sideFile, enabled, service, installs>>
    BY <1>3 DEF Reload, After
  <2>2. InstallTypeOK' /\ FilesKnown'
    BY <1>n, <1>t, <2>1 DEF Steps, OnDisk
  <2>3. QED
    BY <1>t, <2>1, <2>2 DEF InstallInv, SystemdOrdered, Steps, OnDisk
<1>4. CASE EnableNow
  <2>1. /\ progress = "enable" /\ enabled' = TRUE /\ progress' = "done"
        /\ service' = IF service = 0 THEN DaemonOf(agentRead) ELSE service
        /\ UNCHANGED <<supervisor, mainFile, sideFile, agentRead, installs>>
    BY <1>4 DEF EnableNow, After
  <2>2. supervisor = "systemd" /\ installs >= 1 /\ agentRead = OnDisk /\ mainFile = installs
        /\ sideFile = installs
    BY <1>t, <2>1 DEF LaunchdOrdered, SystemdOrdered, Steps
  <2>3. service' \in 0..installs /\ service' # 0 /\ (service # 0 => service' = service)
    BY <1>d, <1>t, <2>1, <2>2
  <2>4. InstallTypeOK' /\ FilesKnown'
    BY <1>n, <1>t, <2>1, <2>3
  <2>5. sideFile # Missing
    BY <1>t, <2>2 DEF Missing
  <2>6. QED
    BY <2>1, <2>2, <2>3, <2>4, <2>5 DEF InstallInv, SystemdOrdered, OnDisk
<1>5. CASE Unload
  <2>1. /\ progress = "unload" /\ progress' = "load"
        /\ (enabled' = FALSE /\ service' = 0) \/ UNCHANGED <<enabled, service>>
        /\ UNCHANGED <<supervisor, mainFile, sideFile, agentRead, installs>>
    BY <1>5 DEF Unload, After
  <2>2. supervisor = "launchd"
    BY <1>t, <2>1 DEF SystemdOrdered
  <2>3. service' \in 0..installs /\ enabled' \in BOOLEAN
    <3>1. 0 \in 0..installs
      BY <1>t, InstallNumbers
    <3>2. QED
      BY <1>t, <2>1, <3>1
  <2>4. InstallTypeOK' /\ FilesKnown'
    BY <1>n, <1>t, <2>1, <2>3 DEF Steps
  <2>5. QED
    BY <1>t, <2>1, <2>2, <2>4 DEF InstallInv, LaunchdOrdered, Steps
<1>6. CASE LoadAgent
  <2>1. /\ progress = "load" /\ supervisor = "launchd" /\ agentRead' = OnDisk /\ enabled' = TRUE
        /\ service' = DaemonOf(OnDisk) /\ progress' = "done"
        /\ UNCHANGED <<supervisor, mainFile, sideFile, installs>>
    BY <1>6 DEF LoadAgent, After
  <2>2. installs >= 1 /\ mainFile = installs /\ sideFile = installs
    BY <1>t, <2>1 DEF LaunchdOrdered, Steps
  <2>3. service' = installs
    BY <1>d, <2>1, <2>2
  <2>4. InstallTypeOK' /\ FilesKnown'
    BY <1>n, <1>t, <1>d, <2>1 DEF OnDisk
  <2>5. QED
    BY <2>1, <2>2, <2>3, <2>4 DEF InstallInv, LaunchdOrdered, OnDisk
<1>7. CASE InstallEnds
  <2>1. /\ progress \in Steps /\ progress' = "ended"
        /\ UNCHANGED <<supervisor, mainFile, sideFile, agentRead, enabled, service, installs>>
    BY <1>7 DEF InstallEnds
  <2>2. InstallTypeOK' /\ FilesKnown'
    BY <1>n, <1>t, <2>1
  <2>3. QED
    BY <1>t, <2>1, <2>2 DEF InstallInv, SystemdOrdered, LaunchdOrdered, Steps
<1>8. CASE DaemonRestarts
  <2>1. /\ service # 0 /\ service' = DaemonOf(agentRead)
        /\ UNCHANGED <<supervisor, mainFile, sideFile, agentRead, enabled, installs, progress>>
    BY <1>8 DEF DaemonRestarts
  <2>2. InstallTypeOK' /\ FilesKnown'
    BY <1>d, <1>n, <1>t, <2>1
  <2>3. progress = "done" => service' = installs /\ service' # 0
    <3>1. SUFFICES ASSUME progress = "done"
                   PROVE  service' = installs /\ service' # 0
      OBVIOUS
    <3>2. mainFile = installs /\ sideFile = installs /\ agentRead = OnDisk /\ installs >= 1
      BY <1>t, <3>1 DEF SystemdOrdered, LaunchdOrdered
    <3>3. DaemonOf(agentRead) = installs
      BY <1>d, <3>2
    <3>4. QED
      BY <1>t, <2>1, <3>2, <3>3
  <2>4. InstallInv'
    BY <1>t, <2>1, <2>2, <2>3 DEF InstallInv, SystemdOrdered, LaunchdOrdered, OnDisk
  <2>5. QED
    BY <2>4
<1>9. CASE Login
  <2>1. /\ agentRead' = OnDisk /\ service' = (IF enabled THEN DaemonOf(OnDisk) ELSE 0)
        /\ progress' = (IF progress \in Steps THEN "ended" ELSE progress)
        /\ UNCHANGED <<supervisor, mainFile, sideFile, enabled, installs>>
    BY <1>9 DEF Login
  <2>2. service' \in 0..installs /\ progress' \in {"ended", "done"}
        /\ (progress' = "done" => progress = "done")
    BY <1>d, <1>t, <2>1
  <2>3. InstallTypeOK' /\ FilesKnown'
    BY <1>n, <1>t, <2>1, <2>2 DEF OnDisk
  <2>4. progress' = "done" => service' = installs /\ service' # 0
    <3>1. SUFFICES ASSUME progress' = "done"
                   PROVE  service' = installs /\ service' # 0
      OBVIOUS
    <3>2. mainFile = installs /\ sideFile = installs /\ installs >= 1 /\ enabled
      BY <1>t, <2>2, <3>1 DEF SystemdOrdered, LaunchdOrdered
    <3>3. QED
      BY <1>d, <1>t, <2>1, <3>2
  <2>5. InstallInv'
    BY <1>t, <2>1, <2>2, <2>3, <2>4 DEF InstallInv, SystemdOrdered, LaunchdOrdered, OnDisk, Steps
  <2>6. QED
    BY <2>5
<1>10. CASE UNCHANGED installVars
  BY <1>10, <1>t DEF installVars, InstallInv, InstallTypeOK, FilesKnown, SystemdOrdered,
                 LaunchdOrdered, OnDisk
<1>11. QED
  BY <1>1, <1>2, <1>3, <1>4, <1>5, <1>6, <1>7, <1>8, <1>9, <1>10 DEF InstallNext, InstallStep

LEMMA InstallInvSays == InstallInv => InstallTypeOK /\ InstallHolds
<1> SUFFICES ASSUME InstallInv
             PROVE  InstallHolds
  BY DEF InstallInv
<1>1. /\ supervisor \in {"systemd", "launchd"} /\ service \in 0..MaxInstalls /\ service <= installs
      /\ installs \in 0..MaxInstalls
      /\ progress \in Steps \cup {"done"} => installs >= 1
      /\ supervisor = "systemd" => SystemdOrdered
      /\ supervisor = "launchd" => LaunchdOrdered
  BY DEF InstallInv, InstallTypeOK, FilesKnown
<1>2. ASSUME progress = "done"
      PROVE  /\ mainFile = installs /\ sideFile = installs
             /\ agentRead = OnDisk /\ enabled /\ DaemonOf(agentRead) = installs
             /\ service \in (IF supervisor = "systemd" THEN 1..installs ELSE {installs})
  <2>1. /\ mainFile = installs /\ sideFile = installs /\ agentRead = OnDisk /\ enabled
        /\ installs >= 1
        /\ supervisor = "systemd" => service # 0
        /\ supervisor = "launchd" => service = installs
    BY <1>1, <1>2 DEF SystemdOrdered, LaunchdOrdered
  <2>2. OnDisk.main = installs /\ OnDisk.side = installs /\ installs \in 0..installs
    BY <1>1, <2>1 DEF OnDisk
  <2>3. DaemonOf(agentRead) = installs
    BY <1>1, <2>1, <2>2, DaemonOfRead
  <2>4. service \in (IF supervisor = "systemd" THEN 1..installs ELSE {installs})
    BY <1>1, <2>1, InstallNumbers
  <2>5. QED
    BY <2>1, <2>3, <2>4
<1>3. supervisor = "systemd" /\ enabled => sideFile # Missing
  BY <1>1 DEF SystemdOrdered
<1>4. QED
  BY <1>2, <1>3 DEF InstallHolds

-----------------------------------------------------------------------------
(* RefillEvidence                                                          *)

\* Every start that the batch attempted is in its tallies, and it never
\* attempts more than is missing.
Tallied ==
    /\ failures + quota <= missing
    /\ failures = 0 => tried = began
    /\ step = "open" => failures = 0

\* The batch never takes the fleet beyond its count.
RoomKept ==
    /\ step = "open" => Cardinality(docked) + missing <= TheCount
    /\ step = "batch" => Cardinality(docked) + quota <= TheCount
    /\ step \in {"release", "recount"} => Cardinality(docked) <= TheCount
    /\ step = "probe" => Cardinality(recounted) <= TheCount

\* The last snapshot is what the table still is.
LastIsLedger == step = "recount" => afterRelease \in {NoTable, ledger}

ReleasedInCall == released # {} => step \in {"probe", "told"}

Accounts == [kind : {"none", "error", "outcome"}, shortage : 0..TheCount,
             lost : SUBSET Berths, blind : BOOLEAN]

AccountHonest ==
    step = "told" /\ account.kind = "outcome" =>
        /\ recounted = {} \/ account.lost = witnesses \ recounted
        /\ ~account.blind /\ account.shortage = 0 => Cardinality(present) >= TheCount
        /\ ~(witnesses \subseteq present) =>
               account.lost # {} \/ account.blind \/ account.shortage > 0

EvidenceInv ==
    /\ EvidenceTypeOK /\ account \in Accounts
    /\ Tallied /\ RoomKept /\ LastIsLedger
    /\ ReleasedAreAllocatable /\ ReleasedInCall
    /\ AccountHonest

LEMMA EvidenceNumbers ==
    /\ TheCount \in Nat /\ TheCount > 0 /\ Berths = 1..TheCount
    /\ \A S \in SUBSET Boats : IsFiniteSet(S) /\ Cardinality(S) \in Nat
    /\ \A S \in SUBSET Boats : \A T \in SUBSET S : Cardinality(T) <= Cardinality(S)
    /\ Berths \subseteq Boats
<1>1. IsFiniteSet(Boats)
  BY EvidenceAssumption, FS_Union DEF Boats
<1>2. \A S \in SUBSET Boats : IsFiniteSet(S) /\ Cardinality(S) \in Nat
  BY <1>1, FS_Subset, FS_CardinalityType
<1>3. TheCount \in Nat /\ Berths = 1..TheCount
  BY EvidenceAssumption, FS_CardinalityType DEF TheCount
<1>4. TheCount > 0
  BY <1>3, EvidenceAssumption
<1>5. \A S \in SUBSET Boats : \A T \in SUBSET S : Cardinality(T) <= Cardinality(S)
  BY <1>2, FS_Subset
<1>6. QED
  BY <1>2, <1>3, <1>4, <1>5 DEF Boats

LEMMA EvidenceInitInv == EvidenceInit => EvidenceInv
<1> SUFFICES ASSUME EvidenceInit
             PROVE  EvidenceInv
  OBVIOUS
<1>a. 0 \in 0..TheCount /\ {} \subseteq Boats /\ Strays \subseteq Boats
  BY EvidenceNumbers DEF Boats
<1>b. ledger \in [Berths -> Row]
  BY DEF EvidenceInit, Row
<1>c. docked \subseteq Boats
  BY <1>a DEF EvidenceInit
<1>1. EvidenceTypeOK /\ account \in Accounts
  <2>1. account \in Accounts /\ account.lost = {} /\ account.kind = "none"
    BY <1>a DEF EvidenceInit, NoAccount, Accounts
  <2>2. QED
    BY <1>a, <1>b, <1>c, <2>1 DEF EvidenceInit, EvidenceTypeOK
<1>2. Tallied /\ RoomKept
  BY DEF EvidenceInit, Tallied, RoomKept
<1>3. QED
  BY <1>1, <1>2
     DEF EvidenceInit, EvidenceInv, LastIsLedger, ReleasedAreAllocatable, ReleasedInCall,
         AccountHonest

LEMMA NextBerthIsFirst ==
  ASSUME Candidates # {}
  PROVE  NextBerth \in Candidates
<1>1. Candidates \in SUBSET Nat
  BY EvidenceNumbers DEF Candidates
<1>2. \E s \in Candidates : \A t \in Candidates : s <= t
  BY <1>1, NatLeast
<1>3. QED
  BY <1>2 DEF NextBerth

LEMMA EvidenceStepInv == EvidenceInv /\ [EvidenceNext]_evidenceVars => EvidenceInv'
<1> SUFFICES ASSUME EvidenceInv, [EvidenceNext]_evidenceVars
             PROVE  EvidenceInv'
  OBVIOUS
<1>t. /\ EvidenceTypeOK /\ account \in Accounts /\ Tallied /\ RoomKept /\ LastIsLedger
      /\ ReleasedAreAllocatable /\ ReleasedInCall /\ AccountHonest
  BY DEF EvidenceInv
<1>b. /\ ledger \in [Berths -> Row] /\ docked \subseteq Boats
      /\ shut \subseteq Berths /\ sealed \subseteq Berths /\ fleetShut \in BOOLEAN
      /\ witnesses \subseteq Berths /\ missing \in 0..TheCount /\ quota \in 0..TheCount
      /\ tried \subseteq Berths /\ began \subseteq tried /\ failures \in 0..TheCount
      /\ recounted \subseteq Boats /\ released \subseteq Berths /\ present \subseteq Boats
      /\ hopeless \in BOOLEAN /\ paused \in BOOLEAN
      /\ account.lost \subseteq Berths
      /\ beforeBatch \in [Berths -> Row] \cup {NoTable}
      /\ beforeRelease \in [Berths -> Row] \cup {NoTable}
      /\ afterRelease \in [Berths -> Row] \cup {NoTable}
  BY <1>t DEF EvidenceTypeOK
<1>n. TheCount \in Nat /\ missing \in Nat /\ quota \in Nat /\ failures \in Nat
      /\ missing <= TheCount /\ quota <= TheCount /\ Cardinality(docked) \in Nat /\ Cardinality(recounted) \in Nat
      /\ Cardinality(present) \in Nat
  BY <1>b, EvidenceNumbers
<1>r. /\ \A rows \in SUBSET Berths : FreedFrom(rows) \in [Berths -> Row]
      /\ NoAccount \in Accounts
  BY <1>b, <1>n DEF FreedFrom, Row, NoAccount, Accounts
<1>1. CASE BoatLeaves
  <2>1. PICK c \in docked : docked' = docked \ {c}
    BY <1>1 DEF BoatLeaves
  <2>2. UNCHANGED <<ledger, shut, fleetShut, sealed, step, witnesses, missing, beforeBatch,
                    beforeRelease, afterRelease, tried, began, failures, hopeless, paused,
                    quota, recounted, released, present, account>>
    BY <1>1 DEF BoatLeaves, snapshotVars, batchVars
  <2>3. Cardinality(docked') \in Nat /\ Cardinality(docked') <= Cardinality(docked)
    BY <1>b, <2>1, EvidenceNumbers
  <2>4. EvidenceTypeOK'
    BY <1>t, <2>1, <2>2 DEF EvidenceTypeOK
  <2>5. RoomKept'
    BY <1>n, <1>t, <2>2, <2>3 DEF RoomKept
  <2>6. ReleasedAreAllocatable'
    BY <1>t, <2>1, <2>2 DEF ReleasedAreAllocatable
  <2>7. QED
    BY <1>t, <2>2, <2>4, <2>5, <2>6
       DEF EvidenceInv, Tallied, LastIsLedger, ReleasedInCall, AccountHonest
<1>2. CASE TimeHeals
  <2>1. /\ shut' \subseteq shut /\ fleetShut' \in BOOLEAN /\ (fleetShut' => fleetShut)
        /\ sealed' \subseteq Berths /\ (sealed' # sealed => step = "idle")
    <3>1. CASE \E s \in shut : shut' = shut \ {s} /\ UNCHANGED <<fleetShut, sealed>>
      BY <1>b, <3>1
    <3>2. CASE fleetShut /\ fleetShut' = FALSE /\ UNCHANGED <<shut, sealed>>
      BY <1>b, <3>2
    <3>3. CASE step = "idle" /\ sealed' \in SUBSET Sealable /\ UNCHANGED <<shut, fleetShut>>
      BY <1>b, <3>3, EvidenceAssumption
    <3>4. QED
      BY <1>2, <3>1, <3>2, <3>3 DEF TimeHeals
  <2>2. UNCHANGED <<ledger, docked, step, witnesses, missing, beforeBatch,
                    beforeRelease, afterRelease, tried, began, failures, hopeless, paused,
                    quota, recounted, released, present, account>>
    BY <1>2 DEF TimeHeals, snapshotVars, batchVars
  <2>3. EvidenceTypeOK'
    BY <1>b, <1>t, <2>1, <2>2 DEF EvidenceTypeOK
  <2>4. ReleasedAreAllocatable'
    BY <1>t, <2>1, <2>2 DEF ReleasedAreAllocatable, ReleasedInCall
  <2>5. RoomKept'
    BY <1>t, <2>2 DEF RoomKept
  <2>6. QED
    BY <1>t, <2>2, <2>3, <2>4, <2>5
       DEF EvidenceInv, Tallied, LastIsLedger, ReleasedInCall, AccountHonest
<1>3. CASE Reclaim
  <2>1. PICK rows \in SUBSET (Berths \ docked) : ledger' = FreedFrom(rows)
    BY <1>3 DEF Reclaim
  <2>2. /\ step = "idle" /\ step' = "count" /\ account' = NoAccount
        /\ UNCHANGED <<docked, shut, fleetShut, sealed, witnesses, missing, beforeBatch,
                       beforeRelease, afterRelease, tried, began, failures, hopeless, paused,
                       quota, recounted, released, present>>
    BY <1>3 DEF Reclaim, snapshotVars, batchVars
  <2>3. ledger' \in [Berths -> Row] /\ account' \in Accounts
    BY <1>r, <2>1, <2>2
  <2>4. EvidenceTypeOK'
    BY <1>b, <1>t, <2>2, <2>3 DEF EvidenceTypeOK, NoAccount
  <2>5. ReleasedAreAllocatable' /\ ReleasedInCall'
    BY <1>t, <2>2 DEF ReleasedAreAllocatable, ReleasedInCall
  <2>6. RoomKept' /\ LastIsLedger' /\ AccountHonest'
    BY <2>2 DEF RoomKept, LastIsLedger, AccountHonest
  <2>7. QED
    BY <1>t, <2>2, <2>3, <2>4, <2>5, <2>6 DEF EvidenceInv, Tallied
<1>4. CASE CountFleet
  <2>1. /\ step = "count" /\ witnesses' = docked \cap Berths
        /\ missing' = IF Cardinality(docked) < TheCount THEN TheCount - Cardinality(docked) ELSE 0
        /\ tried' = {} /\ began' = {} /\ failures' = 0 /\ hopeless' = FALSE /\ paused' = FALSE
        /\ quota' = 0 /\ recounted' = {} /\ released' = {} /\ present' = docked
        /\ UNCHANGED <<ledger, docked, shut, fleetShut, sealed>>
    BY <1>4, <1>t DEF CountFleet, worldVars, ReleasedInCall
  <2>2. PICK m \in Nat : m = missing' /\ m <= TheCount
                         /\ (m = 0 => Cardinality(docked) >= TheCount)
                         /\ (m > 0 => Cardinality(docked) + m <= TheCount)
    BY <1>n, <2>1
  <2>3. \/ /\ m = 0 /\ step' = "told" /\ account' = [NoAccount EXCEPT !.kind = "outcome"]
           /\ UNCHANGED <<beforeBatch, beforeRelease, afterRelease>>
        \/ /\ m # 0 /\ step' = "open" /\ beforeBatch' \in Snapshots(ledger)
           /\ UNCHANGED <<beforeRelease, afterRelease, account>>
    BY <1>4, <2>2 DEF CountFleet, snapshotVars
  <2>4. account' \in Accounts /\ account'.kind \in {"none", "error", "outcome"}
        /\ account'.lost \subseteq Berths
    BY <1>r, <1>t, <2>3 DEF Accounts, NoAccount
  <2>5. /\ beforeBatch' \in [Berths -> Row] \cup {NoTable}
        /\ UNCHANGED <<beforeRelease, afterRelease>>
    BY <1>b, <2>3 DEF Snapshots
  <2>x. 0 \in 0..TheCount /\ m \in 0..TheCount /\ step' \in {"told", "open"}
        /\ docked \cap Berths \subseteq Berths
    BY <1>n, <2>2, <2>3
  <2>6. EvidenceTypeOK'
    BY <1>b, <2>1, <2>2, <2>4, <2>5, <2>x DEF EvidenceTypeOK
  <2>7. Tallied' /\ RoomKept'
    BY <1>n, <2>1, <2>2, <2>3 DEF Tallied, RoomKept
  <2>8. AccountHonest'
    <3>1. CASE m = 0
      BY <1>n, <2>1, <2>2, <3>1 DEF AccountHonest
    <3>2. CASE m # 0
      BY <2>3, <3>2 DEF AccountHonest
    <3>3. QED
      BY <3>1, <3>2
  <2>9. QED
    BY <2>1, <2>3, <2>4, <2>6, <2>7, <2>8
       DEF EvidenceInv, LastIsLedger, ReleasedAreAllocatable, ReleasedInCall
<1>5. CASE AdmitBatch
  <2>1. /\ step = "open" /\ step' = "batch" /\ quota' \in 0..missing /\ paused' \in BOOLEAN
        /\ UNCHANGED <<ledger, docked, shut, fleetShut, sealed, witnesses, missing, beforeBatch,
                       beforeRelease, afterRelease, tried, began, failures,
                       hopeless, recounted, released, present, account>>
    BY <1>5, <1>n DEF AdmitBatch, worldVars, snapshotVars
  <2>2. PICK q \in Nat : q = quota' /\ q <= missing
    BY <1>n, <2>1
  <2>3. EvidenceTypeOK'
    BY <1>b, <1>n, <1>t, <2>1, <2>2 DEF EvidenceTypeOK
  <2>4. RoomKept'
    BY <1>n, <1>t, <2>1, <2>2 DEF RoomKept
  <2>5. released = {}
    BY <1>t, <2>1 DEF ReleasedInCall
  <2>x. failures = 0 /\ tried = began
    BY <1>t, <2>1 DEF Tallied
  <2>6. Tallied'
    BY <2>1, <2>2, <2>x DEF Tallied
  <2>7. QED
    BY <1>t, <2>1, <2>3, <2>4, <2>5, <2>6
       DEF EvidenceInv, LastIsLedger, ReleasedAreAllocatable, ReleasedInCall, AccountHonest
<1>6. CASE OneStarts
  <2>1. /\ step = "batch" /\ quota > 0 /\ NextBerth \in Candidates
        /\ ledger' = [ledger EXCEPT ![NextBerth] = FreshId(NextBerth)]
        /\ docked' = docked \cup {NextBerth}
        /\ tried' = tried \cup {NextBerth} /\ began' = began \cup {NextBerth}
        /\ quota' \in {quota - 1, 0} /\ fleetShut' \in {fleetShut, TRUE}
        /\ paused' \in {paused, TRUE}
    BY <1>6, NextBerthIsFirst DEF OneStarts
  <2>2. UNCHANGED <<shut, sealed, step, witnesses, missing, beforeBatch,
                    beforeRelease, afterRelease, failures,
                    hopeless, recounted, released, present, account>>
    BY <1>6 DEF OneStarts, snapshotVars
  <2>3. PICK b \in Berths : b = NextBerth
    BY <2>1 DEF Candidates
  <2>4. FreshId(b) \in Row
    BY DEF FreshId, Row
  <2>5. ledger' \in [Berths -> Row] /\ docked' \subseteq Boats
        /\ tried' \subseteq Berths /\ began' \subseteq tried'
    <3>1. ledger' = [ledger EXCEPT ![b] = FreshId(b)] /\ b \in Boats
      BY <2>1, <2>3, EvidenceNumbers
    <3>2. ledger' \in [Berths -> Row]
      BY <1>b, <2>3, <2>4, <3>1
    <3>3. docked' \subseteq Boats /\ tried' \subseteq Berths /\ began' \subseteq tried'
      BY <1>b, <2>1, <2>3, <3>1
    <3>4. QED
      BY <3>2, <3>3
  <2>6. Cardinality(docked') \in Nat /\ Cardinality(docked') <= Cardinality(docked) + 1
    <3>1. IsFiniteSet(docked)
      BY <1>b, EvidenceNumbers
    <3>2. Cardinality(docked \cup {b}) = IF b \in docked THEN Cardinality(docked) ELSE Cardinality(docked) + 1
      BY <3>1, FS_AddElement
    <3>3. docked' = docked \cup {b}
      BY <2>1, <2>3
    <3>4. QED
      BY <1>n, <3>2, <3>3
  <2>7. PICK q \in Nat : q = quota' /\ q + 1 <= quota
    BY <1>n, <2>1
  <2>x. q \in 0..TheCount /\ fleetShut' \in BOOLEAN /\ paused' \in BOOLEAN
    <3>1. q + 1 <= quota /\ q \in Nat
      BY <2>7
    <3>2. q \in 0..TheCount
      BY <1>n, <3>1
    <3>3. QED
      BY <1>b, <2>1, <3>2
  <2>8. EvidenceTypeOK'
    BY <1>b, <1>t, <2>2, <2>5, <2>7, <2>x DEF EvidenceTypeOK
  <2>9. RoomKept'
    BY <1>n, <1>t, <2>1, <2>2, <2>6, <2>7 DEF RoomKept
  <2>10. released = {}
    BY <1>t, <2>1 DEF ReleasedInCall
  <2>11. Tallied'
    <3>1. failures + quota <= missing
      BY <1>t DEF Tallied
    <3>2. failures + q <= missing
      <4>1. q + 1 <= quota /\ q \in Nat
        BY <2>7
      <4>2. QED
        BY <1>n, <3>1, <4>1
    <3>3. failures' = failures /\ missing' = missing /\ quota' = q /\ step' = "batch"
      BY <2>1, <2>2, <2>7
    <3>4. failures = 0 => tried' = began'
      BY <1>t, <2>1 DEF Tallied
    <3>5. QED
      BY <3>2, <3>3, <3>4 DEF Tallied
  <2>12. QED
    BY <1>t, <2>1, <2>2, <2>8, <2>9, <2>10, <2>11
       DEF EvidenceInv, LastIsLedger, ReleasedAreAllocatable, ReleasedInCall, AccountHonest
<1>7. CASE OneFails
  <2>1. /\ step = "batch" /\ quota > 0 /\ NextBerth \in Candidates
        /\ tried' = tried \cup {NextBerth}
        /\ failures' = failures + 1
    BY <1>7, NextBerthIsFirst DEF OneFails
  <2>2. UNCHANGED <<docked, sealed, step, witnesses, missing, beforeBatch,
                    beforeRelease, afterRelease, began, hopeless, recounted, released,
                    present, account>>
    BY <1>7 DEF OneFails, snapshotVars
  <2>3. PICK b \in Berths : b = NextBerth
    BY <2>1 DEF Candidates
  <2>4. ledger' \in [Berths -> Row]
    <3>1. FreshId(b) \in Row
      BY DEF FreshId, Row
    <3>2. PICK row \in {"free", "reserved", FreshId(b)} : ledger' = [ledger EXCEPT ![b] = row]
      BY <1>7, <2>3 DEF OneFails
    <3>3. row \in Row
      BY <3>1, <3>2 DEF Row
    <3>4. QED
      BY <1>b, <3>2, <3>3
  <2>5. shut' \subseteq Berths /\ fleetShut' \in BOOLEAN /\ paused' \in BOOLEAN
    BY <1>7, <1>b, <2>3 DEF OneFails
  <2>6. quota' \in {quota - 1, 0}
    BY <1>7 DEF OneFails
  <2>7. PICK q \in Nat, f \in Nat : q = quota' /\ q < quota /\ f = failures' /\ f = failures + 1
    BY <1>n, <2>1, <2>6
  <2>8. tried' \subseteq Berths /\ began' \subseteq tried' /\ f <= TheCount /\ q <= TheCount
        /\ f + q <= missing
    <3>1. tried' \subseteq Berths /\ began' \subseteq tried'
      BY <1>b, <2>1, <2>2, <2>3
    <3>2. failures + quota <= missing
      BY <1>t DEF Tallied
    <3>3. f + q <= missing
      <4>1. q < quota /\ f = failures + 1 /\ q \in Nat /\ f \in Nat
        BY <2>7
      <4>2. QED
        BY <1>n, <3>2, <4>1
    <3>4. f <= TheCount /\ q <= TheCount
      <4>1. q \in Nat /\ f \in Nat
        BY <2>7
      <4>2. QED
        BY <1>n, <3>3, <4>1
    <3>5. QED
      BY <3>1, <3>3, <3>4
  <2>9. EvidenceTypeOK'
    BY <1>b, <1>n, <1>t, <2>2, <2>4, <2>5, <2>7, <2>8 DEF EvidenceTypeOK
  <2>10. RoomKept'
    BY <1>n, <1>t, <2>1, <2>2, <2>7 DEF RoomKept
  <2>11. released = {}
    BY <1>t, <2>1 DEF ReleasedInCall
  <2>12. Tallied'
    <3>1. f # 0 /\ f + q <= missing
      <4>1. f = failures + 1
        BY <2>7
      <4>2. QED
        BY <1>n, <2>8, <4>1
    <3>2. QED
      BY <2>1, <2>2, <2>7, <3>1 DEF Tallied
  <2>13. QED
    BY <1>t, <2>1, <2>2, <2>9, <2>10, <2>11, <2>12
       DEF EvidenceInv, LastIsLedger, ReleasedAreAllocatable, ReleasedInCall, AccountHonest
<1>8. CASE NoBerth
  <2>1. /\ step = "batch" /\ quota > 0 /\ quota' = 0
        /\ failures' \in {failures, failures + 1} /\ hopeless' \in BOOLEAN /\ paused' \in BOOLEAN
        /\ UNCHANGED <<ledger, docked, shut, fleetShut, sealed, step, witnesses, missing,
                       beforeBatch, beforeRelease, afterRelease, tried, began,
                       recounted, released, present, account>>
    BY <1>8, <1>b DEF NoBerth, worldVars, snapshotVars
  <2>2. PICK f \in Nat : f = failures' /\ f <= missing /\ (f = 0 => failures = 0)
    BY <1>n, <1>t, <2>1 DEF Tallied
  <2>3. EvidenceTypeOK'
    BY <1>b, <1>n, <1>t, <2>1, <2>2 DEF EvidenceTypeOK
  <2>4. RoomKept'
    BY <1>n, <1>t, <2>1 DEF RoomKept
  <2>5. released = {}
    BY <1>t, <2>1 DEF ReleasedInCall
  <2>x. f + 0 <= missing
    <3>1. f \in Nat /\ f <= missing
      BY <2>2
    <3>2. QED
      BY <1>n, <3>1
  <2>6. Tallied'
    BY <1>t, <2>1, <2>2, <2>x DEF Tallied
  <2>7. QED
    BY <1>t, <2>1, <2>3, <2>4, <2>5, <2>6
       DEF EvidenceInv, LastIsLedger, ReleasedAreAllocatable, ReleasedInCall, AccountHonest
<1>9. CASE EndBatch
  <2>1. /\ step = "batch" /\ step' = "release" /\ quota' = 0
        /\ beforeRelease' \in [Berths -> Row] \cup {NoTable}
        /\ UNCHANGED <<ledger, docked, shut, fleetShut, sealed, witnesses, missing, beforeBatch,
                       afterRelease, tried, began, failures, hopeless, paused,
                       recounted, released, present, account>>
    BY <1>9, <1>b DEF EndBatch, worldVars, Snapshots
  <2>3. EvidenceTypeOK'
    BY <1>b, <1>n, <1>t, <2>1 DEF EvidenceTypeOK
  <2>4. RoomKept'
    BY <1>n, <1>t, <2>1 DEF RoomKept
  <2>5. released = {}
    BY <1>t, <2>1 DEF ReleasedInCall
  <2>6. Tallied'
    BY <1>n, <1>t, <2>1 DEF Tallied
  <2>7. QED
    BY <1>t, <2>1, <2>3, <2>4, <2>5, <2>6
       DEF EvidenceInv, LastIsLedger, ReleasedAreAllocatable, ReleasedInCall, AccountHonest
<1>10. CASE Release
  <2>1. PICK rows \in SUBSET (Berths \ docked) : ledger' = FreedFrom(rows)
    BY <1>10 DEF Release
  <2>2. /\ step = "release" /\ afterRelease' \in {ledger', NoTable}
        /\ UNCHANGED <<docked, shut, fleetShut, sealed, witnesses, missing, beforeBatch,
                       beforeRelease, tried, began, failures, hopeless, paused, quota,
                       recounted, released, present>>
    BY <1>10 DEF Release, Snapshots, batchVars
  <2>3. \/ step' = "told" /\ account' = [NoAccount EXCEPT !.kind = "error"]
        \/ step' = "recount" /\ account' = account
    BY <1>10 DEF Release
  <2>4. account' \in Accounts /\ account'.lost \subseteq Berths
        /\ account'.kind \in {"none", "error", "outcome"}
        /\ (step' = "told" => account'.kind = "error")
    BY <1>r, <1>t, <2>3 DEF Accounts, NoAccount
  <2>5. ledger' \in [Berths -> Row] /\ step' \in {"told", "recount"}
    BY <1>r, <2>1, <2>3
  <2>6. EvidenceTypeOK'
    BY <1>b, <1>t, <2>2, <2>4, <2>5 DEF EvidenceTypeOK
  <2>7. RoomKept'
    BY <1>t, <2>2, <2>5 DEF RoomKept
  <2>8. released = {}
    BY <1>t, <2>2 DEF ReleasedInCall
  <2>9. Tallied'
    BY <1>t, <2>2, <2>5 DEF Tallied
  <2>10. QED
    BY <2>2, <2>4, <2>6, <2>7, <2>8, <2>9
       DEF EvidenceInv, LastIsLedger, ReleasedAreAllocatable, ReleasedInCall, AccountHonest
<1>11. CASE Recount
  <2>1. /\ step = "recount"
        /\ beforeBatch' = NoTable /\ beforeRelease' = NoTable /\ afterRelease' = NoTable
        /\ UNCHANGED <<ledger, docked, shut, fleetShut, sealed, witnesses, missing, tried,
                       began, failures, hopeless, paused, quota, present>>
    BY <1>11 DEF Recount, worldVars, batchVars
  <2>2. \/ /\ step' = "told" /\ account' = [NoAccount EXCEPT !.kind = "error"]
           /\ UNCHANGED <<recounted, released>>
        \/ /\ step' = "probe" /\ account' = account
           /\ recounted' = docked
           /\ \E readable \in BOOLEAN : released' = SlotsReleased(docked, readable)
    BY <1>11 DEF Recount
  <2>3. account' \in Accounts /\ account'.lost \subseteq Berths
        /\ account'.kind \in {"none", "error", "outcome"}
        /\ (step' = "told" => account'.kind = "error")
    BY <1>r, <1>t, <2>2 DEF Accounts, NoAccount
  <2>4. released = {}
    BY <1>t, <2>1 DEF ReleasedInCall
  <2>5. ASSUME NEW s \in released'
        PROVE  /\ s \in Berths /\ s \notin docked \cup tried /\ ledger[s] = "free"
               /\ s \notin sealed \cup shut /\ ~fleetShut
    <3>1. PICK readable \in BOOLEAN : released' = SlotsReleased(docked, readable)
      BY <2>2, <2>4, <2>5
    <3>2. /\ afterRelease # NoTable
          /\ s \in Berths \ (tried \cup docked) /\ afterRelease[s] = "free" /\ Allocatable(s)
      BY <2>5, <3>1 DEF SlotsReleased
    <3>3. afterRelease = ledger
      BY <1>t, <2>1, <3>2 DEF LastIsLedger
    <3>4. QED
      BY <3>2, <3>3 DEF Allocatable
  <2>6. released' \subseteq Berths /\ recounted' \in {recounted, docked}
        /\ step' \in {"told", "probe"}
    BY <2>2, <2>5
  <2>7. EvidenceTypeOK'
    BY <1>b, <1>t, <2>1, <2>3, <2>6 DEF EvidenceTypeOK
  <2>8. RoomKept'
    BY <1>t, <2>1, <2>2 DEF RoomKept
  <2>9. Tallied'
    BY <1>t, <2>1, <2>6 DEF Tallied
  <2>10. ReleasedAreAllocatable'
    BY <2>1, <2>5 DEF ReleasedAreAllocatable
  <2>11. LastIsLedger' /\ ReleasedInCall' /\ AccountHonest'
    BY <2>1, <2>3, <2>6 DEF LastIsLedger, ReleasedInCall, AccountHonest
  <2>12. QED
    BY <2>3, <2>7, <2>8, <2>9, <2>10, <2>11 DEF EvidenceInv
\* The steps that end a call with an account.
<1>w. ASSUME step = "probe", step' = "told", present' = docked,
             UNCHANGED <<ledger, docked, shut, fleetShut, sealed, witnesses, missing,
                         beforeBatch, beforeRelease, afterRelease, tried, began, failures,
                         hopeless, paused, quota, recounted, released>>,
             account' \in Accounts, AccountHonest'
      PROVE  EvidenceInv'
  <2>1. account'.lost \subseteq Berths /\ account'.kind \in {"none", "error", "outcome"}
    BY <1>w DEF Accounts
  <2>2. EvidenceTypeOK'
    BY <1>b, <1>t, <1>w, <2>1 DEF EvidenceTypeOK
  <2>3. QED
    BY <1>t, <1>w, <2>2
       DEF EvidenceInv, Tallied, RoomKept, LastIsLedger, ReleasedAreAllocatable, ReleasedInCall
<1>12. CASE LookInto
  <2>1. /\ step = "probe" /\ step' = "told" /\ present' = docked
        /\ UNCHANGED <<ledger, docked, shut, fleetShut, sealed, witnesses, missing,
                       beforeBatch, beforeRelease, afterRelease, tried, began, failures,
                       hopeless, paused, quota, recounted, released>>
    BY <1>12 DEF LookInto, worldVars, snapshotVars, batchVars
  <2>2. PICK n \in ReadyCounts :
          account' = [kind |-> "outcome", shortage |-> Short(n), blind |-> FALSE,
                      lost |-> witnesses \ recounted]
    BY <1>12 DEF LookInto
  <2> DEFINE both == recounted \cap docked
  <2>3. /\ Cardinality(both) \in Nat /\ Cardinality(both) <= Cardinality(recounted)
        /\ Cardinality(both) <= Cardinality(docked)
        /\ IsFiniteSet(recounted) /\ both \subseteq recounted
    BY <1>b, EvidenceNumbers
  <2>4. n \in Nat /\ n <= Cardinality(both)
    BY <2>2, <2>3 DEF ReadyCounts
  <2>5. PICK d \in Nat : d = Short(n) /\ d <= TheCount /\ (n < TheCount => d > 0)
                         /\ (d = 0 => n >= TheCount)
    <3>1. CASE n < TheCount
      BY <1>n, <2>4, <3>1 DEF Short
    <3>2. CASE ~(n < TheCount)
      BY <1>n, <2>4, <3>2 DEF Short
    <3>3. QED
      BY <3>1, <3>2
  <2>6. account' \in Accounts /\ account'.shortage = d /\ account'.lost = witnesses \ recounted
    BY <1>b, <1>n, <2>2, <2>5 DEF Accounts
  <2>7. d = 0 => Cardinality(docked) >= TheCount
    BY <1>n, <2>3, <2>4, <2>5
  <2>8. ASSUME ~(witnesses \subseteq docked), witnesses \ recounted = {}
        PROVE  d > 0
    <3>1. PICK w \in witnesses : w \notin docked /\ w \in recounted
      BY <2>8
    <3>2. both # recounted
      BY <3>1
    <3>3. Cardinality(both) < Cardinality(recounted)
      <4>1. Cardinality(both) <= Cardinality(recounted)
            /\ (Cardinality(both) = Cardinality(recounted) => both = recounted)
        BY <2>3, FS_Subset
      <4>2. Cardinality(recounted) \in Nat /\ Cardinality(both) \in Nat
        BY <1>n, <2>3
      <4>3. QED
        BY <3>2, <4>1, <4>2
    <3>4. Cardinality(recounted) <= TheCount
      BY <1>t, <2>1 DEF RoomKept
    <3>5. QED
      BY <1>n, <2>3, <2>4, <2>5, <3>3, <3>4
  <2>9. AccountHonest'
    BY <2>1, <2>6, <2>7, <2>8 DEF AccountHonest
  <2>10. QED
    BY <1>w, <2>1, <2>6, <2>9
<1>13. CASE LookFails
  <2>1. /\ step = "probe" /\ step' = "told" /\ present' = docked
        /\ UNCHANGED <<ledger, docked, shut, fleetShut, sealed, witnesses, missing,
                       beforeBatch, beforeRelease, afterRelease, tried, began, failures,
                       hopeless, paused, quota, recounted, released>>
        /\ account' = [kind |-> "outcome", shortage |-> Short(Cardinality(recounted)),
                       blind |-> TRUE, lost |-> witnesses \ recounted]
    BY <1>13 DEF LookFails, worldVars, snapshotVars, batchVars
  <2>2. Short(Cardinality(recounted)) \in 0..TheCount
    BY <1>n DEF Short
  <2>3. account' \in Accounts /\ account'.blind /\ account'.lost = witnesses \ recounted
    BY <1>b, <2>1, <2>2 DEF Accounts
  <2>4. AccountHonest'
    BY <2>1, <2>3 DEF AccountHonest
  <2>5. QED
    BY <1>w, <2>1, <2>3, <2>4
<1>14. CASE CallAgain
  <2>1. /\ step = "told" /\ step' = "idle"
        /\ witnesses' = {} /\ missing' = 0 /\ quota' = 0
        /\ beforeBatch' = NoTable /\ beforeRelease' = NoTable /\ afterRelease' = NoTable
        /\ tried' = {} /\ began' = {} /\ failures' = 0 /\ hopeless' = FALSE /\ paused' = FALSE
        /\ recounted' = {} /\ released' = {} /\ present' = {} /\ account' = NoAccount
        /\ UNCHANGED <<ledger, docked, shut, fleetShut, sealed>>
    BY <1>14 DEF CallAgain, worldVars
  <2>2. account' \in Accounts /\ account'.lost = {} /\ account'.kind = "none"
    BY <1>r, <2>1 DEF NoAccount
  <2>x. 0 \in 0..TheCount /\ {} \subseteq Boats
    BY <1>n
  <2>3. EvidenceTypeOK'
    BY <1>b, <2>1, <2>2, <2>x DEF EvidenceTypeOK
  <2>4. Tallied' /\ RoomKept'
    BY <2>1 DEF Tallied, RoomKept
  <2>5. QED
    BY <2>1, <2>2, <2>3, <2>4
       DEF EvidenceInv, LastIsLedger, ReleasedAreAllocatable, ReleasedInCall, AccountHonest
<1>15. CASE UNCHANGED evidenceVars
  BY <1>15, <1>t
     DEF evidenceVars, EvidenceInv, EvidenceTypeOK, Tallied, RoomKept, LastIsLedger,
         ReleasedAreAllocatable, ReleasedInCall, AccountHonest
<1>16. QED
  BY <1>1, <1>2, <1>3, <1>4, <1>5, <1>6, <1>7, <1>8, <1>9, <1>10, <1>11, <1>12, <1>13, <1>14,
     <1>15 DEF EvidenceNext

LEMMA EvidenceInvSays ==
  EvidenceInv => EvidenceTypeOK /\ ReleasedAreAllocatable /\ LossesTold /\ StartTellsTruth
<1> SUFFICES ASSUME EvidenceInv
             PROVE  EvidenceTypeOK /\ ReleasedAreAllocatable /\ LossesTold /\ StartTellsTruth
  OBVIOUS
<1>1. EvidenceTypeOK /\ ReleasedAreAllocatable /\ AccountHonest /\ Tallied /\ account \in Accounts
  BY DEF EvidenceInv
<1>2. LossesTold
  BY <1>1 DEF LossesTold, AccountHonest
<1>3. ASSUME StartSucceeds
      PROVE  /\ step = "told" /\ account.kind = "outcome" /\ ~(failures > 0) /\ ~account.blind
             /\ account.lost = {} /\ (Disposition = "AtCapacity" => account.shortage = 0)
  <2>1. step = "told" /\ account.kind = "outcome" /\ Disposition \in {"Started", "AtCapacity"}
    BY <1>3 DEF StartSucceeds
  <2>2. ~paused /\ ~(failures > 0 \/ account.blind \/ account.lost # {} \/ released # {})
    BY <1>1, <2>1 DEF Disposition, EvidenceTypeOK
  <2>3. Disposition = "AtCapacity" => account.shortage = 0
    BY <2>2 DEF Disposition
  <2>4. QED
    BY <2>1, <2>2, <2>3
<1>4. ASSUME StartSucceeds
      PROVE  tried = began
  <2>1. failures \in Nat
    BY <1>1, EvidenceNumbers DEF EvidenceTypeOK
  <2>2. failures = 0
    BY <1>3, <1>4, <2>1
  <2>3. QED
    BY <1>1, <2>2 DEF Tallied
<1>5. StartTellsTruth
  BY <1>1, <1>3, <1>4 DEF StartTellsTruth, AccountHonest
<1>6. QED
  BY <1>1, <1>2, <1>5

-----------------------------------------------------------------------------
(* LimaConvergence                                                         *)

LimaStates == {"absent", "stopped", "stale", "alive"}

LimaTyped ==
  /\ vm \in [VMs -> LimaStates] /\ probe \in [VMs -> LimaStates]
  /\ context \in Sockets /\ dockerHost \in Sockets
  /\ marker \in Sockets /\ before \in Sockets
  /\ cmd \in {"idle", "probed", "resolved", "marking"}
  /\ selected \in [socket : Sockets, verified : BOOLEAN]
  /\ report \in BOOLEAN /\ rounds \in 0..Rounds

\* Proof that a socket was in use is proof of the context as it still is: the
\* operator moves it between two runs of the command only.
ProvenIsCurrent ==
  cmd \in {"resolved", "marking"} /\ selected.verified => selected.socket = context

\* The marker is about to name a socket to which there is a way back.
MarkerIsProven == cmd = "marking" => selected.verified /\ selected.socket # "canonical"

\* After a report the marker names the context as it is, until the operator
\* migrates; then the context is the canonical one, which no run records.
MarkerFits ==
  /\ report /\ before = "none" => marker = context /\ context # "none"
  /\ before # "none" => marker = before /\ context = "canonical"

LimaInv == LimaTyped /\ ProvenIsCurrent /\ MarkerIsProven /\ MarkerFits
             /\ (selected.verified => selected.socket # "none")

LEMMA LimaInitInv == LimaInit => LimaInv
<1> SUFFICES ASSUME LimaInit
             PROVE  LimaInv
  OBVIOUS
<1>1. LimaTyped
  <2>1. rounds \in 0..Rounds
    BY LimaAssumption DEF LimaInit
  <2>2. selected \in [socket : Sockets, verified : BOOLEAN]
    BY DEF LimaInit, Sockets
  <2>3. vm \in [VMs -> LimaStates] /\ probe \in [VMs -> LimaStates]
    BY DEF LimaInit, LimaStates
  <2>4. QED
    BY <2>1, <2>2, <2>3 DEF LimaInit, LimaTyped, Sockets
<1>2. ProvenIsCurrent /\ MarkerIsProven /\ MarkerFits
  BY DEF LimaInit, ProvenIsCurrent, MarkerIsProven, MarkerFits
<1>3. selected.verified => selected.socket # "none"
  BY DEF LimaInit
<1>4. QED
  BY <1>1, <1>2, <1>3 DEF LimaInv

LEMMA LimaStepInv == LimaInv /\ [LimaNext]_limaVars => LimaInv'
<1> SUFFICES ASSUME LimaInv, [LimaNext]_limaVars
             PROVE  LimaInv'
  OBVIOUS
<1> USE LimaAssumption DEF LimaInv, LimaTyped, LimaStates, Sockets, VMs, ProvenIsCurrent,
        MarkerIsProven, MarkerFits
<1>1. CASE VmChanges
  BY <1>1 DEF VmChanges
<1>2. CASE Migrate
  BY <1>2 DEF Migrate
<1>3. CASE RollBack
  BY <1>3 DEF RollBack
<1>4. CASE ProbeSocket
  <2>1. rounds' \in 0..Rounds
    BY <1>4 DEF ProbeSocket
  <2>2. UNCHANGED <<vm, context, dockerHost, selected, marker, before>>
        /\ probe' = vm /\ cmd' = "probed" /\ report' = FALSE
    BY <1>4 DEF ProbeSocket
  <2>3. QED
    BY <2>1, <2>2
<1>5. CASE Resolve
  <2>1. PICK explicit, readable \in BOOLEAN : selected' = Resolved(explicit, readable)
    BY <1>5 DEF Resolve
  <2>2. /\ selected' \in [socket : Sockets, verified : BOOLEAN]
        /\ selected'.verified => selected'.socket = context /\ context # "none"
    BY <2>1 DEF Resolved
  <2>3. QED
    BY <1>5, <2>2 DEF Resolve
<1>6. CASE WriteMarker
  BY <1>6 DEF WriteMarker
<1>7. CASE MarkerUnwritten
  BY <1>7 DEF MarkerUnwritten
<1>8. CASE \E w \in BOOLEAN : Finish(w)
  BY <1>8 DEF Finish, Implied, Recordable
<1>9. CASE UNCHANGED limaVars
  BY <1>9 DEF limaVars
<1>10. QED
  BY <1>1, <1>2, <1>3, <1>4, <1>5, <1>6, <1>7, <1>8, <1>9 DEF LimaNext

\* RollbackRestores, lima-converge's --write-backup (write_backup_marker): after
\* a migration the marker names the socket that was in use before it.
THEOREM RollbackIsPossible == LimaSpec => []RollbackRestores
<1>1. LimaInv => RollbackRestores
  BY DEF LimaInv, MarkerFits, RollbackRestores
<1>2. QED
  BY LimaInitInv, LimaStepInv, <1>1, PTL DEF LimaSpec

LEMMA LimaInvTyped == LimaInv => LimaTypeOK
  BY DEF LimaInv, LimaTyped, LimaStates, LimaTypeOK

LEMMA LimaInvSays == LimaInv => RollbackRestores
  BY DEF LimaInv, MarkerFits, RollbackRestores

-----------------------------------------------------------------------------
(* Reaper                                                                  *)

USE ReaperAssumption

----------------------------------------------------------------------------
(* The choice of the plan.  First is a CHOOSE, so that there is a first    *)
(* member at all is proved: of the intervals 0..n, one for each member, a  *)
(* smallest exists, for the strict order on finite sets is well-founded.   *)

LEMMA FirstIsMember ==
  ASSUME NEW S, S \subseteq Nat, S # {}
  PROVE  First(S) \in S
<1> DEFINE UpTo(n) == 0..n
           T == {UpTo(n) : n \in S}
           F == FiniteSubsetsOf(Nat)
           R == StrictSubsetOrdering(Nat)
<1>1. T \subseteq F /\ T # {}
  <2>1. \A n \in Nat : UpTo(n) \in F
    BY FS_Interval DEF FiniteSubsetsOf
  <2>2. QED
    BY <2>1
<1>2. PICK x \in S : \A y \in S : <<UpTo(y), UpTo(x)>> \notin R
  <2>1. \E t \in T : \A u \in T : <<u, t>> \notin R
    BY <1>1, FS_StrictSubsetOrderingWellFounded, WFMin
  <2>2. QED
    BY <2>1
<1>3. ASSUME NEW y \in S
      PROVE  x <= y
  <2>1. x \in Nat /\ y \in Nat
    OBVIOUS
  <2>2. ~(y < x)
    <3> SUFFICES ASSUME y < x
                 PROVE  FALSE
      OBVIOUS
    <3>1. UpTo(y) \subseteq UpTo(x) /\ UpTo(y) # UpTo(x)
      BY <2>1
    <3>2. UpTo(y) \in SUBSET Nat /\ UpTo(x) \in SUBSET Nat
      BY <2>1
    <3>3. \A a, b \in SUBSET Nat : a \subseteq b /\ a # b => <<a, b>> \in R
      BY DEF StrictSubsetOrdering
    <3>4. <<UpTo(y), UpTo(x)>> \in R
      <4> HIDE DEF UpTo, R
      <4>1. QED
        BY <3>1, <3>2, <3>3
    <3>5. QED
      BY <3>4, <1>2
  <2>3. QED
    BY <2>1, <2>2
<1>4. QED
  BY <1>3 DEF First

LEMMA PlanIsJob ==
  ASSUME ReaperTypeOK, NEW r, FirstMatch(r) # NoJob
  PROVE  FirstMatch(r) \in JobsSeen(r)
<1> DEFINE M == {j \in JobsSeen(r) : Matches(seen[j].runner)}
<1>1. M # {} /\ FirstMatch(r) = First(M)
  BY DEF FirstMatch
<1>2. M \subseteq Nat
  BY DEF JobsSeen
<1> HIDE DEF M
<1>3. First(M) \in M
  BY <1>1, <1>2, FirstIsMember
<1>4. QED
  BY <1>1, <1>3 DEF M

----------------------------------------------------------------------------
(* The inductive invariant: a job that was seen in progress never waits in *)
(* a queue again, so the planned job is one that has begun.                *)

SeenBegun == \A j \in Jobs : seen[j].status = "in_progress" => status[j] # "queued"

PlanBegun == at \in {"cancel", "poll", "force", "poll again", "delete"} =>
                plan \in Jobs /\ status[plan] # "queued"

ReaperInv == ReaperTypeOK /\ SeenBegun /\ PlanBegun /\ DeleteAfterJobOver

LEMMA ReaperInitInv == ReaperInit => ReaperInv
  BY DEF ReaperInit, ReaperInv, ReaperTypeOK, SeenBegun, PlanBegun, DeleteAfterJobOver,
     Unread, Runners, Statuses, NoJob

\* GitHub's own steps change only the status and the runner of one job.
LEMMA GitHubSteps ==
  ASSUME ReaperInv, NEW j \in Jobs, Assign(j) \/ Complete(j) \/ CancelReaches(j),
         UNCHANGED trouble
  PROVE  ReaperInv'
<1>1. UNCHANGED <<run, doomed, registered, reaper, trouble>>
  BY DEF Assign, Complete, CancelReaches
<1>2. PICK s \in {"in_progress", "completed"} :
        /\ status' = [status EXCEPT ![j] = s]
        /\ s = "in_progress" => status[j] = "queued"
  BY DEF Assign, Complete, CancelReaches
<1>3. runner' \in [Jobs -> Runners]
  BY DEF Assign, Complete, CancelReaches, ReaperInv, ReaperTypeOK, Runners
<1>4. ReaperTypeOK'
  BY <1>1, <1>2, <1>3 DEF ReaperInv, ReaperTypeOK, reaper, Statuses
<1>5. \A i \in Jobs : status[i] # "queued" => status'[i] # "queued"
  BY <1>2 DEF ReaperInv, ReaperTypeOK
<1>6. SeenBegun' /\ PlanBegun'
  BY <1>1, <1>5 DEF ReaperInv, SeenBegun, PlanBegun, reaper
<1>7. DeleteAfterJobOver'
  BY <1>1, <1>2 DEF ReaperInv, DeleteAfterJobOver, PlanBegun, Over, ReaperTypeOK, reaper
<1>8. QED
  BY <1>4, <1>6, <1>7 DEF ReaperInv

LEMMA ReapSteps ==
  ASSUME ReaperInv, Reap, UNCHANGED trouble
  PROVE  ReaperInv'
<1> USE DEF ReaperInv
<1>1. CASE ListRuns
  BY <1>1 DEF ListRuns, ReaperTypeOK, SeenBegun, PlanBegun, DeleteAfterJobOver, Unread,
     Runners, Statuses, gitHub
<1>2. CASE \E r \in Runs : ListJobs(r)
  <2>1. PICK r \in Runs : ListJobs(r)
    BY <1>2
  <2>2. ReaperTypeOK'
    BY <2>1 DEF ListJobs, ReaperTypeOK, gitHub
  <2>3. SeenBegun'
    BY <2>1 DEF ListJobs, ReaperTypeOK, SeenBegun, gitHub
  <2>4. PlanBegun' /\ DeleteAfterJobOver'
    BY <2>1 DEF ListJobs, PlanBegun, DeleteAfterJobOver
  <2>5. QED
    BY <2>2, <2>3, <2>4
<1>3. CASE Plan
  <2> DEFINE P == {r \in read : Planned(r)}
  <2>1. CASE P = {}
    <3>1. at' = "nothing found" /\ plan' = NoJob
      BY <1>3, <2>1 DEF Plan
    <3>2. QED
      BY <1>3, <3>1 DEF Plan, ReaperTypeOK, SeenBegun, PlanBegun, DeleteAfterJobOver,
         gitHub
  <2>2. CASE P # {}
    <3>1. at' = "cancel" /\ plan' = FirstMatch(First(P))
      BY <1>3, <2>2 DEF Plan
    <3>2. P \subseteq Nat
      BY DEF ReaperTypeOK
    <3>3. First(P) \in P
      <4> HIDE DEF P
      <4>1. QED
        BY <2>2, <3>2, FirstIsMember
    <3>4. plan' # NoJob /\ seen[plan'].status = "in_progress"
      BY <3>1, <3>3 DEF Planned
    <3>5. plan' \in Jobs
      BY <3>1, <3>4, PlanIsJob DEF JobsSeen
    <3>6. UNCHANGED <<gitHub, inProgress, read, seen, polls, trouble>>
      BY <1>3 DEF Plan
    <3>7. status'[plan'] # "queued"
      BY <3>4, <3>5, <3>6 DEF SeenBegun, gitHub
    <3> HIDE DEF P
    <3>8. QED
      BY <3>1, <3>5, <3>6, <3>7
         DEF ReaperTypeOK, SeenBegun, PlanBegun, DeleteAfterJobOver, gitHub
  <2>3. QED
    BY <2>1, <2>2
<1>4. CASE Cancel \/ ForceCancel
  <2>1. at \in {"cancel", "force"} /\ at' \in {"poll", "poll again", "ended"}
    BY <1>4 DEF Cancel, ForceCancel, AskCancel
  <2>2. doomed' \subseteq Runs /\ polls' \in 0..PollAttempts
    <3>1. plan \in Jobs /\ run[plan] \in Runs
      BY <2>1 DEF PlanBegun, ReaperTypeOK
    <3>2. doomed' \in {doomed, doomed \cup {run[plan]}} /\ polls' \in {polls, PollAttempts}
      BY <1>4 DEF Cancel, ForceCancel, AskCancel
    <3>3. doomed \subseteq Runs /\ polls \in 0..PollAttempts /\ PollAttempts \in Nat
      BY DEF ReaperTypeOK
    <3>4. PollAttempts \in 0..PollAttempts
      BY <3>3
    <3>5. QED
      BY <3>1, <3>2, <3>3, <3>4, Zenon
  <2>3. UNCHANGED <<run, runner, status, registered, inProgress, read, seen, plan>>
    BY <1>4 DEF Cancel, ForceCancel, AskCancel
  <2>4. QED
    BY <2>1, <2>2, <2>3 DEF ReaperTypeOK, SeenBegun, PlanBegun, DeleteAfterJobOver
<1>5. CASE Poll
  <2>1. /\ at \in {"poll", "poll again"} /\ polls' \in 0..PollAttempts
        /\ UNCHANGED <<run, runner, status, doomed, registered>>
        /\ UNCHANGED <<inProgress, read, seen, plan>>
    <3>1. polls > 0 /\ polls' = polls - 1 /\ polls \in 0..PollAttempts
      BY <1>5 DEF Poll, ReaperTypeOK
    <3>2. polls' \in 0..PollAttempts
      BY <3>1
    <3>3. QED
      BY <1>5, <3>2 DEF Poll, gitHub
  <2>2. at' \in {"ended", "delete", "force", at} /\ (at' = "delete" => Over(plan))
    BY <1>5, <2>1 DEF Poll, AfterPolls
  <2>3. QED
    BY <2>1, <2>2 DEF ReaperTypeOK, SeenBegun, PlanBegun, DeleteAfterJobOver, Over
<1>6. CASE PollFails
  BY <1>6 DEF PollFails, ReaperTypeOK, SeenBegun, PlanBegun, DeleteAfterJobOver, gitHub
<1>7. CASE DeleteRunner
  BY <1>7 DEF DeleteRunner, ReaperTypeOK, SeenBegun, PlanBegun, DeleteAfterJobOver
<1>8. QED
  BY <1>1, <1>2, <1>3, <1>4, <1>5, <1>6, <1>7 DEF Reap

LEMMA ReaperStepInv == ReaperInv /\ [ReaperNext]_reaperVars => ReaperInv'
<1> SUFFICES ASSUME ReaperInv, [ReaperNext]_reaperVars
             PROVE  ReaperInv'
  OBVIOUS
<1>1. CASE Reap /\ UNCHANGED trouble
  BY <1>1, ReapSteps
<1>2. CASE GitHub /\ UNCHANGED trouble
  BY <1>2, GitHubSteps DEF GitHub
<1>3. CASE TroubleEnds
  BY <1>3 DEF TroubleEnds, ReaperInv, ReaperTypeOK, SeenBegun, PlanBegun, DeleteAfterJobOver,
     Over, gitHub, reaper
<1>4. CASE Reaped \/ UNCHANGED reaperVars
  BY <1>4 DEF Reaped, reaperVars, ReaperInv, ReaperTypeOK, SeenBegun, PlanBegun,
     DeleteAfterJobOver, Over, gitHub, reaper
<1>5. QED
  BY <1>1, <1>2, <1>3, <1>4 DEF ReaperNext

\* DeleteAfterJobOver, execute_reaper_plan_with_api: the registration is
\* deleted only after the job that pinned it is over.
THEOREM DeletesOverJobs == ReaperSpec => []DeleteAfterJobOver
<1>1. ReaperInv => DeleteAfterJobOver
  BY DEF ReaperInv
<1>2. QED
  BY <1>1, ReaperInitInv, ReaperStepInv, PTL DEF ReaperSpec
=============================================================================
