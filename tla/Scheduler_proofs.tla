-------------------------- MODULE Scheduler_proofs --------------------------
(***************************************************************************)
(* Scheduler for any collectors and any number of calls: the wait group    *)
(* counts the jobs that have not returned, and a scheduler that runs has a *)
(* job for each entry of its list.                                         *)
(***************************************************************************)
EXTENDS Scheduler, SequenceTheorems, FiniteSetTheorems, TLAPS

(* What JobsStopped relies on, and why wg.Done never finds a zero: wg.Add  *)
(* comes before the goroutine, wg.Done when it returns.                    *)
WaitGroupCounts == wg = Cardinality(Live)

IInv == TypeOK /\ WaitGroupCounts /\ ListedCollects

\* What ListedCollects compares.
Entries(c) == {i \in DOMAIN collectors : collectors[i] = c}
JobsOf(c) == {j \in Live : jobs[j].of = c}

-----------------------------------------------------------------------------
(* Lemmas on the operators of the module.                                  *)

\* A sequence has finitely many positions of any kind.
LEMMA PositionsFinite ==
    ASSUME NEW S, NEW s \in Seq(S), NEW T \in SUBSET DOMAIN s
    PROVE  IsFiniteSet(T) /\ Cardinality(T) \in Nat
<1>1. Len(s) \in Nat /\ DOMAIN s = 1 .. Len(s)
  BY LenProperties
<1>2. IsFiniteSet(1 .. Len(s))
  BY <1>1, FS_Interval
<1> QED BY <1>1, <1>2, FS_Subset, FS_CardinalityType

\* One entry leaves a list; the ones that stay keep their order.
LEMMA RemoveAtMaps ==
    ASSUME NEW S, NEW s \in Seq(S), NEW k \in 1 .. Len(s)
    PROVE  /\ RemoveAt(s, k) \in Seq(S)
           /\ DOMAIN RemoveAt(s, k) = 1 .. Len(s) - 1
           /\ \A i \in 1 .. Len(s) - 1 :
                RemoveAt(s, k)[i] = s[IF i < k THEN i ELSE i + 1]
<1> DEFINE before == SubSeq(s, 1, k - 1)
           after == SubSeq(s, k + 1, Len(s))
<1>1. before \in Seq(S) /\ Len(before) = k - 1
  BY SubSeqProperties, ElementOfSeq
<1>2. \A i \in 1 .. k - 1 : before[i] = s[i]
  BY SubSeqProperties, ElementOfSeq
<1>3. after \in Seq(S) /\ Len(after) = Len(s) - k
  BY SubSeqProperties, ElementOfSeq
<1>4. \A i \in 1 .. Len(s) - k : after[i] = s[k + i]
  BY SubSeqProperties, ElementOfSeq
<1>5. RemoveAt(s, k) = before \o after
  BY DEF RemoveAt
<1> HIDE DEF before, after
<1>6. /\ before \o after \in Seq(S) /\ Len(before \o after) = Len(s) - 1
      /\ \A i \in 1 .. Len(s) - 1 :
            (before \o after)[i] = IF i <= k - 1 THEN before[i] ELSE after[i - (k - 1)]
  <2>1. Len(before) + Len(after) = Len(s) - 1
    BY <1>1, <1>3
  <2>2. /\ before \o after \in Seq(S)
        /\ Len(before \o after) = Len(before) + Len(after)
        /\ \A i \in 1 .. Len(before) + Len(after) :
              (before \o after)[i] =
                IF i <= Len(before) THEN before[i] ELSE after[i - Len(before)]
    BY <1>1, <1>3, ConcatProperties, Zenon
  <2> QED BY <1>1, <2>1, <2>2
<1>7. ASSUME NEW i \in 1 .. Len(s) - 1
      PROVE  (before \o after)[i] = s[IF i < k THEN i ELSE i + 1]
  <2>1. CASE i < k
    BY <1>2, <1>6, <2>1
  <2>2. CASE ~(i < k)
    <3>1. /\ i - (k - 1) \in 1 .. Len(s) - k /\ k + (i - (k - 1)) = i + 1
          /\ ~(i <= k - 1)
      BY <2>2
    <3>2. (before \o after)[i] = after[i - (k - 1)]
      BY <1>6, <3>1
    <3>3. after[i - (k - 1)] = s[k + (i - (k - 1))]
      BY <1>4, <3>1
    <3> QED BY <2>2, <3>1, <3>2, <3>3
  <2> QED BY <2>1, <2>2
<1> QED BY <1>5, <1>6, <1>7, LenProperties

\* A set of natural numbers that is not empty has a smallest element.
LEMMA SmallestElement ==
    ASSUME NEW I \in SUBSET Nat, I # {}
    PROVE  \E m \in I : \A n \in I : m <= n
<1> DEFINE Less == OpToRel(<, Nat)
<1>1. \A m, n \in Nat : <<m, n>> \in Less <=> m < n
  BY DEF OpToRel
<1>2. IsWellFoundedOn(Less, Nat)
  BY NatLessThanWellFounded
<1> HIDE DEF Less
<1>3. PICK m \in I : \A n \in I : ~ (<<n, m>> \in Less)
  BY <1>2, WFMin
<1>4. ASSUME NEW n \in I PROVE m <= n
  <2>1. m \in Nat /\ n \in Nat
    OBVIOUS
  <2>2. ~(n < m)
    BY <1>1, <1>3, <2>1, Zenon
  <2> QED BY <2>1, <2>2
<1> QED BY <1>4

\* RemoveFirst takes out one of the entries that are there.
LEMMA RemoveFirstIsRemoveAt ==
    ASSUME NEW S, NEW s \in Seq(S), NEW e, Contains(s, e)
    PROVE  \E k \in 1 .. Len(s) : RemoveFirst(s, e) = RemoveAt(s, k)
<1> DEFINE I == {i \in 1 .. Len(s) : s[i] = e}
<1>1. I # {} /\ I \in SUBSET Nat
  BY DEF Contains
<1>2. Min(I) \in I
  BY <1>1, SmallestElement DEF Min
<1>3. SelectInSeq(s, LAMBDA v : v = e) = Min(I)
  BY <1>1 DEF SelectInSeq
<1>4. RemoveFirst(s, e) = RemoveAt(s, Min(I))
  BY <1>3 DEF RemoveFirst, Contains
<1> QED BY <1>2, <1>4

-----------------------------------------------------------------------------
(* The lists and the jobs as sets.                                         *)

LEMMA TypeFacts ==
    ASSUME TypeOK
    PROVE  /\ Len(jobs) \in Nat /\ DOMAIN jobs = 1 .. Len(jobs)
           /\ Len(collectors) \in Nat /\ DOMAIN collectors = 1 .. Len(collectors)
           /\ \A j \in DOMAIN jobs : jobs[j] \in Job
           /\ \A i \in DOMAIN collectors : collectors[i] \in Collectors
           /\ IsFiniteSet(Live) /\ Cardinality(Live) \in Nat
           /\ \A c \in Collectors :
                /\ IsFiniteSet(Entries(c)) /\ Cardinality(Entries(c)) \in Nat
                /\ IsFiniteSet(JobsOf(c)) /\ Cardinality(JobsOf(c)) \in Nat
<1>1. jobs \in Seq(Job) /\ collectors \in Seq(Collectors)
  BY DEF TypeOK
<1>2. Live \in SUBSET DOMAIN jobs
  BY DEF Live
<1>3. \A c \in Collectors : Entries(c) \in SUBSET DOMAIN collectors
                            /\ JobsOf(c) \in SUBSET DOMAIN jobs
  BY <1>2 DEF Entries, JobsOf
<1>4. \A j \in DOMAIN jobs : jobs[j] \in Job
  BY <1>1, LenProperties, ElementOfSeq
<1>5. \A i \in DOMAIN collectors : collectors[i] \in Collectors
  BY <1>1, LenProperties, ElementOfSeq
<1>6. IsFiniteSet(Live) /\ Cardinality(Live) \in Nat
  BY <1>1, <1>2, PositionsFinite
<1>7. ASSUME NEW c \in Collectors
      PROVE  /\ IsFiniteSet(Entries(c)) /\ Cardinality(Entries(c)) \in Nat
             /\ IsFiniteSet(JobsOf(c)) /\ Cardinality(JobsOf(c)) \in Nat
  BY <1>1, <1>3, PositionsFinite
<1> QED BY <1>1, <1>4, <1>5, <1>6, <1>7, LenProperties

\* New jobs come behind the ones there are, and all of them live.
LEMMA StartedJobs ==
    ASSUME TypeOK, NEW cs \in Seq(Collectors), NEW ctx \in {"agent", "background"},
           StartJobs(cs, ctx)
    PROVE  /\ jobs' \in Seq(Job)
           /\ Len(jobs') = Len(jobs) + Len(cs)
           /\ \A j \in 1 .. Len(jobs) : jobs'[j] = jobs[j]
           /\ \A i \in 1 .. Len(cs) :
                jobs'[Len(jobs) + i] =
                    [of |-> cs[i], ctx |-> ctx, at |-> "collecting"]
           /\ Live' = Live \cup (Len(jobs) + 1 .. Len(jobs) + Len(cs))
<1> DEFINE new == [i \in DOMAIN cs |->
                        [of |-> cs[i], ctx |-> ctx, at |-> "collecting"]]
<1>1. Len(cs) \in Nat /\ DOMAIN cs = 1 .. Len(cs)
      /\ \A i \in 1 .. Len(cs) : cs[i] \in Collectors
  BY LenProperties, ElementOfSeq
<1>2. new \in [1 .. Len(cs) -> Job]
  BY <1>1 DEF Job
<1>3. new \in Seq(Job) /\ Len(new) = Len(cs)
  BY <1>1, <1>2, SeqDef, LenProperties
<1>4. \A i \in 1 .. Len(cs) :
        new[i] = [of |-> cs[i], ctx |-> ctx, at |-> "collecting"]
  BY <1>1
<1>5. jobs' = jobs \o new
  BY DEF StartJobs
<1> HIDE DEF new
<1>6. jobs \in Seq(Job) /\ Len(jobs) \in Nat /\ DOMAIN jobs = 1 .. Len(jobs)
  BY TypeFacts DEF TypeOK
<1>7. /\ jobs' \in Seq(Job) /\ Len(jobs') = Len(jobs) + Len(cs)
      /\ \A j \in 1 .. Len(jobs) + Len(cs) :
            jobs'[j] = IF j <= Len(jobs) THEN jobs[j] ELSE new[j - Len(jobs)]
  <2>1. /\ jobs' \in Seq(Job) /\ Len(jobs') = Len(jobs) + Len(new)
        /\ \A j \in 1 .. Len(jobs) + Len(new) :
              jobs'[j] = IF j <= Len(jobs) THEN jobs[j] ELSE new[j - Len(jobs)]
    <3>1. /\ jobs \o new \in Seq(Job) /\ Len(jobs \o new) = Len(jobs) + Len(new)
          /\ \A j \in 1 .. Len(jobs) + Len(new) :
                (jobs \o new)[j] =
                    IF j <= Len(jobs) THEN jobs[j] ELSE new[j - Len(jobs)]
      BY <1>3, <1>6, ConcatProperties, ZenonT(30)
    <3> QED BY <1>5, <3>1, ZenonT(30)
  <2> QED BY <1>3, <2>1
<1>8. \A j \in 1 .. Len(jobs) : jobs'[j] = jobs[j]
  BY <1>1, <1>6, <1>7
<1>9. ASSUME NEW i \in 1 .. Len(cs)
      PROVE  jobs'[Len(jobs) + i] =
                [of |-> cs[i], ctx |-> ctx, at |-> "collecting"]
  <2>1. /\ Len(jobs) + i \in 1 .. Len(jobs) + Len(cs)
        /\ ~(Len(jobs) + i <= Len(jobs)) /\ (Len(jobs) + i) - Len(jobs) = i
    BY <1>1, <1>6
  <2> QED BY <1>4, <1>7, <2>1
<1>10. DOMAIN jobs' = 1 .. Len(jobs) + Len(cs)
  BY <1>7, LenProperties
<1>11. ASSUME NEW j \in Len(jobs) + 1 .. Len(jobs) + Len(cs)
       PROVE  jobs'[j].at = "collecting"
  <2>1. j - Len(jobs) \in 1 .. Len(cs) /\ Len(jobs) + (j - Len(jobs)) = j
    BY <1>1, <1>6
  <2>2. jobs'[j] =
            [of |-> cs[j - Len(jobs)], ctx |-> ctx, at |-> "collecting"]
    BY <1>9, <2>1
  <2> QED BY <2>2
<1>12. Live' = Live \cup (Len(jobs) + 1 .. Len(jobs) + Len(cs))
  BY <1>1, <1>6, <1>8, <1>10, <1>11 DEF Live
<1> QED BY <1>7, <1>8, <1>9, <1>12

\* The wait group stays right when jobs are started.
LEMMA StartedCounted ==
    ASSUME TypeOK, WaitGroupCounts,
           NEW cs \in Seq(Collectors), NEW ctx \in {"agent", "background"},
           StartJobs(cs, ctx)
    PROVE  wg' \in Nat /\ WaitGroupCounts'
<1> DEFINE fresh == Len(jobs) + 1 .. Len(jobs) + Len(cs)
<1>1. Len(jobs) \in Nat /\ Len(cs) \in Nat
      /\ IsFiniteSet(Live) /\ Cardinality(Live) \in Nat /\ Live \subseteq 1 .. Len(jobs)
  BY TypeFacts, LenProperties DEF Live
<1>2. IsFiniteSet(fresh) /\ Cardinality(fresh) = Len(cs)
  <2>1. Len(jobs) + 1 \in Int /\ Len(jobs) + Len(cs) \in Int
    BY <1>1
  <2>2. /\ IsFiniteSet(fresh)
        /\ Cardinality(fresh) =
             IF Len(jobs) + 1 > Len(jobs) + Len(cs) THEN 0
             ELSE (Len(jobs) + Len(cs)) - (Len(jobs) + 1) + 1
    BY <2>1, FS_Interval, Zenon
  <2> QED BY <1>1, <2>2
<1>3. Live \cap fresh = {}
  BY <1>1
<1>4. Cardinality(Live \cap fresh) = 0
  BY <1>3, FS_EmptySet
<1> HIDE DEF fresh
<1>5. Cardinality(Live \cup fresh) = Cardinality(Live) + Cardinality(fresh) - 0
  BY <1>1, <1>2, <1>4, FS_Union
<1>6. Live' = Live \cup fresh
  BY StartedJobs DEF fresh
<1>7. Cardinality(Live') = wg + Len(cs)
  BY <1>1, <1>2, <1>5, <1>6 DEF WaitGroupCounts
<1>8. wg' = wg + Len(cs)
  BY DEF StartJobs
<1> QED BY <1>1, <1>7, <1>8 DEF WaitGroupCounts

\* A step that leaves the list, and the jobs that live, leaves both counts.
LEMMA SameCounts ==
    ASSUME TypeOK, UNCHANGED collectors, Live' = Live,
           \A j \in Live : jobs'[j].of = jobs[j].of
    PROVE  \A c \in Collectors : Entries(c)' = Entries(c) /\ JobsOf(c)' = JobsOf(c)
BY DEF Entries, JobsOf

\* The jobs that a step does not start and that do not return live on.
LEMMA MovedJob ==
    ASSUME TypeOK, NEW j \in DOMAIN jobs,
           NEW from \in {"collecting", "selecting"},
           NEW to \in {"collecting", "selecting", "done"}, Goes(j, from, to)
    PROVE  /\ jobs' \in Seq(Job) /\ j \in Live
           /\ Live' = IF to = "done" THEN Live \ {j} ELSE Live
           /\ \A i \in DOMAIN jobs : jobs'[i].of = jobs[i].of
<1>1. jobs \in Seq(Job) /\ DOMAIN jobs = 1 .. Len(jobs) /\ jobs[j] \in Job
  BY TypeFacts DEF TypeOK
<1>2. [jobs[j] EXCEPT !.at = to] \in Job /\ [jobs[j] EXCEPT !.at = to].of = jobs[j].of
      /\ [jobs[j] EXCEPT !.at = to].at = to
  BY <1>1 DEF Job
<1>3. jobs' = [jobs EXCEPT ![j] = [jobs[j] EXCEPT !.at = to]]
  BY DEF Goes
<1>4. /\ jobs' \in Seq(Job) /\ DOMAIN jobs' = DOMAIN jobs
      /\ \A i \in DOMAIN jobs :
            jobs'[i] = IF i = j THEN [jobs[j] EXCEPT !.at = to] ELSE jobs[i]
  BY <1>1, <1>2, <1>3, ExceptSeq
<1>5. \A i \in DOMAIN jobs : jobs'[i].of = jobs[i].of
  BY <1>2, <1>4
<1>6. \A i \in DOMAIN jobs : jobs'[i].at = IF i = j THEN to ELSE jobs[i].at
  BY <1>2, <1>4
<1>7. jobs[j].at # "done"
  BY DEF Goes
<1>8. Live' = IF to = "done" THEN Live \ {j} ELSE Live
  BY <1>4, <1>6, <1>7 DEF Live
<1> QED BY <1>4, <1>5, <1>7, <1>8 DEF Live

-----------------------------------------------------------------------------
LEMMA InitInv == Init => IInv
<1> SUFFICES ASSUME Init PROVE IInv
  OBVIOUS
<1>1. collectors \in Seq(Collectors) /\ jobs \in Seq(Job) /\ DOMAIN jobs = {}
  BY CollectorsAssumption, EmptySeq DEF Init
<1>2. Cardinality(Live) = 0
  BY <1>1, FS_EmptySet DEF Live
<1> QED BY <1>1, <1>2 DEF Init, IInv, TypeOK, WaitGroupCounts, ListedCollects

\* Start: the i-th entry of the list has the i-th of the new jobs.
LEMMA StartInv == IInv /\ Start => IInv'
<1> SUFFICES ASSUME IInv, Start PROVE IInv'
  OBVIOUS
<1>1. TypeOK /\ WaitGroupCounts /\ collectors \in Seq(Collectors)
  BY DEF IInv, TypeOK
<1>2. StartJobs(collectors, "agent") /\ collectors' = collectors
  BY DEF Start
<1>3. /\ jobs' \in Seq(Job)
      /\ Len(jobs') = Len(jobs) + Len(collectors)
      /\ \A i \in 1 .. Len(collectors) :
            jobs'[Len(jobs) + i] =
                [of |-> collectors[i], ctx |-> "agent", at |-> "collecting"]
      /\ Live' = Live \cup (Len(jobs) + 1 .. Len(jobs) + Len(collectors))
  BY <1>1, <1>2, StartedJobs
<1>4. wg' \in Nat /\ WaitGroupCounts'
  BY <1>1, <1>2, StartedCounted
<1>5. TypeOK'
  BY <1>1, <1>2, <1>3, <1>4 DEF Start, TypeOK
<1>6. ASSUME NEW c \in Collectors
      PROVE  Cardinality(Entries(c)') <= Cardinality(JobsOf(c)')
  <2> DEFINE f == [i \in Entries(c) |-> Len(jobs) + i]
  <2>1. Entries(c)' = Entries(c) /\ Entries(c) \subseteq 1 .. Len(collectors)
        /\ Len(jobs) \in Nat /\ Len(collectors) \in Nat
    BY <1>1, <1>2, TypeFacts DEF Entries
  <2>2. ASSUME NEW i \in Entries(c) PROVE Len(jobs) + i \in JobsOf(c)'
    <3>1. i \in 1 .. Len(collectors) /\ collectors[i] = c
      BY <2>1 DEF Entries
    <3>2. Len(jobs) + i \in Live'
      BY <1>3, <2>1, <3>1
    <3>3. jobs'[Len(jobs) + i] =
            [of |-> collectors[i], ctx |-> "agent", at |-> "collecting"]
      BY <1>3, <3>1, Zenon
    <3>4. jobs'[Len(jobs) + i].of = c
      BY <3>1, <3>3
    <3> QED BY <3>2, <3>4 DEF JobsOf
  <2>3. f \in Injection(Entries(c), JobsOf(c)')
    <3>1. f \in [Entries(c) -> JobsOf(c)']
      BY <2>2
    <3>2. \A a, b \in Entries(c) : f[a] = f[b] => a = b
      BY <2>1
    <3> QED BY <3>1, <3>2 DEF Injection, IsInjective
  <2>4. IsFiniteSet(JobsOf(c)')
    <3>1. Live' \subseteq DOMAIN jobs'
      BY DEF Live
    <3>2. JobsOf(c)' \in SUBSET DOMAIN jobs'
      BY <3>1 DEF JobsOf
    <3> QED BY <1>3, <3>2, PositionsFinite
  <2> QED BY <2>1, <2>3, <2>4, FS_Injection
<1>7. ListedCollects'
  BY <1>6 DEF ListedCollects, Entries, JobsOf
<1> QED BY <1>4, <1>5, <1>7 DEF IInv

\* AddCollector: one entry more and, if the scheduler runs, one job more.
LEMMA AddCollectorInv ==
    ASSUME IInv, NEW c \in Collectors, AddCollector(c)
    PROVE  IInv'
<1> DEFINE cs == IF running THEN <<c>> ELSE <<>>
<1>1. /\ TypeOK /\ WaitGroupCounts /\ collectors \in Seq(Collectors)
      /\ cs \in Seq(Collectors)
  BY DEF IInv, TypeOK
<1>2. StartJobs(cs, "background") /\ collectors' = Append(collectors, c)
  BY DEF AddCollector
<1>3. /\ jobs' \in Seq(Job) /\ Len(jobs') = Len(jobs) + Len(cs)
      /\ \A j \in 1 .. Len(jobs) : jobs'[j] = jobs[j]
      /\ \A i \in 1 .. Len(cs) :
            jobs'[Len(jobs) + i] =
                [of |-> cs[i], ctx |-> "background", at |-> "collecting"]
      /\ Live' = Live \cup (Len(jobs) + 1 .. Len(jobs) + Len(cs))
  BY <1>1, <1>2, StartedJobs
<1>4. wg' \in Nat /\ WaitGroupCounts'
  BY <1>1, <1>2, StartedCounted
<1>5. /\ collectors' \in Seq(Collectors) /\ Len(collectors') = Len(collectors) + 1
      /\ \A i \in 1 .. Len(collectors) : collectors'[i] = collectors[i]
      /\ collectors'[Len(collectors) + 1] = c
  BY <1>1, <1>2, AppendProperties
<1>6. TypeOK'
  BY <1>1, <1>3, <1>4, <1>5 DEF AddCollector, TypeOK
<1>7. ASSUME running, ~stopClosed, ~ctxDone, NEW d \in Collectors
      PROVE  Cardinality(Entries(d)') <= Cardinality(JobsOf(d)')
  <2> DEFINE n == Len(collectors) + 1
             k == Len(jobs) + 1
  <2>1. /\ Len(jobs) \in Nat /\ DOMAIN jobs = 1 .. Len(jobs)
        /\ Len(collectors) \in Nat /\ DOMAIN collectors = 1 .. Len(collectors)
        /\ DOMAIN collectors' = 1 .. n
    BY <1>1, <1>5, TypeFacts, LenProperties
  <2>2. Cardinality(Entries(d)) <= Cardinality(JobsOf(d))
    BY <1>7 DEF IInv, ListedCollects, Entries, JobsOf
  <2>3. Entries(d)' = IF d = c THEN Entries(d) \cup {n} ELSE Entries(d)
    BY <1>5, <2>1 DEF Entries
  <2>4. cs = <<c>> /\ Len(cs) = 1 /\ cs[1] = c
    BY <1>7
  <2>5. Live' = Live \cup {k}
    BY <1>3, <2>1, <2>4
  <2>6. jobs'[k].of = c
    <3>1. jobs'[k] = [of |-> cs[1], ctx |-> "background", at |-> "collecting"]
      BY <1>3, <2>4
    <3> QED BY <2>4, <3>1
  <2>7. \A j \in Live : jobs'[j].of = jobs[j].of
    BY <1>3, <2>1 DEF Live
  <2>8. JobsOf(d)' = IF d = c THEN JobsOf(d) \cup {k} ELSE JobsOf(d)
    BY <2>5, <2>6, <2>7 DEF JobsOf
  <2>9. n \notin Entries(d) /\ k \notin JobsOf(d)
    BY <2>1 DEF Entries, JobsOf, Live
  <2>10. /\ IsFiniteSet(Entries(d)) /\ Cardinality(Entries(d)) \in Nat
         /\ IsFiniteSet(JobsOf(d)) /\ Cardinality(JobsOf(d)) \in Nat
    BY <1>1, TypeFacts
  <2>11. Cardinality(Entries(d) \cup {n}) = Cardinality(Entries(d)) + 1
    BY <2>9, <2>10, FS_AddElement
  <2>12. Cardinality(JobsOf(d) \cup {k}) = Cardinality(JobsOf(d)) + 1
    BY <2>9, <2>10, FS_AddElement
  <2> QED BY <2>2, <2>3, <2>8, <2>10, <2>11, <2>12
<1>8. ListedCollects'
  <2>1. UNCHANGED <<running, stopClosed, ctxDone>>
    BY DEF AddCollector
  <2> QED BY <1>7, <2>1 DEF ListedCollects, Entries, JobsOf
<1> QED BY <1>4, <1>6, <1>8 DEF IInv

\* RemoveCollector: the entries that stay were there before.
LEMMA RemoveCollectorInv ==
    ASSUME IInv, NEW c \in Collectors, RemoveCollector(c)
    PROVE  IInv'
<1>1. TypeOK /\ WaitGroupCounts /\ collectors \in Seq(Collectors)
  BY DEF IInv, TypeOK
<1>2. Contains(collectors, c) /\ collectors' = RemoveFirst(collectors, c)
  BY DEF RemoveCollector
<1>3. PICK k \in 1 .. Len(collectors) : collectors' = RemoveAt(collectors, k)
  BY <1>1, <1>2, RemoveFirstIsRemoveAt
<1>4. /\ collectors' \in Seq(Collectors)
      /\ DOMAIN collectors' = 1 .. Len(collectors) - 1
      /\ \A i \in 1 .. Len(collectors) - 1 :
            collectors'[i] = collectors[IF i < k THEN i ELSE i + 1]
  BY <1>1, <1>3, RemoveAtMaps
<1>5. UNCHANGED <<jobs, running, stopClosed, wg, stopping, ctxDone, panicked>>
  BY DEF RemoveCollector
<1>6. TypeOK'
  BY <1>1, <1>4, <1>5 DEF TypeOK
<1>7. Live' = Live
  BY <1>5 DEF Live
<1>8. ASSUME NEW d \in Collectors
      PROVE  /\ Cardinality(Entries(d)') <= Cardinality(Entries(d))
             /\ Cardinality(Entries(d)') \in Nat
             /\ JobsOf(d)' = JobsOf(d)
  <2> DEFINE f == [i \in Entries(d)' |-> IF i < k THEN i ELSE i + 1]
  <2>1. Len(collectors) \in Nat /\ DOMAIN collectors = 1 .. Len(collectors)
    BY <1>1, TypeFacts
  <2>2. ASSUME NEW i \in Entries(d)'
        PROVE  (IF i < k THEN i ELSE i + 1) \in Entries(d)
    <3>1. i \in 1 .. Len(collectors) - 1 /\ collectors'[i] = d
      BY <1>4 DEF Entries
    <3>2. collectors[IF i < k THEN i ELSE i + 1] = d
      BY <1>4, <3>1
    <3>3. (IF i < k THEN i ELSE i + 1) \in DOMAIN collectors
      BY <2>1, <3>1
    <3> QED BY <3>2, <3>3 DEF Entries
  <2>3. Entries(d)' \subseteq Int
    BY <1>4, <2>1 DEF Entries
  <2>4. f \in Injection(Entries(d)', Entries(d))
    <3>1. f \in [Entries(d)' -> Entries(d)]
      BY <2>2
    <3>2. \A a, b \in Entries(d)' : f[a] = f[b] => a = b
      BY <2>1, <2>3
    <3> QED BY <3>1, <3>2 DEF Injection, IsInjective
  <2>5. IsFiniteSet(Entries(d))
    BY <1>1, TypeFacts
  <2>6. /\ Cardinality(Entries(d)') <= Cardinality(Entries(d))
        /\ IsFiniteSet(Entries(d)')
    BY <2>4, <2>5, FS_Injection
  <2>7. JobsOf(d)' = JobsOf(d)
    BY <1>5, <1>7 DEF JobsOf
  <2> QED BY <2>6, <2>7, FS_CardinalityType
<1>9. ListedCollects'
  <2> SUFFICES ASSUME running, ~stopClosed, ~ctxDone, NEW d \in Collectors
               PROVE  Cardinality(Entries(d)') <= Cardinality(JobsOf(d)')
    BY <1>5 DEF ListedCollects, Entries, JobsOf
  <2>1. Cardinality(Entries(d)) <= Cardinality(JobsOf(d))
    BY DEF IInv, ListedCollects, Entries, JobsOf
  <2>2. Cardinality(Entries(d)) \in Nat /\ Cardinality(JobsOf(d)) \in Nat
    BY <1>1, TypeFacts
  <2> QED BY <1>8, <2>1, <2>2
<1> QED BY <1>1, <1>5, <1>6, <1>7, <1>9 DEF IInv, WaitGroupCounts

\* Stop, its end, and the context: the jobs are not touched.
LEMMA JobsLeftInv ==
    ASSUME IInv, UNCHANGED <<collectors, jobs, wg>>,
           {running', stopClosed', stopping', ctxDone', panicked'} \subseteq BOOLEAN,
           stopClosed' \/ ctxDone' \/ ~running'
    PROVE  IInv'
<1>1. Live' = Live
  BY DEF Live
<1> QED BY <1>1 DEF IInv, TypeOK, WaitGroupCounts, ListedCollects

LEMMA StopInv == IInv /\ Stop => IInv'
BY JobsLeftInv DEF Stop, IInv, TypeOK

LEMMA StopReturnsInv == IInv /\ StopReturns => IInv'
BY JobsLeftInv DEF StopReturns, IInv, TypeOK

LEMMA CancelInv == IInv /\ Cancel => IInv'
BY JobsLeftInv DEF Cancel, IInv, TypeOK

\* Collected and Tick: the job lives on.
LEMMA LivesOnInv ==
    ASSUME IInv, NEW j \in DOMAIN jobs,
           NEW from \in {"collecting", "selecting"},
           NEW to \in {"collecting", "selecting"}, Goes(j, from, to), UNCHANGED wg
    PROVE  IInv'
<1>1. /\ jobs' \in Seq(Job) /\ Live' = Live
      /\ \A i \in DOMAIN jobs : jobs'[i].of = jobs[i].of
  BY MovedJob DEF IInv
<1>2. UNCHANGED <<collectors, running, stopClosed, stopping, ctxDone, panicked>>
  BY DEF Goes
<1>3. TypeOK' /\ WaitGroupCounts'
  BY <1>1, <1>2 DEF IInv, TypeOK, WaitGroupCounts
<1>4. \A c \in Collectors : Entries(c)' = Entries(c) /\ JobsOf(c)' = JobsOf(c)
  BY <1>1, <1>2, SameCounts DEF IInv, Live
<1> QED BY <1>2, <1>3, <1>4 DEF IInv, ListedCollects, Entries, JobsOf

\* A job returns when it was told to, and never finds the wait group at zero.
LEMMA JobReturnsInv ==
    ASSUME IInv, NEW j \in DOMAIN jobs, JobReturns(j)
    PROVE  IInv'
<1>1. /\ jobs' \in Seq(Job) /\ j \in Live /\ Live' = Live \ {j}
  BY MovedJob DEF IInv, JobReturns
<1>2. /\ UNCHANGED <<collectors, running, stopClosed, stopping, ctxDone, panicked>>
      /\ wg' = wg - 1
      /\ stopClosed \/ ctxDone
  BY DEF JobReturns, Goes, Told
<1>3. IsFiniteSet(Live) /\ Cardinality(Live) \in Nat /\ wg = Cardinality(Live)
  BY TypeFacts DEF IInv, WaitGroupCounts
<1>4. Cardinality(Live \ {j}) = Cardinality(Live) - 1
  BY <1>1, <1>3, FS_RemoveElement
<1>5. Cardinality(Live) # 0
  BY <1>1, <1>3, FS_EmptySet
<1>6. wg' \in Nat /\ WaitGroupCounts'
  BY <1>1, <1>2, <1>3, <1>4, <1>5 DEF WaitGroupCounts
<1>7. TypeOK'
  BY <1>1, <1>2, <1>6 DEF IInv, TypeOK
<1> QED BY <1>2, <1>6, <1>7 DEF IInv, ListedCollects

LEMMA NextInv == IInv /\ [Next]_schedulerVars => IInv'
<1> SUFFICES ASSUME IInv, [Next]_schedulerVars PROVE IInv'
  OBVIOUS
<1>1. CASE Calls
  BY <1>1, StartInv, StopInv, CancelInv, AddCollectorInv, RemoveCollectorInv DEF Calls
<1>2. CASE JobsStopped \/ StopTimesOut
  BY <1>2, StopReturnsInv DEF JobsStopped, StopTimesOut
<1>3. ASSUME NEW j \in DOMAIN jobs, Collected(j) \/ Tick(j) \/ JobReturns(j)
      PROVE  IInv'
  BY <1>3, LivesOnInv, JobReturnsInv DEF Collected, Tick
<1>4. CASE UNCHANGED schedulerVars
  <2>1. Live' = Live
    BY <1>4 DEF schedulerVars, Live
  <2> QED BY <1>4, <2>1 DEF schedulerVars, IInv, TypeOK, WaitGroupCounts, ListedCollects
<1> QED BY <1>1, <1>2, <1>3, <1>4 DEF Next

-----------------------------------------------------------------------------
LEMMA SchedulerInvariant == Spec => []IInv
BY InitInv, NextInv, PTL DEF Spec

(* The variables keep their types: the counter of the wait group is never  *)
(* negative, that is, no wg.Done panics.                                   *)
THEOREM TypeCorrect == Spec => []TypeOK
<1>1. IInv => TypeOK
  BY DEF IInv
<1> QED BY <1>1, SchedulerInvariant, PTL

(* Start, AddCollector and RemoveCollector, in any order and number: as    *)
(* long as nobody told the jobs to stop, each entry of Scheduler.collectors *)
(* has a goroutine of its own that collects for it.                        *)
THEOREM Collecting == Spec => []ListedCollects
<1>1. IInv => ListedCollects
  BY DEF IInv
<1> QED BY <1>1, SchedulerInvariant, PTL

(* A Stop that does not time out leaves no goroutine behind: the wait      *)
(* group it waits for is at zero only when every job has returned, also    *)
(* the ones whose collector was removed or added while it ran.             *)
StopLeavesNoJob == JobsStopped => Live = {}

THEOREM StopWaitsForAll == Spec => [][StopLeavesNoJob]_schedulerVars
<1>1. IInv => StopLeavesNoJob
  BY TypeFacts, FS_EmptySet DEF IInv, WaitGroupCounts, JobsStopped, StopLeavesNoJob
<1>2. IInv => [StopLeavesNoJob]_schedulerVars
  BY <1>1
<1> QED BY <1>2, SchedulerInvariant, PTL
=============================================================================
