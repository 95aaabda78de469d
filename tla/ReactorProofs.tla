---------------------------- MODULE ReactorProofs ---------------------------
(***************************************************************************)
(* What is proved of the parts of the reactor (Reactor): timers here, from *)
(* an invariant of their own; sockets, connections, the allocator and the  *)
(* pool from the theorems of their modules, which are those of the parts   *)
(* when the variables of the parts take the places of theirs.              *)
(***************************************************************************)
EXTENDS Reactor, Sequences, FiniteSets, SequencesExt, SequenceTheorems, FiniteSetTheorems,
        WellFoundedInduction, TLAPS

\* A set of numbers has a least one.
LEMMA LeastNumber == ASSUME NEW S, S \subseteq Nat, S # {} PROVE \E m \in S : \A k \in S : m <= k
<1>1. PICK m \in S : \A k \in S : <<k, m>> \notin OpToRel(<, Nat)
  BY NatLessThanWellFounded, WFMin
<1>2. \A k \in S : ~(k < m)
  BY <1>1 DEF OpToRel
<1>3. \A k \in S : m <= k
  BY <1>2
<1>4. QED
  BY <1>3

----------------------------------------------------------------------------
\* Timers.

\* Timers counts with an operator of its own copy of FiniteSets.
LEMMA TimesCount == \A S : Times!Cardinality(S) = Cardinality(S)
BY DEF Times!Cardinality, Cardinality

\* What fio_run_every is asked: intervals and repetitions are numbers.
TimersBounds == Intervals \subseteq Nat /\ Repetitions \subseteq Nat /\ MaxTime \in Nat

\* A set of positions without a gap from the first on is counted by its last one.
LEMMA CountedFromFirst ==
  ASSUME NEW n \in Nat, NEW S, S \subseteq 1..n, \A i \in S : 1..i \subseteq S
  PROVE  Cardinality(S) \in 0..n /\ S = 1..Cardinality(S)
<1> DEFINE U == {k \in Nat : \A i \in S : i <= k}
<1>1. PICK m \in U : \A k \in U : m <= k
  <2>1. U \subseteq Nat /\ n \in U
    OBVIOUS
  <2>2. QED
    BY <2>1, LeastNumber
<1>2. m \in 0..n
  BY <1>1
<1>3. S = 1..m
  <2>1. S \subseteq 1..m
    OBVIOUS
  <2>2. m = 0 \/ m \in S
    <3>1. SUFFICES ASSUME m # 0, m \notin S PROVE FALSE
      OBVIOUS
    <3>2. m - 1 \in Nat /\ \A i \in S : i <= m - 1
      BY <3>1
    <3>3. m - 1 \in U
      BY <3>2
    <3>4. QED
      BY <1>1, <3>3
  <2>3. m \in S => 1..m \subseteq S
    OBVIOUS
  <2>4. m = 0 => 1..m = {}
    OBVIOUS
  <2>5. QED
    BY <2>1, <2>2, <2>3, <2>4, Zenon
<1>4. Cardinality(1..m) = m
  BY <1>2, FS_Interval
<1>5. QED
  BY <1>2, <1>3, <1>4

\* Sequences put together.
LEMMA Joined ==
  ASSUME NEW S, NEW x \in Seq(S), NEW y \in Seq(S)
  PROVE  x \o y \in Seq(S) /\ Len(x \o y) = Len(x) + Len(y)
OBVIOUS

\* A sequence with x put in at p, as SequencesExt's InsertAt does.
Opened(q, p, x) == SubSeq(q, 1, p - 1) \o <<x>> \o SubSeq(q, p, Len(q))

\* Where the elements are when one has been put in.
LEMMA Inserted ==
  \A S : \A q \in Seq(S) : \A p \in 1..Len(q) + 1 : \A x \in S :
    /\ Opened(q, p, x) \in Seq(S) /\ Len(Opened(q, p, x)) = Len(q) + 1
    /\ \A k \in 1..Len(q) + 1 :
         Opened(q, p, x)[k] = IF k < p THEN q[k] ELSE IF k = p THEN x ELSE q[k - 1]
<1> TAKE S
<1> TAKE q \in Seq(S)
<1> TAKE p \in 1..Len(q) + 1
<1> TAKE x \in S
<1> DEFINE a == SubSeq(q, 1, p - 1)
           b == SubSeq(q, p, Len(q))
<1>1. a \in Seq(S) /\ Len(a) = p - 1 /\ \A k \in 1..p - 1 : a[k] = q[k]
  OBVIOUS
<1>2. b \in Seq(S) /\ Len(b) = Len(q) + 1 - p /\ \A k \in 1..Len(q) + 1 - p : b[k] = q[p - 1 + k]
  OBVIOUS
<1>3. Opened(q, p, x) = a \o <<x>> \o b
  BY DEF Opened
<1> HIDE DEF a, b
<1>4. a \o <<x>> \o b \in Seq(S) /\ Len(a \o <<x>> \o b) = Len(q) + 1
  <2> DEFINE c == a \o <<x>>
  <2>1. c \in Seq(S) /\ Len(c) = p
    BY <1>1
  <2> HIDE DEF c
  <2>2. c \o b \in Seq(S) /\ Len(c \o b) = p + Len(b)
    BY <1>2, <2>1, Joined, Zenon
  <2>3. p + Len(b) = Len(q) + 1
    BY <1>2
  <2>4. QED
    BY <2>2, <2>3 DEF c
<1>5. \A k \in 1..Len(q) + 1 :
         (a \o <<x>> \o b)[k] = IF k < p THEN q[k] ELSE IF k = p THEN x ELSE q[k - 1]
  <2> TAKE k \in 1..Len(q) + 1
  <2>1. CASE k < p
    BY <1>1, <1>2, <2>1
  <2>2. CASE k = p
    BY <1>1, <1>2, <2>2
  <2>3. CASE k > p
    <3>1. (a \o <<x>> \o b)[k] = b[k - p]
      BY <1>1, <1>2, <2>3
    <3>2. k - p \in 1..Len(q) + 1 - p /\ p - 1 + (k - p) = k - 1
      BY <2>3
    <3>3. b[k - p] = q[p - 1 + (k - p)]
      BY <1>2, <3>2, Zenon
    <3>4. (a \o <<x>> \o b)[k] = q[k - 1]
      BY <3>1, <3>2, <3>3, Zenon
    <3>5. ~(k < p) /\ k # p
      BY <2>3
    <3>6. QED
      BY <3>4, <3>5, Zenon
  <2>4. QED
    <3>1. k < p \/ k = p \/ k > p
      OBVIOUS
    <3>2. QED
      BY <2>1, <2>2, <2>3, <3>1, Zenon
<1>6. QED
  BY <1>3, <1>4, <1>5, Zenon

\* Where they are when the first n have been taken out.
LEMMA Dropped ==
  ASSUME NEW S, NEW q \in Seq(S), NEW n \in 0..Len(q)
  PROVE  /\ SubSeq(q, n + 1, Len(q)) \in Seq(S) /\ Len(SubSeq(q, n + 1, Len(q))) = Len(q) - n
         /\ \A k \in 1..Len(q) - n : SubSeq(q, n + 1, Len(q))[k] = q[n + k]
OBVIOUS

\* Types, stronger than those that the run checks: a due time is a number.
Entries == [due : Nat, interval : Intervals \union {0}, repetitions : Nat]
TimerTypes ==
  /\ timers \in Seq(Timer) /\ deferred \subseteq Timer /\ running \subseteq Timer /\ refused \subseteq Timer
  /\ timer \in [Timer -> Entries]
  /\ runs \in [Timer -> Nat] /\ finished \in [Timer -> 0..1]
  /\ last_cycle \in 0..MaxTime /\ clock \in 0..MaxTime /\ last_cycle <= clock
  /\ phase \in {"serving", "unwinding", "cleared"}

\* What is left of a timer's repetitions and how often it has run make up what was
\* asked, and what was never started has not run.
Counts ==
  /\ \A t \in Times!Range(timers) \union deferred :
       timer[t].repetitions > 0 => runs[t] + timer[t].repetitions \in Repetitions
  /\ \A t \in running : timer[t].repetitions > 0 => runs[t] + timer[t].repetitions - 1 \in Repetitions
  /\ \A t \in Timer : t \notin Times!Started /\ finished[t] = 0 => runs[t] = 0

\* The invariant of the timers.
TimersInv == TimerTypes /\ Times!OnePlace /\ Times!InOrder /\ Times!NotEarly /\ Counts

\* No timer is started.
LEMMA TimersInit == ASSUME TimersBounds, Times!Init PROVE TimersInv
<1> USE DEF TimersBounds, Times!Init, Times!Started
<1>1. TimerTypes
  BY DEF TimerTypes, Entries, Times!NoTimer
<1>2. Times!OnePlace
  BY DEF Times!OnePlace, Times!IsInjective, Times!Range
<1>3. Times!InOrder /\ Times!NotEarly
  BY DEF Times!InOrder, Times!NotEarly
<1>4. Counts
  BY DEF Counts, Times!Range
<1>5. QED
  BY <1>1, <1>2, <1>3, <1>4 DEF TimersInv

\* A timer is placed behind those that are due earlier and before the others.
LEMMA PlaceIs ==
  ASSUME TimersBounds, TimersInv, NEW d \in Nat
  PROVE  /\ Times!Place(d) \in 1..Len(timers) + 1
         /\ \A i \in DOMAIN timers : IF i < Times!Place(d) THEN timer[timers[i]].due <= d
                                                     ELSE d <= timer[timers[i]].due
<1> DEFINE later == {i \in DOMAIN timers : d <= timer[timers[i]].due}
<1>1. timers \in Seq(Timer) /\ \A i \in DOMAIN timers : timers[i] \in Timer
  BY DEF TimersInv, TimerTypes
<1>0. \A i \in DOMAIN timers : timer[timers[i]].due \in Nat
  BY <1>1 DEF TimersInv, TimerTypes, Entries
<1>2. CASE later = {}
  <2>1. Times!Place(d) = Len(timers) + 1
    BY <1>2 DEF Times!Place
  <2>2. \A i \in DOMAIN timers : ~(d <= timer[timers[i]].due)
    BY <1>2
  <2>3. QED
    BY <1>0, <1>1, <2>1, <2>2
<1>3. CASE later # {}
  <2>1. \E i \in later : \A j \in later : i <= j
    <3>1. later \subseteq Nat
      BY <1>1
    <3> HIDE DEF later
    <3>2. QED
      BY <1>3, <3>1, LeastNumber
  <2>2. Times!Place(d) = CHOOSE i \in later : \A j \in later : i <= j
    BY <1>3 DEF Times!Place
  <2>3. Times!Place(d) \in later /\ \A j \in later : Times!Place(d) <= j
    BY <2>1, <2>2
  <2>4. \A i \in DOMAIN timers : i < Times!Place(d) => timer[timers[i]].due <= d
    BY <1>0, <1>1, <2>3
  <2>5. \A i \in DOMAIN timers : i >= Times!Place(d) => d <= timer[timers[i]].due
    <3> SUFFICES ASSUME NEW i \in DOMAIN timers, i >= Times!Place(d) PROVE d <= timer[timers[i]].due
      OBVIOUS
    <3>1. Times!Place(d) \in DOMAIN timers /\ d <= timer[timers[Times!Place(d)]].due
      BY <2>3
    <3>2. timer[timers[Times!Place(d)]].due <= timer[timers[i]].due
      BY <1>0, <1>1, <3>1 DEF TimersInv, Times!InOrder
    <3>3. QED
      BY <1>0, <3>1, <3>2
  <2>6. QED
    BY <1>1, <2>3, <2>4, <2>5
<1>4. QED
  BY <1>2, <1>3

\* A timer that is nowhere is put in its place.
LEMMA Added ==
  ASSUME TimersBounds, TimersInv, NEW t \in Timer, t \notin Times!Range(timers),
         NEW f \in Entries, NEW now \in Nat, Times!AddOrder(t, f, now)
  PROVE  /\ timers' \in Seq(Timer) /\ timer' \in [Timer -> Entries]
         /\ Times!Range(timers') = Times!Range(timers) \union {t}
         /\ Times!IsInjective(timers') /\ Times!InOrder'
         /\ timer'[t].repetitions = f.repetitions
         /\ \A u \in Timer : u # t => timer'[u] = timer[u]
<1> DEFINE d == now + f.interval
           p == Times!Place(d)
<1>1. /\ timers \in Seq(Timer) /\ timer \in [Timer -> Entries] /\ d \in Nat
      /\ \A i \in 1..Len(timers) : timers[i] \in Timer /\ timers[i] # t
  <2>1. timers \in Seq(Timer) /\ timer \in [Timer -> Entries]
    BY DEF TimersInv, TimerTypes
  <2>2. d \in Nat
    <3>1. f.interval \in Intervals \union {0}
      BY DEF Entries
    <3>0. \A x \in Intervals : x \in Nat
      BY DEF TimersBounds
    <3>2. f.interval \in Nat
      <4>1. CASE f.interval \in Intervals
        BY <3>0, <4>1
      <4>2. CASE f.interval = 0
        BY <4>2
      <4>3. QED
        BY <3>1, <4>1, <4>2
    <3>3. QED
      BY <3>2
  <2>3. \A i \in 1..Len(timers) : timers[i] \in Timer /\ timers[i] # t
    BY <2>1 DEF Times!Range
  <2>4. QED
    BY <2>1, <2>2, <2>3
<1>2. timer'[t] = [f EXCEPT !.due = d] /\ timer' = [timer EXCEPT ![t] = [f EXCEPT !.due = d]]
  BY <1>1 DEF Times!AddOrder
<1>3. timer' \in [Timer -> Entries] /\ timer'[t].due = d /\ timer'[t].repetitions = f.repetitions
  <2>1. [f EXCEPT !.due = d] \in Entries
    BY <1>1 DEF Entries
  <2>2. [f EXCEPT !.due = d].due = d /\ [f EXCEPT !.due = d].repetitions = f.repetitions
    BY DEF Entries
  <2>3. QED
    BY <1>1, <1>2, <2>1, <2>2
<1>4. \A u \in Timer : u # t => timer'[u] = timer[u]
  BY <1>1, <1>2
<1>5. /\ p \in 1..Len(timers) + 1
      /\ \A i \in DOMAIN timers : IF i < p THEN timer[timers[i]].due <= d ELSE d <= timer[timers[i]].due
  BY <1>1, PlaceIs
<1>6. PICK q \in Nat : q = p
  BY <1>5
<1>7. /\ timers' \in Seq(Timer) /\ Len(timers') = Len(timers) + 1
      /\ \A k \in 1..Len(timers) + 1 :
            timers'[k] = IF k < q THEN timers[k] ELSE IF k = q THEN t ELSE timers[k - 1]
  <2>1. timers' = Opened(timers, q, t) /\ q \in 1..Len(timers) + 1
    BY <1>5, <1>6 DEF Times!AddOrder, Times!InsertAt, Opened
  <2>2. timers \in Seq(Timer)
    BY <1>1
  <2> HIDE DEF d, p
  <2>3. /\ Opened(timers, q, t) \in Seq(Timer) /\ Len(Opened(timers, q, t)) = Len(timers) + 1
        /\ \A k \in 1..Len(timers) + 1 :
             Opened(timers, q, t)[k] = IF k < q THEN timers[k] ELSE IF k = q THEN t ELSE timers[k - 1]
    <3>1. q \in 1..Len(timers) + 1 /\ t \in Timer
      BY <2>1
    <3>2. QED
      BY <2>2, <3>1, Inserted
  <2>4. QED
    BY <2>1, <2>3, Zenon
<1>8. Times!Range(timers') = Times!Range(timers) \union {t}
  <2>1. Times!Range(timers') = {timers'[k] : k \in 1..Len(timers) + 1}
    BY <1>7 DEF Times!Range
  <2>2. Times!Range(timers) = {timers[k] : k \in 1..Len(timers)}
    BY <1>1 DEF Times!Range
  <2>3. \A k \in 1..Len(timers) + 1 : timers'[k] \in Times!Range(timers) \union {t}
    BY <1>1, <1>5, <1>6, <1>7, <2>2
  <2>4. t = timers'[q] /\ q \in 1..Len(timers) + 1
    BY <1>5, <1>6, <1>7
  <2>5. \A k \in 1..Len(timers) : \E m \in 1..Len(timers) + 1 : timers[k] = timers'[m]
    <3> SUFFICES ASSUME NEW k \in 1..Len(timers) PROVE \E m \in 1..Len(timers) + 1 : timers[k] = timers'[m]
      OBVIOUS
    <3>1. CASE k < q
      BY <1>1, <1>7, <3>1
    <3>2. CASE k >= q
      <4>1. k + 1 \in 1..Len(timers) + 1 /\ ~(k + 1 < q) /\ k + 1 # q /\ (k + 1) - 1 = k
        BY <1>1, <1>6, <3>2
      <4>2. timers'[k + 1] = timers[(k + 1) - 1]
        BY <1>7, <4>1
      <4>3. timers'[k + 1] = timers[k]
        BY <4>1, <4>2
      <4>4. QED
        BY <4>1, <4>3
    <3>3. QED
      BY <1>1, <1>6, <3>1, <3>2
  <2>6. QED
    BY <2>1, <2>2, <2>3, <2>4, <2>5
<1>9. Times!IsInjective(timers')
  <2>1. \A i, j \in 1..Len(timers) : timers[i] = timers[j] => i = j
    BY <1>1 DEF TimersInv, Times!OnePlace, Times!IsInjective
  <2>2. DOMAIN timers' = 1..Len(timers) + 1
    BY <1>7
  <2>3. ASSUME NEW i \in 1..Len(timers) + 1, NEW j \in 1..Len(timers) + 1, timers'[i] = timers'[j]
        PROVE  i = j
    <3>1. Len(timers) \in Nat
      BY <1>1
    <3>2. CASE i = q \/ j = q
      <4>1. \A k \in 1..Len(timers) + 1 : k # q => timers'[k] # t
        <5> SUFFICES ASSUME NEW k \in 1..Len(timers) + 1, k # q PROVE timers'[k] # t
          OBVIOUS
        <5>1. timers'[k] = timers[IF k < q THEN k ELSE k - 1]
          BY <1>7
        <5>2. (IF k < q THEN k ELSE k - 1) \in 1..Len(timers)
          BY <1>5, <1>6, <3>1
        <5>3. QED
          BY <1>1, <5>1, <5>2
      <4>2. timers'[q] = t \/ q \notin 1..Len(timers) + 1
        BY <1>6, <1>7
      <4>3. QED
        BY <2>3, <3>2, <4>1, <4>2
    <3>3. CASE i # q /\ j # q
      <4>1. timers'[i] = timers[IF i < q THEN i ELSE i - 1] /\ timers'[j] = timers[IF j < q THEN j ELSE j - 1]
        BY <1>7, <3>3
      <4>2. (IF i < q THEN i ELSE i - 1) \in 1..Len(timers) /\ (IF j < q THEN j ELSE j - 1) \in 1..Len(timers)
        BY <1>5, <1>6, <3>1, <3>3
      <4>3. (IF i < q THEN i ELSE i - 1) = (IF j < q THEN j ELSE j - 1)
        BY <2>1, <2>3, <4>1, <4>2
      <4>4. QED
        BY <1>6, <3>3, <4>3
    <3>4. QED
      BY <3>2, <3>3
  <2>4. QED
    BY <2>2, <2>3 DEF Times!IsInjective
<1>10. Times!InOrder'
  <2>1. DOMAIN timers' = 1..Len(timers) + 1
    BY <1>7
  <2>2. \A k \in 1..Len(timers) : timer'[timers[k]].due = timer[timers[k]].due /\ timer[timers[k]].due \in Nat
    BY <1>1, <1>4 DEF Entries
  <2>3. \A i, j \in 1..Len(timers) : i < j => timer[timers[i]].due <= timer[timers[j]].due
    BY <1>1 DEF TimersInv, Times!InOrder
  <2>4. \A i \in 1..Len(timers) : IF i < q THEN timer[timers[i]].due <= d ELSE d <= timer[timers[i]].due
    BY <1>1, <1>5, <1>6
  <2>5. SUFFICES ASSUME NEW i \in 1..Len(timers) + 1, NEW j \in 1..Len(timers) + 1, i < j
                 PROVE  timer'[timers'[i]].due <= timer'[timers'[j]].due
    BY <2>1 DEF Times!InOrder
  <2>0. Len(timers) \in Nat /\ q \in 1..Len(timers) + 1
    BY <1>1, <1>5, <1>6
  <2>6. CASE j < q
    <3>1. timers'[i] = timers[i] /\ timers'[j] = timers[j]
      BY <1>7, <2>0, <2>5, <2>6
    <3>2. i \in 1..Len(timers) /\ j \in 1..Len(timers)
      BY <2>0, <2>5, <2>6
    <3>3. QED
      BY <2>2, <2>3, <2>5, <3>1, <3>2
  <2>7. CASE j = q
    <3>1. i \in 1..Len(timers) /\ timers'[i] = timers[i] /\ timers'[j] = t
      BY <1>1, <1>6, <1>7, <2>5, <2>7
    <3>2. QED
      BY <1>3, <2>2, <2>4, <2>5, <2>7, <3>1
  <2>8. CASE j > q /\ i < q
    <3>1. i \in 1..Len(timers) /\ timers'[i] = timers[i] /\ j - 1 \in 1..Len(timers) /\ timers'[j] = timers[j - 1]
      BY <1>1, <1>6, <1>7, <2>5, <2>8
    <3>2. timer[timers[i]].due <= d /\ d <= timer[timers[j - 1]].due
      BY <2>4, <2>8, <3>1
    <3>3. QED
      BY <1>1, <2>2, <3>1, <3>2
  <2>9. CASE j > q /\ i = q
    <3>1. timers'[i] = t /\ j - 1 \in 1..Len(timers) /\ timers'[j] = timers[j - 1] /\ ~(j - 1 < q)
      BY <1>1, <1>6, <1>7, <2>5, <2>9
    <3>2. QED
      BY <1>3, <2>2, <2>4, <3>1
  <2>10. CASE i > q
    <3>1. /\ i - 1 \in 1..Len(timers) /\ timers'[i] = timers[i - 1]
          /\ j - 1 \in 1..Len(timers) /\ timers'[j] = timers[j - 1] /\ i - 1 < j - 1
      <4>1. i - 1 \in 1..Len(timers) /\ j - 1 \in 1..Len(timers) /\ i - 1 < j - 1 /\ ~(i < q) /\ i # q /\ ~(j < q) /\ j # q
        BY <2>0, <2>5, <2>10
      <4>2. QED
        BY <1>7, <4>1
    <3>2. QED
      BY <2>2, <2>3, <3>1
  <2>11. QED
    BY <1>6, <2>5, <2>6, <2>7, <2>8, <2>9, <2>10
<1>11. QED
  BY <1>3, <1>4, <1>7, <1>8, <1>9, <1>10

\* fio_run_every puts a timer in the list or refuses it.
LEMMA RunEveryStep ==
  ASSUME TimersBounds, TimersInv, NEW t \in Timer, NEW ms \in Intervals, NEW reps \in Repetitions,
         Times!RunEvery(t, ms, reps)
  PROVE  TimersInv'
<1> USE DEF TimersBounds
<1>1. /\ t \notin Times!Range(timers) /\ t \notin deferred /\ t \notin running /\ finished[t] = 0 /\ runs[t] = 0
      /\ UNCHANGED <<deferred, running, clock, runs, finished, phase>>
  BY DEF TimersInv, Times!RunEvery, Times!Free, Times!Started, Counts
<1>2. CASE ms = 0 /\ reps = 0
  <2>1. UNCHANGED <<timer, timers, last_cycle>> /\ refused' = refused \union {t}
    BY <1>2 DEF Times!RunEvery
  <2>2. TimerTypes'
    BY <1>1, <2>1 DEF TimersInv, TimerTypes
  <2>3. Times!OnePlace' /\ Times!InOrder' /\ Times!NotEarly' /\ Counts'
    BY <1>1, <2>1 DEF TimersInv, Times!OnePlace, Times!InOrder, Times!NotEarly, Counts, Times!Started
  <2>4. QED
    BY <2>2, <2>3 DEF TimersInv
<1>3. CASE ~(ms = 0 /\ reps = 0)
  <2> DEFINE f == [Times!NoTimer EXCEPT !.interval = ms, !.repetitions = reps]
  <2>1. f \in Entries /\ f.repetitions = reps
    BY DEF Times!NoTimer, Entries
  <2>2. last_cycle' = clock /\ Times!AddOrder(t, f, clock) /\ UNCHANGED refused
    BY <1>3 DEF Times!RunEvery
  <2>3. /\ timers' \in Seq(Timer) /\ timer' \in [Timer -> Entries]
        /\ Times!Range(timers') = Times!Range(timers) \union {t}
        /\ Times!IsInjective(timers') /\ Times!InOrder'
        /\ timer'[t].repetitions = f.repetitions
        /\ \A u \in Timer : u # t => timer'[u] = timer[u]
    <3> HIDE DEF f
    <3>1. clock \in Nat
      BY DEF TimersInv, TimerTypes
    <3>2. QED
      BY <1>1, <2>1, <2>2, <3>1, Added
  <2> HIDE DEF f
  <2>4. TimerTypes'
    BY <1>1, <2>2, <2>3 DEF TimersInv, TimerTypes
  <2>5. Times!OnePlace'
    BY <1>1, <2>3 DEF TimersInv, Times!OnePlace, Times!Started
  <2>6. Times!NotEarly'
    <3>1. \A u \in deferred \union running : timer'[u] = timer[u] /\ timer[u].due \in Nat
      BY <1>1, <2>3 DEF TimersInv, TimerTypes, Entries
    <3>2. last_cycle <= clock /\ last_cycle \in Nat /\ clock \in Nat
      BY DEF TimersInv, TimerTypes
    <3>3. QED
      BY <1>1, <2>2, <3>1, <3>2 DEF TimersInv, Times!NotEarly
  <2>7. Counts'
    <3>1. \A u \in Times!Range(timers) \union deferred \union running : u \in Timer /\ timer'[u] = timer[u]
      BY <1>1, <2>3 DEF TimersInv, TimerTypes, Times!Range
    <3>2. runs[t] + timer'[t].repetitions \in Repetitions
      <4>1. timer'[t].repetitions = reps /\ runs[t] = 0
        BY <1>1, <2>1, <2>3, Zenon
      <4>2. reps + 0 = reps /\ 0 + reps = reps
        BY DEF TimersBounds
      <4>3. QED
        BY <4>1, <4>2, Zenon
    <3>3. QED
      BY <1>1, <2>3, <3>1, <3>2 DEF TimersInv, Counts, Times!Started
  <2>8. QED
    BY <2>3, <2>4, <2>5, <2>6, <2>7 DEF TimersInv
<1>4. QED
  BY <1>2, <1>3

\* fio_timer_schedule takes those that are due from the head of the list.
LEMMA ScheduleStep == ASSUME TimersBounds, TimersInv, Times!Schedule PROVE TimersInv'
<1>1. PICK n : n = Times!DueBy(clock)
  OBVIOUS
<1>2. timers \in Seq(Timer) /\ timer \in [Timer -> Entries] /\ last_cycle \in Nat /\ clock \in Nat /\ last_cycle <= clock
  BY DEF TimersInv, TimerTypes
<1>3. n \in 0..Len(timers) /\ \A k \in 1..n : timer[timers[k]].due <= clock
  <2> DEFINE S == {i \in DOMAIN timers : \A j \in 1..i : timer[timers[j]].due <= clock}
  <2>1. S \subseteq 1..Len(timers) /\ \A i \in S : 1..i \subseteq S
    BY <1>2
  <2>2. n = Cardinality(S)
    BY <1>1, TimesCount DEF Times!DueBy
  <2>3. n \in 0..Len(timers) /\ S = 1..n
    <3> HIDE DEF S
    <3>1. Len(timers) \in Nat
      BY <1>2
    <3>2. QED
      BY <2>1, <2>2, <3>1, CountedFromFirst
  <2>4. \A i \in S : timer[timers[i]].due <= clock
    BY <1>2
  <2>5. QED
    BY <2>3, <2>4
<1>4. /\ last_cycle' = clock /\ timers' = SubSeq(timers, n + 1, Len(timers))
      /\ deferred' = deferred \union {timers[i] : i \in 1..n}
      /\ UNCHANGED <<running, timer, clock, runs, finished, refused, phase>>
  BY <1>1 DEF Times!Schedule
<1>5. /\ timers' \in Seq(Timer) /\ Len(timers') = Len(timers) - n
      /\ \A k \in 1..Len(timers) - n : timers'[k] = timers[n + k]
  BY <1>2, <1>3, <1>4, Dropped
<1>6. \A i, j \in 1..Len(timers) : timers[i] = timers[j] => i = j
  BY <1>2 DEF TimersInv, Times!OnePlace, Times!IsInjective
<1>7. Times!Range(timers) = {timers[k] : k \in 1..Len(timers)}
  BY <1>2 DEF Times!Range
<1>8. Times!Range(timers') = {timers[n + k] : k \in 1..Len(timers) - n}
  BY <1>5 DEF Times!Range
<1>9. /\ Times!Range(timers') \union deferred' = Times!Range(timers) \union deferred
      /\ Times!Range(timers') \intersect {timers[i] : i \in 1..n} = {}
      /\ Times!Range(timers') \subseteq Times!Range(timers) /\ {timers[i] : i \in 1..n} \subseteq Times!Range(timers)
  <2>1. \A k \in 1..Len(timers) : k \in 1..n \/ (k - n \in 1..Len(timers) - n /\ n + (k - n) = k)
    BY <1>2, <1>3
  <2>2. \A k \in 1..Len(timers) - n : n + k \in 1..Len(timers) /\ n + k \notin 1..n
    BY <1>2, <1>3
  <2>3. \A k \in 1..n : k \in 1..Len(timers)
    BY <1>2, <1>3
  <2>4. Times!Range(timers') \subseteq Times!Range(timers) /\ {timers[i] : i \in 1..n} \subseteq Times!Range(timers)
    BY <1>7, <1>8, <2>2, <2>3
  <2>5. \A x \in Times!Range(timers) : x \in Times!Range(timers') \/ x \in {timers[i] : i \in 1..n}
    <3> SUFFICES ASSUME NEW k \in 1..Len(timers)
                 PROVE  timers[k] \in Times!Range(timers') \/ timers[k] \in {timers[i] : i \in 1..n}
      BY <1>7
    <3>1. CASE k \in 1..n
      BY <3>1
    <3>2. CASE k \notin 1..n
      <4>1. k - n \in 1..Len(timers) - n /\ timers[n + (k - n)] = timers[k]
        BY <2>1, <3>2
      <4>2. timers[n + (k - n)] \in Times!Range(timers')
        BY <1>8, <4>1
      <4>3. QED
        BY <4>1, <4>2
    <3>3. QED
      BY <3>1, <3>2
  <2>6. Times!Range(timers') \intersect {timers[i] : i \in 1..n} = {}
    BY <1>6, <1>8, <2>2, <2>3
  <2>7. QED
    BY <1>4, <2>4, <2>5, <2>6
<1>10. TimerTypes'
  <2>1. {timers[i] : i \in 1..n} \subseteq Timer
    BY <1>2, <1>3
  <2>2. QED
    BY <1>4, <1>5, <2>1 DEF TimersInv, TimerTypes
<1>11. Times!IsInjective(timers')
  <2>1. DOMAIN timers' = 1..Len(timers) - n
    BY <1>2, <1>3, <1>5
  <2>2. ASSUME NEW i \in 1..Len(timers) - n, NEW j \in 1..Len(timers) - n, timers'[i] = timers'[j] PROVE i = j
    <3>1. n + i \in 1..Len(timers) /\ n + j \in 1..Len(timers) /\ timers[n + i] = timers[n + j]
      BY <1>2, <1>3, <1>5, <2>2
    <3>2. n + i = n + j
      BY <1>6, <3>1
    <3>3. QED
      BY <1>3, <3>2
  <2>3. QED
    BY <2>1, <2>2 DEF Times!IsInjective
<1>12. Times!OnePlace'
  <2>1. /\ Times!Range(timers) \intersect (deferred \union running) = {} /\ deferred \intersect running = {}
        /\ \A t \in Timer : finished[t] > 0 => t \notin Times!Range(timers) \union deferred \union running
    BY DEF TimersInv, Times!OnePlace, Times!Started
  <2>2. Times!Range(timers') \intersect (deferred' \union running') = {} /\ deferred' \intersect running' = {}
    BY <1>4, <1>9, <2>1
  <2>3. \A t \in Timer : finished'[t] > 0 => t \notin Times!Range(timers') \union deferred' \union running'
    BY <1>4, <1>9, <2>1
  <2>4. QED
    BY <1>11, <2>2, <2>3 DEF Times!OnePlace, Times!Started
<1>13. Times!InOrder'
  <2>1. DOMAIN timers' = 1..Len(timers) - n
    BY <1>2, <1>3, <1>5
  <2>2. SUFFICES ASSUME NEW i \in 1..Len(timers) - n, NEW j \in 1..Len(timers) - n, i < j
                 PROVE  timer'[timers'[i]].due <= timer'[timers'[j]].due
    BY <2>1 DEF Times!InOrder
  <2>3. n + i \in DOMAIN timers /\ n + j \in DOMAIN timers /\ n + i < n + j
    BY <1>2, <1>3, <2>2
  <2>4. timer[timers[n + i]].due <= timer[timers[n + j]].due
    BY <2>3 DEF TimersInv, Times!InOrder
  <2>5. QED
    BY <1>4, <1>5, <2>4
<1>14. Times!NotEarly'
  <2>1. \A t \in deferred \union running : timer[t].due \in Nat /\ timer[t].due <= last_cycle
    BY <1>2 DEF TimersInv, TimerTypes, Times!NotEarly, Entries
  <2>2. \A t \in deferred \union running : timer[t].due <= clock
    BY <1>2, <2>1
  <2>3. QED
    BY <1>3, <1>4, <2>2 DEF Times!NotEarly
<1>15. Counts'
  BY <1>4, <1>9 DEF TimersInv, Counts, Times!Started
<1>16. QED
  BY <1>10, <1>12, <1>13, <1>14, <1>15 DEF TimersInv

\* A thread takes a timer from the queue.
LEMMA PerformStep == ASSUME TimersBounds, TimersInv, NEW t \in Timer, Times!Perform(t) PROVE TimersInv'
<1>1. /\ t \in deferred /\ deferred' = deferred \ {t} /\ running' = running \union {t}
      /\ runs' = [runs EXCEPT ![t] = IF timer[t].repetitions = 0 THEN 1 ELSE @ + 1]
      /\ UNCHANGED <<timers, timer, last_cycle, clock, finished, refused, phase>>
  BY DEF Times!Perform
<1>2. TimerTypes'
  BY <1>1 DEF TimersInv, TimerTypes
<1>3. Times!OnePlace' /\ Times!InOrder' /\ Times!NotEarly'
  BY <1>1 DEF TimersInv, Times!OnePlace, Times!InOrder, Times!NotEarly, Times!Started
<1>4. Counts'
  <2>1. t \notin Times!Range(timers) /\ t \notin running /\ t \in Timer /\ timer[t].repetitions \in Nat /\ runs[t] \in Nat
    BY <1>1 DEF TimersInv, Times!OnePlace, TimerTypes, Entries
  <2>2. \A u \in Timer : u # t => runs'[u] = runs[u]
    BY <1>1 DEF TimersInv, TimerTypes
  <2>3. timer[t].repetitions > 0 => runs'[t] + timer[t].repetitions - 1 \in Repetitions
    <3> SUFFICES ASSUME timer[t].repetitions > 0 PROVE runs'[t] + timer[t].repetitions - 1 \in Repetitions
      OBVIOUS
    <3>1. runs'[t] = runs[t] + 1
      BY <1>1, <2>1 DEF TimersInv, TimerTypes
    <3>2. runs[t] + timer[t].repetitions \in Repetitions
      BY <1>1 DEF TimersInv, Counts
    <3>3. (runs[t] + 1) + timer[t].repetitions - 1 = runs[t] + timer[t].repetitions
      BY <2>1
    <3>4. QED
      BY <3>1, <3>2, <3>3
  <2>4. Times!Range(timers) \subseteq Timer /\ deferred \subseteq Timer /\ running \subseteq Timer
    BY DEF TimersInv, TimerTypes, Times!Range
  <2>5. Times!Started' = Times!Started
    BY <1>1 DEF Times!Started
  <2>6. t \in Times!Started
    BY <1>1 DEF Times!Started
  <2>7. \A u \in Timer : u \notin Times!Started' /\ finished'[u] = 0 => runs'[u] = 0
    BY <1>1, <2>2, <2>5, <2>6 DEF TimersInv, Counts
  <2>8. \A u \in Times!Range(timers') \union deferred' :
          timer'[u].repetitions > 0 => runs'[u] + timer'[u].repetitions \in Repetitions
    BY <1>1, <2>1, <2>2, <2>4 DEF TimersInv, Counts
  <2>9. \A u \in running' : timer'[u].repetitions > 0 => runs'[u] + timer'[u].repetitions - 1 \in Repetitions
    BY <1>1, <2>1, <2>2, <2>3, <2>4 DEF TimersInv, Counts
  <2>10. QED
    BY <2>7, <2>8, <2>9 DEF Counts
<1>5. QED
  BY <1>2, <1>3, <1>4 DEF TimersInv

\* fio_timer_perform_single puts a timer back that has repetitions left.
LEMMA RescheduleStep == ASSUME TimersBounds, TimersInv, NEW t \in Timer, Times!Reschedule(t) PROVE TimersInv'
<1> DEFINE f == [timer[t] EXCEPT !.repetitions = IF @ = 0 THEN 0 ELSE @ - 1]
<1>1. /\ t \in running /\ running' = running \ {t}
      /\ timer[t].repetitions = 0 \/ timer[t].repetitions - 1 > 0
      /\ Times!AddOrder(t, f, last_cycle)
      /\ UNCHANGED <<deferred, last_cycle, clock, runs, finished, refused, phase>>
  BY DEF Times!Reschedule, Times!Left
<1>2. /\ t \notin Times!Range(timers) /\ t \notin deferred /\ finished[t] = 0
      /\ timer[t] \in Entries /\ timer[t].repetitions \in Nat /\ runs[t] \in Nat
  BY <1>1 DEF TimersInv, Times!OnePlace, Times!Started, TimerTypes, Entries
<1>3. f \in Entries /\ f.repetitions = IF timer[t].repetitions = 0 THEN 0 ELSE timer[t].repetitions - 1
  BY <1>2 DEF Entries
<1>4. /\ timers' \in Seq(Timer) /\ timer' \in [Timer -> Entries]
      /\ Times!Range(timers') = Times!Range(timers) \union {t}
      /\ Times!IsInjective(timers') /\ Times!InOrder'
      /\ timer'[t].repetitions = f.repetitions
      /\ \A u \in Timer : u # t => timer'[u] = timer[u]
  <2> HIDE DEF f
  <2>1. last_cycle \in Nat
    BY DEF TimersInv, TimerTypes
  <2>2. QED
    BY <1>1, <1>2, <1>3, <2>1, Added
<1> HIDE DEF f
<1>5. TimerTypes'
  BY <1>1, <1>4 DEF TimersInv, TimerTypes
<1>6. Times!OnePlace'
  BY <1>1, <1>2, <1>4 DEF TimersInv, Times!OnePlace, Times!Started
<1>7. Times!NotEarly'
  <2>1. \A u \in deferred' \union running' : u \in deferred \union running /\ u \in Timer /\ u # t
    BY <1>1, <1>2 DEF TimersInv, TimerTypes
  <2>2. QED
    BY <1>1, <1>4, <2>1 DEF TimersInv, Times!NotEarly
<1>8. Counts'
  <2>1. timer'[t].repetitions > 0 => runs[t] + timer'[t].repetitions \in Repetitions
    <3> SUFFICES ASSUME timer'[t].repetitions > 0 PROVE runs[t] + timer'[t].repetitions \in Repetitions
      OBVIOUS
    <3>1. timer[t].repetitions > 0 /\ timer'[t].repetitions = timer[t].repetitions - 1
      BY <1>2, <1>3, <1>4
    <3>2. runs[t] + timer[t].repetitions - 1 \in Repetitions
      BY <1>1, <3>1 DEF TimersInv, Counts
    <3>3. runs[t] + (timer[t].repetitions - 1) = runs[t] + timer[t].repetitions - 1
      BY <1>2
    <3>4. QED
      BY <3>1, <3>2, <3>3
  <2>2. Times!Range(timers) \subseteq Timer /\ deferred \subseteq Timer /\ running \subseteq Timer
    BY DEF TimersInv, TimerTypes, Times!Range
  <2>3. Times!Started' = Times!Started
    BY <1>1, <1>4 DEF Times!Started
  <2>4. \A u \in Timer : u \notin Times!Started' /\ finished'[u] = 0 => runs'[u] = 0
    BY <1>1, <2>3 DEF TimersInv, Counts
  <2>5. \A u \in Times!Range(timers') \union deferred' :
          timer'[u].repetitions > 0 => runs'[u] + timer'[u].repetitions \in Repetitions
    BY <1>1, <1>2, <1>4, <2>1, <2>2 DEF TimersInv, Counts
  <2>6. \A u \in running' : timer'[u].repetitions > 0 => runs'[u] + timer'[u].repetitions - 1 \in Repetitions
    BY <1>1, <1>4, <2>2 DEF TimersInv, Counts
  <2>7. QED
    BY <2>4, <2>5, <2>6 DEF Counts
<1>9. QED
  BY <1>4, <1>5, <1>6, <1>7, <1>8 DEF TimersInv

\* fio_timer_perform_single finishes with one that has none.
LEMMA FinishStep == ASSUME TimersBounds, TimersInv, NEW t \in Timer, Times!Finish(t) PROVE TimersInv'
<1>1. /\ t \in running /\ running' = running \ {t}
      /\ finished' = [finished EXCEPT ![t] = @ + 1] /\ timer' = [timer EXCEPT ![t] = Times!NoTimer]
      /\ UNCHANGED <<timers, deferred, last_cycle, clock, runs, refused, phase>>
  BY DEF Times!Finish
<1>2. t \notin Times!Range(timers) /\ t \notin deferred /\ finished[t] = 0
  BY <1>1 DEF TimersInv, Times!OnePlace, Times!Started, TimerTypes
<1>3. Times!Range(timers) \subseteq Timer /\ deferred \subseteq Timer /\ running \subseteq Timer
  BY DEF TimersInv, TimerTypes, Times!Range
<1>4. \A u \in Timer : u # t => timer'[u] = timer[u] /\ finished'[u] = finished[u]
  BY <1>1 DEF TimersInv, TimerTypes
<1>5. finished'[t] = 1
  BY <1>1, <1>2 DEF TimersInv, TimerTypes
<1>6. TimerTypes'
  <2>1. Times!NoTimer \in Entries
    BY DEF Times!NoTimer, Entries
  <2>2. finished' \in [Timer -> 0..1]
    BY <1>1, <1>2 DEF TimersInv, TimerTypes
  <2>3. QED
    BY <1>1, <2>1, <2>2 DEF TimersInv, TimerTypes
<1>7. Times!OnePlace'
  BY <1>1, <1>2, <1>4, <1>5 DEF TimersInv, Times!OnePlace, Times!Started
<1>8. Times!InOrder'
  <2>1. \A i \in DOMAIN timers : timers[i] \in Timer /\ timers[i] # t
    BY <1>2, <1>3 DEF Times!Range
  <2>2. QED
    BY <1>1, <1>4, <2>1 DEF TimersInv, Times!InOrder
<1>9. Times!NotEarly'
  BY <1>1, <1>2, <1>3, <1>4 DEF TimersInv, Times!NotEarly
<1>10. Counts'
  <2>1. \A u \in Timer : u \notin Times!Started' /\ finished'[u] = 0 => runs'[u] = 0
    BY <1>1, <1>4, <1>5 DEF TimersInv, Counts, Times!Started
  <2>2. \A u \in Times!Range(timers') \union deferred' \union running' : u \in Timer /\ u # t
    BY <1>1, <1>2, <1>3
  <2>3. QED
    BY <1>1, <1>4, <2>1, <2>2 DEF TimersInv, Counts
<1>11. QED
  BY <1>6, <1>7, <1>8, <1>9, <1>10 DEF TimersInv

\* fio_timer_clear_all ends what is left.
LEMMA ClearAllStep == ASSUME TimersBounds, TimersInv, Times!ClearAll PROVE TimersInv'
<1>1. /\ deferred = {} /\ running = {} /\ timers' = <<>> /\ phase' = "cleared"
      /\ finished' = [t \in Timer |-> finished[t] + (IF t \in Times!Range(timers) THEN 1 ELSE 0)]
      /\ UNCHANGED <<deferred, running, timer, last_cycle, clock, runs, refused>>
  BY DEF Times!ClearAll, Times!QueueEmpty
<1>2. Times!Range(timers') = {} /\ Times!Started' = {}
  BY <1>1 DEF Times!Range, Times!Started
<1>3. \A t \in Timer : finished[t] \in 0..1 /\ (t \in Times!Range(timers) => finished[t] = 0)
  BY DEF TimersInv, TimerTypes, Times!OnePlace, Times!Started
<1>4. finished' \in [Timer -> 0..1] /\ \A t \in Timer : finished'[t] = 0 => finished[t] = 0 /\ t \notin Times!Range(timers)
  BY <1>1, <1>3
<1>5. TimerTypes'
  BY <1>1, <1>4 DEF TimersInv, TimerTypes
<1>6. Times!OnePlace'
  BY <1>1, <1>2 DEF Times!OnePlace, Times!IsInjective
<1>7. Times!InOrder' /\ Times!NotEarly'
  BY <1>1 DEF Times!InOrder, Times!NotEarly
<1>8. Counts'
  <2>1. \A t \in Timer : finished'[t] = 0 => runs'[t] = 0
    BY <1>1, <1>4 DEF TimersInv, Counts, Times!Started
  <2>2. QED
    BY <1>1, <1>2, <2>1 DEF Counts
<1>9. QED
  BY <1>5, <1>6, <1>7, <1>8 DEF TimersInv

\* Every step keeps the invariant.
LEMMA TimersStep == ASSUME TimersBounds, TimersInv, [Times!Next]_Times!vars PROVE TimersInv'
<1>1. CASE Times!Tick
  <2>1. TimerTypes'
    BY <1>1 DEF Times!Tick, TimersBounds, TimersInv, TimerTypes
  <2>2. Times!OnePlace' /\ Times!InOrder' /\ Times!NotEarly' /\ Counts'
    BY <1>1 DEF Times!Tick, TimersInv, Times!OnePlace, Times!InOrder, Times!NotEarly, Counts, Times!Started
  <2>3. QED
    BY <2>1, <2>2 DEF TimersInv
<1>2. CASE Times!Unwind \/ UNCHANGED Times!vars
  <2>1. TimerTypes'
    BY <1>2 DEF Times!Unwind, Times!vars, TimersInv, TimerTypes
  <2>2. Times!OnePlace' /\ Times!InOrder' /\ Times!NotEarly' /\ Counts'
    BY <1>2 DEF Times!Unwind, Times!vars, TimersInv, Times!OnePlace, Times!InOrder, Times!NotEarly, Counts,
         Times!Started
  <2>3. QED
    BY <2>1, <2>2 DEF TimersInv
<1>3. QED
  BY <1>1, <1>2, RunEveryStep, ScheduleStep, PerformStep, RescheduleStep, FinishStep, ClearAllStep
  DEF Times!Next, Times!Work

\* So it always holds.
LEMMA TimersHolds == ASSUME TimersBounds PROVE Times!Spec => []TimersInv
<1>1. Times!Init => TimersInv
  BY TimersInit
<1>2. TimersInv /\ [Times!Next]_Times!vars => TimersInv'
  BY TimersStep
<1>3. QED
  BY <1>1, <1>2, PTL DEF Times!Spec

\* Timers keep their types.
THEOREM TimersTypeOK == ASSUME TimersBounds PROVE Times!Spec => []Times!TypeOK
<1>1. TimersInv => Times!TypeOK
  BY DEF TimersInv, TimerTypes, Times!TypeOK, Entries, Times!Range
<1>2. QED
  BY <1>1, TimersHolds, PTL

\* A timer is in the list, in the queue or with a thread, and never in two of them: no
\* two threads run it and none frees it under another.
THEOREM TimersOnePlace == ASSUME TimersBounds PROVE Times!Spec => []Times!OnePlace
<1>1. TimersInv => Times!OnePlace
  BY DEF TimersInv
<1>2. QED
  BY <1>1, TimersHolds, PTL

\* The list stays in order of due times, whatever threads put back while the reactor
\* takes out.
THEOREM TimersInOrder == ASSUME TimersBounds PROVE Times!Spec => []Times!InOrder
<1>1. TimersInv => Times!InOrder
  BY DEF TimersInv
<1>2. QED
  BY <1>1, TimersHolds, PTL

\* No timer runs before it is due.
THEOREM TimersNotEarly == ASSUME TimersBounds PROVE Times!Spec => []Times!NotEarly
<1>1. TimersInv => Times!NotEarly
  BY DEF TimersInv
<1>2. QED
  BY <1>1, TimersHolds, PTL

\* A timer that finishes by itself has used up its repetitions.
LEMMA RunsAsAskedStep ==
  ASSUME TimersBounds, TimersInv, [Times!Next]_Times!vars, NEW t \in Timer, t \in running, t \notin running',
         finished'[t] = 1
  PROVE  runs[t] \in Repetitions
<1>1. finished[t] = 0 /\ timer[t].repetitions \in Nat /\ runs[t] \in Nat
  BY DEF TimersInv, TimerTypes, Times!OnePlace, Times!Started, Entries
<1>2. Times!Finish(t)
  <2>1. \A u \in Timer : ~Times!Perform(u)
    BY DEF Times!Perform
  <2>2. \A u \in Timer : ~Times!Reschedule(u)
    BY <1>1 DEF Times!Reschedule
  <2>3. \A u \in Timer : Times!Finish(u) => u = t
    BY DEF Times!Finish
  <2>4. UNCHANGED running \/ Times!Work
    BY DEF Times!Next, Times!RunEvery, Times!Tick, Times!Schedule, Times!Unwind, Times!ClearAll, Times!vars
  <2>5. QED
    BY <2>1, <2>2, <2>3, <2>4 DEF Times!Work
<1>3. timer[t].repetitions = 1
  BY <1>1, <1>2 DEF Times!Finish, Times!Left
<1>4. runs[t] + 1 - 1 \in Repetitions
  BY <1>3 DEF TimersInv, Counts
<1>5. runs[t] + 1 - 1 = runs[t]
  BY <1>1
<1>6. QED
  BY <1>4, <1>5

\* A timer of fio_run_every that finishes by itself has run as often as asked.
THEOREM TimersRunsAsAsked == ASSUME TimersBounds PROVE Times!Spec => RunsAsAsked
<1>1. TimersInv /\ [Times!Next]_Times!vars =>
        [\A t \in Timer : t \in running /\ t \notin running' /\ finished'[t] = 1 => runs[t] \in Repetitions]_Times!vars
  BY RunsAsAskedStep
<1>2. QED
  BY <1>1, TimersHolds, PTL DEF Times!Spec, Times!RunsAsAsked, RunsAsAsked

----------------------------------------------------------------------------
\* What sequences put together one after the other are, when the first or the last of them
\* changes.

\* f puts together the first sequences of ss, one after the other.
Puts(n, ss, f) ==
    /\ f[1] = ss[1]
    /\ \A i \in 2..n : f[i] = f[i - 1] \o ss[i]

\* There is one.
LEMMA PutsExists ==
  ASSUME NEW S, NEW n \in Nat \ {0}, NEW ss \in [1..n -> Seq(S)]
  PROVE  \E f \in [1..n -> Seq(S)] : Puts(n, ss, f)
<1> DEFINE Upto(k) == \E f \in [1..k -> Seq(S)] : Puts(k, ss, f)
           Bad == {k \in 1..n : ~Upto(k)}
<1>1. Bad \subseteq 1..n /\ \A k \in 1..n : k \in Bad <=> ~Upto(k)
  OBVIOUS
<1> HIDE DEF Upto, Bad
<1>2. Bad \subseteq Nat
  BY <1>1
<1>3. ASSUME Bad # {} PROVE FALSE
  <2>1. PICK m \in Bad : \A k \in Bad : m <= k
    BY <1>2, <1>3, LeastNumber
  <2>2. m \in 1..n /\ ss[m] \in Seq(S)
    BY <1>1, <2>1
  <2>3. CASE m = 1
    <3> DEFINE f == [i \in 1..1 |-> ss[1]]
    <3>1. f \in [1..1 -> Seq(S)] /\ f[1] = ss[1]
      OBVIOUS
    <3>2. Puts(1, ss, f)
      BY <3>1 DEF Puts
    <3>3. Upto(m)
      BY <2>3, <3>1, <3>2 DEF Upto
    <3>4. QED
      BY <1>1, <2>1, <2>2, <3>3
  <2>4. CASE m # 1
    <3>1. m - 1 \in 1..n /\ m - 1 \notin Bad
      BY <2>1, <2>2, <2>4
    <3>2. Upto(m - 1)
      BY <1>1, <3>1
    <3>3. PICK f \in [1..m - 1 -> Seq(S)] : Puts(m - 1, ss, f)
      BY <3>2 DEF Upto
    <3>4. f[m - 1] \o ss[m] \in Seq(S)
      BY <2>2, <3>1, <3>3, ConcatProperties
    <3> DEFINE g == [i \in 1..m |-> IF i = m THEN f[m - 1] \o ss[m] ELSE f[i]]
    <3>5. ASSUME NEW i \in 1..m PROVE g[i] \in Seq(S)
      <4>1. i # m => i \in 1..m - 1
        BY <2>2
      <4>2. QED
        BY <3>3, <3>4, <4>1
    <3>6. g \in [1..m -> Seq(S)] /\ \A i \in 1..m : g[i] = IF i = m THEN f[m - 1] \o ss[m] ELSE f[i]
      BY <3>5
    <3> HIDE DEF g
    <3>7. g[1] = ss[1]
      <4>1. 1 \in 1..m /\ m # 1
        BY <2>2, <2>4
      <4>2. QED
        BY <3>3, <3>6, <4>1 DEF Puts
    <3>8. ASSUME NEW i \in 2..m PROVE g[i] = g[i - 1] \o ss[i]
      <4>1. i \in 1..m /\ i - 1 \in 1..m /\ i - 1 # m /\ m \in Nat
        BY <2>2
      <4>2. g[i - 1] = f[i - 1]
        BY <3>6, <4>1
      <4>3. CASE i = m
        BY <3>6, <4>1, <4>2, <4>3
      <4>4. CASE i # m
        <5>1. i \in 2..m - 1
          BY <4>1, <4>4
        <5>2. g[i] = f[i] /\ f[i] = f[i - 1] \o ss[i]
          BY <3>3, <3>6, <4>1, <4>4, <5>1 DEF Puts
        <5>3. QED
          BY <4>2, <5>2
      <4>5. QED
        BY <4>3, <4>4
    <3>9. Upto(m)
      BY <3>6, <3>7, <3>8 DEF Upto, Puts
    <3>10. QED
      BY <1>1, <2>1, <2>2, <3>9
  <2>5. QED
    BY <2>3, <2>4
<1>4. Upto(n)
  BY <1>1, <1>3
<1>5. QED
  BY <1>4 DEF Upto

\* The equation of a function that puts together, which one function solves.
Equation(n, ss, g) == g = [i \in 1..n |-> IF i = 1 THEN ss[i] ELSE g[i - 1] \o ss[i]]
Alike(n, f, g) == f[n] = g[n]
LEMMA PutsSame ==
  ASSUME NEW S, NEW n \in Nat \ {0}, NEW ss \in [1..n -> Seq(S)], NEW f \in [1..n -> Seq(S)],
         Puts(n, ss, f), NEW g, Equation(n, ss, g)
  PROVE  Alike(n, f, g)
<1>1. ASSUME NEW i \in 1..n PROVE f[i] = IF i = 1 THEN ss[i] ELSE f[i - 1] \o ss[i]
  <2>1. i # 1 => i \in 2..n
    OBVIOUS
  <2>2. QED
    BY <2>1 DEF Puts
<1>2. SUFFICES ASSUME \E i \in 1..n : f[i] # g[i] PROVE FALSE
  BY DEF Alike
<1> DEFINE Bad == {i \in 1..n : f[i] # g[i]}
<1>3. Bad \subseteq 1..n
  OBVIOUS
<1>4. Bad # {}
  BY <1>2
<1>5. \A i \in 1..n : i \in Bad <=> f[i] # g[i]
  OBVIOUS
<1> HIDE DEF Bad
<1>6. Bad \subseteq Nat
  BY <1>3
<1>7. PICK m \in Bad : \A k \in Bad : m <= k
  BY <1>4, <1>6, LeastNumber
<1>8. m \in 1..n /\ f[m] # g[m]
  BY <1>3, <1>5, <1>7
<1>9. ASSUME m # 1 PROVE f[m - 1] = g[m - 1]
  <2>1. m - 1 \in 1..n /\ ~(m <= m - 1)
    BY <1>8, <1>9
  <2>2. m - 1 \notin Bad
    BY <1>7, <2>1
  <2>3. QED
    BY <1>5, <2>1, <2>2
<1>10. f[m] = IF m = 1 THEN ss[m] ELSE f[m - 1] \o ss[m]
  BY <1>1, <1>8
<1>11. g[m] = IF m = 1 THEN ss[m] ELSE g[m - 1] \o ss[m]
  BY <1>8 DEF Equation
<1>12. QED
  BY <1>8, <1>9, <1>10, <1>11

\* Such an f solves it.
LEMMA PutsFunction ==
  ASSUME NEW S, NEW n \in Nat \ {0}, NEW ss \in [1..n -> Seq(S)], NEW f \in [1..n -> Seq(S)],
         Puts(n, ss, f)
  PROVE  Equation(n, ss, f)
<1>1. ASSUME NEW i \in 1..n PROVE f[i] = IF i = 1 THEN ss[i] ELSE f[i - 1] \o ss[i]
  <2>1. i # 1 => i \in 2..n
    OBVIOUS
  <2>2. QED
    BY <2>1 DEF Puts
<1>2. QED
  BY <1>1 DEF Equation

\* It is what FlattenSeq computes.
LEMMA PutsFlat ==
  ASSUME NEW S, NEW n \in Nat \ {0}, NEW ss \in [1..n -> Seq(S)], NEW f \in [1..n -> Seq(S)],
         Puts(n, ss, f)
  PROVE  FlattenSeq(ss) = f[n]
<1> DEFINE g == CHOOSE g : g = [i \in 1..n |-> IF i = 1 THEN ss[i] ELSE g[i - 1] \o ss[i]]
<1>1. Len(ss) = n
  BY IsASeq
<1>2. FlattenSeq(ss) = g[n]
  BY <1>1 DEF FlattenSeq
<1>3. f = [i \in 1..n |-> IF i = 1 THEN ss[i] ELSE f[i - 1] \o ss[i]]
  BY PutsFunction DEF Equation
<1>4. g = [i \in 1..n |-> IF i = 1 THEN ss[i] ELSE g[i - 1] \o ss[i]]
  BY <1>3
<1> HIDE DEF g
<1>5. Equation(n, ss, g)
  BY <1>4 DEF Equation
<1>6. Alike(n, f, g)
  BY <1>5, PutsSame
<1>7. QED
  BY <1>2, <1>6 DEF Alike

\* b is a with a task more; the last sequence of tt is that of ss with a task more.
Longer(a, b, t) == b = Append(a, t)
LastLonger(n, ss, tt, t) == (\A i \in 1..n - 1 : tt[i] = ss[i]) /\ Longer(ss[n], tt[n], t)

\* What stands in front of a sequence does not matter to a task more at its end.
LEMMA LongerBehind ==
  ASSUME NEW S, NEW a \in Seq(S), NEW b \in Seq(S), NEW t \in S
  PROVE  Longer(a \o b, a \o Append(b, t), t)
  BY DEF Longer

\* A task more at the end of the last sequence is a task more at the end.
LEMMA FlatAppend ==
  ASSUME NEW S, NEW n \in Nat \ {0}, NEW ss \in [1..n -> Seq(S)], NEW t \in S,
         NEW tt \in [1..n -> Seq(S)], LastLonger(n, ss, tt, t)
  PROVE  Longer(FlattenSeq(ss), FlattenSeq(tt), t)
<1>1. PICK f \in [1..n -> Seq(S)] : Puts(n, ss, f)
  BY PutsExists
<1>2. FlattenSeq(ss) = f[n] /\ f[n] \in Seq(S)
  <2>1. FlattenSeq(ss) = f[n]
    BY <1>1, PutsFlat
  <2>2. n \in 1..n
    OBVIOUS
  <2>3. QED
    BY <2>1, <2>2
<1>3. Append(f[n], t) \in Seq(S)
  BY <1>2, AppendProperties
<1> DEFINE g == [f EXCEPT ![n] = Append(f[n], t)]
<1>4. g \in [1..n -> Seq(S)] /\ g[n] = Append(f[n], t) /\ \A i \in 1..n - 1 : g[i] = f[i]
  BY <1>3
<1> HIDE DEF g
<1>5. g[1] = tt[1]
  <2>1. CASE n = 1
    BY <1>1, <1>4, <2>1 DEF Puts, LastLonger, Longer
  <2>2. CASE n # 1
    <3>1. 1 \in 1..n - 1
      BY <2>2
    <3>2. QED
      BY <1>1, <1>4, <3>1 DEF Puts, LastLonger, Longer
  <2>3. QED
    BY <2>1, <2>2
<1>6. ASSUME NEW i \in 2..n PROVE g[i] = g[i - 1] \o tt[i]
  <2>1. i - 1 \in 1..n - 1 /\ i - 1 \in 1..n /\ i \in 1..n /\ f[i] = f[i - 1] \o ss[i]
    <3>1. i - 1 \in 1..n - 1 /\ i - 1 \in 1..n /\ i \in 1..n
      OBVIOUS
    <3>2. f[i] = f[i - 1] \o ss[i]
      BY <1>1 DEF Puts
    <3>3. QED
      BY <3>1, <3>2
  <2>2. CASE i = n
    <3>1. PICK a \in Seq(S), b \in Seq(S) : a = f[n - 1] /\ b = ss[n]
      BY <2>1, <2>2
    <3>2. Longer(a \o b, a \o Append(b, t), t)
      BY LongerBehind, Zenon
    <3>3. QED
      BY <1>4, <2>1, <2>2, <3>1, <3>2 DEF LastLonger, Longer
  <2>3. CASE i # n
    <3>1. i \in 1..n - 1
      BY <2>3
    <3>2. QED
      BY <1>4, <2>1, <3>1 DEF LastLonger
  <2>4. QED
    BY <2>2, <2>3
<1>7. Puts(n, tt, g)
  BY <1>5, <1>6 DEF Puts
<1>8. FlattenSeq(tt) = g[n]
  BY <1>4, <1>7, PutsFlat
<1>9. QED
  BY <1>2, <1>4, <1>8 DEF Longer

\* A sequence more, of one task, is a task more at the end.
LEMMA FlatMore ==
  ASSUME NEW S, NEW n \in Nat \ {0}, NEW ss \in [1..n -> Seq(S)], NEW t \in S,
         NEW tt \in [1..n + 1 -> Seq(S)], \A i \in 1..n : tt[i] = ss[i],
         tt[n + 1] = <<t>>
  PROVE  Longer(FlattenSeq(ss), FlattenSeq(tt), t)
<1>1. PICK f \in [1..n -> Seq(S)] : Puts(n, ss, f)
  BY PutsExists
<1>2. FlattenSeq(ss) = f[n] /\ f[n] \in Seq(S)
  <2>1. FlattenSeq(ss) = f[n]
    BY <1>1, PutsFlat
  <2>2. n \in 1..n
    OBVIOUS
  <2>3. QED
    BY <2>1, <2>2
<1>3. Append(f[n], t) = f[n] \o <<t>> /\ Append(f[n], t) \in Seq(S)
  BY <1>2, AppendIsConcat, AppendProperties
<1> DEFINE g == [i \in 1..n + 1 |-> IF i = n + 1 THEN Append(f[n], t) ELSE f[i]]
<1>4. ASSUME NEW i \in 1..n + 1 PROVE g[i] \in Seq(S)
  BY <1>1, <1>3
<1>5. g \in [1..n + 1 -> Seq(S)] /\ \A i \in 1..n + 1 : g[i] = IF i = n + 1 THEN Append(f[n], t) ELSE f[i]
  BY <1>4
<1> HIDE DEF g
<1>6. g[1] = tt[1]
  BY <1>1, <1>5 DEF Puts
<1>7. ASSUME NEW i \in 2..n + 1 PROVE g[i] = g[i - 1] \o tt[i]
  <2>1. i \in 1..n + 1 /\ i - 1 \in 1..n + 1 /\ i - 1 # n + 1
    OBVIOUS
  <2>2. g[i - 1] = f[i - 1]
    BY <1>5, <2>1
  <2>3. CASE i = n + 1
    <3>1. g[n + 1] = Append(f[n], t) /\ i - 1 = n
      BY <1>5, <2>1, <2>3
    <3>2. QED
      BY <1>3, <2>2, <2>3, <3>1
  <2>4. CASE i # n + 1
    <3>1. i \in 2..n /\ i \in 1..n
      BY <2>4
    <3>2. QED
      BY <1>1, <1>5, <2>1, <2>2, <2>4, <3>1 DEF Puts
  <2>5. QED
    BY <2>3, <2>4
<1>8. n + 1 \in Nat \ {0} /\ Puts(n + 1, tt, g)
  <2>1. Puts(n + 1, tt, g)
    BY <1>6, <1>7 DEF Puts
  <2>2. n + 1 \in Nat \ {0}
    OBVIOUS
  <2>3. QED
    BY <2>1, <2>2
<1>9. FlattenSeq(tt) = g[n + 1]
  BY <1>5, <1>8, PutsFlat
<1>10. QED
  BY <1>2, <1>5, <1>9 DEF Longer

\* The first element of a sequence is that of what is put behind it as well.
LEMMA TailOf ==
  ASSUME NEW S, NEW a \in Seq(S), NEW b \in Seq(S), a # <<>>
  PROVE  a \o b # <<>> /\ Tail(a \o b) = Tail(a) \o b /\ Tail(a \o b) \in Seq(S)
<1>1. /\ a \o b \in Seq(S) /\ Len(a \o b) = Len(a) + Len(b)
      /\ \A i \in 1..Len(a) + Len(b) : (a \o b)[i] = IF i <= Len(a) THEN a[i] ELSE b[i - Len(a)]
  BY ConcatProperties
<1>2. Len(a) \in Nat \ {0} /\ Len(b) \in Nat
  BY EmptySeq, LenProperties
<1>3. a \o b # <<>>
  BY <1>1, <1>2, EmptySeq
<1>4. /\ Tail(a) \in Seq(S) /\ Len(Tail(a)) = Len(a) - 1
      /\ \A i \in 1..Len(Tail(a)) : Tail(a)[i] = a[i + 1]
  BY HeadTailProperties
<1>5. PICK c \in Seq(S) : c = a \o b
  BY <1>1
<1>6. /\ Tail(c) \in Seq(S) /\ Len(Tail(c)) = Len(c) - 1
      /\ \A i \in 1..Len(Tail(c)) : Tail(c)[i] = c[i + 1]
  BY <1>3, <1>5, HeadTailProperties
<1>7. PICK d \in Seq(S) : d = Tail(a)
  BY <1>4
<1>8. /\ d \o b \in Seq(S) /\ Len(d \o b) = Len(d) + Len(b)
      /\ \A i \in 1..Len(d) + Len(b) : (d \o b)[i] = IF i <= Len(d) THEN d[i] ELSE b[i - Len(d)]
  BY ConcatProperties
<1>9. Len(Tail(c)) = Len(d \o b)
  BY <1>1, <1>2, <1>4, <1>5, <1>6, <1>7, <1>8
<1>10. ASSUME NEW i \in 1..Len(Tail(c)) PROVE Tail(c)[i] = (d \o b)[i]
  <2>1. i \in 1..Len(d) + Len(b) /\ i + 1 \in 1..Len(a) + Len(b) /\ Len(d) = Len(a) - 1
    BY <1>1, <1>2, <1>4, <1>5, <1>6, <1>7
  <2>2. Tail(c)[i] = IF i + 1 <= Len(a) THEN a[i + 1] ELSE b[(i + 1) - Len(a)]
    BY <1>1, <1>5, <1>6, <2>1
  <2>3. (d \o b)[i] = IF i <= Len(d) THEN d[i] ELSE b[i - Len(d)]
    BY <1>8, <2>1
  <2>4. i + 1 <= Len(a) <=> i <= Len(d)
    BY <1>2, <2>1
  <2>5. i <= Len(d) => d[i] = a[i + 1]
    BY <1>2, <1>4, <1>7, <2>1
  <2>6. (i + 1) - Len(a) = i - Len(d)
    BY <1>2, <2>1
  <2>7. QED
    BY <2>2, <2>3, <2>4, <2>5, <2>6
<1>11. Tail(c) = d \o b
  BY <1>6, <1>8, <1>9, <1>10, SeqEqual
<1>12. QED
  BY <1>3, <1>5, <1>6, <1>7, <1>11

\* What begins with some task stays so when more is put behind it.
LEMMA PutsNonempty ==
  ASSUME NEW S, NEW n \in Nat \ {0}, NEW f \in [1..n -> Seq(S)], NEW ss, f[1] # <<>>,
         \A i \in 1..n : ss[i] \in Seq(S),
         \A i \in 2..n : f[i] = f[i - 1] \o ss[i]
  PROVE  \A i \in 1..n : f[i] # <<>>
<1> SUFFICES ASSUME \E i \in 1..n : f[i] = <<>> PROVE FALSE
  OBVIOUS
<1> DEFINE Bad == {i \in 1..n : f[i] = <<>>}
<1>1. Bad \subseteq Nat /\ Bad # {}
  <2>1. Bad \subseteq 1..n
    OBVIOUS
  <2>2. Bad # {}
    OBVIOUS
  <2> HIDE DEF Bad
  <2>3. QED
    BY <2>1, <2>2
<1>2. PICK m \in Bad : \A k \in Bad : m <= k
  <2> HIDE DEF Bad
  <2>1. QED
    BY <1>1, LeastNumber
<1>3. m \in 2..n /\ m - 1 \in 1..n /\ f[m] = <<>> /\ f[m - 1] # <<>> /\ f[m - 1] \in Seq(S) /\ ss[m] \in Seq(S)
  BY <1>2
<1>4. f[m] = f[m - 1] \o ss[m]
  BY <1>3
<1>5. PICK a \in Seq(S), b \in Seq(S) : a = f[m - 1] /\ b = ss[m]
  BY <1>3, Zenon
<1>6. a \o b # <<>>
  BY <1>3, <1>5, TailOf
<1>7. QED
  BY <1>3, <1>4, <1>5, <1>6

Shorter(a, b) == a # <<>> /\ b = Tail(a)

\* A task less at the beginning of the first sequence is a task less at the beginning.
LEMMA FlatNonempty ==
  ASSUME NEW S, NEW n \in Nat \ {0}, NEW ss \in [1..n -> Seq(S)], ss[1] # <<>>
  PROVE  FlattenSeq(ss) # <<>>
<1>1. PICK f \in [1..n -> Seq(S)] : Puts(n, ss, f)
  BY PutsExists
<1>2. FlattenSeq(ss) = f[n]
  BY <1>1, PutsFlat
<1>3. f[1] # <<>> /\ \A i \in 2..n : f[i] = f[i - 1] \o ss[i]
  BY <1>1 DEF Puts
<1>4. \A i \in 1..n : f[i] # <<>>
  BY <1>3, PutsNonempty
<1>5. QED
  BY <1>2, <1>4

LEMMA FlatTail ==
  ASSUME NEW S, NEW n \in Nat \ {0}, NEW ss \in [1..n -> Seq(S)],
         NEW tt \in [1..n -> Seq(S)], \A i \in 2..n : tt[i] = ss[i], Shorter(ss[1], tt[1])
  PROVE  Shorter(FlattenSeq(ss), FlattenSeq(tt))
<1>1. PICK f \in [1..n -> Seq(S)] : Puts(n, ss, f)
  BY PutsExists
<1>2. FlattenSeq(ss) = f[n]
  BY <1>1, PutsFlat
<1>3. f[1] = ss[1] /\ \A i \in 2..n : f[i] = f[i - 1] \o ss[i]
  BY <1>1 DEF Puts
<1>4. \A i \in 1..n : f[i] # <<>>
  <2>1. f[1] # <<>>
    BY <1>3 DEF Shorter
  <2>2. QED
    BY <1>3, <2>1, PutsNonempty
<1> DEFINE g == [i \in 1..n |-> Tail(f[i])]
<1>5. \A i \in 1..n : Tail(f[i]) \in Seq(S)
  BY <1>4, HeadTailProperties
<1>6. g \in [1..n -> Seq(S)] /\ \A i \in 1..n : g[i] = Tail(f[i])
  BY <1>5
<1> HIDE DEF g
<1>7. ASSUME NEW i \in 2..n PROVE g[i] = g[i - 1] \o tt[i]
  <2>1. i \in 1..n /\ i - 1 \in 1..n
    OBVIOUS
  <2>2. PICK a \in Seq(S), b \in Seq(S) : a = f[i - 1] /\ b = ss[i]
    BY <2>1
  <2>3. a # <<>>
    BY <1>4, <2>1, <2>2
  <2>4. Tail(a \o b) = Tail(a) \o b
    BY <2>3, TailOf
  <2>5. QED
    BY <1>3, <1>6, <2>1, <2>2, <2>4
<1>8. Puts(n, tt, g)
  <2>1. g[1] = tt[1]
    <3>1. 1 \in 1..n
      OBVIOUS
    <3>2. g[1] = Tail(f[1])
      BY <1>6, <3>1
    <3>3. QED
      BY <1>3, <3>2 DEF Shorter
  <2>2. QED
    BY <1>7, <2>1 DEF Puts
<1>9. FlattenSeq(tt) = g[n]
  BY <1>6, <1>8, PutsFlat
<1>10. n \in 1..n
  OBVIOUS
<1>11. QED
  BY <1>2, <1>4, <1>6, <1>9, <1>10 DEF Shorter

\* So is the first sequence less, when it is one task.
LEMMA FlatLess ==
  ASSUME NEW S, NEW n \in Nat \ {0}, NEW ss \in [1..n + 1 -> Seq(S)], Len(ss[1]) = 1,
         NEW tt \in [1..n -> Seq(S)], \A i \in 1..n : tt[i] = ss[i + 1]
  PROVE  Shorter(FlattenSeq(ss), FlattenSeq(tt))
<1>1. n + 1 \in Nat \ {0}
  OBVIOUS
<1>2. PICK f \in [1..n + 1 -> Seq(S)] : Puts(n + 1, ss, f)
  BY <1>1, PutsExists
<1>3. FlattenSeq(ss) = f[n + 1]
  BY <1>1, <1>2, PutsFlat
<1>4. f[1] = ss[1] /\ \A i \in 2..n + 1 : f[i] = f[i - 1] \o ss[i]
  BY <1>2 DEF Puts
<1>5. f[1] # <<>> /\ Tail(f[1]) = <<>>
  <2>1. PICK a \in Seq(S) : a = f[1] /\ Len(a) = 1
    BY <1>4
  <2>2. a # <<>>
    <3>1. a = <<>> => Len(a) = 0
      OBVIOUS
    <3>2. QED
      BY <2>1, <3>1
  <2>3. Tail(a) \in Seq(S) /\ Len(Tail(a)) = 0
    BY <2>1, <2>2, HeadTailProperties
  <2>4. QED
    BY <2>1, <2>2, <2>3, EmptySeq
<1>6. \A i \in 1..n + 1 : f[i] # <<>>
  <2>1. \A i \in 1..n + 1 : ss[i] \in Seq(S)
    OBVIOUS
  <2>2. QED
    BY <1>1, <1>4, <1>5, <2>1, PutsNonempty
<1>7. ASSUME NEW i \in 2..n + 1 PROVE Tail(f[i]) = Tail(f[i - 1]) \o ss[i] /\ Tail(f[i]) \in Seq(S)
  <2>1. i \in 1..n + 1 /\ i - 1 \in 1..n + 1
    OBVIOUS
  <2>2. PICK a \in Seq(S), b \in Seq(S) : a = f[i - 1] /\ b = ss[i]
    BY <2>1
  <2>3. a # <<>>
    BY <1>6, <2>1, <2>2
  <2>4. Tail(a \o b) = Tail(a) \o b /\ Tail(a \o b) \in Seq(S)
    BY <2>3, TailOf
  <2>5. QED
    BY <1>4, <2>2, <2>4
<1> DEFINE g == [i \in 1..n |-> Tail(f[i + 1])]
<1>8. ASSUME NEW i \in 1..n PROVE g[i] \in Seq(S)
  <2>1. i + 1 \in 2..n + 1
    OBVIOUS
  <2>2. QED
    BY <1>7, <2>1
<1>9. g \in [1..n -> Seq(S)] /\ \A i \in 1..n : g[i] = Tail(f[i + 1])
  BY <1>8
<1> HIDE DEF g
<1>10. g[1] = tt[1]
  <2>1. 2 \in 2..n + 1 /\ 2 \in 1..n + 1 /\ 1 \in 1..n /\ 2 - 1 = 1 /\ 1 + 1 = 2
    OBVIOUS
  <2>2. PICK a \in Seq(S) : a = ss[2]
    BY <2>1
  <2>3. <<>> \o a = a
    BY ConcatEmptySeq
  <2>4. Tail(f[2]) = a
    BY <1>5, <1>7, <2>1, <2>2, <2>3
  <2>5. g[1] = Tail(f[2]) /\ tt[1] = ss[2]
    BY <1>9, <2>1
  <2>6. QED
    BY <2>2, <2>4, <2>5
<1>11. ASSUME NEW i \in 2..n PROVE g[i] = g[i - 1] \o tt[i]
  <2>1. i + 1 \in 2..n + 1 /\ i \in 1..n /\ i - 1 \in 1..n /\ (i - 1) + 1 = i /\ (i + 1) - 1 = i
    OBVIOUS
  <2>2. Tail(f[i + 1]) = Tail(f[i]) \o ss[i + 1]
    BY <1>7, <2>1
  <2>3. QED
    BY <1>9, <2>1, <2>2
<1>12. Puts(n, tt, g)
  BY <1>10, <1>11 DEF Puts
<1>13. FlattenSeq(tt) = g[n]
  BY <1>9, <1>12, PutsFlat
<1>14. n \in 1..n /\ n + 1 \in 1..n + 1
  OBVIOUS
<1>15. QED
  BY <1>3, <1>6, <1>9, <1>13, <1>14 DEF Shorter

\* One sequence alone is what it is.
LEMMA FlatOne ==
  ASSUME NEW S, NEW ss \in [1..1 -> Seq(S)]
  PROVE  FlattenSeq(ss) = ss[1]
<1>1. 1 \in Nat \ {0} /\ Puts(1, ss, ss)
  BY DEF Puts
<1>2. QED
  BY <1>1, PutsFlat

----------------------------------------------------------------------------
\* The task queue.

\* A block has room for a task, the static one is a block, and the null pointer is none.
QueueBounds == BlockLength \in Nat \ {0} /\ IsFiniteSet(Block) /\ StaticBlock \in Block /\ None \notin Block

Cell == Job \union {None}

\* The positions of a block without and with a lap of the writer ahead.
RingOK(w, r, s) == (s = 0 => r <= w) /\ (s = 1 => w <= r)
CountOf(w, r, s) == IF w = r /\ s = 0 THEN 0 ELSE IF w > r THEN w - r ELSE w - r + BlockLength
Ring(T, r, k) == [i \in 1..k |-> T[Queue!Behind(r, i - 1)]]

\* A block never holds more than it has room for.
LEMMA CountIn ==
  ASSUME QueueBounds, NEW w \in Queue!Slot, NEW r \in Queue!Slot, NEW s \in {0, 1}, RingOK(w, r, s)
  PROVE  CountOf(w, r, s) \in 0..BlockLength
BY DEF QueueBounds, Queue!Slot, RingOK, CountOf

\* The tasks of a block are a sequence as long as their count.
LEMMA RingType ==
  ASSUME QueueBounds, NEW r \in Queue!Slot, NEW T \in [Queue!Slot -> Cell], NEW k \in 0..BlockLength
  PROVE  Ring(T, r, k) \in Seq(Cell) /\ Len(Ring(T, r, k)) = k
<1>1. ASSUME NEW i \in 1..k PROVE T[Queue!Behind(r, i - 1)] \in Cell
  <2>1. Queue!Behind(r, i - 1) \in Queue!Slot
    BY DEF QueueBounds, Queue!Slot, Queue!Behind
  <2>2. QED
    BY <2>1
<1>2. Ring(T, r, k) \in [1..k -> Cell] /\ k \in Nat
  BY <1>1 DEF Ring, QueueBounds
<1>3. PICK c : c = Ring(T, r, k)
  OBVIOUS
<1>4. c \in Seq(Cell)
  BY <1>2, <1>3, SeqDef
<1>5. DOMAIN c = 1..k /\ DOMAIN c = 1..Len(c) /\ Len(c) \in Nat
  BY <1>2, <1>3, <1>4, LenProperties
<1>6. Len(c) = k
  BY <1>2, <1>5
<1>7. QED
  BY <1>3, <1>4, <1>6

\* A task that is placed is the last one of its block.
LEMMA RingPut ==
  ASSUME QueueBounds, NEW w \in Queue!Slot, NEW r \in Queue!Slot, NEW s \in {0, 1}, RingOK(w, r, s),
         ~(s # 0 /\ w = r), NEW T \in [Queue!Slot -> Cell], NEW t \in Cell,
         NEW s2, s2 = (IF w + 1 = BlockLength THEN 1 ELSE s), NEW U, U = [T EXCEPT ![w] = t]
  PROVE  /\ Queue!Step(w) \in Queue!Slot /\ RingOK(Queue!Step(w), r, s2) /\ s2 \in {0, 1} /\ ~(Queue!Step(w) = r /\ s2 = 0)
         /\ Longer(Ring(T, r, CountOf(w, r, s)), Ring(U, r, CountOf(Queue!Step(w), r, s2)), t)
<1>1. /\ Queue!Step(w) \in Queue!Slot /\ RingOK(Queue!Step(w), r, s2) /\ s2 \in {0, 1} /\ ~(Queue!Step(w) = r /\ s2 = 0)
      /\ CountOf(w, r, s) \in 0..BlockLength - 1 /\ CountOf(Queue!Step(w), r, s2) = CountOf(w, r, s) + 1
      /\ Queue!Behind(r, CountOf(w, r, s)) = w
  BY DEF QueueBounds, Queue!Slot, RingOK, CountOf, Queue!Step, Queue!Behind
<1>2. PICK k \in Nat : k = CountOf(w, r, s) /\ k < BlockLength
  BY <1>1 DEF QueueBounds
<1>3. \A i \in 1..k : Queue!Behind(r, i - 1) \in Queue!Slot /\ Queue!Behind(r, i - 1) # w
  BY <1>1, <1>2 DEF QueueBounds, Queue!Slot, Queue!Behind
<1>4. PICK old \in Seq(Cell) : old = Ring(T, r, k) /\ Len(old) = k /\ \A i \in 1..k : old[i] = T[Queue!Behind(r, i - 1)]
  <2>1. k \in 0..BlockLength
    BY <1>2 DEF QueueBounds
  <2>2. Ring(T, r, k) \in Seq(Cell) /\ Len(Ring(T, r, k)) = k
    BY <2>1, RingType
  <2>3. \A i \in 1..k : Ring(T, r, k)[i] = T[Queue!Behind(r, i - 1)]
    BY DEF Ring
  <2>4. QED
    BY <2>2, <2>3
<1>5. PICK new : new = Ring(U, r, k + 1)
  OBVIOUS
<1>6. new \in [1..k + 1 -> Cell]
  <2>1. ASSUME NEW i \in 1..k + 1 PROVE U[Queue!Behind(r, i - 1)] \in Cell
    <3>1. CASE i \in 1..k
      BY <1>3, <3>1
    <3>2. CASE i = k + 1
      BY <1>1, <1>2, <3>2
    <3>3. QED
      BY <3>1, <3>2
  <2>2. QED
    BY <1>5, <2>1 DEF Ring
<1>7. new \in Seq(Cell) /\ Len(new) = k + 1
  BY <1>6, SeqDef
<1>8. \A i \in 1..k : new[i] = old[i]
  BY <1>3, <1>4, <1>5 DEF Ring
<1>9. new[k + 1] = t
  BY <1>1, <1>2, <1>5 DEF Ring
<1>10. PICK long \in Seq(Cell) : long = Append(old, t)
  BY AppendProperties
<1>11. Len(long) = k + 1 /\ \A i \in 1..k : long[i] = old[i]
  BY <1>4, <1>10, AppendProperties
<1>12. long[k + 1] = t
  BY <1>4, <1>10, AppendProperties
<1>13. new = long
  <2>1. \A i \in 1..Len(new) : new[i] = long[i]
    BY <1>7, <1>8, <1>9, <1>11, <1>12
  <2>2. QED
    BY <1>7, <1>11, <2>1, SeqEqual
<1>14. QED
  BY <1>1, <1>2, <1>4, <1>5, <1>10, <1>13 DEF Longer

\* What is taken is the first task of its block.
LEMMA RingTake ==
  ASSUME QueueBounds, NEW w \in Queue!Slot, NEW r \in Queue!Slot, NEW s \in {0, 1}, RingOK(w, r, s),
         ~(w = r /\ s = 0), NEW T \in [Queue!Slot -> Cell],
         NEW s2, s2 = (IF r + 1 = BlockLength THEN 0 ELSE s)
  PROVE  /\ Queue!Step(r) \in Queue!Slot /\ RingOK(w, Queue!Step(r), s2) /\ s2 \in {0, 1}
         /\ Ring(T, r, CountOf(w, r, s)) # <<>>
         /\ w = Queue!Step(r) => Len(Ring(T, r, CountOf(w, r, s))) = 1
         /\ w # Queue!Step(r) => Shorter(Ring(T, r, CountOf(w, r, s)), Ring(T, Queue!Step(r), CountOf(w, Queue!Step(r), s2)))
<1>1. /\ Queue!Step(r) \in Queue!Slot /\ RingOK(w, Queue!Step(r), s2) /\ s2 \in {0, 1}
      /\ CountOf(w, r, s) \in 1..BlockLength
      /\ w = Queue!Step(r) => CountOf(w, r, s) = 1
      /\ w # Queue!Step(r) => CountOf(w, Queue!Step(r), s2) = CountOf(w, r, s) - 1
  BY DEF QueueBounds, Queue!Slot, RingOK, CountOf, Queue!Step
<1>2. PICK k \in Nat \ {0} : k = CountOf(w, r, s) /\ k <= BlockLength
  BY <1>1 DEF QueueBounds
<1>3. PICK old \in Seq(Cell) : old = Ring(T, r, k) /\ Len(old) = k /\ \A i \in 1..k : old[i] = T[Queue!Behind(r, i - 1)]
  <2>1. k \in 0..BlockLength
    BY <1>2 DEF QueueBounds
  <2>2. Ring(T, r, k) \in Seq(Cell) /\ Len(Ring(T, r, k)) = k
    BY <2>1, RingType
  <2>3. \A i \in 1..k : Ring(T, r, k)[i] = T[Queue!Behind(r, i - 1)]
    BY DEF Ring
  <2>4. QED
    BY <2>2, <2>3
<1>4. old # <<>>
  BY <1>3
<1>5. ASSUME w # Queue!Step(r) PROVE Ring(T, Queue!Step(r), k - 1) = Tail(old)
  <2>1. PICK new \in Seq(Cell) : new = Ring(T, Queue!Step(r), k - 1) /\ Len(new) = k - 1
    <3>1. k - 1 \in 0..BlockLength
      BY <1>2 DEF QueueBounds
    <3>2. QED
      BY <1>1, <3>1, RingType
  <2>2. Len(new) = k - 1 /\ \A i \in 1..k - 1 : new[i] = T[Queue!Behind(Queue!Step(r), i - 1)]
    BY <2>1 DEF Ring
  <2>3. PICK rest \in Seq(Cell) : rest = Tail(old)
    BY <1>4, HeadTailProperties
  <2>4. Len(rest) = k - 1 /\ \A i \in 1..k - 1 : rest[i] = old[i + 1]
    BY <1>3, <1>4, <2>3, HeadTailProperties
  <2>5. \A i \in 1..k - 1 : Queue!Behind(Queue!Step(r), i - 1) = Queue!Behind(r, (i + 1) - 1) /\ i + 1 \in 1..k
    BY <1>2 DEF QueueBounds, Queue!Slot, Queue!Behind, Queue!Step
  <2>6. \A i \in 1..k - 1 : new[i] = rest[i]
    BY <1>3, <2>2, <2>4, <2>5
  <2>7. new = rest
    BY <2>2, <2>4, <2>6, SeqEqual
  <2>8. QED
    BY <2>1, <2>3, <2>7
<1>6. QED
  BY <1>1, <1>2, <1>3, <1>4, <1>5 DEF Shorter

----------------------------------------------------------------------------
\* q are the blocks from the reader to the writer.
IsAlong(n, q) ==
    /\ q[1] = reader /\ q[n] = writer /\ next[writer] = None
    /\ \A i \in 1..n - 1 : next[q[i]] = q[i + 1]
    /\ \A i, j \in 1..n : q[i] = q[j] => i = j
    /\ \A i \in 1..n : q[i] \in owned /\ state[q[i]] # 2

\* Every block but the static one is among them; that one is, or it is free. Of
\* several blocks none is empty.
AllIn(n, q) ==
    /\ StaticBlock \in owned
    /\ \A b \in owned : b # StaticBlock => \E i \in 1..n : q[i] = b
    /\ (\A i \in 1..n : q[i] # StaticBlock) => state[StaticBlock] = 2 /\ next[StaticBlock] = None
    /\ n # 1 => \A i \in 1..n : ~Queue!Drained(q[i])

QueueTypes ==
    /\ Queue!TypeOK /\ reader \in Block /\ writer \in Block
    /\ \A b \in Block : RingOK(write[b], read[b], state[b])

IsLine(n, q) == n \in Nat \ {0} /\ q \in [1..n -> Block] /\ IsAlong(n, q) /\ AllIn(n, q)

QueueInv == QueueTypes /\ \E n, q : IsLine(n, q)

\* The static block alone is a chain.
LEMMA QueueInit == ASSUME QueueBounds, Queue!Init PROVE QueueInv
<1>1. QueueTypes
  BY DEF QueueBounds, Queue!Init, QueueTypes, Queue!TypeOK, RingOK, Queue!Slot
<1> DEFINE q == [i \in 1..1 |-> StaticBlock]
<1>2. IsLine(1, q)
  BY DEF QueueBounds, Queue!Init, IsLine, IsAlong, AllIn, Queue!Drained
<1>3. QED
  BY <1>1, <1>2 DEF QueueInv

\* What a block holds, from its positions.
LEMMA HeldIs ==
  ASSUME QueueBounds, QueueTypes, NEW b \in Block, state[b] # 2
  PROVE  /\ Queue!Held[b] = Ring(tasks[b], read[b], CountOf(write[b], read[b], state[b]))
         /\ Queue!Held[b] \in Seq(Cell)
<1>1. /\ tasks[b] \in [Queue!Slot -> Cell] /\ write[b] \in Queue!Slot /\ read[b] \in Queue!Slot /\ state[b] \in {0, 1}
      /\ RingOK(write[b], read[b], state[b])
  BY DEF QueueTypes, Queue!TypeOK, Cell
<1>2. Queue!Waiting(b) = CountOf(write[b], read[b], state[b])
  BY DEF Queue!Waiting, CountOf, Queue!Drained
<1>3. Queue!Held[b] = Ring(tasks[b], read[b], CountOf(write[b], read[b], state[b]))
  BY <1>2 DEF Queue!Held, Ring
<1>4. CountOf(write[b], read[b], state[b]) \in 0..BlockLength
  BY <1>1, CountIn
<1>5. QED
  BY <1>1, <1>3, <1>4, RingType

\* DeferQueue counts with an operator of its own copy of FiniteSets.
LEMMA QueueCount == \A S : Queue!Cardinality(S) = Cardinality(S)
BY DEF Queue!Cardinality, Cardinality

\* There is one chain.
LEMMA OneChain ==
  ASSUME QueueBounds, QueueTypes, NEW n, NEW q, IsLine(n, q)
  PROVE  Queue!Chain = q
<1>1. /\ n \in Nat \ {0} /\ q \in [1..n -> Block] /\ q[1] = reader /\ q[n] = writer /\ next[writer] = None
      /\ \A i \in 1..n - 1 : next[q[i]] = q[i + 1]
      /\ \A i, j \in 1..n : q[i] = q[j] => i = j
  BY DEF IsLine, IsAlong
<1>2. PICK c \in Nat : c = Cardinality(Block)
  BY FS_CardinalityType DEF QueueBounds
<1>3. n <= c
  <2>1. q \in Injection(1..n, Block)
    BY <1>1 DEF Injection, IsInjective
  <2>2. Cardinality(1..n) <= Cardinality(Block)
    BY <2>1, FS_Injection DEF QueueBounds
  <2>3. Cardinality(1..n) = n
    BY <1>1, FS_Interval
  <2>4. QED
    BY <1>2, <2>2, <2>3
<1> DEFINE Then(g, i) == IF i = 1 THEN reader ELSE IF g[i - 1] = None THEN None ELSE next[g[i - 1]]
           f == [i \in 1..c |-> IF i <= n THEN q[i] ELSE None]
           at == CHOOSE at : at = [i \in 1..c |-> Then(at, i)]
<1>4. \A i \in 1..c : (i <= n => f[i] = q[i]) /\ (i > n => f[i] = None)
  BY <1>1
<1>5. f \in [1..c -> Block \union {None}]
  BY <1>1, <1>2
<1> HIDE DEF f
<1>6. ASSUME NEW i \in 1..c PROVE f[i] = Then(f, i)
  <2>1. CASE i = 1
    BY <1>1, <1>4, <2>1
  <2>2. CASE i # 1 /\ i <= n
    <3>1. i - 1 \in 1..c /\ i - 1 \in 1..n - 1 /\ i - 1 \in 1..n /\ (i - 1) + 1 = i
      BY <1>1, <1>2, <2>2
    <3>2. f[i] = q[i] /\ f[i - 1] = q[i - 1] /\ q[i - 1] \in Block /\ next[q[i - 1]] = q[i]
      BY <1>1, <1>4, <2>2, <3>1
    <3>3. QED
      BY <2>2, <3>2 DEF QueueBounds
  <2>3. CASE i = n + 1
    <3>1. i - 1 = n /\ n \in 1..c /\ n \in 1..n /\ i # 1
      BY <1>1, <1>2, <2>3
    <3>2. f[i] = None /\ f[i - 1] = writer /\ writer \in Block
      BY <1>1, <1>4, <2>3, <3>1
    <3>3. QED
      BY <1>1, <3>1, <3>2 DEF QueueBounds
  <2>4. CASE i > n + 1
    <3>1. i - 1 \in 1..c /\ i - 1 > n /\ i > n /\ i # 1
      BY <1>1, <1>2, <2>4
    <3>2. f[i] = None /\ f[i - 1] = None
      BY <1>4, <3>1
    <3>3. QED
      BY <3>1, <3>2
  <2>5. QED
    BY <1>1, <1>2, <2>1, <2>2, <2>3, <2>4
<1>7. f = [i \in 1..c |-> Then(f, i)]
  BY <1>5, <1>6
<1>8. at = [i \in 1..c |-> Then(at, i)]
  BY <1>7, Zenon
<1>9. Queue!Chain = [i \in 1..Cardinality({j \in 1..c : at[j] # None}) |-> at[i]]
  <2>1. Queue!Cardinality(Block) = c /\ Queue!Cardinality({j \in 1..c : at[j] # None}) = Cardinality({j \in 1..c : at[j] # None})
    BY <1>2, QueueCount
  <2>2. QED
    BY <2>1 DEF Queue!Chain
<1> HIDE DEF at
<1>10. \A i \in 1..c : at[i] = f[i]
  <2> SUFFICES ASSUME \E i \in 1..c : at[i] # f[i] PROVE FALSE
    OBVIOUS
  <2> DEFINE Bad == {i \in 1..c : at[i] # f[i]}
  <2>1. Bad \subseteq 1..c /\ Bad # {} /\ \A i \in 1..c : i \in Bad <=> at[i] # f[i]
    OBVIOUS
  <2> HIDE DEF Bad
  <2>2. Bad \subseteq Nat
    BY <2>1
  <2>3. PICK k \in Bad : \A i \in Bad : k <= i
    BY <2>1, <2>2, LeastNumber
  <2>4. k \in 1..c /\ at[k] = Then(at, k) /\ f[k] = Then(f, k)
    BY <1>6, <1>8, <2>1, <2>3
  <2>5. k # 1 => k - 1 \in 1..c /\ at[k - 1] = f[k - 1]
    BY <1>2, <2>1, <2>3, <2>4
  <2>6. at[k] = f[k]
    BY <2>4, <2>5
  <2>7. QED
    BY <2>1, <2>3, <2>4, <2>6
<1>11. {j \in 1..c : at[j] # None} = 1..n
  <2>1. \A j \in 1..c : at[j] # None <=> j <= n
    <3>1. \A j \in 1..c : j <= n => q[j] \in Block /\ j \in 1..n
      BY <1>1
    <3>2. QED
      BY <1>1, <1>4, <1>10, <3>1 DEF QueueBounds
  <2>2. QED
    BY <1>1, <1>2, <1>3, <2>1
<1>12. Cardinality({j \in 1..c : at[j] # None}) = n
  <2>1. Cardinality(1..n) = n
    BY <1>1, FS_Interval
  <2>2. QED
    BY <1>11, <2>1
<1>13. Queue!Chain = [i \in 1..n |-> at[i]]
  BY <1>9, <1>12
<1>14. \A i \in 1..n : at[i] = q[i]
  BY <1>1, <1>2, <1>3, <1>4, <1>10
<1>15. QED
  BY <1>1, <1>13, <1>14

\* What the queue holds is what its blocks hold, one after the other.
HeldBy(n, q) == [i \in 1..n |-> Queue!Held[q[i]]]
ChainKnown ==
    /\ QueueTypes => \A b \in Block : state[b] # 2 =>
         Queue!Held[b] = Ring(tasks[b], read[b], CountOf(write[b], read[b], state[b]))
    /\ QueueTypes => \A n, q : IsLine(n, q) =>
         /\ Queue!Chain = q
         /\ HeldBy(n, q) \in [1..n -> Seq(Cell)]
         /\ Queue!Contents = FlattenSeq(HeldBy(n, q))

\* That holds of every chain, and of the one of the next state.
LEMMA ChainKnownHolds == QueueBounds => ChainKnown
<1> SUFFICES ASSUME QueueBounds, QueueTypes, NEW n, NEW q, IsLine(n, q)
             PROVE  /\ Queue!Chain = q
                    /\ HeldBy(n, q) \in [1..n -> Seq(Cell)]
                    /\ Queue!Contents = FlattenSeq(HeldBy(n, q))
  BY HeldIs DEF ChainKnown
<1>1. Queue!Chain = q
  BY OneChain
<1>2. n \in Nat \ {0} /\ q \in [1..n -> Block] /\ \A i \in 1..n : state[q[i]] # 2
  BY DEF IsLine, IsAlong
<1>3. ASSUME NEW i \in 1..n PROVE Queue!Held[q[i]] \in Seq(Cell)
  BY <1>2, HeldIs
<1>4. HeldBy(n, q) \in [1..n -> Seq(Cell)]
  BY <1>3 DEF HeldBy
<1>5. Len(q) = n
  <2>1. q \in Seq(Block)
    BY <1>2, SeqDef
  <2>2. DOMAIN q = 1..n /\ DOMAIN q = 1..Len(q) /\ Len(q) \in Nat
    BY <1>2, <2>1, LenProperties
  <2>3. QED
    BY <1>2, <2>2
<1>6. Queue!Contents = FlattenSeq(HeldBy(n, q))
  <2> DEFINE of == CHOOSE of : of = [i \in 1..n |-> IF i = 1 THEN Queue!Held[q[1]] ELSE of[i - 1] \o Queue!Held[q[i]]]
  <2>1. PICK ss \in [1..n -> Seq(Cell)] : ss = HeldBy(n, q)
    BY <1>4
  <2>2. PICK f \in [1..n -> Seq(Cell)] : Puts(n, ss, f)
    BY <1>2, PutsExists
  <2>3. Queue!Contents = of[n]
    BY <1>1, <1>5, Zenon DEF Queue!Contents
  <2>4. \A i \in 1..n : ss[i] = Queue!Held[q[i]]
    BY <2>1 DEF HeldBy
  <2>5. f = [i \in 1..n |-> IF i = 1 THEN ss[i] ELSE f[i - 1] \o ss[i]]
    BY <1>2, <2>2, PutsFunction DEF Equation
  <2>6. f = [i \in 1..n |-> IF i = 1 THEN Queue!Held[q[1]] ELSE f[i - 1] \o Queue!Held[q[i]]]
    BY <2>4, <2>5
  <2>7. of = [i \in 1..n |-> IF i = 1 THEN Queue!Held[q[1]] ELSE of[i - 1] \o Queue!Held[q[i]]]
    BY <2>6
  <2> HIDE DEF of
  <2>8. PICK g : g = of
    OBVIOUS
  <2>9. Equation(n, ss, g)
    BY <2>4, <2>7, <2>8 DEF Equation
  <2>10. f[n] = g[n]
    <3>1. Alike(n, f, g)
      BY <1>2, <2>1, <2>2, <2>9, PutsSame
    <3>2. QED
      BY <3>1 DEF Alike
  <2>11. FlattenSeq(ss) = f[n]
    BY <1>2, <2>2, PutsFlat
  <2>12. QED
    BY <2>1, <2>3, <2>8, <2>10, <2>11
<1>7. QED
  BY <1>1, <1>4, <1>6

LEMMA ChainKnownNext == ASSUME QueueBounds PROVE ChainKnown'
<1>1. ChainKnown
  BY ChainKnownHolds
<1>2. QED
  BY <1>1, PTL

\* The types, by block.
LEMMA BlockTypes ==
  ASSUME QueueTypes, NEW b \in Block
  PROVE  /\ tasks[b] \in [Queue!Slot -> Cell] /\ write[b] \in Queue!Slot /\ read[b] \in Queue!Slot
         /\ next[b] \in Block \union {None} /\ state[b] \in 0..2
         /\ state[b] # 2 => state[b] \in {0, 1}
         /\ RingOK(write[b], read[b], state[b])
BY DEF QueueTypes, Queue!TypeOK, Cell

\* A push into the block of the writer.
LEMMA PushHereStep ==
  ASSUME QueueBounds, QueueInv, NEW t \in Job, Queue!PushHere(t)
  PROVE  QueueInv' /\ Queue!Contents' = Append(Queue!Contents, t)
<1>1. PICK n, q : IsLine(n, q)
  BY DEF QueueInv
<1>2. QueueTypes
  BY DEF QueueInv
<1>3. /\ n \in Nat \ {0} /\ q \in [1..n -> Block] /\ q[1] = reader /\ q[n] = writer /\ next[writer] = None
      /\ \A i, j \in 1..n : q[i] = q[j] => i = j
      /\ \A i \in 1..n : q[i] \in owned /\ state[q[i]] # 2
      /\ n \in 1..n /\ writer \in Block /\ state[writer] # 2
  BY <1>1 DEF IsLine, IsAlong
<1>4. PICK w \in Queue!Slot, r \in Queue!Slot, s \in {0, 1}, T \in [Queue!Slot -> Cell], s2 \in {0, 1} :
        w = write[writer] /\ r = read[writer] /\ s = state[writer] /\ T = tasks[writer]
        /\ s2 = (IF w + 1 = BlockLength THEN 1 ELSE s)
  BY <1>2, <1>3, BlockTypes
<1>7. PICK U \in [Queue!Slot -> Cell] : U = [T EXCEPT ![w] = t]
  BY <1>4 DEF Cell
<1>5. /\ tasks' = [tasks EXCEPT ![writer] = U]
      /\ write' = [write EXCEPT ![writer] = Queue!Step(w)] /\ state' = [state EXCEPT ![writer] = s2]
      /\ UNCHANGED <<read, next, reader, writer, owned>>
      /\ RingOK(w, r, s) /\ ~(s # 0 /\ w = r) /\ t \in Cell
  BY <1>2, <1>3, <1>4, <1>7, BlockTypes DEF Queue!PushHere, Queue!PlaceIn, Queue!Full, Cell
<1>6. /\ Queue!Step(w) \in Queue!Slot /\ RingOK(Queue!Step(w), r, s2) /\ ~(Queue!Step(w) = r /\ s2 = 0)
      /\ Longer(Ring(T, r, CountOf(w, r, s)), Ring(U, r, CountOf(Queue!Step(w), r, s2)), t)
  BY <1>4, <1>5, <1>7, RingPut
<1>8. /\ tasks'[writer] = U /\ write'[writer] = Queue!Step(w) /\ state'[writer] = s2
      /\ \A b \in Block : b # writer => tasks'[b] = tasks[b] /\ write'[b] = write[b] /\ state'[b] = state[b]
  BY <1>2, <1>3, <1>5 DEF QueueTypes, Queue!TypeOK
<1>9. QueueTypes'
  <2>1. Queue!TypeOK'
    BY <1>2, <1>3, <1>5, <1>6, <1>7 DEF QueueTypes, Queue!TypeOK, Cell
  <2>2. \A b \in Block : RingOK(write[b], read[b], state[b])'
    BY <1>2, <1>3, <1>4, <1>5, <1>6, <1>8 DEF QueueTypes
  <2>3. QED
    BY <1>2, <1>5, <2>1, <2>2 DEF QueueTypes
<1>10. \A i \in 1..n : ~Queue!Drained(q[i]) => ~Queue!Drained(q[i])'
  BY <1>3, <1>4, <1>5, <1>6, <1>8 DEF Queue!Drained
<1>11. IsLine(n, q)'
  <2>1. IsAlong(n, q)'
    BY <1>1, <1>3, <1>5, <1>6, <1>8 DEF IsLine, IsAlong
  <2>2. ASSUME \A i \in 1..n : q[i] # StaticBlock PROVE state'[StaticBlock] = 2
    BY <1>1, <1>3, <1>8, <2>2 DEF IsLine, AllIn, QueueBounds
  <2>3. AllIn(n, q)'
    BY <1>1, <1>5, <1>10, <2>2 DEF IsLine, AllIn
  <2>4. QED
    BY <1>3, <2>1, <2>3 DEF IsLine
<1>12. \A i \in 1..n : q[i] # writer => Queue!Held'[q[i]] = Queue!Held[q[i]]
  BY <1>3, <1>5, <1>8 DEF Queue!Held, Queue!Waiting, Queue!Drained
<1>13. PICK z \in Block : z = writer
  BY <1>3
<1>14. Longer(Queue!Held[z], Queue!Held'[z], t)
  <2>1. Queue!Held[z] = Ring(T, r, CountOf(w, r, s))
    BY <1>2, <1>3, <1>4, <1>13, ChainKnownHolds DEF ChainKnown
  <2>2. state'[z] # 2
    BY <1>6, <1>8, <1>13
  <2>3. Queue!Held'[z] = Ring(tasks'[z], read'[z], CountOf(write'[z], read'[z], state'[z]))
    BY <1>9, <2>2, ChainKnownNext DEF ChainKnown
  <2>4. QED
    BY <1>4, <1>5, <1>6, <1>8, <1>13, <2>1, <2>3
<1>15. PICK ss \in [1..n -> Seq(Cell)] : ss = HeldBy(n, q) /\ Queue!Contents = FlattenSeq(ss)
  BY <1>1, <1>2, ChainKnownHolds DEF ChainKnown
<1>16. PICK tt \in [1..n -> Seq(Cell)] : tt = HeldBy(n, q)' /\ Queue!Contents' = FlattenSeq(tt)
  BY <1>9, <1>11, ChainKnownNext DEF ChainKnown
<1>17. LastLonger(n, ss, tt, t)
  <2>1. ASSUME NEW i \in 1..n - 1 PROVE tt[i] = ss[i]
    <3>1. i \in 1..n /\ i # n
      BY <1>3
    <3>2. q[i] # writer
      BY <1>3, <3>1
    <3>3. Queue!Held'[q[i]] = Queue!Held[q[i]]
      BY <1>12, <3>1, <3>2
    <3>4. QED
      BY <1>15, <1>16, <3>1, <3>3 DEF HeldBy
  <2>2. Longer(ss[n], tt[n], t)
    BY <1>3, <1>13, <1>14, <1>15, <1>16 DEF HeldBy
  <2>3. QED
    BY <2>1, <2>2 DEF LastLonger
<1>18. Longer(Queue!Contents, Queue!Contents', t)
  BY <1>3, <1>5, <1>15, <1>16, <1>17, FlatAppend
<1>19. QED
  BY <1>9, <1>11, <1>18 DEF QueueInv, Longer

\* A push into the static block that is free again, or into a new one.
LEMMA PushNewBlockStep ==
  ASSUME QueueBounds, QueueInv, NEW t \in Job, Queue!PushNewBlock(t)
  PROVE  QueueInv' /\ Queue!Contents' = Append(Queue!Contents, t)
<1>1. PICK n, q : IsLine(n, q)
  BY DEF QueueInv
<1>2. QueueTypes
  BY DEF QueueInv
<1>3. /\ n \in Nat \ {0} /\ q \in [1..n -> Block] /\ q[1] = reader /\ q[n] = writer
      /\ \A i \in 1..n - 1 : next[q[i]] = q[i + 1]
      /\ \A i, j \in 1..n : q[i] = q[j] => i = j
      /\ \A i \in 1..n : q[i] \in owned /\ state[q[i]] # 2
      /\ n \in 1..n /\ writer \in Block
  BY <1>1 DEF IsLine, IsAlong
<1>4. PICK b \in Queue!Spare : /\ Queue!Full(writer) /\ Queue!PlaceIn(t, b, 0, 0)
                         /\ read' = [read EXCEPT ![b] = 0] /\ next' = [next EXCEPT ![writer] = b, ![b] = None]
                         /\ writer' = b /\ owned' = owned \union {b} /\ reader' = reader
  BY DEF Queue!PushNewBlock
<1>5. b \in Block /\ \A i \in 1..n : q[i] # b
  BY <1>3, <1>4 DEF Queue!Spare, QueueBounds
<1>6. PICK s2 \in {0, 1}, T \in [Queue!Slot -> Cell], U \in [Queue!Slot -> Cell] :
        s2 = (IF 0 + 1 = BlockLength THEN 1 ELSE 0) /\ T = tasks[b] /\ U = [T EXCEPT ![0] = t]
  BY <1>2, <1>5, BlockTypes DEF Cell
<1>7. 0 \in Queue!Slot /\ t \in Cell /\ Queue!Step(0) \in Queue!Slot
  BY DEF QueueBounds, Queue!Slot, Cell, Queue!Step
<1>8. /\ tasks' = [tasks EXCEPT ![b] = U] /\ write' = [write EXCEPT ![b] = Queue!Step(0)]
      /\ state' = [state EXCEPT ![b] = s2]
  BY <1>2, <1>4, <1>5, <1>6 DEF Queue!PlaceIn, QueueTypes, Queue!TypeOK
<1>9. /\ RingOK(Queue!Step(0), 0, s2) /\ ~(Queue!Step(0) = 0 /\ s2 = 0)
      /\ Longer(Ring(T, 0, CountOf(0, 0, 0)), Ring(U, 0, CountOf(Queue!Step(0), 0, s2)), t)
  <2>1. RingOK(0, 0, 0) /\ ~(0 # 0 /\ 0 = 0)
    BY DEF RingOK
  <2>2. QED
    BY <1>6, <1>7, <2>1, RingPut
<1>10. /\ tasks'[b] = U /\ write'[b] = Queue!Step(0) /\ state'[b] = s2 /\ read'[b] = 0 /\ next'[b] = None
       /\ next'[writer] = b
       /\ \A c \in Block : c # b =>
            /\ tasks'[c] = tasks[c] /\ write'[c] = write[c] /\ state'[c] = state[c] /\ read'[c] = read[c]
            /\ c # writer => next'[c] = next[c]
  BY <1>2, <1>3, <1>4, <1>5, <1>8 DEF QueueTypes, Queue!TypeOK
<1>11. QueueTypes'
  <2>1. Queue!TypeOK'
    BY <1>2, <1>3, <1>4, <1>5, <1>6, <1>7, <1>8 DEF QueueTypes, Queue!TypeOK, Cell
  <2>2. \A c \in Block : RingOK(write[c], read[c], state[c])'
    BY <1>2, <1>9, <1>10 DEF QueueTypes
  <2>3. QED
    BY <1>2, <1>4, <1>5, <2>1, <2>2 DEF QueueTypes
<1>12. PICK m \in Nat \ {0} : m = n + 1
  BY <1>3
<1> DEFINE p == [i \in 1..m |-> IF i = m THEN b ELSE q[i]]
<1>13. /\ p \in [1..m -> Block] /\ p[m] = b /\ m \in 1..m
       /\ \A i \in 1..n : i \in 1..m /\ i # m /\ p[i] = q[i]
       /\ \A i \in 1..m : i = m \/ i \in 1..n
  <2>1. \A i \in 1..m : i = m \/ i \in 1..n
    BY <1>3, <1>12
  <2>2. \A i \in 1..n : i \in 1..m /\ i # m
    BY <1>3, <1>12
  <2>3. ASSUME NEW i \in 1..m PROVE p[i] \in Block
    BY <1>3, <1>5, <2>1
  <2>4. p \in [1..m -> Block]
    BY <2>3
  <2>5. \A i \in 1..n : p[i] = q[i]
    BY <2>2
  <2>6. m \in 1..m
    BY <1>12
  <2>7. p[m] = b
    BY <2>6
  <2> HIDE DEF p
  <2>8. QED
    BY <2>1, <2>2, <2>4, <2>5, <2>6, <2>7
<1> HIDE DEF p
<1>14. IsAlong(m, p)'
  <2>1. p[1] = reader' /\ p[m] = writer' /\ next'[writer'] = None
    BY <1>3, <1>4, <1>10, <1>13
  <2>2. ASSUME NEW i \in 1..m - 1 PROVE next'[p[i]] = p[i + 1]
    <3>1. i \in 1..n
      BY <1>3, <1>12
    <3>2. CASE i = n
      BY <1>3, <1>10, <1>12, <1>13, <3>1, <3>2
    <3>3. CASE i # n
      <4>1. i \in 1..n - 1 /\ i + 1 \in 1..n
        BY <1>3, <3>1, <3>3
      <4>2. q[i] # writer /\ q[i] \in Block
        BY <1>3, <3>1, <3>3
      <4>3. QED
        BY <1>3, <1>5, <1>10, <1>13, <3>1, <4>1, <4>2
    <3>4. QED
      BY <3>2, <3>3
  <2>3. \A i, j \in 1..m : p[i] = p[j] => i = j
    BY <1>3, <1>5, <1>13
  <2>4. \A i \in 1..m : p[i] \in owned' /\ state'[p[i]] # 2
    <3>1. \A i \in 1..n : q[i] \in Block /\ q[i] # b
      BY <1>3, <1>5
    <3>2. \A i \in 1..n : p[i] \in owned' /\ state'[p[i]] # 2
      <4>1. ASSUME NEW i \in 1..n PROVE q[i] \in owned' /\ state'[q[i]] # 2
        BY <1>3, <1>4, <1>10, <3>1
      <4>2. QED
        BY <1>13, <4>1
    <3>3. b \in owned' /\ state'[b] # 2
      BY <1>4, <1>6, <1>10
    <3>4. QED
      BY <1>13, <3>2, <3>3
  <2>5. QED
    BY <2>1, <2>2, <2>3, <2>4 DEF IsAlong
<1>15. AllIn(m, p)'
  <2>1. StaticBlock \in owned'
    BY <1>1, <1>4 DEF IsLine, AllIn
  <2>2. ASSUME NEW c \in owned', c # StaticBlock PROVE \E i \in 1..m : p[i] = c
    <3>1. CASE c = b
      BY <1>13, <3>1
    <3>2. CASE c \in owned
      BY <1>1, <1>13, <2>2, <3>2 DEF IsLine, AllIn
    <3>3. QED
      BY <1>4, <3>1, <3>2
  <2>3. ~(\A i \in 1..m : p[i] # StaticBlock)
    <3>1. CASE \A i \in 1..n : q[i] # StaticBlock
      <4>1. state[StaticBlock] = 2
        BY <1>1, <3>1 DEF IsLine, AllIn
      <4>2. b = StaticBlock
        BY <1>4, <4>1 DEF Queue!Spare
      <4>3. QED
        BY <1>13, <4>2
    <3>2. CASE \E i \in 1..n : q[i] = StaticBlock
      BY <1>13, <3>2
    <3>3. QED
      BY <3>1, <3>2
  <2>4. \A i \in 1..m : ~Queue!Drained(p[i])'
    <3>1. \A i \in 1..n : ~Queue!Drained(q[i])
      <4>1. CASE n = 1
        BY <1>3, <1>4, <4>1 DEF Queue!Full, Queue!Drained
      <4>2. CASE n # 1
        BY <1>1, <4>2 DEF IsLine, AllIn
      <4>3. QED
        BY <4>1, <4>2
    <3>2. \A i \in 1..n : q[i] \in Block /\ q[i] # b
      BY <1>3, <1>5
    <3>3. \A i \in 1..n : ~Queue!Drained(p[i])'
      BY <1>10, <1>13, <3>1, <3>2 DEF Queue!Drained
    <3>4. ~Queue!Drained(b)'
      BY <1>9, <1>10 DEF Queue!Drained
    <3>5. QED
      BY <1>13, <3>3, <3>4
  <2>5. QED
    BY <2>1, <2>2, <2>3, <2>4 DEF AllIn
<1>16. IsLine(m, p)'
  BY <1>12, <1>13, <1>14, <1>15 DEF IsLine
<1>17. \A i \in 1..n : Queue!Held'[q[i]] = Queue!Held[q[i]]
  <2>1. \A i \in 1..n : q[i] \in Block /\ q[i] # b
    BY <1>3, <1>5
  <2>2. \A a \in Block : a # b => Queue!Held'[a] = Queue!Held[a]
    BY <1>10 DEF Queue!Held, Queue!Waiting, Queue!Drained
  <2>3. QED
    BY <2>1, <2>2
<1>18. Queue!Held'[b] = <<t>>
  <2>1. Queue!Held'[b] = Ring(U, 0, CountOf(Queue!Step(0), 0, s2))
    <3>1. state'[b] # 2
      BY <1>6, <1>10
    <3>2. Queue!Held'[b] = Ring(tasks'[b], read'[b], CountOf(write'[b], read'[b], state'[b]))
      BY <1>5, <1>11, <3>1, ChainKnownNext DEF ChainKnown
    <3>3. QED
      BY <1>10, <3>2
  <2>2. Ring(T, 0, CountOf(0, 0, 0)) = <<>>
    BY DEF Ring, CountOf
  <2>3. QED
    <3>1. Append(<<>>, t) = <<t>>
      OBVIOUS
    <3>2. Ring(U, 0, CountOf(Queue!Step(0), 0, s2)) = Append(<<>>, t)
      BY <1>9, <2>2 DEF Longer
    <3>3. QED
      BY <2>1, <3>1, <3>2
<1>19. PICK ss \in [1..n -> Seq(Cell)] : ss = HeldBy(n, q) /\ Queue!Contents = FlattenSeq(ss)
  BY <1>1, <1>2, ChainKnownHolds DEF ChainKnown
<1>20. PICK tt \in [1..m -> Seq(Cell)] : tt = HeldBy(m, p)' /\ Queue!Contents' = FlattenSeq(tt)
  BY <1>11, <1>16, ChainKnownNext DEF ChainKnown
<1>21. (\A i \in 1..n : tt[i] = ss[i]) /\ tt[m] = <<t>>
  <2>1. \A i \in 1..n : tt[i] = ss[i]
    BY <1>13, <1>17, <1>19, <1>20 DEF HeldBy
  <2>2. tt[m] = <<t>>
    BY <1>13, <1>18, <1>20 DEF HeldBy
  <2>3. QED
    BY <2>1, <2>2
<1>22. Longer(Queue!Contents, Queue!Contents', t)
  BY <1>3, <1>7, <1>12, <1>19, <1>20, <1>21, FlatMore
<1>23. QED
  BY <1>11, <1>16, <1>22 DEF QueueInv, Longer

\* A pop that leaves tasks in the block.
LEMMA PopSomeStep ==
  ASSUME QueueBounds, QueueInv, Queue!PopSome
  PROVE  QueueInv' /\ Queue!Contents # <<>> /\ Queue!Contents' = Tail(Queue!Contents)
<1>1. PICK n, q : IsLine(n, q)
  BY DEF QueueInv
<1>2. QueueTypes
  BY DEF QueueInv
<1>3. /\ n \in Nat \ {0} /\ q \in [1..n -> Block] /\ q[1] = reader /\ q[n] = writer /\ next[writer] = None
      /\ \A i \in 1..n - 1 : next[q[i]] = q[i + 1]
      /\ \A i, j \in 1..n : q[i] = q[j] => i = j
      /\ \A i \in 1..n : q[i] \in owned /\ state[q[i]] # 2
      /\ 1 \in 1..n /\ n \in 1..n /\ reader \in Block
  BY <1>1 DEF IsLine, IsAlong
<1>4. PICK z \in Block, w \in Queue!Slot, r \in Queue!Slot, s \in {0, 1}, T \in [Queue!Slot -> Cell], s2 \in {0, 1} :
        z = reader /\ w = write[z] /\ r = read[z] /\ s = state[z] /\ T = tasks[z] /\ s2 = (IF r + 1 = BlockLength THEN 0 ELSE s)
  BY <1>2, <1>3, BlockTypes
<1>5. /\ RingOK(w, r, s) /\ ~(w = r /\ s = 0) /\ Queue!ReadNext = Queue!Step(r) /\ Queue!StateNext = s2
      /\ Queue!TakesLast <=> w = Queue!Step(r)
  BY <1>2, <1>4, BlockTypes DEF Queue!PopSome, Queue!Drained, Queue!ReadNext, Queue!StateNext, Queue!TakesLast
<1>6. /\ Queue!Step(r) \in Queue!Slot /\ RingOK(w, Queue!Step(r), s2)
      /\ Ring(T, r, CountOf(w, r, s)) # <<>>
      /\ w = Queue!Step(r) => Len(Ring(T, r, CountOf(w, r, s))) = 1
      /\ w # Queue!Step(r) => Shorter(Ring(T, r, CountOf(w, r, s)), Ring(T, Queue!Step(r), CountOf(w, Queue!Step(r), s2)))
  BY <1>4, <1>5, RingTake
<1>7. Queue!Held[z] = Ring(T, r, CountOf(w, r, s))
  BY <1>2, <1>3, <1>4, ChainKnownHolds DEF ChainKnown
<1>8. PICK ss \in [1..n -> Seq(Cell)] : ss = HeldBy(n, q) /\ Queue!Contents = FlattenSeq(ss)
  BY <1>1, <1>2, ChainKnownHolds DEF ChainKnown
<1>9. ss[1] = Queue!Held[z]
  BY <1>3, <1>4, <1>8 DEF HeldBy
<1>10. /\ read' = [read EXCEPT ![z] = Queue!Step(r)] /\ state' = [state EXCEPT ![z] = s2]
       /\ UNCHANGED <<tasks, write, next, reader, writer, owned>> /\ w # Queue!Step(r)
  BY <1>4, <1>5 DEF Queue!PopSome
<1>11. /\ read'[z] = Queue!Step(r) /\ state'[z] = s2
       /\ \A b \in Block : b # z => read'[b] = read[b] /\ state'[b] = state[b]
  BY <1>2, <1>10 DEF QueueTypes, Queue!TypeOK
<1>12. QueueTypes'
  <2>1. Queue!TypeOK'
    BY <1>2, <1>6, <1>10 DEF QueueTypes, Queue!TypeOK
  <2>2. \A b \in Block : RingOK(write[b], read[b], state[b])'
    BY <1>2, <1>4, <1>6, <1>10, <1>11 DEF QueueTypes
  <2>3. QED
    BY <1>2, <1>10, <2>1, <2>2 DEF QueueTypes
<1>13. IsLine(n, q)'
  <2>1. ASSUME NEW i \in 1..n PROVE state'[q[i]] # 2
    <3>1. q[i] \in Block /\ state[q[i]] # 2 /\ s2 # 2
      BY <1>3, <1>4
    <3>2. QED
      BY <1>11, <3>1
  <2>2. IsAlong(n, q)'
    BY <1>3, <1>10, <2>1 DEF IsAlong
  <2>3. \A i \in 1..n : ~Queue!Drained(q[i]) => ~Queue!Drained(q[i])'
    BY <1>3, <1>4, <1>10, <1>11 DEF Queue!Drained
  <2>4. ASSUME \A i \in 1..n : q[i] # StaticBlock PROVE state'[StaticBlock] = 2
    <3>1. StaticBlock # z
      BY <1>3, <1>4, <2>4
    <3>2. QED
      BY <1>1, <1>11, <2>4, <3>1 DEF IsLine, AllIn, QueueBounds
  <2>5. AllIn(n, q)'
    BY <1>1, <1>10, <2>3, <2>4 DEF IsLine, AllIn
  <2>6. QED
    BY <1>3, <2>2, <2>5 DEF IsLine
<1>14. Shorter(Queue!Held[z], Queue!Held'[z])
  <2>1. state'[z] # 2
    BY <1>11
  <2>2. Queue!Held'[z] = Ring(tasks'[z], read'[z], CountOf(write'[z], read'[z], state'[z]))
    BY <1>12, <2>1, ChainKnownNext DEF ChainKnown
  <2>3. QED
    BY <1>4, <1>6, <1>7, <1>10, <1>11, <2>2
<1>15. PICK tt \in [1..n -> Seq(Cell)] : tt = HeldBy(n, q)' /\ Queue!Contents' = FlattenSeq(tt)
  BY <1>12, <1>13, ChainKnownNext DEF ChainKnown
<1>16. ASSUME NEW i \in 2..n PROVE tt[i] = ss[i]
  <2>1. i \in 1..n /\ i # 1
    BY <1>3
  <2>2. q[i] # z /\ q[i] \in Block
    BY <1>3, <1>4, <2>1
  <2>3. Queue!Held'[q[i]] = Queue!Held[q[i]]
    BY <1>10, <1>11, <2>2 DEF Queue!Held, Queue!Waiting, Queue!Drained
  <2>4. QED
    BY <1>8, <1>15, <2>1, <2>3 DEF HeldBy
<1>17. Shorter(ss[1], tt[1])
  <2>1. tt[1] = Queue!Held'[z]
    BY <1>3, <1>4, <1>15 DEF HeldBy
  <2>2. QED
    BY <1>9, <1>14, <2>1
<1>18. Queue!Contents # <<>> /\ Queue!Contents' = Tail(Queue!Contents)
  <2>1. Shorter(FlattenSeq(ss), FlattenSeq(tt))
    BY <1>3, <1>16, <1>17, FlatTail
  <2>2. QED
    BY <1>8, <1>15, <2>1 DEF Shorter
<1>19. QED
  BY <1>12, <1>13, <1>18 DEF QueueInv

\* A pop that frees the block and goes on to the next.
LEMMA PopToNextStep ==
  ASSUME QueueBounds, QueueInv, Queue!PopToNext
  PROVE  QueueInv' /\ Queue!Contents # <<>> /\ Queue!Contents' = Tail(Queue!Contents)
<1>1. PICK n, q : IsLine(n, q)
  BY DEF QueueInv
<1>2. QueueTypes
  BY DEF QueueInv
<1>3. /\ n \in Nat \ {0} /\ q \in [1..n -> Block] /\ q[1] = reader /\ q[n] = writer /\ next[writer] = None
      /\ \A i \in 1..n - 1 : next[q[i]] = q[i + 1]
      /\ \A i, j \in 1..n : q[i] = q[j] => i = j
      /\ \A i \in 1..n : q[i] \in owned /\ state[q[i]] # 2
      /\ 1 \in 1..n /\ n \in 1..n /\ reader \in Block
  BY <1>1 DEF IsLine, IsAlong
<1>4. PICK z \in Block, w \in Queue!Slot, r \in Queue!Slot, s \in {0, 1}, T \in [Queue!Slot -> Cell], s2 \in {0, 1} :
        z = reader /\ w = write[z] /\ r = read[z] /\ s = state[z] /\ T = tasks[z] /\ s2 = (IF r + 1 = BlockLength THEN 0 ELSE s)
  BY <1>2, <1>3, BlockTypes
<1>5. /\ RingOK(w, r, s) /\ ~(w = r /\ s = 0) /\ Queue!ReadNext = Queue!Step(r) /\ Queue!StateNext = s2
      /\ Queue!TakesLast <=> w = Queue!Step(r)
  BY <1>2, <1>4, BlockTypes DEF Queue!PopToNext, Queue!Drained, Queue!ReadNext, Queue!StateNext, Queue!TakesLast
<1>6. /\ Queue!Step(r) \in Queue!Slot /\ RingOK(w, Queue!Step(r), s2)
      /\ Ring(T, r, CountOf(w, r, s)) # <<>>
      /\ w = Queue!Step(r) => Len(Ring(T, r, CountOf(w, r, s))) = 1
      /\ w # Queue!Step(r) => Shorter(Ring(T, r, CountOf(w, r, s)), Ring(T, Queue!Step(r), CountOf(w, Queue!Step(r), s2)))
  BY <1>4, <1>5, RingTake
<1>7. Queue!Held[z] = Ring(T, r, CountOf(w, r, s))
  BY <1>2, <1>3, <1>4, ChainKnownHolds DEF ChainKnown
<1>8. PICK ss \in [1..n -> Seq(Cell)] : ss = HeldBy(n, q) /\ Queue!Contents = FlattenSeq(ss)
  BY <1>1, <1>2, ChainKnownHolds DEF ChainKnown
<1>9. ss[1] = Queue!Held[z]
  BY <1>3, <1>4, <1>8 DEF HeldBy
<1>10. PICK m \in Nat \ {0} : n = m + 1
  <2>1. n # 1
    BY <1>3 DEF Queue!PopToNext
  <2>2. n - 1 \in Nat \ {0} /\ n = (n - 1) + 1
    BY <1>3, <2>1
  <2>3. QED
    BY <2>2
<1> DEFINE p == [i \in 1..m |-> q[i + 1]]
<1>11. /\ p \in [1..m -> Block] /\ \A i \in 1..m : p[i] = q[i + 1] /\ i + 1 \in 1..n /\ q[i + 1] \in Block
       /\ 1 \in 1..m /\ m \in 1..m
       /\ \A i \in 1..n : i # 1 => i - 1 \in 1..m /\ (i - 1) + 1 = i
  <2>1. \A i \in 1..m : i + 1 \in 1..n
    BY <1>10
  <2>2. \A i \in 1..m : q[i + 1] \in Block
    BY <1>3, <2>1
  <2>3. p \in [1..m -> Block] /\ \A i \in 1..m : p[i] = q[i + 1]
    BY <2>2
  <2>4. \A i \in 1..n : i # 1 => i - 1 \in 1..m /\ (i - 1) + 1 = i
    BY <1>10
  <2>5. 1 \in 1..m /\ m \in 1..m
    BY <1>10
  <2> HIDE DEF p
  <2>6. QED
    BY <2>1, <2>2, <2>3, <2>4, <2>5
<1> HIDE DEF p
<1>12. \A i \in 1..m : p[i] # z
  BY <1>3, <1>4, <1>10, <1>11
<1>13. /\ read' = [read EXCEPT ![z] = Queue!Step(r)]
       /\ state' = [state EXCEPT ![z] = IF z = StaticBlock THEN 2 ELSE s2]
       /\ next' = [next EXCEPT ![z] = None] /\ reader' = next[z]
       /\ owned' = (IF z = StaticBlock THEN owned ELSE owned \ {z})
       /\ UNCHANGED <<tasks, write, writer>> /\ w = Queue!Step(r)
  BY <1>4, <1>5 DEF Queue!PopToNext, Queue!Free
<1>14. /\ read'[z] = Queue!Step(r) /\ next'[z] = None
       /\ z = StaticBlock => state'[z] = 2
       /\ z # StaticBlock => state'[z] = s2
       /\ \A b \in Block : b # z => read'[b] = read[b] /\ state'[b] = state[b] /\ next'[b] = next[b]
  BY <1>2, <1>13 DEF QueueTypes, Queue!TypeOK
<1>15. reader' = p[1] /\ p[m] = writer
  <2>1. 1 \in 1..n - 1
    BY <1>10
  <2>2. q[1 + 1] = next[z] /\ q[m + 1] = writer
    BY <1>3, <1>4, <1>10, <2>1
  <2>3. QED
    BY <1>11, <1>13, <2>2
<1>16. QueueTypes'
  <2>1. Queue!TypeOK'
    BY <1>2, <1>6, <1>13 DEF QueueTypes, Queue!TypeOK
  <2>2. \A b \in Block : RingOK(write[b], read[b], state[b])'
    <3>1. ASSUME NEW b \in Block, b # z PROVE RingOK(write[b], read[b], state[b])'
      BY <1>2, <1>13, <1>14, <3>1 DEF QueueTypes
    <3>2. PICK v : v = state'[z]
      OBVIOUS
    <3>3. v = 2 \/ v = s2
      BY <1>14, <3>2
    <3>4. RingOK(w, Queue!Step(r), v)
      BY <1>6, <3>3 DEF RingOK
    <3>5. ASSUME NEW b \in Block, b = z PROVE RingOK(write[b], read[b], state[b])'
      BY <1>4, <1>13, <1>14, <3>2, <3>4, <3>5
    <3>6. QED
      BY <3>1, <3>5
  <2>3. reader' \in Block
    BY <1>11, <1>15
  <2>4. QED
    BY <1>2, <1>13, <2>1, <2>2, <2>3 DEF QueueTypes
<1>17. IsAlong(m, p)'
  <2>1. p[1] = reader' /\ p[m] = writer' /\ next'[writer'] = None
    BY <1>3, <1>11, <1>12, <1>13, <1>14, <1>15
  <2>2. ASSUME NEW i \in 1..m - 1 PROVE next'[p[i]] = p[i + 1]
    <3>1. i \in 1..m /\ i + 1 \in 1..m /\ i + 1 \in 1..n - 1
      BY <1>10
    <3>2. next[q[i + 1]] = q[(i + 1) + 1]
      BY <1>3, <3>1
    <3>3. next'[p[i]] = next[p[i]]
      BY <1>11, <1>12, <1>14, <3>1
    <3>4. QED
      BY <1>11, <3>1, <3>2, <3>3
  <2>3. ASSUME NEW i \in 1..m, NEW j \in 1..m, p[i] = p[j] PROVE i = j
    <3>1. i + 1 = j + 1
      BY <1>3, <1>11, <2>3
    <3>2. QED
      BY <1>10, <3>1
  <2>4. ASSUME NEW i \in 1..m PROVE p[i] \in owned' /\ state'[p[i]] # 2
    <3>1. q[i + 1] \in owned /\ state[q[i + 1]] # 2 /\ q[i + 1] # z /\ q[i + 1] \in Block
      BY <1>3, <1>11, <1>12
    <3>2. QED
      BY <1>11, <1>13, <1>14, <3>1
  <2>5. QED
    BY <2>1, <2>2, <2>3, <2>4 DEF IsAlong
<1>18. AllIn(m, p)'
  <2>1. StaticBlock \in owned'
    BY <1>1, <1>13 DEF IsLine, AllIn
  <2>2. ASSUME NEW c \in owned', c # StaticBlock PROVE \E i \in 1..m : p[i] = c
    <3>1. c \in owned /\ c # z
      BY <1>13, <2>2
    <3>2. PICK i \in 1..n : q[i] = c
      BY <1>1, <2>2, <3>1 DEF IsLine, AllIn
    <3>3. i # 1
      BY <1>3, <1>4, <3>1, <3>2
    <3>4. QED
      BY <1>11, <3>2, <3>3
  <2>3. ASSUME \A i \in 1..m : p[i] # StaticBlock PROVE state'[StaticBlock] = 2 /\ next'[StaticBlock] = None
    <3>1. CASE z = StaticBlock
      BY <1>14, <3>1
    <3>2. CASE z # StaticBlock
      <4>1. ASSUME NEW i \in 1..n PROVE q[i] # StaticBlock
        <5>1. CASE i = 1
          BY <1>3, <1>4, <3>2, <5>1
        <5>2. CASE i # 1
          BY <1>11, <2>3, <5>2
        <5>3. QED
          BY <5>1, <5>2
      <4>2. state[StaticBlock] = 2 /\ next[StaticBlock] = None
        BY <1>1, <4>1 DEF IsLine, AllIn
      <4>3. QED
        BY <1>14, <3>2, <4>2 DEF QueueBounds
    <3>3. QED
      BY <3>1, <3>2
  <2>4. \A i \in 1..m : ~Queue!Drained(p[i])'
    <3>1. n # 1
      BY <1>10
    <3>2. \A i \in 1..n : ~Queue!Drained(q[i])
      BY <1>1, <3>1 DEF IsLine, AllIn
    <3>3. QED
      BY <1>11, <1>12, <1>13, <1>14, <3>2 DEF Queue!Drained
  <2>5. QED
    BY <2>1, <2>2, <2>3, <2>4 DEF AllIn
<1>19. IsLine(m, p)'
  BY <1>11, <1>17, <1>18 DEF IsLine
<1>20. PICK tt \in [1..m -> Seq(Cell)] : tt = HeldBy(m, p)' /\ Queue!Contents' = FlattenSeq(tt)
  BY <1>16, <1>19, ChainKnownNext DEF ChainKnown
<1>21. ASSUME NEW i \in 1..m PROVE tt[i] = ss[i + 1]
  <2>1. p[i] = q[i + 1] /\ p[i] \in Block /\ p[i] # z /\ i + 1 \in 1..n
    BY <1>11, <1>12
  <2>2. Queue!Held'[p[i]] = Queue!Held[p[i]]
    BY <1>13, <1>14, <2>1 DEF Queue!Held, Queue!Waiting, Queue!Drained
  <2>3. QED
    BY <1>8, <1>20, <2>1, <2>2 DEF HeldBy
<1>22. Len(ss[1]) = 1
  BY <1>6, <1>7, <1>9, <1>13
<1>23. Queue!Contents # <<>> /\ Queue!Contents' = Tail(Queue!Contents)
  <2>1. ss \in [1..m + 1 -> Seq(Cell)]
    BY <1>8, <1>10
  <2>2. Shorter(FlattenSeq(ss), FlattenSeq(tt))
    BY <1>10, <1>20, <1>21, <1>22, <2>1, FlatLess
  <2>3. QED
    BY <1>8, <1>20, <2>2 DEF Shorter
<1>24. QED
  BY <1>16, <1>19, <1>23 DEF QueueInv

\* A queue of the static block alone that has just been reset holds nothing.
LEMMA ResetEmpty ==
  ASSUME QueueBounds, QueueTypes', reader' = StaticBlock, writer' = StaticBlock, owned' = {StaticBlock},
         write'[StaticBlock] = 0, read'[StaticBlock] = 0, state'[StaticBlock] = 0, next'[StaticBlock] = None
  PROVE  QueueInv' /\ Queue!Contents' = <<>>
<1> DEFINE p == [i \in 1..1 |-> StaticBlock]
<1>1. p \in [1..1 -> Block] /\ p[1] = StaticBlock
  BY DEF QueueBounds
<1> HIDE DEF p
<1>2. IsAlong(1, p)'
  BY <1>1 DEF IsAlong
<1>3. AllIn(1, p)'
  BY <1>1 DEF AllIn
<1>4. IsLine(1, p)'
  BY <1>1, <1>2, <1>3 DEF IsLine
<1>5. PICK tt \in [1..1 -> Seq(Cell)] : tt = HeldBy(1, p)' /\ Queue!Contents' = FlattenSeq(tt)
  BY <1>4, ChainKnownNext DEF ChainKnown
<1>6. tt[1] = Queue!Held'[StaticBlock]
  BY <1>1, <1>5 DEF HeldBy
<1>7. Queue!Held'[StaticBlock] = <<>>
  BY DEF Queue!Held, Queue!Waiting, Queue!Drained, QueueBounds
<1>8. FlattenSeq(tt) = tt[1]
  BY FlatOne
<1>9. QED
  BY <1>4, <1>5, <1>6, <1>7, <1>8 DEF QueueInv

\* A pop of the last task of the queue.
LEMMA PopLastStep ==
  ASSUME QueueBounds, QueueInv, Queue!PopLast
  PROVE  QueueInv' /\ Queue!Contents # <<>> /\ Queue!Contents' = Tail(Queue!Contents)
<1>1. PICK n, q : IsLine(n, q)
  BY DEF QueueInv
<1>2. QueueTypes
  BY DEF QueueInv
<1>3. /\ n \in Nat \ {0} /\ q \in [1..n -> Block] /\ q[1] = reader /\ q[n] = writer /\ next[writer] = None
      /\ \A i \in 1..n - 1 : next[q[i]] = q[i + 1]
      /\ \A i, j \in 1..n : q[i] = q[j] => i = j
      /\ \A i \in 1..n : q[i] \in owned /\ state[q[i]] # 2
      /\ 1 \in 1..n /\ n \in 1..n /\ reader \in Block
  BY <1>1 DEF IsLine, IsAlong
<1>4. PICK z \in Block, w \in Queue!Slot, r \in Queue!Slot, s \in {0, 1}, T \in [Queue!Slot -> Cell], s2 \in {0, 1} :
        z = reader /\ w = write[z] /\ r = read[z] /\ s = state[z] /\ T = tasks[z] /\ s2 = (IF r + 1 = BlockLength THEN 0 ELSE s)
  BY <1>2, <1>3, BlockTypes
<1>5. /\ RingOK(w, r, s) /\ ~(w = r /\ s = 0) /\ Queue!ReadNext = Queue!Step(r) /\ Queue!StateNext = s2
      /\ Queue!TakesLast <=> w = Queue!Step(r)
  BY <1>2, <1>4, BlockTypes DEF Queue!PopLast, Queue!Drained, Queue!ReadNext, Queue!StateNext, Queue!TakesLast
<1>6. /\ Queue!Step(r) \in Queue!Slot /\ RingOK(w, Queue!Step(r), s2)
      /\ Ring(T, r, CountOf(w, r, s)) # <<>>
      /\ w = Queue!Step(r) => Len(Ring(T, r, CountOf(w, r, s))) = 1
      /\ w # Queue!Step(r) => Shorter(Ring(T, r, CountOf(w, r, s)), Ring(T, Queue!Step(r), CountOf(w, Queue!Step(r), s2)))
  BY <1>4, <1>5, RingTake
<1>7. Queue!Held[z] = Ring(T, r, CountOf(w, r, s))
  BY <1>2, <1>3, <1>4, ChainKnownHolds DEF ChainKnown
<1>8. PICK ss \in [1..n -> Seq(Cell)] : ss = HeldBy(n, q) /\ Queue!Contents = FlattenSeq(ss)
  BY <1>1, <1>2, ChainKnownHolds DEF ChainKnown
<1>9. ss[1] = Queue!Held[z]
  BY <1>3, <1>4, <1>8 DEF HeldBy
<1>10. n = 1
  <2>1. SUFFICES ASSUME n # 1 PROVE FALSE
    OBVIOUS
  <2>2. 1 \in 1..n - 1 /\ 1 + 1 \in 1..n
    BY <1>3, <2>1
  <2>3. next[reader] = q[1 + 1] /\ q[1 + 1] \in Block
    BY <1>3, <2>2
  <2>4. QED
    BY <2>3 DEF Queue!PopLast, QueueBounds
<1>11. \A b \in owned : b = z \/ b = StaticBlock
  BY <1>1, <1>3, <1>4, <1>10 DEF IsLine, AllIn
<1>12. z # StaticBlock => state[StaticBlock] = 2 /\ next[StaticBlock] = None
  <2>1. z # StaticBlock => \A i \in 1..n : q[i] # StaticBlock
    BY <1>3, <1>4, <1>10
  <2>2. QED
    BY <1>1, <2>1 DEF IsLine, AllIn
<1>13. StaticBlock \in owned /\ StaticBlock \in Block
  BY <1>1 DEF IsLine, AllIn, QueueBounds
<1>14. /\ reader' = StaticBlock /\ writer' = StaticBlock /\ owned' = {StaticBlock}
       /\ read' = [read EXCEPT ![StaticBlock] = 0] /\ write' = [write EXCEPT ![StaticBlock] = 0]
       /\ state' = [state EXCEPT ![StaticBlock] = 0] /\ tasks' = tasks
       /\ next' = (IF z = StaticBlock THEN next ELSE [next EXCEPT ![z] = None]) /\ next[z] = None
  <2>1. CASE z = StaticBlock
    BY <1>3, <1>4, <1>10, <1>11, <1>13, <2>1 DEF Queue!PopLast
  <2>2. CASE z # StaticBlock
    BY <1>4, <1>11, <1>12, <1>13, <2>2 DEF Queue!PopLast, Queue!Free
  <2>3. QED
    BY <2>1, <2>2
<1>15. /\ write'[StaticBlock] = 0 /\ read'[StaticBlock] = 0 /\ state'[StaticBlock] = 0
       /\ next'[StaticBlock] = None
       /\ \A b \in Block : b # StaticBlock => write'[b] = write[b] /\ read'[b] = read[b] /\ state'[b] = state[b]
  BY <1>2, <1>4, <1>12, <1>13, <1>14 DEF QueueTypes, Queue!TypeOK
<1>16. QueueTypes'
  <2>1. Queue!TypeOK'
    BY <1>2, <1>4, <1>13, <1>14 DEF QueueTypes, Queue!TypeOK, QueueBounds, Queue!Slot
  <2>2. \A b \in Block : RingOK(write[b], read[b], state[b])'
    BY <1>2, <1>15 DEF QueueTypes, RingOK
  <2>3. QED
    BY <1>13, <1>14, <2>1, <2>2 DEF QueueTypes
<1>17. QueueInv' /\ Queue!Contents' = <<>>
  BY <1>14, <1>15, <1>16, ResetEmpty
<1>18. Queue!Contents = Queue!Held[z]
  <2>1. ss \in [1..1 -> Seq(Cell)]
    BY <1>8, <1>10
  <2>2. FlattenSeq(ss) = ss[1]
    BY <2>1, FlatOne
  <2>3. QED
    BY <1>8, <1>9, <2>2
<1>19. Queue!Held[z] # <<>> /\ Tail(Queue!Held[z]) = <<>>
  <2>1. Queue!Held[z] # <<>> /\ Len(Queue!Held[z]) = 1
    BY <1>4, <1>5, <1>6, <1>7 DEF Queue!PopLast
  <2>2. PICK c \in Seq(Cell) : c = Queue!Held[z]
    BY <1>3, <1>8, <1>9
  <2>3. Tail(c) \in Seq(Cell) /\ Len(Tail(c)) = 0
    BY <2>1, <2>2, HeadTailProperties
  <2>4. Tail(c) = <<>>
    BY <2>3, EmptySeq
  <2>5. QED
    BY <2>1, <2>2, <2>4
<1>20. QED
  BY <1>17, <1>18, <1>19

\* fio_defer_clear_tasks_for_queue.
LEMMA ClearStep ==
  ASSUME QueueBounds, QueueInv, Queue!Clear
  PROVE  QueueInv' /\ Queue!Contents' = <<>>
<1>1. QueueTypes
  BY DEF QueueInv
<1>2. /\ write'[StaticBlock] = 0 /\ read'[StaticBlock] = 0 /\ state'[StaticBlock] = 0
      /\ next'[StaticBlock] = None
      /\ \A b \in Block : b # StaticBlock => write'[b] = write[b] /\ read'[b] = read[b] /\ state'[b] = state[b]
  BY <1>1 DEF Queue!Clear, QueueTypes, Queue!TypeOK, QueueBounds
<1>3. QueueTypes'
  <2>1. Queue!TypeOK'
    BY <1>1 DEF Queue!Clear, QueueTypes, Queue!TypeOK, QueueBounds, Queue!Slot
  <2>2. \A b \in Block : RingOK(write[b], read[b], state[b])'
    BY <1>1, <1>2 DEF QueueTypes, RingOK
  <2>3. QED
    BY <2>1, <2>2 DEF Queue!Clear, QueueTypes, QueueBounds
<1>4. QED
  BY <1>2, <1>3, ResetEmpty DEF Queue!Clear

----------------------------------------------------------------------------
\* A step that leaves the queue alone leaves what it holds alone.
LEMMA QueueStutter ==
  ASSUME QueueBounds, QueueInv, UNCHANGED Queue!vars
  PROVE  QueueInv' /\ Queue!Contents' = Queue!Contents
<1>1. /\ tasks' = tasks /\ write' = write /\ read' = read /\ next' = next /\ state' = state
      /\ reader' = reader /\ writer' = writer /\ owned' = owned
  BY DEF Queue!vars
<1>2. QueueTypes'
  BY <1>1 DEF QueueInv, QueueTypes, Queue!TypeOK
<1>3. \A n, q : IsLine(n, q) => IsLine(n, q)'
  BY <1>1 DEF IsLine, IsAlong, AllIn, Queue!Drained
<1>4. QueueInv'
  BY <1>2, <1>3 DEF QueueInv
<1>5. PICK n, q : IsLine(n, q)
  BY DEF QueueInv
<1>6. Queue!Contents = FlattenSeq(HeldBy(n, q))
  BY <1>5, ChainKnownHolds DEF ChainKnown, QueueInv
<1>7. Queue!Contents' = FlattenSeq(HeldBy(n, q)')
  BY <1>2, <1>3, <1>5, ChainKnownNext DEF ChainKnown
<1>8. HeldBy(n, q)' = HeldBy(n, q)
  BY <1>1 DEF HeldBy, Queue!Held, Queue!Waiting, Queue!Drained
<1>9. QED
  BY <1>4, <1>6, <1>7, <1>8

\* Each step of the queue puts a task last, takes the first, empties it or changes nothing.
LEMMA QueueStep ==
  ASSUME QueueBounds, QueueInv, [Queue!Next]_Queue!vars
  PROVE  /\ QueueInv'
         /\ \/ \E t \in Job : Queue!Contents' = Append(Queue!Contents, t)
            \/ Queue!Contents # <<>> /\ Queue!Contents' = Tail(Queue!Contents)
            \/ Queue!Contents' = <<>>
            \/ Queue!Contents' = Queue!Contents
<1>1. CASE UNCHANGED Queue!vars
  BY <1>1, QueueStutter
<1>2. CASE Queue!PopSome
  BY <1>2, PopSomeStep
<1>3. CASE Queue!PopToNext
  BY <1>3, PopToNextStep
<1>4. CASE Queue!PopLast
  BY <1>4, PopLastStep
<1>5. CASE Queue!Clear
  BY <1>5, ClearStep
<1>6. ASSUME NEW t \in Job, Queue!Push(t) PROVE QueueInv' /\ Queue!Contents' = Append(Queue!Contents, t)
  BY <1>6, PushHereStep, PushNewBlockStep DEF Queue!Push
<1>7. QED
  BY <1>1, <1>2, <1>3, <1>4, <1>5, <1>6 DEF Queue!Next, Queue!Pop

\* The queue starts empty.
LEMMA QueueEmpty == ASSUME QueueBounds, Queue!Init PROVE Queue!Contents = <<>>
<1> DEFINE q == [i \in 1..1 |-> StaticBlock]
<1>1. IsLine(1, q)
  BY DEF QueueBounds, Queue!Init, IsLine, IsAlong, AllIn, Queue!Drained
<1>2. QueueTypes
  BY QueueInit DEF QueueInv
<1>3. PICK ss \in [1..1 -> Seq(Cell)] : ss = HeldBy(1, q) /\ Queue!Contents = FlattenSeq(ss)
  BY <1>1, <1>2, ChainKnownHolds DEF ChainKnown
<1>4. ss[1] = Queue!Held[StaticBlock]
  BY <1>3 DEF HeldBy
<1>5. Queue!Held[StaticBlock] = <<>>
  BY DEF Queue!Held, Queue!Waiting, Queue!Drained, Queue!Init, QueueBounds
<1>6. FlattenSeq(ss) = ss[1]
  BY FlatOne
<1>7. QED
  BY <1>3, <1>4, <1>5, <1>6

\* The blocks in use are those from the reader to the writer, and the static one.
LEMMA QueueOwned == ASSUME QueueBounds, QueueInv PROVE Queue!BlocksOwned
<1>1. PICK n, q : IsLine(n, q)
  BY DEF QueueInv
<1>2. Queue!Chain = q
  BY <1>1, OneChain DEF QueueInv
<1>3. n \in Nat \ {0} /\ q \in [1..n -> Block] /\ q[n] = writer
      /\ \A i \in 1..n : q[i] \in owned /\ state[q[i]] # 2
  BY <1>1 DEF IsLine, IsAlong
<1>4. Len(q) = n
  <2>1. q \in Seq(Block)
    BY <1>3, SeqDef
  <2>2. DOMAIN q = 1..n /\ DOMAIN q = 1..Len(q) /\ Len(q) \in Nat
    BY <1>3, <2>1, LenProperties
  <2>3. QED
    BY <1>3, <2>2
<1>5. \A b : b \in Queue!Range(q) <=> \E i \in 1..n : q[i] = b
  BY <1>3 DEF Queue!Range
<1>6. owned \ {StaticBlock} \subseteq Queue!Range(q)
  BY <1>1, <1>5 DEF IsLine, AllIn
<1>7. Queue!Range(q) \subseteq owned /\ \A b \in Queue!Range(q) : state[b] # 2
  BY <1>3, <1>5
<1>8. QED
  BY <1>2, <1>3, <1>4, <1>6, <1>7 DEF Queue!BlocksOwned

\* The positions tell a queue that holds something, all but a full single block.
LEMMA QueueTells == ASSUME QueueBounds, QueueInv PROVE Queue!HasQueueTells
<1>1. PICK n, q : IsLine(n, q)
  BY DEF QueueInv
<1>2. QueueTypes
  BY DEF QueueInv
<1>3. /\ n \in Nat \ {0} /\ q \in [1..n -> Block] /\ q[1] = reader /\ q[n] = writer
      /\ \A i, j \in 1..n : q[i] = q[j] => i = j
      /\ \A i \in 1..n : state[q[i]] # 2
      /\ 1 \in 1..n /\ n \in 1..n /\ reader \in Block
  BY <1>1 DEF IsLine, IsAlong
<1>4. PICK ss \in [1..n -> Seq(Cell)] : ss = HeldBy(n, q) /\ Queue!Contents = FlattenSeq(ss)
  BY <1>1, <1>2, ChainKnownHolds DEF ChainKnown
<1>5. ss[1] = Queue!Held[reader]
  BY <1>3, <1>4 DEF HeldBy
<1>6. state[reader] \in {0, 1}
  BY <1>2, <1>3, BlockTypes
<1>7. Queue!Held[reader] \in Seq(Cell) /\ (~Queue!Drained(reader) => Queue!Held[reader] # <<>>)
  <2>1. PICK w \in Queue!Slot, r \in Queue!Slot, s \in {0, 1}, T \in [Queue!Slot -> Cell], s2 \in {0, 1} :
          w = write[reader] /\ r = read[reader] /\ s = state[reader] /\ T = tasks[reader]
          /\ s2 = (IF r + 1 = BlockLength THEN 0 ELSE s)
    BY <1>2, <1>3, BlockTypes
  <2>2. Queue!Held[reader] = Ring(T, r, CountOf(w, r, s)) /\ Queue!Held[reader] \in Seq(Cell) /\ RingOK(w, r, s)
    BY <1>2, <1>3, <1>6, <2>1, HeldIs, BlockTypes
  <2>3. ~(w = r /\ s = 0) => Ring(T, r, CountOf(w, r, s)) # <<>>
    BY <2>1, <2>2, RingTake
  <2>4. QED
    BY <2>1, <2>2, <2>3 DEF Queue!Drained
<1>8. ~Queue!Drained(reader) => Queue!Contents # <<>>
  <2>1. ss[1] # <<>> => FlattenSeq(ss) # <<>>
    BY <1>3, FlatNonempty
  <2>2. QED
    BY <1>4, <1>5, <1>7, <2>1
<1>9. Queue!HasQueue => ~Queue!Drained(reader)
  <2>1. CASE reader # writer
    <3>1. n # 1
      BY <1>3, <2>1
    <3>2. QED
      BY <1>1, <1>3, <3>1 DEF IsLine, AllIn
  <2>2. CASE write[reader] # read[reader]
    BY <2>2 DEF Queue!Drained
  <2>3. QED
    BY <2>1, <2>2 DEF Queue!HasQueue
<1>10. ASSUME Queue!Contents # <<>>, ~Queue!HasQueue PROVE reader = writer /\ Queue!Full(reader)
  <2>1. reader = writer /\ write[reader] = read[reader]
    BY <1>10 DEF Queue!HasQueue
  <2>2. n = 1
    BY <1>3, <2>1
  <2>3. Queue!Contents = Queue!Held[reader]
    <3>1. ss \in [1..1 -> Seq(Cell)]
      BY <2>2
    <3>2. FlattenSeq(ss) = ss[1]
      BY <3>1, FlatOne
    <3>3. QED
      BY <1>4, <1>5, <3>2
  <2>4. Queue!Drained(reader) => Queue!Held[reader] = <<>>
    BY <1>3 DEF Queue!Held, Queue!Waiting
  <2>5. QED
    BY <1>10, <2>1, <2>3, <2>4 DEF Queue!Drained, Queue!Full
<1>11. QED
  BY <1>8, <1>9, <1>10 DEF Queue!HasQueueTells

\* The chain and its rings are as they should be in every state.
LEMMA QueueHolds == ASSUME QueueBounds PROVE Queue!Spec => []QueueInv
<1>1. Queue!Init => QueueInv
  BY QueueInit
<1>2. QueueInv /\ [Queue!Next]_Queue!vars => QueueInv'
  BY QueueStep
<1>3. QED
  BY <1>1, <1>2, PTL DEF Queue!Spec

\* The queue keeps its types.
THEOREM QueueTypeOK == ASSUME QueueBounds PROVE Queue!Spec => []Queue!TypeOK
<1>1. QueueInv => Queue!TypeOK
  BY DEF QueueInv, QueueTypes
<1>2. QED
  BY <1>1, QueueHolds, PTL

\* No block is used after it was freed, none is lost, and the chain ends at the writer.
THEOREM QueueBlocksOwned == ASSUME QueueBounds PROVE Queue!Spec => []Queue!BlocksOwned
<1>1. QueueInv => Queue!BlocksOwned
  BY QueueOwned
<1>2. QED
  BY <1>1, QueueHolds, PTL

\* fio_defer_has_queue never says so of an empty queue, and overlooks tasks only when they
\* fill the one block there is.
THEOREM QueueHasQueueTells == ASSUME QueueBounds PROVE Queue!Spec => []Queue!HasQueueTells
<1>1. QueueInv => Queue!HasQueueTells
  BY QueueTells
<1>2. QED
  BY <1>1, QueueHolds, PTL

----------------------------------------------------------------------------
\* The parts of the reactor. A module of proofs extends that of its component, whose
\* specification and theorems it has here with the variables of the part.
Written == INSTANCE SocketProofs WITH MaxConn <- 1, armed <- awaited, pc <- io
Reused == INSTANCE SocketProofs WITH MaxWrites <- MaxWritesEach, armed <- awaited, pc <- io
Called == INSTANCE ConnectionProofs WITH
            MaxConn <- MaxProtocols, Suspends <- FALSE, Slowloris <- FALSE,
            fd <- fd_data, sock <- peer, armed <- polled, queue <- waiting, pc <- where,
            conns <- attached, tasks <- posted
Struck == INSTANCE ConnectionProofs WITH
            MaxConn <- MaxAttackers, Suspends <- TRUE, Slowloris <- TRUE,
            fd <- fd_data, sock <- peer, armed <- polled, queue <- waiting, pc <- where,
            conns <- attached, tasks <- posted
Allocated == INSTANCE MallocProofs WITH
               Chunk <- Mapping, available <- pool, lock <- arena_lock, pc <- place
Borrowed == INSTANCE ConnPoolProofs WITH
              Threads <- Borrower, ConnectionsCount <- PoolLength, NULL <- None,
              connections <- pooled, pc <- turn

\* Whichever of two conditions the parts that share variables are under, it stays.
Reusing == part = "reuse"
Attacking == part = "attacked"
Stays == part' = part
Parts ==
    /\ [][Stays]_part
    /\ Reusing => Reused!Spec
    /\ ~Reusing => Written!Spec
    /\ Attacking => Struck!Spec
    /\ ~Attacking => Called!Spec

LEMMA SameParts == [Stays]_part => (Reusing' <=> Reusing) /\ (Attacking' <=> Attacking)
BY DEF Stays, Reusing, Attacking

\* fio_malloc and fio_free keep their promises as a part of the reactor (Malloc).
THEOREM ReactorMemorySound == ASSUME Allocated!MallocBounds PROVE Allocated!Spec => []MemorySound
<1>1. Allocated!Spec => []Allocated!MemorySound
  BY Allocated!MallocMemorySound
<1>2. Allocated!MemorySound => MemorySound
  <2>1. Allocated!TypeOK => Memory!TypeOK
    BY DEF Allocated!TypeOK, Memory!TypeOK, Allocated!InPool, Memory!InPool,
           Allocated!Returned, Memory!Returned, Allocated!Blocks, Memory!Blocks,
           Allocated!NoPiece, Memory!NoPiece, Allocated!Piece, Memory!Piece,
           Allocated!Range, Memory!Range, Allocated!IsInjective, Memory!IsInjective
  <2>2. Allocated!PiecesApart => Memory!PiecesApart
    BY DEF Allocated!PiecesApart, Memory!PiecesApart, Allocated!InPool, Memory!InPool,
           Allocated!Returned, Memory!Returned, Allocated!SlicesOf, Memory!SlicesOf,
           Allocated!NoPiece, Memory!NoPiece, Allocated!Piece, Memory!Piece,
           Allocated!Range, Memory!Range
  <2>3. Allocated!BlocksKept => Memory!BlocksKept
    BY DEF Allocated!BlocksKept, Memory!BlocksKept, Allocated!InPool, Memory!InPool,
           Allocated!At, Memory!At, Allocated!Mine, Memory!Mine, Allocated!Range,
           Memory!Range
  <2>4. Allocated!ComesZeroed => Memory!ComesZeroed
    BY DEF Allocated!ComesZeroed, Memory!ComesZeroed, Allocated!SlicesOf, Memory!SlicesOf,
           Allocated!At, Memory!At
  <2>5. Allocated!NothingLost => Memory!NothingLost
    BY DEF Allocated!NothingLost, Memory!NothingLost, Allocated!Idle, Memory!Idle,
           Allocated!InPool, Memory!InPool, Allocated!BlocksOf, Memory!BlocksOf,
           Allocated!NoPiece, Memory!NoPiece, Allocated!Piece, Memory!Piece,
           Allocated!Range, Memory!Range
  <2>6. QED
    BY <2>1, <2>2, <2>3, <2>4, <2>5 DEF Allocated!MemorySound, Memory!MemorySound, MemorySound
<1>3. QED
  BY <1>1, <1>2, PTL

\* fio_write2_fn, fio_flush and fio_close keep bytes in order, whether a descriptor
\* has one connection or one after the other (Socket).
THEOREM ReactorBytesInOrder ==
  ASSUME Written!Sane, Reused!Sane
  PROVE  Parts => []BytesInOrder
<1>1. Written!Spec => []Written!BytesInOrder
  BY Written!SocketBytesInOrder
<1>2. Reused!Spec => []Reused!BytesInOrder
  BY Reused!SocketBytesInOrder
<1>3. Written!BytesInOrder => Writes!BytesInOrder
  BY DEF Written!BytesInOrder, Writes!BytesInOrder, Written!TypeOK, Writes!TypeOK,
         Written!OwnInOrder, Writes!OwnInOrder, Written!NoGap, Writes!NoGap,
         Written!AllSentBeforeClose, Writes!AllSentBeforeClose, Written!Dropped,
         Writes!Dropped, Written!Sent, Writes!Sent, Written!Conn, Writes!Conn,
         Written!ToSet, Writes!ToSet
<1>4. Reused!BytesInOrder => Reuse!BytesInOrder
  BY DEF Reused!BytesInOrder, Reuse!BytesInOrder, Reused!TypeOK, Reuse!TypeOK,
         Reused!OwnInOrder, Reuse!OwnInOrder, Reused!NoGap, Reuse!NoGap,
         Reused!AllSentBeforeClose, Reuse!AllSentBeforeClose, Reused!Dropped, Reuse!Dropped,
         Reused!Sent, Reuse!Sent, Reused!Conn, Reuse!Conn, Reused!ToSet, Reuse!ToSet
<1>5. BytesInOrder <=> /\ Reusing => Reuse!BytesInOrder
                       /\ ~Reusing => Writes!BytesInOrder
  BY DEF BytesInOrder, Reusing
<1>6. QED
  BY <1>1, <1>2, <1>3, <1>4, <1>5, SameParts, PTL DEF Parts

\* No packet that waits and no data that has arrived is forgotten, by any of the two
\* (Socket, Connection).
THEOREM ReactorNothingForgotten ==
  ASSUME Written!Sane, Reused!Sane, Called!Sane, Struck!Sane
  PROVE  Parts => []NothingForgotten
<1>1. Written!Spec => []Written!FlushOnItsWay
  BY Written!SocketFlushOnItsWay
<1>2. Reused!Spec => []Reused!FlushOnItsWay
  BY Reused!SocketFlushOnItsWay
<1>3. Called!Spec => []Called!DataOnItsWay
  BY Called!ConnectionDataOnItsWay
<1>4. Struck!Spec => []Struck!DataOnItsWay
  BY Struck!ConnectionDataOnItsWay
<1>5. (Written!FlushOnItsWay => Writes!FlushOnItsWay) /\ (Reused!FlushOnItsWay => Reuse!FlushOnItsWay)
  BY DEF Written!FlushOnItsWay, Writes!FlushOnItsWay, Reused!FlushOnItsWay, Reuse!FlushOnItsWay
<1>6. Called!DataOnItsWay => Events!DataOnItsWay
  BY DEF Called!DataOnItsWay, Events!DataOnItsWay, Called!Valid, Events!Valid, Called!Idle,
         Events!Idle, Called!DataTask, Events!DataTask, Called!Task, Events!Task
<1>7. Struck!DataOnItsWay => Attacked!DataOnItsWay
  BY DEF Struck!DataOnItsWay, Attacked!DataOnItsWay, Struck!Valid, Attacked!Valid,
         Struck!Idle, Attacked!Idle, Struck!DataTask, Attacked!DataTask, Struck!Task,
         Attacked!Task
<1>8. NothingForgotten <=> /\ Reusing => Reuse!FlushOnItsWay
                           /\ ~Reusing => Writes!FlushOnItsWay
                           /\ Attacking => Attacked!DataOnItsWay
                           /\ ~Attacking => Events!DataOnItsWay
  BY DEF NothingForgotten, Reusing, Attacking
<1>9. QED
  BY <1>1, <1>2, <1>3, <1>4, <1>5, <1>6, <1>7, <1>8, SameParts, PTL DEF Parts

\* No two threads use one connection, of a client or of the pool (Connection,
\* ConnPool).
THEOREM ReactorUsedByOne ==
  ASSUME Called!Sane, Struck!Sane, Borrowed!PoolAssumption
  PROVE  Parts /\ Borrowed!Spec => []UsedByOne
<1>1. Called!Spec => []Called!UsedByOne
  BY Called!ConnectionUsedByOne
<1>2. Struck!Spec => []Struck!UsedByOne
  BY Struck!ConnectionUsedByOne
<1>3. Borrowed!Spec => [](Borrowed!TypeOK /\ Borrowed!NoSharedConn)
  <2>1. Borrowed!Spec => []Borrowed!TypeOK
    BY Borrowed!SmallPoolTypeOK
  <2>2. Borrowed!Spec => []Borrowed!NoSharedConn
    BY Borrowed!PoolNoSharedConn
  <2>3. QED
    BY <2>1, <2>2, PTL
<1>4. Called!UsedByOne => Events!UsedByOne
  BY DEF Called!UsedByOne, Events!UsedByOne, Called!TypeOK, Events!TypeOK,
         Called!OneAtATime, Events!OneAtATime, Called!ClosedAlone, Events!ClosedAlone,
         Called!In, Events!In, Called!Ending, Events!Ending, Called!Pending, Events!Pending,
         Called!Proto, Events!Proto, Called!Cardinality, Events!Cardinality
<1>5. Struck!UsedByOne => Attacked!UsedByOne
  BY DEF Struck!UsedByOne, Attacked!UsedByOne, Struck!TypeOK, Attacked!TypeOK,
         Struck!OneAtATime, Attacked!OneAtATime, Struck!ClosedAlone, Attacked!ClosedAlone,
         Struck!In, Attacked!In, Struck!Ending, Attacked!Ending, Struck!Pending,
         Attacked!Pending, Struck!Proto, Attacked!Proto, Struck!Cardinality,
         Attacked!Cardinality
<1>6. Borrowed!TypeOK /\ Borrowed!NoSharedConn => Pool!TypeOK /\ Pool!NoSharedConn
  BY DEF Borrowed!TypeOK, Pool!TypeOK, Borrowed!NoSharedConn, Pool!NoSharedConn,
         Borrowed!Owns, Pool!Owns, Borrowed!Conn, Pool!Conn, Borrowed!Words, Pool!Words,
         Borrowed!PC, Pool!PC, Borrowed!Cardinality, Pool!Cardinality
<1>7. UsedByOne <=> /\ Attacking => Attacked!UsedByOne
                    /\ ~Attacking => Events!UsedByOne
                    /\ Pool!TypeOK /\ Pool!NoSharedConn
  BY DEF UsedByOne, Attacking
<1>8. QED
  BY <1>1, <1>2, <1>3, <1>4, <1>5, <1>6, <1>7, SameParts, PTL DEF Parts

\* The task queue and the timers, when the part is theirs.
Queueing == part = "queue"
Timing == part = "timers"
TaskParts ==
    /\ [][Stays]_part
    /\ Queueing => Queue!Spec
    /\ Timing => Times!Spec

\* The task queue leaves no block in use that is freed and none lost, its has_queue
\* overlooks only what it may, and timers are in order, in one place and not early
\* (DeferQueue, Timers).
THEOREM ReactorTasksSound == ASSUME QueueBounds, TimersBounds PROVE TaskParts => []TasksSound
<1>1. Queue!Spec => [](Queue!TypeOK /\ Queue!BlocksOwned /\ Queue!HasQueueTells)
  BY QueueTypeOK, QueueBlocksOwned, QueueHasQueueTells, PTL
<1>2. Times!Spec => [](Times!TypeOK /\ Times!OnePlace /\ Times!InOrder /\ Times!NotEarly)
  BY TimersTypeOK, TimersOnePlace, TimersInOrder, TimersNotEarly, PTL
<1>3. [Stays]_part => (Queueing' <=> Queueing) /\ (Timing' <=> Timing)
  BY DEF Stays, Queueing, Timing
<1>4. TasksSound <=> /\ Queueing => Queue!TypeOK /\ Queue!BlocksOwned /\ Queue!HasQueueTells
                     /\ Timing => Times!TypeOK /\ Times!OnePlace /\ Times!InOrder /\ Times!NotEarly
  BY DEF TasksSound, Queueing, Timing
<1>5. QED
  BY <1>1, <1>2, <1>3, <1>4, PTL DEF TaskParts

\* The chain of rings implements a first-in first-out queue: every push, pop and clear
\* of it is one of the queue (Fifo).
THEOREM ReactorImplementsFifo == ASSUME QueueBounds PROVE TaskParts => ImplementsFifo
<1> DEFINE queue == IF Queueing THEN Queue!Contents ELSE <<>>
<1>1. Queueing /\ Queue!Init => Promise!Init
  BY QueueEmpty DEF Promise!Init, Queueing
<1>2. ~Queueing => Promise!Init
  BY DEF Promise!Init, Queueing
<1>3. QueueInv /\ [Queue!Next]_Queue!vars /\ [Stays]_part /\ Queueing => [Promise!Next]_queue
  BY QueueStep DEF Promise!Next, Promise!Pop, Promise!Clear, Promise!Push, Queueing, Stays
<1>4. [Stays]_part /\ ~Queueing => [Promise!Next]_queue
  BY DEF Queueing, Stays
<1>5. [Stays]_part => (Queueing' <=> Queueing)
  BY DEF Stays, Queueing
<1>6. QED
  BY <1>1, <1>2, <1>3, <1>4, <1>5, QueueHolds, PTL DEF TaskParts, Queue!Spec, ImplementsFifo, Promise!Spec, Queueing
=============================================================================
