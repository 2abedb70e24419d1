-------------------------- MODULE RunnerScalingProofs --------------------------
(****************************************************************************)
(* Proofs about scale-up, the job retry and the cold pool, for any number   *)
(* of actors, jobs, label sets and faults: types, the accounts of           *)
(* createRunners, the messages put back, the jobs not lost and the maximum. *)
(****************************************************************************)
EXTENDS RunnerScaling, FiniteSetTheorems, TLAPS

\* What a createRunners call has accounted for, by stage: nothing before an
\* instance may fail, everything once the failed ones are to be terminated.
CallOK(call) ==
  LET counted == call.made + call.retryable + call.final IN
  /\ call.stage = "fleet" => call.fresh = 0
  /\ call.stage \in {"fleet", "ondemand"} => call.failed = 0 /\ counted = 0 /\ call.fresh <= call.asked
  /\ call.stage = "register" => call.fresh > 0 /\ call.fresh + call.failed + counted = call.asked
  /\ call.stage = "terminate" => call.fresh = 0 /\ call.failed > 0
  /\ call.stage \in {"terminate", "done"} => counted = call.asked
  /\ call.stage = "done" => call.fresh = 0 /\ call.failed = 0

Accounts == \A a \in Actor : CallOK(launch[a])

\* An invocation's batch, by its local state v alone.
LabelIn(v, p) == labelOf[v.batch[p].job]
UndoneIn(v)   == {p \in DOMAIN v.batch : LabelIn(v, p) \notin v.did}
CurrentIn(v)  == LabelIn(v, Min(UndoneIn(v)))
GroupIn(v)    == {p \in UndoneIn(v) : LabelIn(v, p) = CurrentIn(v)}
PublishedIn(v) ==
  IF v.phase # "create" /\ v.queued \subseteq v.back
  THEN [v EXCEPT !.phase = "check", !.queued = {}, !.did = @ \cup {CurrentIn(v)}] ELSE v

InGroup == {"create", "publish"}

WorkType == [phase : Phase, batch : Seq(Message), did : SUBSET Label,
             queued : SUBSET Nat, back : SUBSET Nat, short : Nat]
BatchType(v) ==
  /\ v \in WorkType
  /\ Len(v.batch) <= BatchSize
  /\ v.queued \cup v.back \subseteq DOMAIN v.batch

\* What is put back are positions of finished groups and, while one is worked
\* on, of that group, whose runners asked for find room beside them.
WorkOK(v, asked) ==
  /\ BatchType(v)
  /\ v.phase = "idle" => v.batch = <<>>
  /\ Cardinality(v.back) = v.short
  /\ \A p \in v.back : LabelIn(v, p) \in v.did \/ (v.phase \in InGroup /\ p \in GroupIn(v))
  /\ v.phase \notin InGroup => v.queued = {}
  /\ v.phase \in InGroup => UndoneIn(v) # {} /\ v.queued \subseteq GroupIn(v)
  /\ v.phase = "create" => Cardinality(v.back \cap GroupIn(v)) + asked <= Cardinality(GroupIn(v))

Workers == \A w \in Worker : WorkOK(work[w], launch[w].asked)

\* A position that will be put back or published before the batch ends.
Pending(v, p) ==
  \/ p \in v.back
  \/ LabelIn(v, p) \notin v.did /\ (v.phase = "check" \/ p \notin GroupIn(v) \/ p \in v.queued)

InQueues(j) == \E m \in Message : m.job = j /\ build[m] + retry[m] > 0
InBatch(v, j) == \E p \in DOMAIN v.batch : v.batch[p].job = j /\ Pending(v, p)
Tracked ==
  \A j \in Job : jobs[j] = "queued" =>
    j \in excused \/ InQueues(j) \/ \E w \in Worker : InBatch(work[w], j)

\* A call that nobody made stale still fits under the maximum, with what the
\* pool did not list.
Fits ==
  \A a \in Actor : launch[a].stage \in {"fleet", "ondemand"} /\ ~launch[a].stale =>
    CurrentRunners + Missing(a) <= Maximum + overlooked
RoomIsLeft == Maximum # -1 /\ ~raced => CurrentRunners <= Maximum + overlooked /\ Fits

\* What the pool did not list is never forgotten.
Overlooks == overlooked \in Nat /\ overlooked' \in Nat /\ overlooked <= overlooked'

\* The inductive invariant, by the variables its parts are about.
ColdInv == ColdTypeOK /\ Accounts /\ RoomIsLeft
QueuesOK ==
  /\ build \in [Message -> Nat] /\ retry \in [Message -> Nat]
  /\ work \in [Worker -> WorkType]
  /\ rejected \subseteq BadLabel /\ excused \subseteq Job
IInv == ColdInv /\ QueuesOK /\ Workers /\ Tracked /\ PoolTypeOK

-----------------------------------------------------------------------------
\* Of finite sets, one is contained in no other: the form of induction over
\* finite sets the proofs below use.
LEMMA SmallestSet ==
  ASSUME NEW T, T # {}, \A s \in T : IsFiniteSet(s)
  PROVE  \E s \in T : \A t \in T : t \subseteq s => t = s
<1> DEFINE S == UNION T
<1>1. T \subseteq FiniteSubsetsOf(S)
  BY DEF FiniteSubsetsOf
<1>2. PICK s \in T : \A t \in T : ~(<<t, s>> \in StrictSubsetOrdering(S))
  BY <1>1, FS_StrictSubsetOrderingWellFounded, WFMin
<1>3. ASSUME NEW t \in T, t \subseteq s PROVE t = s
  BY <1>2, <1>3 DEF StrictSubsetOrdering
<1> QED
  BY <1>3

\* A nonempty set of naturals has a least element, which Min returns.
LEMMA MinOfNaturals ==
  ASSUME NEW S \in SUBSET Nat, S # {}
  PROVE  Min(S) \in S /\ \A x \in S : Min(S) <= x
<1> DEFINE T == {0 .. x : x \in S}
<1>1. T # {}
  OBVIOUS
<1>2. \A s \in T : IsFiniteSet(s)
  BY FS_Interval
<1>3. PICK s \in T : \A t \in T : t \subseteq s => t = s
  <2> HIDE DEF T
  <2> QED BY <1>1, <1>2, SmallestSet
<1>4. PICK x \in S : s = 0 .. x
  OBVIOUS
<1>5. ASSUME NEW y \in S PROVE x <= y
  <2>1. SUFFICES ASSUME y < x PROVE FALSE
    OBVIOUS
  <2>2. 0 .. y \subseteq s /\ x \in s /\ x \notin 0 .. y
    BY <1>4, <2>1
  <2> QED
    BY <1>3, <2>2
<1> QED
  BY <1>5 DEF Min

\* A nonempty finite set of naturals has a largest element.
LEMMA LargestOfNaturals ==
  ASSUME NEW S \in SUBSET Nat, S # {}, IsFiniteSet(S)
  PROVE  \E m \in S : \A x \in S : x <= m
<1> DEFINE above(x) == {y \in S : y > x}
           T == {above(x) : x \in S}
<1>1. T # {}
  OBVIOUS
<1>2. \A s \in T : IsFiniteSet(s)
  BY FS_Subset
<1>3. PICK s \in T : \A t \in T : t \subseteq s => t = s
  <2> HIDE DEF T
  <2> QED
    BY <1>1, <1>2, SmallestSet
<1>4. PICK m \in S : s = above(m)
  OBVIOUS
<1>5. ASSUME NEW x \in S PROVE x <= m
  <2>1. SUFFICES ASSUME x > m PROVE FALSE
    OBVIOUS
  <2>2. above(x) \subseteq s /\ x \in s
    <3>1. \A y \in S : y > x => y > m
      BY <2>1
    <3>2. above(x) \subseteq above(m) /\ x \in above(m)
      BY <2>1, <3>1
    <3> QED
      BY <1>4, <3>2
  <2>3. x \notin above(x) /\ above(x) \in T
    OBVIOUS
  <2> HIDE DEF above, T
  <2> QED
    BY <1>3, <2>2, <2>3
<1> QED
  BY <1>5

\* The sum of a function as the number of the pairs below it.
Below(f, s) == UNION {{x} \X (1 .. f[x]) : x \in s}

LEMMA BelowGrows ==
  ASSUME NEW S, NEW f \in [S -> Nat], NEW s \in SUBSET S, NEW x \in S, x \notin s, IsFiniteSet(Below(f, s))
  PROVE  /\ IsFiniteSet(Below(f, s \cup {x}))
         /\ Cardinality(Below(f, s \cup {x})) = Cardinality(Below(f, s)) + f[x]
<1> DEFINE column == {x} \X (1 .. f[x])
<1>1. Below(f, s \cup {x}) = Below(f, s) \cup column
  BY DEF Below
<1>2. Below(f, s) \cap column = {}
  BY DEF Below
<1>3. IsFiniteSet(column) /\ Cardinality(column) = f[x]
  <2>1. IsFiniteSet(1 .. f[x]) /\ Cardinality(1 .. f[x]) = f[x]
    BY FS_Interval
  <2>2. IsFiniteSet({x}) /\ Cardinality({x}) = 1
    BY FS_Singleton
  <2>3. IsFiniteSet(column) /\ Cardinality(column) = 1 * f[x]
    BY <2>1, <2>2, FS_Product
  <2> QED
    BY <2>3
<1>4. IsFiniteSet(Below(f, s) \cup column)
       /\ Cardinality(Below(f, s) \cup column)
            = Cardinality(Below(f, s)) + Cardinality(column) - Cardinality(Below(f, s) \cap column)
  BY <1>3, FS_Union
<1>5. Cardinality(Below(f, s)) \in Nat /\ f[x] \in Nat
  BY FS_CardinalityType
<1>6. Cardinality(Below(f, s) \cap column) = 0
  BY <1>2, FS_EmptySet
<1> HIDE DEF column
<1>7. Cardinality(Below(f, s) \cup column) = Cardinality(Below(f, s)) + f[x]
  BY <1>3, <1>4, <1>5, <1>6
<1> QED
  BY <1>1, <1>4, <1>7

LEMMA BelowFinite ==
  ASSUME NEW S, IsFiniteSet(S), NEW f \in [S -> Nat], NEW s \in SUBSET S
  PROVE  IsFiniteSet(Below(f, s)) /\ Cardinality(Below(f, s)) \in Nat
<1> DEFINE T == {t \in SUBSET S : ~IsFiniteSet(Below(f, t))}
<1>1. \A t \in T : IsFiniteSet(t)
  BY FS_Subset
<1>2. T = {}
  <2>1. SUFFICES ASSUME T # {} PROVE FALSE
    OBVIOUS
  <2>2. PICK t \in T : \A u \in T : u \subseteq t => u = t
    <3> HIDE DEF T
    <3> QED
      BY <1>1, <2>1, SmallestSet
  <2>3. t # {}
    BY FS_EmptySet DEF Below
  <2>4. PICK x \in t : TRUE
    BY <2>3
  <2>5. t \ {x} \notin T
    BY <2>2
  <2>6. IsFiniteSet(Below(f, (t \ {x}) \cup {x}))
    BY <2>5, BelowGrows
  <2>7. (t \ {x}) \cup {x} = t
    OBVIOUS
  <2> QED
    BY <2>2, <2>6, <2>7
<1> QED
  BY <1>2, FS_CardinalityType

LEMMA SumIsBelow ==
  ASSUME NEW S, IsFiniteSet(S), NEW f \in [S -> Nat]
  PROVE  SumFunction(f) = Cardinality(Below(f, S))
<1> DEFINE pick(s) == CHOOSE x \in s : TRUE
           G(g) == [s \in SUBSET S |-> IF s = {} THEN 0 ELSE f[pick(s)] + g[s \ {pick(s)}]]
           it == CHOOSE g : g = G(g)
           total == [s \in SUBSET S |-> Cardinality(Below(f, s))]
<1>1. SumFunction(f) = it[S]
  BY DEF SumFunction, SumFunctionOnSet, FoldFunctionOnSet, MapThenFoldSet
<1>2. total = G(total)
  <2>1. ASSUME NEW s \in SUBSET S, s # {}
        PROVE  total[s] = f[pick(s)] + total[s \ {pick(s)}]
    <3>1. pick(s) \in s /\ (s \ {pick(s)}) \cup {pick(s)} = s
      BY <2>1
    <3> HIDE DEF pick
    <3>2. Cardinality(Below(f, s)) = Cardinality(Below(f, s \ {pick(s)})) + f[pick(s)]
      BY <3>1, BelowFinite, BelowGrows
    <3>3. f[pick(s)] \in Nat /\ Cardinality(Below(f, s \ {pick(s)})) \in Nat
      BY <3>1, BelowFinite
    <3> QED
      BY <3>2, <3>3
  <2>2. total[{}] = 0
    BY FS_EmptySet DEF Below
  <2> HIDE DEF pick
  <2> QED
    BY <2>1, <2>2
<1>3. it = G(it)
  <2> HIDE DEF G, total
  <2> QED
    BY <1>2
<1> DEFINE T == {s \in SUBSET S : it[s] # total[s]}
<1>4. T = {}
  <2>1. SUFFICES ASSUME T # {} PROVE FALSE
    OBVIOUS
  <2>2. PICK t \in T : \A u \in T : u \subseteq t => u = t
    <3>1. \A s \in T : IsFiniteSet(s)
      BY FS_Subset
    <3> HIDE DEF T, it, total, G
    <3> QED
      BY <2>1, <3>1, SmallestSet
  <2> HIDE DEF it, total
  <2>3. it[t] = IF t = {} THEN 0 ELSE f[pick(t)] + it[t \ {pick(t)}]
    BY <1>3
  <2>4. total[t] = IF t = {} THEN 0 ELSE f[pick(t)] + total[t \ {pick(t)}]
    BY <1>2
  <2>5. CASE t = {}
    BY <2>3, <2>4, <2>5
  <2>6. CASE t # {}
    <3>1. pick(t) \in t
      BY <2>6
    <3>2. t \ {pick(t)} \notin T
      BY <2>2, <3>1
    <3>3. it[t \ {pick(t)}] = total[t \ {pick(t)}]
      BY <3>2
    <3> QED
      BY <2>3, <2>4, <2>6, <3>3
  <2> QED
    BY <2>5, <2>6
<1>5. it[S] = total[S]
  <2> HIDE DEF it, total
  <2> QED
    BY <1>4
<1> QED
  BY <1>1, <1>5

\* A sum changes by what one of its terms changes.
LEMMA SumType ==
  ASSUME NEW S, IsFiniteSet(S), NEW f \in [S -> Nat]
  PROVE  SumFunction(f) \in Nat
BY SumIsBelow, BelowFinite

LEMMA SumUpdate ==
  ASSUME NEW S, IsFiniteSet(S), NEW f \in [S -> Nat], NEW g \in [S -> Nat], NEW x \in S,
         \A y \in S \ {x} : g[y] = f[y]
  PROVE  SumFunction(g) = SumFunction(f) - f[x] + g[x]
<1> DEFINE rest == S \ {x}
<1>1. rest \in SUBSET S /\ x \notin rest /\ rest \cup {x} = S
  OBVIOUS
<1>2. Below(g, rest) = Below(f, rest)
  BY DEF Below
<1> HIDE DEF rest
<1>3. /\ Cardinality(Below(f, S)) = Cardinality(Below(f, rest)) + f[x]
      /\ Cardinality(Below(g, S)) = Cardinality(Below(g, rest)) + g[x]
  BY <1>1, BelowFinite, BelowGrows
<1>4. Cardinality(Below(f, rest)) \in Nat /\ f[x] \in Nat /\ g[x] \in Nat
  BY <1>1, BelowFinite
<1> QED
  BY <1>2, <1>3, <1>4, SumIsBelow

LEMMA SumZero ==
  ASSUME NEW S, IsFiniteSet(S)
  PROVE  SumFunction([x \in S |-> 0]) = 0
<1> DEFINE f == [x \in S |-> 0]
<1>1. f \in [S -> Nat] /\ Below(f, S) = {}
  BY DEF Below
<1> QED
  BY <1>1, SumIsBelow, FS_EmptySet

-----------------------------------------------------------------------------
\* Of at least n positions, First takes n.
LEMMA FirstSize ==
  ASSUME NEW S \in SUBSET Nat, IsFiniteSet(S), NEW n \in 0 .. Cardinality(S)
  PROVE  Cardinality(First(n, S)) = n
<1> DEFINE T == {s \in SUBSET S : n <= Cardinality(s) /\ Cardinality(First(n, s)) # n}
<1>1. SUFFICES ASSUME T # {} PROVE FALSE
  OBVIOUS
<1>2. PICK s \in T : \A t \in T : t \subseteq s => t = s
  <2>1. \A s \in T : IsFiniteSet(s)
    BY FS_Subset
  <2> HIDE DEF T
  <2> QED
    BY <1>1, <2>1, SmallestSet
<1>3. IsFiniteSet(s) /\ Cardinality(s) \in Nat /\ s \in SUBSET Nat /\ n \in Nat /\ n <= Cardinality(s)
  <2>1. s \in SUBSET S /\ n <= Cardinality(s)
    BY <1>2
  <2>2. IsFiniteSet(s) /\ Cardinality(s) \in Nat /\ Cardinality(S) \in Nat
    BY <2>1, FS_Subset, FS_CardinalityType
  <2> QED
    BY <2>1, <2>2
<1>4. CASE n = Cardinality(s)
  <2>1. ASSUME NEW p \in s PROVE Cardinality({q \in s : q < p}) < n
    <3> DEFINE before == {q \in s : q < p}
    <3>1. before \in SUBSET s /\ before # s
      BY <1>3
    <3> HIDE DEF before
    <3>2. Cardinality(before) <= Cardinality(s) /\ Cardinality(before) # Cardinality(s) /\ IsFiniteSet(before)
      BY <1>3, <3>1, FS_Subset
    <3>3. Cardinality(before) \in Nat
      BY <3>2, FS_CardinalityType
    <3>4. Cardinality(before) < n
      BY <1>3, <1>4, <3>2, <3>3
    <3> QED
      BY <3>4 DEF before
  <2>2. First(n, s) = s
    BY <2>1 DEF First
  <2> QED
    BY <1>2, <1>4, <2>2
<1>5. CASE n < Cardinality(s)
  <2>1. s # {}
    BY <1>3, <1>5, FS_EmptySet
  <2>2. PICK m \in s : \A p \in s : p <= m
    BY <1>3, <2>1, LargestOfNaturals
  <2> DEFINE t == s \ {m}
  <2>3. IsFiniteSet(t) /\ Cardinality(t) = Cardinality(s) - 1
    BY <1>3, FS_RemoveElement
  <2>4. First(n, s) = First(n, t)
    <3>1. ASSUME NEW p \in t PROVE {q \in s : q < p} = {q \in t : q < p}
      BY <1>3, <2>2
    <3>2. {q \in s : q < m} = t
      <4>1. \A q \in s : q < m <=> q # m
        BY <1>3, <2>2
      <4> QED
        BY <4>1
    <3>3. ~(Cardinality(t) < n)
      BY <1>3, <1>5, <2>3
    <3> HIDE DEF t
    <3>4. s = t \cup {m} /\ m \notin t
      BY DEF t
    <3>5. m \notin First(n, s)
      BY <3>2, <3>3 DEF First
    <3>6. \A p \in t : p \in First(n, s) <=> p \in First(n, t)
      BY <3>1, <3>4 DEF First
    <3>7. First(n, s) \subseteq s /\ First(n, t) \subseteq t
      BY DEF First
    <3> QED
      BY <3>4, <3>5, <3>6, <3>7
  <2>5. t \notin T
    BY <1>2
  <2>6. Cardinality(First(n, t)) = n
    BY <1>2, <1>3, <1>5, <2>3, <2>5
  <2> QED
    BY <1>2, <2>4, <2>6
<1> QED
  BY <1>3, <1>4, <1>5

-----------------------------------------------------------------------------
\* The calls of createRunners.
Call == [stage : Stage, label : Label, asked : Nat, fresh : Nat, failed : Nat,
         made : Nat, retryable : Nat, final : Nat, stale : BOOLEAN]

\* What the steps of a call keep.
Continues(call, next) ==
  /\ next \in Call /\ CallOK(next)
  /\ next.asked = call.asked /\ next.stale = call.stale /\ next.label = call.label

LEMMA NoLaunchType == NoLaunch \in Call /\ CallOK(NoLaunch)
<1>1. (CHOOSE l \in Label : TRUE) \in Label
  BY LaunchAssumption
<1> QED
  BY <1>1 DEF NoLaunch, Call, Stage, CallOK

LEMMA BeginType ==
  ASSUME NEW a \in Actor, NEW l \in Label, NEW n \in Nat
  PROVE  /\ Begin(a, l, n) \in Call /\ CallOK(Begin(a, l, n))
         /\ Begin(a, l, n).asked = n /\ Begin(a, l, n).stage = "fleet" /\ Begin(a, l, n).stale = FALSE
         /\ Begin(a, l, n).fresh = 0 /\ Begin(a, l, n).failed = 0
<1> DEFINE b == Begin(a, l, n)
<1>1. /\ NoLaunch \in Call /\ NoLaunch.fresh = 0 /\ NoLaunch.failed = 0 /\ NoLaunch.made = 0
      /\ NoLaunch.retryable = 0 /\ NoLaunch.final = 0 /\ NoLaunch.stale = FALSE
  BY NoLaunchType DEF NoLaunch
<1>2. b = [NoLaunch EXCEPT !.stage = "fleet", !.label = l, !.asked = n]
  BY DEF Begin
<1> HIDE DEF b
<1>3. /\ b \in Call /\ b.asked = n /\ b.stage = "fleet" /\ b.fresh = 0 /\ b.failed = 0
      /\ b.made = 0 /\ b.retryable = 0 /\ b.final = 0 /\ b.stale = FALSE
  BY <1>1, <1>2 DEF Call, Stage
<1>4. CallOK(b)
  BY <1>3 DEF CallOK
<1> QED
  BY <1>3, <1>4 DEF b

\* Two calls that differ in what was counted alone.
SameBut(call, next) ==
  /\ next \in Call /\ next.stage = call.stage /\ next.label = call.label /\ next.asked = call.asked
  /\ next.fresh = call.fresh /\ next.failed = call.failed /\ next.stale = call.stale

LEMMA NotLaunchedCounts ==
  ASSUME NEW call \in Call, CallOK(call), call.stage \in {"fleet", "ondemand"}, NEW m \in Nat, NEW error \in Error
  PROVE  LET next == NotLaunched(call, m, error) IN
         SameBut(call, next) /\ next.made + next.retryable + next.final = m
<1>1. CASE error \in RetryableErrors
  <2> DEFINE next == [call EXCEPT !.retryable = @ + m]
  <2>1. SameBut(call, next) /\ next.made = call.made /\ next.final = call.final /\ next.retryable = call.retryable + m
    BY DEF SameBut, Call
  <2>2. NotLaunched(call, m, error) = next
    BY <1>1 DEF NotLaunched
  <2> HIDE DEF next
  <2> QED
    BY <2>1, <2>2 DEF Call, CallOK
<1>2. CASE error \notin RetryableErrors
  <2> DEFINE next == [call EXCEPT !.final = @ + m]
  <2>1. SameBut(call, next) /\ next.made = call.made /\ next.retryable = call.retryable /\ next.final = call.final + m
    BY DEF SameBut, Call
  <2>2. NotLaunched(call, m, error) = next
    BY <1>2 DEF NotLaunched
  <2> HIDE DEF next
  <2> QED
    BY <2>1, <2>2 DEF Call, CallOK
<1> QED
  BY <1>1, <1>2

LEMMA RegisteringKeeps ==
  ASSUME NEW call \in Call, CallOK(call), call.stage \in {"fleet", "ondemand"},
         NEW n \in 0 .. (call.asked - call.fresh), NEW next, SameBut(call, next),
         next.made + next.retryable + next.final + n = call.asked - call.fresh
  PROVE  LET ends == [Registering(next, n) EXCEPT !.fresh = @ + n] IN
         /\ Registering(next, n) \in Call
         /\ Continues(call, ends) /\ ends.fresh = call.fresh + n
         /\ ends.failed = call.failed /\ ends.stage \in {"register", "done"}
<1> DEFINE r    == Registering(next, n)
           ends == [r EXCEPT !.fresh = @ + n]
           goes == IF call.fresh + n > 0 THEN "register" ELSE "done"
<1>0. goes \in Stage /\ r = [next EXCEPT !.stage = goes]
  BY DEF Stage, Registering, SameBut
<1>1. /\ r \in Call /\ r.stage = goes
      /\ r.label = call.label /\ r.asked = call.asked /\ r.fresh = call.fresh /\ r.failed = call.failed
      /\ r.made = next.made /\ r.retryable = next.retryable /\ r.final = next.final /\ r.stale = call.stale
  <2> HIDE DEF goes, r
  <2> QED
    BY <1>0 DEF SameBut, Call
<1>2. n \in Nat
  BY DEF Call
<1> HIDE DEF r
<1>3. /\ ends \in Call /\ ends.stage = r.stage /\ ends.label = r.label /\ ends.asked = r.asked
      /\ ends.fresh = r.fresh + n /\ ends.failed = r.failed /\ ends.made = r.made
      /\ ends.retryable = r.retryable /\ ends.final = r.final /\ ends.stale = r.stale
  BY <1>1, <1>2 DEF Call
<1> HIDE DEF ends
<1>4. CallOK(ends)
  <2>1. /\ call.failed = 0 /\ call.fresh \in Nat /\ call.asked \in Nat
        /\ next.made \in Nat /\ next.retryable \in Nat /\ next.final \in Nat
    BY DEF CallOK, Call, SameBut
  <2>2. CASE call.fresh + n > 0
    BY <1>1, <1>2, <1>3, <2>1, <2>2 DEF CallOK
  <2>3. CASE call.fresh + n = 0
    BY <1>1, <1>2, <1>3, <2>1, <2>3 DEF CallOK
  <2> QED
    BY <1>2, <2>1, <2>2, <2>3
<1> QED
  BY <1>1, <1>3, <1>4 DEF Continues, r, ends

\* Registering an instance, or all of them, moves it from those held.
LEMMA RegisteredKeeps ==
  ASSUME NEW call \in Call, CallOK(call), call.stage = "register", NEW next \in Call,
         next.stage = "register", next.label = call.label, next.asked = call.asked,
         next.retryable = call.retryable, next.final = call.final, next.stale = call.stale,
         next.fresh + next.failed + next.made = call.fresh + call.failed + call.made
  PROVE  LET ends == Registered(next) IN
         /\ Continues(call, ends) /\ ends.fresh = next.fresh
         /\ ends.failed = next.failed /\ ends.stage \in {"register", "terminate", "done"}
<1>1. CASE next.fresh > 0
  BY <1>1 DEF Registered, Continues, CallOK, Call
<1>2. CASE next.fresh = 0
  <2> DEFINE over == IF next.failed > 0 THEN "terminate" ELSE "done"
             ends == [next EXCEPT !.stage = over, !.retryable = @ + next.failed]
  <2>0. over \in Stage /\ next.retryable + next.failed \in Nat
    BY DEF Stage, Call
  <2>1. /\ ends \in Call /\ ends.stage = over
        /\ ends.label = next.label /\ ends.asked = next.asked /\ ends.fresh = next.fresh
        /\ ends.failed = next.failed /\ ends.made = next.made /\ ends.final = next.final
        /\ ends.retryable = next.retryable + next.failed /\ ends.stale = next.stale
    <3> HIDE DEF over
    <3> QED
      BY <2>0 DEF Call
  <2>2. Registered(next) = ends
    BY <1>2 DEF Registered
  <2> HIDE DEF ends
  <2>3. CallOK(ends)
    BY <1>2, <2>1 DEF CallOK, Call
  <2> QED
    BY <2>1, <2>2, <2>3 DEF Continues
<1> QED
  BY <1>1, <1>2 DEF Call

-----------------------------------------------------------------------------
\* The runners counted.
Holding == [a \in Actor |-> Held(a)]
Serving == [l \in Label |-> booting[l] + idle[l]]

Counted ==
  /\ launch \in [Actor -> Call]
  /\ Holding \in [Actor -> Nat] /\ Serving \in [Label -> Nat]
  /\ SumFunction(Holding) \in Nat /\ SumFunction(Serving) \in Nat /\ Busy \in Nat
  /\ CurrentRunners = loose + Busy + SumFunction(Holding) + SumFunction(Serving)
  /\ CurrentRunners \in Nat

LEMMA ColdCounts == ColdTypeOK => Counted
<1> SUFFICES ASSUME ColdTypeOK PROVE Counted
  OBVIOUS
<1>1. launch \in [Actor -> Call]
  BY DEF ColdTypeOK, Call
<1>2. Holding \in [Actor -> Nat]
  BY <1>1 DEF Holding, Held, Call
<1>3. Serving \in [Label -> Nat]
  BY DEF ColdTypeOK, Serving
<1>4. SumFunction(Holding) \in Nat /\ SumFunction(Serving) \in Nat
  BY <1>2, <1>3, SumType, LaunchAssumption
<1>5. Busy \in Nat
  <2> DEFINE running == {j \in Job : jobs[j] = "running"}
  <2>1. IsFiniteSet(running)
    BY FS_Subset, LaunchAssumption
  <2> QED
    BY <2>1, FS_CardinalityType DEF Busy
<1>6. CurrentRunners = loose + Busy + SumFunction(Holding) + SumFunction(Serving)
  BY DEF CurrentRunners, Holding, Serving
<1> QED
  BY <1>1, <1>2, <1>3, <1>4, <1>5, <1>6 DEF ColdTypeOK, Counted

LEMMA NextCounts == ColdTypeOK' => Counted'
BY ColdCounts, PTL

LEMMA HoldingChange ==
  ASSUME ColdTypeOK, ColdTypeOK', NEW a \in Actor, \A b \in Actor \ {a} : Held(b)' = Held(b)
  PROVE  SumFunction(Holding)' = SumFunction(Holding) - Held(a) + Held(a)'
<1>1. Holding \in [Actor -> Nat] /\ Holding' \in [Actor -> Nat]
  BY ColdCounts, NextCounts DEF Counted
<1>2. Holding[a] = Held(a) /\ Holding'[a] = Held(a)' /\ \A b \in Actor \ {a} : Holding'[b] = Holding[b]
  BY DEF Holding
<1>3. SumFunction(Holding') = SumFunction(Holding) - Holding[a] + Holding'[a]
  BY <1>1, <1>2, SumUpdate, LaunchAssumption
<1> QED
  BY <1>2, <1>3

LEMMA ServingChange ==
  ASSUME ColdTypeOK, ColdTypeOK', NEW l \in Label,
         \A k \in Label \ {l} : booting'[k] = booting[k] /\ idle'[k] = idle[k]
  PROVE  SumFunction(Serving)' = SumFunction(Serving) - (booting[l] + idle[l]) + (booting'[l] + idle'[l])
<1>1. Serving \in [Label -> Nat] /\ Serving' \in [Label -> Nat]
  BY DEF ColdTypeOK, Serving
<1>2. /\ Serving[l] = booting[l] + idle[l] /\ Serving'[l] = booting'[l] + idle'[l]
      /\ \A k \in Label \ {l} : Serving'[k] = Serving[k]
  BY DEF Serving
<1>3. SumFunction(Serving') = SumFunction(Serving) - Serving[l] + Serving'[l]
  BY <1>1, <1>2, SumUpdate, LaunchAssumption
<1> QED
  BY <1>2, <1>3

LEMMA HoldingSame ==
  ASSUME launch' = launch
  PROVE  SumFunction(Holding)' = SumFunction(Holding)
BY DEF Holding, Held

LEMMA ServingSame ==
  ASSUME booting' = booting, idle' = idle
  PROVE  SumFunction(Serving)' = SumFunction(Serving)
BY DEF Serving

\* A fault is one of those left.
LEMMA FaultRange ==
  ASSUME faults \in 0 .. MaxFaults, Fault \/ UNCHANGED faults
  PROVE  faults' \in 0 .. MaxFaults
BY LaunchAssumption DEF Fault

\* Instances launched by one call: the other calls become stale at most.
StaleOnly(call, next) ==
  /\ SameBut([call EXCEPT !.stale = next.stale], next)
  /\ next.made = call.made /\ next.retryable = call.retryable /\ next.final = call.final

LEMMA LaunchedType ==
  ASSUME launch \in [Actor -> Call], NEW a \in Actor, NEW call \in Call, NEW n \in Nat
  PROVE  LET after == Launched(a, call, n) IN
         /\ after \in [Actor -> Call]
         /\ after[a] = [call EXCEPT !.fresh = @ + n]
         /\ \A b \in Actor \ {a} :
              /\ StaleOnly(launch[b], after[b])
              /\ after[b].stale = (launch[b].stale \/ (n > 0 /\ launch[b].stage \in {"fleet", "ondemand"}))
<1> DEFINE after == Launched(a, call, n)
<1>1. after[a] = [call EXCEPT !.fresh = @ + n] /\ after[a] \in Call
  BY DEF Launched, Call
<1>2. ASSUME NEW b \in Actor \ {a}
      PROVE  /\ after[b] \in Call /\ StaleOnly(launch[b], after[b])
             /\ after[b].stale = (launch[b].stale \/ (n > 0 /\ launch[b].stage \in {"fleet", "ondemand"}))
  <2> DEFINE stale == launch[b].stale \/ (n > 0 /\ launch[b].stage \in {"fleet", "ondemand"})
  <2>1. stale \in BOOLEAN
    OBVIOUS
  <2>2. after[b] = [launch[b] EXCEPT !.stale = stale]
    BY DEF Launched
  <2> HIDE DEF stale, after
  <2>3. after[b] \in Call /\ after[b].stale = stale /\ StaleOnly(launch[b], after[b])
    BY <2>1, <2>2 DEF Call, StaleOnly, SameBut
  <2> QED
    BY <2>3 DEF stale
<1>3. after = [b \in Actor |-> after[b]]
  BY DEF Launched
<1> HIDE DEF after
<1>4. after \in [Actor -> Call]
  BY <1>1, <1>2, <1>3
<1> QED
  BY <1>1, <1>2, <1>4 DEF after

-----------------------------------------------------------------------------
\* The steps of a createRunners call.
LEMMA StaleOnlyKeeps ==
  ASSUME NEW call \in Call, CallOK(call), NEW next \in Call, StaleOnly(call, next)
  PROVE  /\ CallOK(next) /\ next.stage = call.stage /\ next.asked = call.asked
         /\ next.fresh = call.fresh /\ next.failed = call.failed /\ next.label = call.label
<1>1. /\ next.stage = call.stage /\ next.asked = call.asked /\ next.label = call.label
      /\ next.fresh = call.fresh /\ next.failed = call.failed
  BY DEF StaleOnly, SameBut, Call
<1> QED
  BY <1>1 DEF StaleOnly, CallOK

\* What a step of a's call does to the calls.
CallStep(a) ==
  /\ launch' \in [Actor -> Call] /\ Accounts'
  /\ launch'[a].asked = launch[a].asked /\ launch'[a].stale = launch[a].stale
  /\ \A b \in Actor \ {a} :
       /\ launch'[b].stage = launch[b].stage /\ launch'[b].asked = launch[b].asked
       /\ launch'[b].fresh = launch[b].fresh /\ launch'[b].failed = launch[b].failed

\* A call that becomes another leaves the others alone.
LEMMA BecomesStep ==
  ASSUME launch \in [Actor -> Call], Accounts, NEW a \in Actor, NEW next,
         Continues(launch[a], next), Becomes(a, next)
  PROVE  CallStep(a) /\ launch'[a] = next /\ \A b \in Actor \ {a} : launch'[b] = launch[b]
<1>1. launch'[a] = next /\ \A b \in Actor \ {a} : launch'[b] = launch[b]
  BY DEF Becomes
<1>2. launch' \in [Actor -> Call]
  BY DEF Becomes, Continues
<1>3. Accounts'
  BY <1>1, <1>2 DEF Accounts, Continues
<1> QED
  BY <1>1, <1>2, <1>3 DEF CallStep, Continues

\* CreateFleet launches n instances of those missing.
Fleet(a, n) ==
  /\ CallStep(a)
  /\ launch'[a].fresh = launch[a].fresh + n /\ launch'[a].failed = launch[a].failed
  /\ launch'[a].stage \in {"ondemand", "register", "done"}
  /\ raced' = (raced \/ (launch[a].stale /\ n > 0))
  /\ \A b \in Actor \ {a} :
       launch'[b].stale = (launch[b].stale \/ (n > 0 /\ launch[b].stage \in {"fleet", "ondemand"}))

LEMMA CreateFleetStep ==
  ASSUME launch \in [Actor -> Call], Accounts, NEW a \in Actor, CreateFleet(a)
  PROVE  /\ launch[a].stage \in {"fleet", "ondemand"}
         /\ \E n \in 0 .. Missing(a) : Fleet(a, n)
         /\ Fault \/ UNCHANGED faults
         /\ UNCHANGED <<jobs, booting, idle, loose>>
<1> DEFINE call == launch[a]
<1>1. call \in Call /\ CallOK(call) /\ call.stage \in {"fleet", "ondemand"}
  BY DEF Accounts, CreateFleet
<1>2. Missing(a) \in Nat /\ Missing(a) = call.asked - call.fresh
  BY <1>1 DEF Missing, Call, CallOK
<1>3. ASSUME NEW n \in 0 .. Missing(a), raced' = (raced \/ (call.stale /\ n > 0)), NEW next,
             launch' = Launched(a, next, n), Continues(call, [next EXCEPT !.fresh = @ + n]), next \in Call,
             [next EXCEPT !.fresh = @ + n].fresh = call.fresh + n,
             [next EXCEPT !.fresh = @ + n].failed = call.failed,
             [next EXCEPT !.fresh = @ + n].stage \in {"ondemand", "register", "done"}
      PROVE  Fleet(a, n)
  <2>1. /\ launch' \in [Actor -> Call] /\ launch'[a] = [next EXCEPT !.fresh = @ + n]
        /\ \A b \in Actor \ {a} :
             /\ StaleOnly(launch[b], launch'[b])
             /\ launch'[b].stale = (launch[b].stale \/ (n > 0 /\ launch[b].stage \in {"fleet", "ondemand"}))
    BY <1>2, <1>3, LaunchedType
  <2>2. \A b \in Actor \ {a} :
          /\ CallOK(launch'[b]) /\ launch'[b].stage = launch[b].stage /\ launch'[b].asked = launch[b].asked
          /\ launch'[b].fresh = launch[b].fresh /\ launch'[b].failed = launch[b].failed
    BY <2>1, StaleOnlyKeeps DEF Accounts
  <2>3. /\ CallOK(launch'[a]) /\ launch'[a].asked = launch[a].asked /\ launch'[a].stale = launch[a].stale
    BY <1>3, <2>1 DEF Continues
  <2>4. CallStep(a)
    BY <2>1, <2>2, <2>3 DEF CallStep, Accounts
  <2> QED
    BY <1>3, <2>1, <2>4 DEF Fleet
<1>4. PICK n \in 0 .. Missing(a) :
        /\ raced' = (raced \/ (call.stale /\ n > 0))
        /\ \/ n = Missing(a) /\ launch' = Launched(a, Registering(call, n), n) /\ UNCHANGED faults
           \/ /\ n < Missing(a) /\ Fault
              /\ \E error \in Error :
                   \/ call.stage = "fleet" /\ launch' = Launched(a, [call EXCEPT !.stage = "ondemand"], n)
                   \/ launch' = Launched(a, Registering(NotLaunched(call, Missing(a) - n, error), n), n)
  BY DEF CreateFleet
<1>5. n \in Nat
  BY <1>2
<1> HIDE DEF call
<1>6. ASSUME n = Missing(a), launch' = Launched(a, Registering(call, n), n)
      PROVE  Fleet(a, n)
  <2>1. SameBut(call, call) /\ call.made + call.retryable + call.final = 0
    BY <1>1 DEF SameBut, Call, CallOK
  <2>2. call.made + call.retryable + call.final + n = call.asked - call.fresh
    BY <1>2, <1>6, <2>1
  <2>3. /\ Continues(call, [Registering(call, n) EXCEPT !.fresh = @ + n])
        /\ Registering(call, n) \in Call
        /\ [Registering(call, n) EXCEPT !.fresh = @ + n].fresh = call.fresh + n
        /\ [Registering(call, n) EXCEPT !.fresh = @ + n].failed = call.failed
        /\ [Registering(call, n) EXCEPT !.fresh = @ + n].stage \in {"register", "done"}
    BY <1>1, <1>2, <2>1, <2>2, RegisteringKeeps
  <2> QED
    BY <1>3, <1>4, <1>6, <2>3
<1>7. ASSUME call.stage = "fleet", launch' = Launched(a, [call EXCEPT !.stage = "ondemand"], n)
      PROVE  Fleet(a, n)
  <2> DEFINE next == [call EXCEPT !.stage = "ondemand"]
             ends == [next EXCEPT !.fresh = @ + n]
  <2>1. /\ next \in Call /\ next.stage = "ondemand" /\ next.label = call.label /\ next.asked = call.asked
        /\ next.fresh = call.fresh /\ next.failed = call.failed /\ next.made = call.made
        /\ next.retryable = call.retryable /\ next.final = call.final /\ next.stale = call.stale
    BY <1>1 DEF Call, Stage
  <2> HIDE DEF next
  <2>2. /\ ends \in Call /\ ends.stage = "ondemand" /\ ends.label = call.label /\ ends.asked = call.asked
        /\ ends.fresh = call.fresh + n /\ ends.failed = call.failed /\ ends.made = call.made
        /\ ends.retryable = call.retryable /\ ends.final = call.final /\ ends.stale = call.stale
    BY <1>5, <2>1 DEF Call
  <2> HIDE DEF ends
  <2>3. CallOK(ends)
    BY <1>1, <1>2, <2>2 DEF CallOK, Call
  <2>4. Continues(call, ends)
    BY <2>2, <2>3 DEF Continues
  <2>5. /\ Continues(call, [next EXCEPT !.fresh = @ + n]) /\ [next EXCEPT !.fresh = @ + n].fresh = call.fresh + n
        /\ [next EXCEPT !.fresh = @ + n].failed = call.failed
        /\ [next EXCEPT !.fresh = @ + n].stage \in {"ondemand", "register", "done"}
    BY <2>2, <2>4 DEF ends
  <2>6. launch' = Launched(a, next, n)
    BY <1>7 DEF next
  <2> QED
    BY <1>3, <1>4, <2>1, <2>5, <2>6
<1>8. ASSUME NEW error \in Error,
             launch' = Launched(a, Registering(NotLaunched(call, Missing(a) - n, error), n), n)
      PROVE  Fleet(a, n)
  <2> DEFINE next == NotLaunched(call, Missing(a) - n, error)
  <2>1. Missing(a) - n \in Nat
    BY <1>2, <1>5
  <2>2. SameBut(call, next) /\ next.made + next.retryable + next.final = Missing(a) - n
    BY <1>1, <2>1, NotLaunchedCounts
  <2>3. launch' = Launched(a, Registering(next, n), n)
    BY <1>8
  <2> HIDE DEF next
  <2>4. next.made + next.retryable + next.final + n = call.asked - call.fresh
    BY <1>2, <1>5, <2>2
  <2>5. /\ Continues(call, [Registering(next, n) EXCEPT !.fresh = @ + n])
        /\ Registering(next, n) \in Call
        /\ [Registering(next, n) EXCEPT !.fresh = @ + n].fresh = call.fresh + n
        /\ [Registering(next, n) EXCEPT !.fresh = @ + n].failed = call.failed
        /\ [Registering(next, n) EXCEPT !.fresh = @ + n].stage \in {"register", "done"}
    BY <1>1, <1>2, <2>2, <2>4, RegisteringKeeps
  <2> QED
    BY <1>3, <1>4, <2>3, <2>5
<1>9. Fleet(a, n)
  BY <1>4, <1>6, <1>7, <1>8
<1> QED
  BY <1>1, <1>9 DEF CreateFleet, call

\* The other steps hold as many instances or move one on; only a fault leaves
\* one loose.
Moves(a) ==
  /\ CallStep(a) /\ raced' = raced /\ UNCHANGED <<jobs, idle>>
  /\ \A b \in Actor \ {a} : launch'[b] = launch[b]
  /\ launch'[a].stage \in {"register", "terminate", "done"}
  /\ Fault \/ UNCHANGED faults

LEMMA RequestFailsStep ==
  ASSUME launch \in [Actor -> Call], Accounts, NEW a \in Actor, CreateRequestFails(a)
  PROVE  Moves(a) /\ Held(a)' = Held(a) /\ UNCHANGED <<booting, loose>>
<1> DEFINE call == launch[a]
<1>1. call \in Call /\ CallOK(call) /\ call.stage \in {"fleet", "ondemand"}
  BY DEF Accounts, CreateRequestFails
<1>2. Missing(a) \in Nat /\ Missing(a) = call.asked - call.fresh
  BY <1>1 DEF Missing, Call, CallOK
<1>3. PICK error \in Error : Becomes(a, Registering(NotLaunched(call, Missing(a), error), 0))
  BY DEF CreateRequestFails, Error
<1> DEFINE next == NotLaunched(call, Missing(a), error)
           ends == Registering(next, 0)
<1> HIDE DEF call
<1>4. SameBut(call, next) /\ next.made + next.retryable + next.final = Missing(a)
  BY <1>1, <1>2, NotLaunchedCounts
<1>5. Becomes(a, ends)
  BY <1>3
<1> HIDE DEF next
<1>6. /\ Continues(call, [Registering(next, 0) EXCEPT !.fresh = @ + 0])
      /\ Registering(next, 0) \in Call
      /\ [Registering(next, 0) EXCEPT !.fresh = @ + 0].fresh = call.fresh + 0
      /\ [Registering(next, 0) EXCEPT !.fresh = @ + 0].failed = call.failed
      /\ [Registering(next, 0) EXCEPT !.fresh = @ + 0].stage \in {"register", "done"}
  <2>1. 0 \in 0 .. (call.asked - call.fresh) /\ next.made + next.retryable + next.final + 0 = call.asked - call.fresh
    BY <1>2, <1>4
  <2> QED
    BY <1>1, <1>4, <2>1, RegisteringKeeps
<1>7. [ends EXCEPT !.fresh = @ + 0] = ends
  BY <1>6 DEF Call
<1>8. Continues(call, ends) /\ ends.fresh = call.fresh /\ ends.failed = call.failed /\ ends.stage \in {"register", "done"}
  BY <1>1, <1>6, <1>7 DEF Call
<1> HIDE DEF ends
<1>9. CallStep(a) /\ launch'[a] = ends /\ \A b \in Actor \ {a} : launch'[b] = launch[b]
  BY <1>5, <1>8, BecomesStep DEF call
<1> QED
  BY <1>8, <1>9 DEF Moves, CreateRequestFails, Held, call

LEMMA RegisterStep ==
  ASSUME launch \in [Actor -> Call], Accounts, NEW a \in Actor,
         RegisterJit(a) \/ RegisterJitFails(a) \/ RegisterThrows(a)
  PROVE  /\ Moves(a) /\ loose' = loose
         /\ \/ Held(a)' = Held(a) /\ UNCHANGED booting
            \/ Held(a)' = Held(a) - 1 /\ booting' = [booting EXCEPT ![launch[a].label] = @ + 1]
<1> DEFINE call == launch[a]
<1>1. call \in Call /\ CallOK(call) /\ call.stage = "register" /\ call.fresh > 0
  BY DEF Accounts, RegisterJit, RegisterJitFails, RegisterThrows, LaunchStage, CallOK
<1> HIDE DEF call
<1>2. ASSUME NEW next \in Call, Becomes(a, Registered(next)),
             next.stage = "register", next.label = call.label, next.asked = call.asked,
             next.retryable = call.retryable, next.final = call.final, next.stale = call.stale,
             next.fresh + next.failed + next.made = call.fresh + call.failed + call.made
      PROVE  /\ CallStep(a) /\ launch'[a].fresh = next.fresh /\ launch'[a].failed = next.failed
             /\ launch'[a].stage \in {"register", "terminate", "done"}
             /\ \A b \in Actor \ {a} : launch'[b] = launch[b]
  <2> DEFINE ends == Registered(next)
  <2>1. /\ Continues(call, ends) /\ ends.fresh = next.fresh
        /\ ends.failed = next.failed /\ ends.stage \in {"register", "terminate", "done"}
    BY <1>1, <1>2, RegisteredKeeps
  <2> HIDE DEF ends
  <2>2. Becomes(a, ends)
    BY <1>2 DEF ends
  <2>3. CallStep(a) /\ launch'[a] = ends /\ \A b \in Actor \ {a} : launch'[b] = launch[b]
    BY <2>1, <2>2, BecomesStep DEF call
  <2> QED
    BY <2>1, <2>3
<1>3. CASE RegisterJit(a)
  <2> DEFINE fewer == call.fresh - 1
             more == call.made + 1
             next == [call EXCEPT !.fresh = fewer, !.made = more]
  <2>0. fewer \in Nat /\ more \in Nat
    BY <1>1 DEF Call
  <2>1. /\ next \in Call /\ next.stage = call.stage /\ next.label = call.label /\ next.asked = call.asked
        /\ next.fresh = call.fresh - 1 /\ next.failed = call.failed /\ next.made = call.made + 1
        /\ next.retryable = call.retryable /\ next.final = call.final /\ next.stale = call.stale
    <3>1. /\ next \in Call /\ next.stage = call.stage /\ next.label = call.label /\ next.asked = call.asked
          /\ next.fresh = fewer /\ next.failed = call.failed /\ next.made = more
          /\ next.retryable = call.retryable /\ next.final = call.final /\ next.stale = call.stale
      <4> HIDE DEF fewer, more
      <4> QED
        BY <1>1, <2>0 DEF Call
    <3> QED
      BY <3>1
  <2>2. Becomes(a, Registered(next))
    BY <1>3 DEF RegisterJit, call
  <2> HIDE DEF next
  <2>3. /\ CallStep(a) /\ launch'[a].fresh = next.fresh /\ launch'[a].failed = next.failed
        /\ launch'[a].stage \in {"register", "terminate", "done"}
        /\ \A b \in Actor \ {a} : launch'[b] = launch[b]
    BY <1>1, <1>2, <2>1, <2>2 DEF Call
  <2>4. Held(a)' = Held(a) - 1
    BY <1>1, <2>1, <2>3 DEF Held, call, Call
  <2> QED
    BY <1>3, <2>3, <2>4 DEF Moves, RegisterJit
<1>4. CASE RegisterJitFails(a)
  <2> DEFINE fewer == call.fresh - 1
             more == call.failed + 1
             next == [call EXCEPT !.fresh = fewer, !.failed = more]
  <2>0. fewer \in Nat /\ more \in Nat
    BY <1>1 DEF Call
  <2>1. /\ next \in Call /\ next.stage = call.stage /\ next.label = call.label /\ next.asked = call.asked
        /\ next.fresh = call.fresh - 1 /\ next.failed = call.failed + 1 /\ next.made = call.made
        /\ next.retryable = call.retryable /\ next.final = call.final /\ next.stale = call.stale
    <3>1. /\ next \in Call /\ next.stage = call.stage /\ next.label = call.label /\ next.asked = call.asked
          /\ next.fresh = fewer /\ next.failed = more /\ next.made = call.made
          /\ next.retryable = call.retryable /\ next.final = call.final /\ next.stale = call.stale
      <4> HIDE DEF fewer, more
      <4> QED
        BY <1>1, <2>0 DEF Call
    <3> QED
      BY <3>1
  <2>2. Becomes(a, Registered(next))
    BY <1>4 DEF RegisterJitFails, call
  <2> HIDE DEF next
  <2>3. /\ CallStep(a) /\ launch'[a].fresh = next.fresh /\ launch'[a].failed = next.failed
        /\ launch'[a].stage \in {"register", "terminate", "done"}
        /\ \A b \in Actor \ {a} : launch'[b] = launch[b]
    BY <1>1, <1>2, <2>1, <2>2 DEF Call
  <2>4. Held(a)' = Held(a)
    BY <1>1, <2>1, <2>3 DEF Held, call, Call
  <2> QED
    BY <1>4, <2>3, <2>4 DEF Moves, RegisterJitFails
<1>5. CASE RegisterThrows(a)
  <2> DEFINE next == [call EXCEPT !.fresh = 0, !.failed = call.fresh]
  <2>1. /\ next \in Call /\ next.stage = call.stage /\ next.label = call.label /\ next.asked = call.asked
        /\ next.fresh = 0 /\ next.failed = call.fresh /\ next.made = call.made
        /\ next.retryable = call.retryable /\ next.final = call.final /\ next.stale = call.stale
    BY <1>1 DEF Call
  <2>2. Becomes(a, Registered(next)) /\ call.failed = 0
    BY <1>5 DEF RegisterThrows, call
  <2> HIDE DEF next
  <2>3. /\ CallStep(a) /\ launch'[a].fresh = next.fresh /\ launch'[a].failed = next.failed
        /\ launch'[a].stage \in {"register", "terminate", "done"}
        /\ \A b \in Actor \ {a} : launch'[b] = launch[b]
    BY <1>1, <1>2, <2>1, <2>2 DEF Call
  <2>4. Held(a)' = Held(a)
    BY <1>1, <2>1, <2>2, <2>3 DEF Held, call, Call
  <2> QED
    BY <1>5, <2>3, <2>4 DEF Moves, RegisterThrows
<1> QED
  BY <1>3, <1>4, <1>5

LEMMA TerminateStep ==
  ASSUME launch \in [Actor -> Call], Accounts, NEW a \in Actor, TerminateFailed(a), loose \in Nat
  PROVE  /\ Moves(a) /\ UNCHANGED booting /\ Held(a)' = Held(a) - 1
         /\ loose' \in {loose, loose + 1}
<1> DEFINE call == launch[a]
<1>1. call \in Call /\ CallOK(call) /\ call.stage = "terminate" /\ call.failed > 0
  BY DEF Accounts, TerminateFailed, LaunchStage, CallOK
<1> DEFINE over == IF call.failed = 1 THEN "done" ELSE call.stage
           fewer == call.failed - 1
           next == [call EXCEPT !.failed = fewer, !.stage = over]
<1>2. Becomes(a, next)
  BY DEF TerminateFailed
<1> HIDE DEF call
<1>3. over \in Stage /\ fewer \in Nat
  BY <1>1 DEF Stage, Call
<1>4. /\ next \in Call /\ next.stage = over /\ next.label = call.label /\ next.asked = call.asked
      /\ next.fresh = call.fresh /\ next.failed = fewer /\ next.made = call.made
      /\ next.retryable = call.retryable /\ next.final = call.final /\ next.stale = call.stale
  <2> HIDE DEF over, fewer
  <2> QED
    BY <1>1, <1>3 DEF Call
<1> HIDE DEF next
<1>5. CallOK(next)
  BY <1>1, <1>4 DEF CallOK, Call
<1>6. CallStep(a) /\ launch'[a] = next /\ \A b \in Actor \ {a} : launch'[b] = launch[b]
  BY <1>2, <1>4, <1>5, BecomesStep DEF Continues, call
<1>7. Held(a)' = Held(a) - 1
  BY <1>1, <1>4, <1>6 DEF Held, Call, call
<1>8. launch'[a].stage \in {"register", "terminate", "done"}
  BY <1>1, <1>4, <1>6
<1> QED
  BY <1>6, <1>7, <1>8 DEF Moves, TerminateFailed

-----------------------------------------------------------------------------
\* The maximum is kept by a step that adds no runner and starts no call but one
\* that finds room.
Launching(call) == call.stage \in {"fleet", "ondemand"} /\ ~call.stale

LEMMA RoomGrows ==
  ASSUME NEW n \in Int, NEW m \in Int, NEW room \in Int, NEW o \in Int, NEW p \in Int,
         m <= n, o <= p, n <= room + o
  PROVE  m <= room + p
OBVIOUS

LEMMA RoomKept ==
  ASSUME Overlooks, Counted, Counted', RoomIsLeft, raced' = raced, CurrentRunners' <= CurrentRunners,
         \A b \in Actor : Launching(launch'[b]) =>
           \/ Launching(launch[b]) /\ Missing(b)' <= Missing(b)
           \/ Maximum # -1 => CurrentRunners' + Missing(b)' <= Maximum + overlooked'
  PROVE  RoomIsLeft'
<1>1. SUFFICES ASSUME Maximum # -1, ~raced PROVE CurrentRunners' <= Maximum + overlooked' /\ Fits'
  BY DEF RoomIsLeft
<1>2. CurrentRunners \in Nat /\ CurrentRunners' \in Nat /\ Maximum \in Nat
      /\ overlooked \in Nat /\ overlooked' \in Nat /\ overlooked <= overlooked'
  BY <1>1, ScaleUpAssumption DEF Counted, Overlooks
<1>3. CurrentRunners <= Maximum + overlooked /\ Fits
  BY <1>1 DEF RoomIsLeft
<1>4. CurrentRunners' <= Maximum + overlooked'
  <2>1. /\ CurrentRunners \in Int /\ CurrentRunners' \in Int /\ Maximum \in Int
        /\ overlooked \in Int /\ overlooked' \in Int
    BY <1>2
  <2> QED
    BY <1>2, <1>3, <2>1, RoomGrows, Zenon
<1>5. ASSUME NEW b \in Actor, Launching(launch'[b])
      PROVE  CurrentRunners' + Missing(b)' <= Maximum + overlooked'
  <2>1. launch[b] \in Call /\ launch'[b] \in Call
    BY DEF Counted
  <2>2. Missing(b) \in Int /\ Missing(b)' \in Int
    BY <2>1 DEF Missing, Call
  <2>3. CASE Launching(launch[b]) /\ Missing(b)' <= Missing(b)
    <3>1. CurrentRunners + Missing(b) <= Maximum + overlooked
      BY <1>3, <2>3 DEF Fits, Launching
    <3> QED
      BY <1>2, <2>2, <2>3, <3>1
  <2> QED
    BY <1>1, <1>5, <2>3
<1>6. Fits'
  BY <1>5 DEF Fits, Launching
<1> QED
  BY <1>4, <1>6

\* a's call becomes another one that holds no more instances than are given up.
LEMMA BecomesKeeps ==
  ASSUME Overlooks, ColdInv, NEW a \in Actor, NEW next \in Call, CallOK(next), Becomes(a, next),
         UNCHANGED <<jobs, booting, idle, raced>>, faults' \in 0 .. MaxFaults, loose' \in Nat,
         loose' + next.fresh + next.failed <= loose + Held(a),
         Launching(next) /\ Maximum # -1 => CurrentRunners + next.asked - next.fresh <= Maximum + overlooked'
  PROVE  ColdInv' /\ launch'[a] = next /\ \A b \in Actor \ {a} : launch'[b] = launch[b]
<1>1. /\ launch' \in [Actor -> Call] /\ launch'[a] = next
      /\ \A b \in Actor \ {a} : launch'[b] = launch[b]
  BY ColdCounts DEF Becomes, Counted, ColdInv
<1>2. ColdTypeOK'
  BY <1>1 DEF ColdTypeOK, Call, ColdInv
<1>3. Accounts'
  BY <1>1 DEF Accounts, ColdInv
<1>4. Counted /\ Counted'
  BY <1>2, ColdCounts, NextCounts DEF ColdInv
<1>5. CurrentRunners' <= CurrentRunners
  <2>1. SumFunction(Holding)' = SumFunction(Holding) - Held(a) + Held(a)'
    BY <1>1, <1>2, HoldingChange DEF Held, ColdInv
  <2>2. SumFunction(Serving)' = SumFunction(Serving) /\ Busy' = Busy
    BY ServingSame DEF Busy
  <2>3. Held(a)' = next.fresh + next.failed /\ Held(a) \in Nat /\ Held(a)' \in Nat
    BY <1>1, <1>4 DEF Held, Counted, Call
  <2>4. loose \in Nat /\ next.fresh \in Nat /\ next.failed \in Nat
    BY DEF ColdTypeOK, Call, ColdInv
  <2> QED
    BY <1>4, <2>1, <2>2, <2>3, <2>4 DEF Counted
<1>6. ASSUME NEW b \in Actor, Launching(launch'[b])
      PROVE  \/ Launching(launch[b]) /\ Missing(b)' <= Missing(b)
             \/ Maximum # -1 => CurrentRunners' + Missing(b)' <= Maximum + overlooked'
  <2>1. CASE b = a
    <3>1. Missing(a)' = next.asked - next.fresh
      BY <1>1 DEF Missing
    <3>2. CurrentRunners \in Nat /\ CurrentRunners' \in Nat /\ next.asked \in Nat /\ next.fresh \in Nat
      BY <1>4 DEF Counted, Call
    <3>4. overlooked' \in Nat
      BY DEF Overlooks
    <3>3. Maximum # -1 => CurrentRunners' + Missing(a)' <= Maximum + overlooked'
      BY <1>1, <1>5, <1>6, <2>1, <3>1, <3>2, <3>4, ScaleUpAssumption
    <3> QED
      BY <2>1, <3>3
  <2>2. CASE b # a
    <3>1. launch'[b] = launch[b] /\ Missing(b) \in Int
      BY <1>1, <1>4, <2>2 DEF Missing, Counted, Call
    <3> QED
      BY <1>6, <3>1 DEF Missing
  <2> QED
    BY <2>1, <2>2
<1>7. RoomIsLeft'
  BY <1>4, <1>5, <1>6, RoomKept DEF ColdInv
<1> QED
  BY <1>1, <1>2, <1>3, <1>7 DEF ColdInv

\* The calls stay and no runner is added.
LEMMA RunnersKeep ==
  ASSUME Overlooks, ColdInv, ColdTypeOK', UNCHANGED <<launch, raced>>,
         loose' + Busy' + SumFunction(Serving)' <= loose + Busy + SumFunction(Serving)
  PROVE  ColdInv'
<1>1. Counted /\ Counted' /\ SumFunction(Holding)' = SumFunction(Holding)
  BY ColdCounts, NextCounts, HoldingSame DEF ColdInv
<1>2. loose \in Nat /\ loose' \in Nat
  BY DEF ColdInv, ColdTypeOK
<1>3. CurrentRunners' <= CurrentRunners
  BY <1>1, <1>2 DEF Counted
<1>4. \A b \in Actor : Missing(b) \in Int /\ Missing(b)' = Missing(b)
  BY <1>1 DEF Counted, Missing, Call
<1>5. RoomIsLeft'
  BY <1>1, <1>3, <1>4, RoomKept DEF ColdInv
<1>6. Accounts'
  BY DEF Accounts, ColdInv
<1> QED
  BY <1>5, <1>6 DEF ColdInv

LEMMA ColdSame ==
  ASSUME Overlooks, ColdInv, UNCHANGED <<launch, jobs, booting, idle, loose, raced>>, faults' \in 0 .. MaxFaults
  PROVE  ColdInv'
<1>1. ColdTypeOK'
  BY DEF ColdTypeOK, ColdInv
<1>2. Busy' = Busy /\ SumFunction(Serving)' = SumFunction(Serving)
  BY ServingSame DEF Busy
<1>3. Counted /\ loose \in Nat
  BY ColdCounts DEF ColdInv, ColdTypeOK
<1>4. loose' + Busy' + SumFunction(Serving)' <= loose + Busy + SumFunction(Serving)
  BY <1>2, <1>3 DEF Counted
<1> QED
  BY <1>1, <1>4, RunnersKeep

LEMMA LaunchKeeps ==
  ASSUME Overlooks, ColdInv, NEW a \in Actor, LaunchStep(a)
  PROVE  ColdInv' /\ jobs' = jobs /\ \A b \in Actor : launch'[b].asked = launch[b].asked
<1>1. Counted /\ launch \in [Actor -> Call] /\ Accounts /\ ColdTypeOK /\ loose \in Nat
  BY ColdCounts DEF ColdInv, ColdTypeOK, Counted
<1>2. CASE CreateFleet(a)
  <2>1. /\ launch[a].stage \in {"fleet", "ondemand"}
        /\ Fault \/ UNCHANGED faults
        /\ UNCHANGED <<jobs, booting, idle, loose>>
    BY <1>1, <1>2, CreateFleetStep
  <2>2. PICK n \in 0 .. Missing(a) : Fleet(a, n)
    BY <1>1, <1>2, CreateFleetStep
  <2>3. CallStep(a) /\ Accounts' /\ launch' \in [Actor -> Call]
    BY <2>2 DEF Fleet, CallStep
  <2>4. ColdTypeOK'
    <3>1. raced' \in BOOLEAN
      BY <2>2 DEF Fleet
    <3>2. faults' \in 0 .. MaxFaults
      BY <1>1, <2>1, FaultRange DEF ColdTypeOK
    <3> QED
      BY <1>1, <2>1, <2>3, <3>1, <3>2 DEF ColdTypeOK, Call
  <2>5. Counted'
    BY <2>4, NextCounts
  <2>6. n \in Nat /\ \A b \in Actor : Missing(b) \in Int /\ Missing(b)' \in Int
    BY <1>1, <2>3 DEF Missing, Call
  <2>7. CurrentRunners' = CurrentRunners + n
    <3>1. SumFunction(Holding)' = SumFunction(Holding) - Held(a) + Held(a)'
      BY <1>1, <2>3, <2>4, HoldingChange DEF Held, CallStep
    <3>2. Held(a)' = Held(a) + n /\ Held(a) \in Nat
      BY <1>1, <2>2, <2>3, <2>6 DEF Held, Fleet, Call
    <3>3. SumFunction(Serving)' = SumFunction(Serving) /\ Busy' = Busy
      BY <2>1, ServingSame DEF Busy
    <3> QED
      BY <1>1, <2>1, <2>5, <2>6, <3>1, <3>2, <3>3 DEF Counted
  <2>8. Missing(a)' = Missing(a) - n
    BY <1>1, <2>2, <2>3, <2>6 DEF Missing, Fleet, CallStep, Call
  <2>9. CASE n = 0
    <3>1. raced' = raced /\ CurrentRunners' <= CurrentRunners
      BY <1>1, <2>2, <2>5, <2>7, <2>9 DEF Fleet, Counted, ColdTypeOK
    <3>2. ASSUME NEW b \in Actor, Launching(launch'[b])
          PROVE  Launching(launch[b]) /\ Missing(b)' <= Missing(b)
      <4>1. CASE b = a
        <5>1. ~launch'[a].stale /\ launch'[a].stale = launch[a].stale
          BY <2>3, <3>2, <4>1 DEF CallStep, Launching
        <5>2. Launching(launch[a])
          BY <2>1, <5>1, Zenon DEF Launching
        <5>3. Missing(a)' <= Missing(a)
          BY <2>6, <2>8, <2>9
        <5> QED
          BY <4>1, <5>2, <5>3
      <4>2. CASE b # a
        <5>1. /\ launch'[b].stage = launch[b].stage /\ launch'[b].asked = launch[b].asked
              /\ launch'[b].fresh = launch[b].fresh
              /\ launch'[b].stale = (launch[b].stale \/ (n > 0 /\ launch[b].stage \in {"fleet", "ondemand"}))
          BY <2>2, <2>3, <4>2 DEF CallStep, Fleet
        <5>2. Launching(launch[b])
          BY <3>2, <5>1, Zenon DEF Launching
        <5>3. Missing(b)' <= Missing(b)
          BY <2>6, <5>1 DEF Missing
        <5> QED
          BY <5>2, <5>3
      <4> QED
        BY <4>1, <4>2
    <3>3. RoomIsLeft'
      BY <1>1, <2>5, <3>1, <3>2, RoomKept DEF ColdInv
    <3> QED
      BY <2>1, <2>3, <2>4, <3>3 DEF ColdInv, CallStep
  <2>10. CASE n > 0
    <3>1. SUFFICES ASSUME Maximum # -1, ~raced' PROVE CurrentRunners' <= Maximum + overlooked' /\ Fits'
      BY <2>1, <2>3, <2>4 DEF ColdInv, CallStep, RoomIsLeft
    <3>2. ~raced /\ ~launch[a].stale
      BY <2>2, <2>10, <3>1 DEF Fleet
    <3>3. CurrentRunners + Missing(a) <= Maximum + overlooked
      <4>1. RoomIsLeft
        BY DEF ColdInv
      <4>2. Fits
        BY <3>1, <3>2, <4>1, Zenon DEF RoomIsLeft
      <4> QED
        BY <2>1, <3>2, <4>2, Zenon DEF Fits
    <3>4. /\ CurrentRunners \in Nat /\ Maximum \in Nat
          /\ overlooked \in Nat /\ overlooked' \in Nat /\ overlooked <= overlooked'
      BY <1>1, <3>1, ScaleUpAssumption DEF Counted, Overlooks
    <3>5. /\ CurrentRunners' <= Maximum + overlooked'
          /\ CurrentRunners' + Missing(a)' <= Maximum + overlooked'
      <4>1. n <= Missing(a) /\ Missing(a) \in Int
        BY <2>6
      <4>2. CurrentRunners' <= CurrentRunners + Missing(a)
        BY <2>6, <2>7, <3>4, <4>1
      <4>3. CurrentRunners' + Missing(a)' <= CurrentRunners + Missing(a)
        BY <2>6, <2>7, <2>8, <3>4, <4>1
      <4>4. CurrentRunners' \in Int /\ CurrentRunners' + Missing(a)' \in Int /\ CurrentRunners + Missing(a) \in Int
        BY <2>6, <2>7, <3>4
      <4> QED
        <5>1. Maximum \in Int /\ overlooked \in Int /\ overlooked' \in Int
          BY <3>4
        <5> QED
          BY <3>3, <3>4, <4>2, <4>3, <4>4, <5>1, RoomGrows, Zenon
    <3>6. ASSUME NEW b \in Actor \ {a} PROVE ~Launching(launch'[b])
      BY <2>2, <2>3, <2>10 DEF Launching, Fleet, CallStep
    <3> QED
      BY <3>5, <3>6 DEF Fits, Launching
  <2> QED
    BY <2>6, <2>9, <2>10
<1>3. ASSUME Moves(a), loose' \in Nat, booting' \in [Label -> Nat],
             loose' + Held(a)' + SumFunction(Serving)' <= loose + Held(a) + SumFunction(Serving)
      PROVE  ColdInv' /\ jobs' = jobs /\ \A b \in Actor : launch'[b].asked = launch[b].asked
  <2>1. CallStep(a) /\ Accounts' /\ launch' \in [Actor -> Call]
    BY <1>3 DEF Moves, CallStep
  <2>2. ColdTypeOK'
    <3>1. faults' \in 0 .. MaxFaults
      BY <1>1, <1>3, FaultRange DEF ColdTypeOK, Moves
    <3> QED
      BY <1>1, <1>3, <2>1, <3>1 DEF ColdTypeOK, Call, Moves
  <2>3. Counted' /\ Busy' = Busy
    BY <1>3, <2>2, NextCounts DEF Moves, Busy
  <2>4. CurrentRunners' <= CurrentRunners
    <3>1. SumFunction(Holding)' = SumFunction(Holding) - Held(a) + Held(a)'
      BY <1>1, <2>1, <2>2, HoldingChange DEF Held, CallStep
    <3>2. Held(a) \in Nat /\ Held(a)' \in Nat
      BY <1>1, <2>1 DEF Held, Call
    <3> QED
      BY <1>1, <1>3, <2>3, <3>1, <3>2 DEF Counted
  <2>5. ASSUME NEW b \in Actor, Launching(launch'[b])
        PROVE  Launching(launch[b]) /\ Missing(b)' <= Missing(b)
    <3>1. b # a
      BY <1>3, <2>5 DEF Moves, Launching
    <3>2. launch'[b] = launch[b] /\ Missing(b) \in Int
      BY <1>1, <1>3, <3>1 DEF Moves, Missing, Call
    <3> QED
      BY <2>5, <3>2 DEF Missing
  <2>6. RoomIsLeft'
    BY <1>1, <1>3, <2>3, <2>4, <2>5, RoomKept DEF ColdInv, Moves
  <2> QED
    BY <1>3, <2>1, <2>2, <2>6 DEF ColdInv, CallStep, Moves
<1>4. booting \in [Label -> Nat] /\ idle \in [Label -> Nat] /\ Held(a) \in Nat /\ SumFunction(Serving) \in Nat
  BY <1>1 DEF ColdTypeOK, Held, Call, Counted
<1>5. CASE CreateRequestFails(a)
  <2>1. Moves(a) /\ Held(a)' = Held(a) /\ UNCHANGED <<booting, idle, loose>>
    BY <1>1, <1>5, RequestFailsStep DEF Moves
  <2>2. SumFunction(Serving)' = SumFunction(Serving)
    BY <2>1, ServingSame
  <2> QED
    BY <1>1, <1>3, <1>4, <2>1, <2>2
<1>6. CASE RegisterJit(a) \/ RegisterJitFails(a) \/ RegisterThrows(a)
  <2>1. Moves(a) /\ loose' = loose /\ idle' = idle
    BY <1>1, <1>6, RegisterStep DEF Moves
  <2>2. CASE Held(a)' = Held(a) /\ UNCHANGED booting
    <3>1. SumFunction(Serving)' = SumFunction(Serving)
      BY <2>1, <2>2, ServingSame
    <3> QED
      BY <1>1, <1>3, <1>4, <2>1, <2>2, <3>1
  <2>3. CASE Held(a)' = Held(a) - 1 /\ booting' = [booting EXCEPT ![launch[a].label] = @ + 1]
    <3> DEFINE l == launch[a].label
    <3>1. l \in Label
      BY <1>1 DEF Call
    <3>2. booting' \in [Label -> Nat] /\ booting'[l] = booting[l] + 1 /\ \A k \in Label \ {l} : booting'[k] = booting[k]
      BY <1>4, <2>3, <3>1
    <3> HIDE DEF l
    <3>3. Serving' \in [Label -> Nat] /\ Serving \in [Label -> Nat]
      BY <1>4, <2>1, <3>2 DEF Serving
    <3>4. Serving'[l] = Serving[l] + 1 /\ \A k \in Label \ {l} : Serving'[k] = Serving[k]
      BY <1>4, <2>1, <3>1, <3>2 DEF Serving
    <3>5. SumFunction(Serving') = SumFunction(Serving) - Serving[l] + Serving'[l]
      BY <3>1, <3>3, <3>4, SumUpdate, LaunchAssumption
    <3>6. SumFunction(Serving)' = SumFunction(Serving) + 1
      BY <1>4, <3>1, <3>3, <3>4, <3>5
    <3>7. loose' + Held(a)' + SumFunction(Serving)' <= loose + Held(a) + SumFunction(Serving)
      BY <1>1, <1>4, <2>1, <2>3, <3>6
    <3> QED
      BY <1>1, <1>3, <2>1, <3>2, <3>7
  <2> QED
    BY <1>1, <1>6, <2>2, <2>3, RegisterStep
<1>7. CASE TerminateFailed(a)
  <2>1. /\ Moves(a) /\ UNCHANGED <<booting, idle>> /\ Held(a)' = Held(a) - 1
        /\ loose' \in {loose, loose + 1}
    BY <1>1, <1>7, TerminateStep DEF Moves
  <2>2. SumFunction(Serving)' = SumFunction(Serving)
    BY <2>1, ServingSame
  <2>3. loose' \in Nat /\ loose' + Held(a)' + SumFunction(Serving)' <= loose + Held(a) + SumFunction(Serving)
    BY <1>1, <1>4, <2>1, <2>2
  <2> QED
    BY <1>3, <1>4, <2>1, <2>3
<1> QED
  BY <1>2, <1>5, <1>6, <1>7 DEF LaunchStep

-----------------------------------------------------------------------------
\* The runners that serve jobs, and the jobs.
LEMMA BusyChange ==
  ASSUME NEW j \in Job, jobs \in [Job -> {"none", "queued", "running", "done"}],
         NEW s \in {"none", "queued", "running", "done"}, jobs' = [jobs EXCEPT ![j] = s]
  PROVE  /\ jobs[j] # "running" /\ s = "running" => Busy' = Busy + 1
         /\ jobs[j] = "running" /\ s # "running" => Busy' = Busy - 1
         /\ jobs[j] # "running" /\ s # "running" => Busy' = Busy
<1> DEFINE old == {i \in Job : jobs[i] = "running"}
           new == {i \in Job : jobs'[i] = "running"}
<1>1. Busy = Cardinality(old) /\ Busy' = Cardinality(new) /\ IsFiniteSet(old) /\ Cardinality(old) \in Nat
  BY FS_Subset, FS_CardinalityType, LaunchAssumption DEF Busy
<1>2. \A i \in Job : jobs'[i] = IF i = j THEN s ELSE jobs[i]
  OBVIOUS
<1>3. CASE jobs[j] # "running" /\ s = "running"
  <2>1. new = old \cup {j} /\ j \notin old
    BY <1>2, <1>3
  <2> HIDE DEF old, new
  <2>2. Cardinality(new) = Cardinality(old) + 1
    BY <1>1, <2>1, FS_AddElement
  <2> QED
    BY <1>1, <1>3, <2>2
<1>4. CASE jobs[j] = "running" /\ s # "running"
  <2>1. new = old \ {j} /\ j \in old
    BY <1>2, <1>4
  <2> HIDE DEF old, new
  <2>2. Cardinality(new) = Cardinality(old) - 1
    BY <1>1, <2>1, FS_RemoveElement
  <2> QED
    BY <1>1, <1>4, <2>2
<1>5. CASE jobs[j] # "running" /\ s # "running"
  <2>1. new = old
    BY <1>2, <1>5
  <2> HIDE DEF old, new
  <2> QED
    BY <1>1, <1>5, <2>1
<1> QED
  BY <1>3, <1>4, <1>5

JobStep(j) == StartJob(j) \/ EndJob(j) \/ CancelJob(j)

\* No job becomes queued here.
LEMMA JobKeeps ==
  ASSUME Overlooks, ColdInv, NEW j \in Job, JobStep(j)
  PROVE  ColdInv' /\ launch' = launch /\ \A i \in Job : jobs'[i] = "queued" => jobs[i] = "queued"
<1>1. Counted /\ loose \in Nat /\ jobs \in [Job -> {"none", "queued", "running", "done"}]
      /\ booting \in [Label -> Nat] /\ idle \in [Label -> Nat] /\ labelOf[j] \in Label
  BY ColdCounts, LaunchAssumption DEF ColdInv, ColdTypeOK
<1>2. CASE StartJob(j)
  <2> DEFINE l == labelOf[j]
  <2>1. /\ jobs' = [jobs EXCEPT ![j] = "running"] /\ jobs[j] = "queued"
        /\ idle[l] > 0 /\ idle' = [idle EXCEPT ![l] = @ - 1]
        /\ UNCHANGED <<launch, booting, loose, faults, raced>>
    BY <1>2 DEF StartJob
  <2>2. Busy' = Busy + 1
    BY <1>1, <2>1, BusyChange
  <2> HIDE DEF l
  <2>3. l \in Label
    BY <1>1 DEF l
  <2>4. idle' \in [Label -> Nat] /\ idle'[l] = idle[l] - 1 /\ \A k \in Label \ {l} : idle'[k] = idle[k]
    BY <1>1, <2>1, <2>3
  <2>5. ColdTypeOK'
    BY <2>1, <2>4 DEF ColdInv, ColdTypeOK
  <2>6. SumFunction(Serving)' = SumFunction(Serving) - (booting[l] + idle[l]) + (booting'[l] + idle'[l])
    BY <2>1, <2>3, <2>4, <2>5, ServingChange DEF ColdInv
  <2>7. booting[l] \in Nat /\ idle[l] \in Nat
    BY <1>1, <2>3
  <2>8. loose' + Busy' + SumFunction(Serving)' <= loose + Busy + SumFunction(Serving)
    BY <1>1, <2>1, <2>2, <2>4, <2>6, <2>7 DEF Counted
  <2>9. ColdInv'
    BY <2>1, <2>5, <2>8, RunnersKeep
  <2> QED
    BY <1>1, <2>1, <2>9
<1>3. CASE EndJob(j) \/ CancelJob(j)
  <2>1. /\ jobs' = [jobs EXCEPT ![j] = "done"]
        /\ UNCHANGED <<launch, booting, idle, loose, faults, raced>>
    BY <1>3 DEF EndJob, CancelJob
  <2>2. Busy' = Busy - 1 \/ Busy' = Busy
    BY <1>1, <2>1, BusyChange
  <2>3. SumFunction(Serving)' = SumFunction(Serving) /\ ColdTypeOK'
    BY <2>1, ServingSame DEF ColdInv, ColdTypeOK
  <2>4. loose' + Busy' + SumFunction(Serving)' <= loose + Busy + SumFunction(Serving)
    BY <1>1, <2>1, <2>2, <2>3 DEF Counted
  <2>5. ColdInv'
    BY <2>1, <2>3, <2>4, RunnersKeep
  <2> QED
    BY <1>1, <2>1, <2>5
<1> QED
  BY <1>2, <1>3 DEF JobStep

LEMMA RunnerKeeps ==
  ASSUME Overlooks, ColdInv, ScaleDown \/ \E l \in Label : Boot(l)
  PROVE  ColdInv' /\ launch' = launch /\ jobs' = jobs
<1>1. Counted /\ loose \in Nat /\ faults \in 0 .. MaxFaults
      /\ booting \in [Label -> Nat] /\ idle \in [Label -> Nat]
  BY ColdCounts DEF ColdInv, ColdTypeOK
<1>2. ASSUME NEW l \in Label, UNCHANGED <<launch, jobs, raced>>, faults' \in 0 .. MaxFaults,
             loose' \in Nat, booting' \in [Label -> Nat], idle' \in [Label -> Nat],
             \A k \in Label \ {l} : booting'[k] = booting[k] /\ idle'[k] = idle[k],
             loose' + booting'[l] + idle'[l] <= loose + booting[l] + idle[l]
      PROVE  ColdInv'
  <2>1. ColdTypeOK' /\ Busy' = Busy
    BY <1>2 DEF ColdInv, ColdTypeOK, Busy
  <2>2. SumFunction(Serving)' = SumFunction(Serving) - (booting[l] + idle[l]) + (booting'[l] + idle'[l])
    BY <1>2, <2>1, ServingChange DEF ColdInv
  <2>3. booting[l] \in Nat /\ idle[l] \in Nat /\ booting'[l] \in Nat /\ idle'[l] \in Nat
    BY <1>1, <1>2
  <2>4. Counted'
    BY <2>1, NextCounts
  <2>5. loose' + Busy' + SumFunction(Serving)' <= loose + Busy + SumFunction(Serving)
    BY <1>1, <1>2, <2>1, <2>2, <2>3, <2>4 DEF Counted
  <2> QED
    BY <1>2, <2>1, <2>5, RunnersKeep
<1>3. ASSUME NEW l \in Label, Boot(l) PROVE ColdInv' /\ launch' = launch /\ jobs' = jobs
  <2>1. /\ booting[l] > 0 /\ booting' = [booting EXCEPT ![l] = @ - 1] /\ UNCHANGED <<launch, jobs, raced>>
        /\ \/ idle' = [idle EXCEPT ![l] = @ + 1] /\ loose' = loose
           \/ loose' = loose + 1 /\ idle' = idle
    BY <1>3 DEF Boot
  <2>2. faults' \in 0 .. MaxFaults
    BY <1>1, <1>3, FaultRange DEF Boot
  <2>3. booting' \in [Label -> Nat] /\ booting'[l] = booting[l] - 1 /\ \A k \in Label \ {l} : booting'[k] = booting[k]
    BY <1>1, <2>1
  <2>4. /\ idle' \in [Label -> Nat] /\ loose' \in Nat /\ \A k \in Label \ {l} : idle'[k] = idle[k]
        /\ loose' + idle'[l] = loose + idle[l] + 1
    BY <1>1, <2>1
  <2>5. loose' + booting'[l] + idle'[l] <= loose + booting[l] + idle[l]
    BY <1>1, <2>3, <2>4
  <2> QED
    BY <1>2, <2>1, <2>2, <2>3, <2>4, <2>5
<1>4. CASE ScaleDown
  <2>1. UNCHANGED <<launch, jobs, booting, faults, raced>>
    BY <1>4 DEF ScaleDown
  <2>2. ASSUME NEW l \in Label, idle[l] > 0, idle' = [idle EXCEPT ![l] = @ - 1], loose' = loose
        PROVE  ColdInv'
    <3>1. idle' \in [Label -> Nat] /\ idle'[l] = idle[l] - 1 /\ \A k \in Label \ {l} : idle'[k] = idle[k]
      BY <1>1, <2>2
    <3>2. loose' + booting'[l] + idle'[l] <= loose + booting[l] + idle[l]
      BY <1>1, <2>1, <2>2, <3>1
    <3> QED
      BY <1>1, <1>2, <2>1, <2>2, <3>1, <3>2
  <2>3. ASSUME loose > 0, loose' = loose - 1, idle' = idle
        PROVE  ColdInv'
    <3>1. PICK l \in Label : TRUE
      BY LaunchAssumption
    <3>2. loose' + booting'[l] + idle'[l] <= loose + booting[l] + idle[l] /\ loose' \in Nat
      BY <1>1, <2>1, <2>3
    <3> QED
      BY <1>1, <1>2, <2>1, <2>3, <3>2
  <2> QED
    BY <1>4, <2>1, <2>2, <2>3 DEF ScaleDown
<1> QED
  BY <1>3, <1>4

\* The runners of a job that becomes queued are not there yet.
LEMMA EnqueueKeeps ==
  ASSUME Overlooks, ColdInv, NEW j \in Job, Enqueue(j)
  PROVE  ColdInv'
<1>1. Counted /\ loose \in Nat /\ jobs \in [Job -> {"none", "queued", "running", "done"}]
  BY ColdCounts DEF ColdInv, ColdTypeOK
<1>2. /\ jobs' = [jobs EXCEPT ![j] = "queued"] /\ jobs[j] = "none"
      /\ UNCHANGED <<launch, booting, idle, loose, faults, raced>>
  BY DEF Enqueue
<1>3. Busy' = Busy
  BY <1>1, <1>2, BusyChange
<1>4. SumFunction(Serving)' = SumFunction(Serving) /\ ColdTypeOK'
  BY <1>2, ServingSame DEF ColdInv, ColdTypeOK
<1>5. loose' + Busy' + SumFunction(Serving)' <= loose + Busy + SumFunction(Serving)
  BY <1>1, <1>2, <1>3, <1>4 DEF Counted
<1> QED
  BY <1>2, <1>4, <1>5, RunnersKeep

-----------------------------------------------------------------------------
\* The cold pool.
LEMMA LeastOfTwo ==
  ASSUME NEW m \in Int, NEW n \in Int
  PROVE  Min({m, n}) \in Int /\ Min({m, n}) <= m /\ Min({m, n}) <= n /\ Min({m, n}) \in {m, n}
<1>1. \E x \in {m, n} : \A y \in {m, n} : x <= y
  <2>1. CASE m <= n
    BY <2>1
  <2>2. CASE n <= m
    BY <2>2
  <2> QED
    BY <2>1, <2>2
<1>2. Min({m, n}) \in {m, n} /\ \A y \in {m, n} : Min({m, n}) <= y
  BY <1>1 DEF Min
<1> QED
  BY <1>2

LEMMA MostOfTwo ==
  ASSUME NEW m \in Int, NEW n \in Int
  PROVE  Max({m, n}) \in Int /\ Max({m, n}) >= m /\ Max({m, n}) >= n /\ Max({m, n}) \in {m, n}
<1>1. \E x \in {m, n} : \A y \in {m, n} : x >= y
  <2>1. CASE m <= n
    BY <2>1
  <2>2. CASE n <= m
    BY <2>2
  <2> QED
    BY <2>1, <2>2
<1>2. Max({m, n}) \in {m, n} /\ \A y \in {m, n} : Max({m, n}) >= y
  BY <1>1 DEF Max
<1> QED
  BY <1>2

\* What the pool asks for finds room under the maximum, beside what it listed.
LEMMA PoolTopUp ==
  ASSUME NEW running \in Int, NEW available \in Int
  PROVE  /\ TopUp(running, available) \in Int
         /\ Maximum # -1 => running + TopUp(running, available) <= Maximum
<1> DEFINE topUp == PoolSize - available
<1>1. topUp \in Int /\ PoolMaximum = Maximum /\ PoolMaximum \in Int
  BY PoolAssumption, ScalingAssumption
<1>2. CASE PoolMaximum = -1
  BY <1>1, <1>2 DEF TopUp
<1>3. CASE PoolMaximum # -1
  <2> DEFINE room == PoolMaximum - running
  <2>1. TopUp(running, available) = Min({topUp, room}) /\ room \in Int
    BY <1>1, <1>3 DEF TopUp
  <2> HIDE DEF topUp
  <2>2. TopUp(running, available) \in Int /\ TopUp(running, available) <= room
    <3> HIDE DEF room
    <3> QED
      BY <1>1, <2>1, LeastOfTwo
  <2> QED
    BY <1>1, <2>2
<1> QED
  BY <1>2, <1>3

\* What counts as available is a number.
LEMMA AvailableType ==
  ASSUME PoolTypeOK, NEW running \in Int, NEW offline \in Int, NEW late \in Int
  PROVE  Available(running, offline, late) \in Int
<1> DEFINE known == {j \in busySeen : jobs[j] = "running"}
<1>1. Cardinality(known) \in Nat
  BY FS_Subset, FS_CardinalityType, LaunchAssumption DEF PoolTypeOK
<1> HIDE DEF known
<1>2. Available(running, offline, late) = running - Cardinality(known) - offline - late
  BY DEF Available, known
<1> QED
  BY <1>1, <1>2

LEMMA NotOnlineType == ASSUME ColdTypeOK PROVE NotOnline \in Nat
<1>1. Counted /\ loose \in Nat /\ Booting \in Nat
  BY ColdCounts, SumType, LaunchAssumption DEF Booting, ColdTypeOK
<1>2. SumFunction([a \in Actor |-> Held(a)]) \in Nat
  BY <1>1 DEF Counted, Holding
<1> QED
  BY <1>1, <1>2 DEF NotOnline

LEMMA PoolKeeps ==
  ASSUME ColdInv, PoolTypeOK, PoolStep \/ PoolCrash
  PROVE  ColdInv' /\ PoolTypeOK' /\ jobs' = jobs /\ \A w \in Worker : launch'[w] = launch[w]
<1>1. Counted /\ loose \in Nat /\ faults \in 0 .. MaxFaults /\ CurrentRunners \in Nat /\ launch \in [Actor -> Call]
  BY ColdCounts DEF ColdInv, ColdTypeOK, Counted
<1>2. Pool \in Actor /\ \A w \in Worker : w \in Actor \ {Pool}
  BY PoolAssumption, ScalingAssumption, ScaleUpAssumption
<1>3. Held(Pool) \in Nat
  BY <1>1, <1>2 DEF Held, Call
<1>9. overlooked \in Nat
  BY DEF PoolTypeOK
<1>4. CASE PoolStatuses
  <2>1. Booting \in Nat
    BY SumType, LaunchAssumption DEF Booting, ColdInv, ColdTypeOK
  <2>2. PoolTypeOK' /\ overlooked' = overlooked
    BY <1>4, <2>1, PoolAssumption DEF PoolStatuses, PoolTypeOK
  <2>3. ColdInv'
    <3>1. Overlooks
      BY <1>9, <2>2 DEF Overlooks
    <3> QED
      BY <1>1, <1>4, <3>1, ColdSame DEF PoolStatuses, coldVars
  <2> QED
    BY <1>4, <2>2, <2>3 DEF PoolStatuses, coldVars
<1>5. CASE PoolList
  <2>1. UNCHANGED <<jobs, booting, idle, loose, faults, raced>>
    BY <1>5 DEF PoolList
  <2>2. PICK pending \in 0 .. NotOnline :
          LET running == CurrentRunners - pending IN
          \E late \in 0 .. Min({loose, NotOnline - pending}) :
          \E offline \in 0 .. Min({offlineSeen, Available(running, 0, late)}) :
            LET topUp == TopUp(running, Available(running, offline, late)) IN
            IF topUp > 0
            THEN /\ launch' = [launch EXCEPT ![Pool] = Begin(Pool, PoolLabel, topUp)]
                 /\ overlooked' = Max({overlooked, pending})
            ELSE UNCHANGED <<launch, overlooked>>
    BY <1>5 DEF PoolList
  <2> DEFINE running == CurrentRunners - pending
  <2>3. pending \in Nat /\ running \in Int /\ CurrentRunners = running + pending
    BY <1>1, NotOnlineType DEF ColdInv
  <2> HIDE DEF running
  <2>4. PICK late \in 0 .. Min({loose, NotOnline - pending}) :
          \E offline \in 0 .. Min({offlineSeen, Available(running, 0, late)}) :
            LET topUp == TopUp(running, Available(running, offline, late)) IN
            IF topUp > 0
            THEN /\ launch' = [launch EXCEPT ![Pool] = Begin(Pool, PoolLabel, topUp)]
                 /\ overlooked' = Max({overlooked, pending})
            ELSE UNCHANGED <<launch, overlooked>>
    BY <2>2 DEF running
  <2>5. late \in Int
    OBVIOUS
  <2>6. PICK offline \in 0 .. Min({offlineSeen, Available(running, 0, late)}) :
            LET topUp == TopUp(running, Available(running, offline, late)) IN
            IF topUp > 0
            THEN /\ launch' = [launch EXCEPT ![Pool] = Begin(Pool, PoolLabel, topUp)]
                 /\ overlooked' = Max({overlooked, pending})
            ELSE UNCHANGED <<launch, overlooked>>
    BY <2>4
  <2>7. offline \in Int
    OBVIOUS
  <2>8. Available(running, offline, late) \in Int
    BY <2>3, <2>5, <2>7, AvailableType
  <2> DEFINE topUp == TopUp(running, Available(running, offline, late))
  <2>9. topUp \in Int /\ (Maximum # -1 => running + topUp <= Maximum)
    BY <2>3, <2>8, PoolTopUp
  <2>10. /\ topUp > 0 => /\ launch' = [launch EXCEPT ![Pool] = Begin(Pool, PoolLabel, topUp)]
                         /\ overlooked' = Max({overlooked, pending})
         /\ ~(topUp > 0) => launch' = launch /\ overlooked' = overlooked
    BY <2>6
  <2> HIDE DEF topUp
  <2>11. Overlooks /\ (topUp > 0 => overlooked' >= pending)
    <3>2. overlooked \in Int /\ pending \in Int
      BY <1>9, <2>3
    <3>3. /\ Max({overlooked, pending}) \in Int
          /\ Max({overlooked, pending}) >= overlooked /\ Max({overlooked, pending}) >= pending
      BY <3>2, MostOfTwo
    <3>1. /\ Max({overlooked, pending}) \in Nat /\ overlooked <= Max({overlooked, pending})
          /\ pending <= Max({overlooked, pending})
      BY <1>9, <2>3, <3>3
    <3> QED
      BY <1>9, <2>9, <2>10, <3>1 DEF Overlooks
  <2>12. PoolTypeOK'
    BY <1>5, <2>11 DEF PoolList, PoolTypeOK, PoolEnds, Overlooks
  <2>13. CASE topUp > 0
    <3> DEFINE next == Begin(Pool, PoolLabel, topUp)
    <3>1. launch' = [launch EXCEPT ![Pool] = next]
      BY <2>10, <2>13
    <3>2. /\ next \in Call /\ CallOK(next) /\ next.asked = topUp /\ next.fresh = 0 /\ next.failed = 0
      <4>1. topUp \in Nat /\ PoolLabel \in Label
        BY <2>9, <2>13, PoolAssumption
      <4> QED
        BY <1>2, <4>1, BeginType
    <3> HIDE DEF next
    <3>3. Becomes(Pool, next)
      BY <3>1 DEF Becomes
    <3>4. loose' + next.fresh + next.failed <= loose + Held(Pool)
      BY <1>1, <1>3, <2>1, <3>2
    <3>5. Maximum # -1 => CurrentRunners + next.asked - next.fresh <= Maximum + overlooked'
      <4>1. overlooked' \in Nat /\ overlooked' >= pending
        BY <2>11, <2>13 DEF Overlooks
      <4>2. CASE Maximum # -1
        <5>1. running + topUp <= Maximum + 0 /\ Maximum \in Int
          BY <2>3, <2>9, <4>2, ScaleUpAssumption
        <5>2. CurrentRunners + next.asked - next.fresh = running + topUp + pending
          BY <1>1, <2>3, <2>9, <3>2
        <5>3. CurrentRunners + next.asked - next.fresh <= Maximum + pending
          BY <2>3, <2>9, <5>1, <5>2
        <5>4. CurrentRunners + next.asked - next.fresh \in Int
          BY <2>3, <2>9, <5>2
        <5> QED
          BY <2>3, <4>1, <5>1, <5>3, <5>4, RoomGrows
      <4> QED
        BY <4>2
    <3>6. ColdInv' /\ \A b \in Actor \ {Pool} : launch'[b] = launch[b]
      BY <1>1, <1>2, <2>1, <2>11, <3>2, <3>3, <3>4, <3>5, BecomesKeeps
    <3> QED
      BY <1>2, <2>1, <2>12, <3>6
  <2>14. CASE ~(topUp > 0)
    <3>1. launch' = launch
      BY <2>10, <2>14
    <3>2. ColdInv'
      BY <1>1, <2>1, <2>11, <3>1, ColdSame
    <3> QED
      BY <2>1, <2>12, <3>1, <3>2
  <2> QED
    BY <2>13, <2>14
<1>6. ASSUME Becomes(Pool, NoLaunch), UNCHANGED <<jobs, booting, idle, faults, raced>>,
             loose' = loose \/ loose' = loose + Held(Pool), overlooked' = overlooked
      PROVE  ColdInv' /\ \A w \in Worker : launch'[w] = launch[w]
  <2>1. /\ NoLaunch \in Call /\ CallOK(NoLaunch) /\ NoLaunch.fresh = 0 /\ NoLaunch.failed = 0
        /\ NoLaunch.stage = "off"
    BY NoLaunchType DEF NoLaunch
  <2>2. ~Launching(NoLaunch)
    BY <2>1 DEF Launching
  <2>3. loose' \in Nat /\ loose' + NoLaunch.fresh + NoLaunch.failed <= loose + Held(Pool)
    BY <1>1, <1>3, <1>6, <2>1
  <2>5. Overlooks
    BY <1>6, <1>9 DEF Overlooks
  <2>4. ColdInv' /\ \A b \in Actor \ {Pool} : launch'[b] = launch[b]
    BY <1>1, <1>2, <1>6, <2>1, <2>2, <2>3, <2>5, BecomesKeeps
  <2> QED
    BY <1>2, <2>4
<1>7. CASE PoolDone
  <2>1. ColdInv' /\ \A w \in Worker : launch'[w] = launch[w]
    BY <1>6, <1>7 DEF PoolDone, poolVars
  <2> QED
    BY <1>7, <2>1 DEF PoolDone, PoolTypeOK, poolVars
<1>8. CASE PoolCrash
  <2>1. ColdInv' /\ \A w \in Worker : launch'[w] = launch[w]
    BY <1>6, <1>8 DEF PoolCrash, Abandon
  <2> QED
    BY <1>8, <2>1 DEF PoolCrash, PoolTypeOK, PoolEnds
<1> QED
  BY <1>4, <1>5, <1>7, <1>8 DEF PoolStep

-----------------------------------------------------------------------------
\* The queues and the batches.
LEMMA CopiesType ==
  ASSUME NEW m, NEW batch, NEW positions, IsFiniteSet(positions)
  PROVE  /\ Copies(m, batch, positions) \in Nat
         /\ (\E p \in positions : batch[p] = m) <=> Copies(m, batch, positions) > 0
<1> DEFINE S == {p \in positions : batch[p] = m}
<1>1. IsFiniteSet(S) /\ Copies(m, batch, positions) = Cardinality(S) /\ Cardinality(S) \in Nat
  BY FS_Subset, FS_CardinalityType DEF Copies
<1>2. S = {} <=> Cardinality(S) = 0
  BY <1>1, FS_EmptySet
<1> QED
  BY <1>1, <1>2

\* The positions of a batch.
LEMMA BatchPositions ==
  ASSUME NEW v, BatchType(v)
  PROVE  /\ DOMAIN v.batch = 1 .. Len(v.batch) /\ IsFiniteSet(DOMAIN v.batch) /\ DOMAIN v.batch \subseteq Nat
         /\ \A p \in DOMAIN v.batch : v.batch[p] \in Message /\ v.batch[p].job \in Job /\ LabelIn(v, p) \in Label
         /\ UndoneIn(v) \subseteq DOMAIN v.batch /\ GroupIn(v) \subseteq UndoneIn(v)
         /\ IsFiniteSet(GroupIn(v)) /\ IsFiniteSet(v.back)
         /\ UndoneIn(v) # {} => Min(UndoneIn(v)) \in GroupIn(v) /\ CurrentIn(v) \in Label
<1>1. v.batch \in Seq(Message) /\ v.back \subseteq DOMAIN v.batch
  BY DEF BatchType, WorkType
<1>2. DOMAIN v.batch = 1 .. Len(v.batch) /\ Len(v.batch) \in Nat
  BY <1>1
<1>3. IsFiniteSet(DOMAIN v.batch) /\ DOMAIN v.batch \subseteq Nat
  BY <1>2, FS_Interval
<1>4. ASSUME NEW p \in DOMAIN v.batch
      PROVE  v.batch[p] \in Message /\ v.batch[p].job \in Job /\ LabelIn(v, p) \in Label
  <2>1. v.batch[p] \in Message
    BY <1>1, <1>2
  <2>2. v.batch[p].job \in Job
    BY <2>1 DEF Message
  <2> QED
    BY <2>1, <2>2, LaunchAssumption DEF LabelIn
<1>5. UndoneIn(v) \subseteq DOMAIN v.batch /\ GroupIn(v) \subseteq UndoneIn(v)
  BY DEF UndoneIn, GroupIn
<1>6. IsFiniteSet(GroupIn(v)) /\ IsFiniteSet(v.back)
  BY <1>1, <1>3, <1>5, FS_Subset
<1>7. ASSUME UndoneIn(v) # {} PROVE Min(UndoneIn(v)) \in GroupIn(v) /\ CurrentIn(v) \in Label
  <2>1. UndoneIn(v) \in SUBSET Nat
    BY <1>3, <1>5
  <2>2. Min(UndoneIn(v)) \in UndoneIn(v)
    BY <1>7, <2>1, MinOfNaturals
  <2> QED
    BY <1>4, <1>5, <2>2 DEF GroupIn, CurrentIn
<1> QED
  BY <1>2, <1>3, <1>4, <1>5, <1>6, <1>7

\* An invocation's groups are those of its local state; they depend on the
\* batch and on the groups finished alone.
LEMMA GroupsOf ==
  ASSUME NEW w, NEW v, v.batch = work[w].batch, v.did = work[w].did
  PROVE  /\ Undone(w) = UndoneIn(v) /\ Current(w) = CurrentIn(v) /\ Group(w) = GroupIn(v)
         /\ UndoneIn(v) = UndoneIn(work[w]) /\ CurrentIn(v) = CurrentIn(work[w]) /\ GroupIn(v) = GroupIn(work[w])
         /\ Published(w, v) = PublishedIn(v)
         /\ \A p : LabelIn(v, p) = LabelIn(work[w], p)
<1>1. \A p : LabelAt(w, p) = LabelIn(v, p) /\ LabelIn(v, p) = LabelIn(work[w], p)
  BY DEF LabelAt, LabelIn
<1>2. Undone(w) = UndoneIn(v) /\ UndoneIn(v) = UndoneIn(work[w])
  BY <1>1 DEF Undone, UndoneIn
<1>3. Current(w) = CurrentIn(v) /\ CurrentIn(v) = CurrentIn(work[w])
  BY <1>1, <1>2 DEF Current, CurrentIn
<1>4. Group(w) = GroupIn(v) /\ GroupIn(v) = GroupIn(work[w])
  BY <1>1, <1>2, <1>3 DEF Group, GroupIn
<1>5. Published(w, v) = PublishedIn(v)
  BY <1>3 DEF Published, PublishedIn
<1> QED
  BY <1>1, <1>2, <1>3, <1>4, <1>5

\* The end of a group.
Ended(v) == [v EXCEPT !.phase = "check", !.queued = {}, !.did = @ \cup {CurrentIn(v)}]

LEMMA EndedFields ==
  ASSUME NEW v \in WorkType, CurrentIn(v) \in Label
  PROVE  /\ Ended(v) \in WorkType /\ Ended(v).phase = "check" /\ Ended(v).queued = {}
         /\ Ended(v).did = v.did \cup {CurrentIn(v)}
         /\ Ended(v).batch = v.batch /\ Ended(v).back = v.back /\ Ended(v).short = v.short
         /\ \A p : LabelIn(Ended(v), p) = LabelIn(v, p)
<1> DEFINE did == v.did \cup {CurrentIn(v)}
           e == [v EXCEPT !.phase = "check", !.queued = {}, !.did = did]
<1>1. did \in SUBSET Label /\ {} \in SUBSET Nat /\ "check" \in Phase
  BY DEF WorkType, Phase
<1>2. Ended(v) = e
  BY DEF Ended
<1> HIDE DEF did
<1>3. /\ e \in WorkType /\ e.phase = "check" /\ e.queued = {} /\ e.did = did
      /\ e.batch = v.batch /\ e.back = v.back /\ e.short = v.short
  BY <1>1 DEF WorkType
<1> HIDE DEF e
<1>4. \A p : LabelIn(Ended(v), p) = LabelIn(v, p)
  BY <1>2, <1>3 DEF LabelIn
<1> QED
  BY <1>2, <1>3, <1>4 DEF did

LEMMA PublishedKeeps ==
  ASSUME NEW v, NEW asked \in Nat, WorkOK(v, asked), UndoneIn(v) # {}
  PROVE  /\ WorkOK(PublishedIn(v), asked) /\ PublishedIn(v).batch = v.batch
         /\ \A p \in DOMAIN v.batch :
              Pending(v, p) /\ (v.phase \in InGroup \/ p \notin GroupIn(v)) => Pending(PublishedIn(v), p)
<1>1. BatchType(v) /\ v \in WorkType
  BY DEF WorkOK, BatchType
<1>2. CASE v.phase # "create" /\ v.queued \subseteq v.back
  <2> DEFINE e == Ended(v)
  <2>1. PublishedIn(v) = e
    BY <1>2 DEF PublishedIn, Ended
  <2>2. CurrentIn(v) \in Label
    BY <1>1, BatchPositions
  <2>3. /\ e \in WorkType /\ e.phase = "check" /\ e.queued = {} /\ e.did = v.did \cup {CurrentIn(v)}
        /\ e.batch = v.batch /\ e.back = v.back /\ e.short = v.short
        /\ \A p : LabelIn(e, p) = LabelIn(v, p)
    BY <1>1, <2>2, EndedFields
  <2> HIDE DEF e
  <2>4. WorkOK(e, asked)
    <3>1. BatchType(e)
      BY <1>1, <2>3 DEF BatchType
    <3>2. \A p \in e.back : LabelIn(e, p) \in e.did
      BY <2>3 DEF WorkOK, GroupIn
    <3> QED
      BY <2>3, <3>1, <3>2 DEF WorkOK, InGroup
  <2>5. ASSUME NEW p \in DOMAIN v.batch, Pending(v, p), v.phase \in InGroup \/ p \notin GroupIn(v)
        PROVE  Pending(e, p)
    <3>1. CASE p \in v.back
      BY <2>3, <3>1 DEF Pending
    <3>2. CASE p \notin v.back
      <4>1. LabelIn(v, p) \notin v.did /\ (v.phase = "check" \/ p \notin GroupIn(v) \/ p \in v.queued)
        BY <2>5, <3>2 DEF Pending
      <4>2. p \notin GroupIn(v)
        BY <1>2, <2>5, <3>2, <4>1 DEF InGroup
      <4>3. LabelIn(v, p) # CurrentIn(v)
        BY <4>1, <4>2 DEF GroupIn, UndoneIn
      <4> QED
        BY <2>3, <4>1, <4>3 DEF Pending
    <3> QED
      BY <3>1, <3>2
  <2> QED
    BY <2>1, <2>3, <2>4, <2>5
<1>3. CASE ~(v.phase # "create" /\ v.queued \subseteq v.back)
  <2>1. PublishedIn(v) = v
    BY <1>3 DEF PublishedIn
  <2> QED
    BY <2>1
<1> QED
  BY <1>2, <1>3

-----------------------------------------------------------------------------
\* The steps of an invocation.
LEMMA WorkerMoves ==
  ASSUME QueuesOK, Workers, NEW w \in Worker, NEW v, WorkOK(v, launch'[w].asked), Update(w, v),
         \A u \in Worker \ {w} : launch'[u].asked = launch[u].asked
  PROVE  /\ work' \in [Worker -> WorkType] /\ Workers'
         /\ work'[w] = v /\ \A u \in Worker \ {w} : work'[u] = work[u]
<1>1. work'[w] = v /\ \A u \in Worker \ {w} : work'[u] = work[u]
  BY DEF Update, QueuesOK
<1>2. v \in WorkType
  BY DEF WorkOK, BatchType
<1>3. work' \in [Worker -> WorkType]
  BY <1>2 DEF Update, QueuesOK
<1>4. ASSUME NEW u \in Worker PROVE WorkOK(work'[u], launch'[u].asked)
  BY <1>1 DEF Workers
<1>5. Workers'
  BY <1>4 DEF Workers
<1> QED
  BY <1>1, <1>3, <1>5

\* A message of j is somewhere after the step.
Queued(j) == \E m \in Message : m.job = j /\ build'[m] + retry'[m] > 0
Kept(j) == Queued(j) \/ \E u \in Worker : InBatch(work'[u], j)

LEMMA TrackedKept ==
  ASSUME Tracked, excused \subseteq excused',
         \A j \in Job : jobs'[j] = "queued" /\ j \notin excused' /\ ~Kept(j) =>
           jobs[j] = "queued" /\ ~InQueues(j) /\ \A u \in Worker : ~InBatch(work[u], j)
  PROVE  Tracked'
<1>1. ASSUME NEW j \in Job, jobs'[j] = "queued" PROVE j \in excused' \/ Kept(j)
  BY <1>1 DEF Tracked
<1> QED
  BY <1>1 DEF Tracked, Kept, Queued, InQueues

LEMMA WorkerTracks ==
  ASSUME Tracked, jobs' = jobs, excused \subseteq excused', NEW w \in Worker,
         \A u \in Worker \ {w} : work'[u] = work[u],
         \A j \in Job : jobs[j] = "queued" /\ j \notin excused' /\ (InQueues(j) \/ InBatch(work[w], j)) => Kept(j)
  PROVE  Tracked'
<1>1. ASSUME NEW j \in Job, jobs'[j] = "queued", j \notin excused', ~Kept(j)
      PROVE  jobs[j] = "queued" /\ ~InQueues(j) /\ \A u \in Worker : ~InBatch(work[u], j)
  <2>1. jobs[j] = "queued" /\ ~InQueues(j) /\ ~InBatch(work[w], j)
    BY <1>1
  <2>2. ASSUME NEW u \in Worker \ {w} PROVE ~InBatch(work[u], j)
    BY <1>1, <2>2 DEF Kept
  <2> QED
    BY <2>1, <2>2
<1> QED
  BY <1>1, TrackedKept

\* The queues keep what they hold when no message is taken.
LEMMA QueuesKeep ==
  ASSUME QueuesOK, NEW j \in Job, InQueues(j),
         \A m \in Message : build'[m] \in Nat /\ retry'[m] \in Nat /\ build'[m] >= build[m] /\ retry'[m] >= retry[m]
  PROVE  Queued(j)
<1>1. PICK m \in Message : m.job = j /\ build[m] + retry[m] > 0
  BY DEF InQueues
<1>2. build[m] \in Nat /\ retry[m] \in Nat
  BY DEF QueuesOK
<1>3. build'[m] + retry'[m] > 0
  BY <1>1, <1>2
<1> QED
  BY <1>1, <1>3 DEF Queued

\* No invocation has begun: the local state of one that has ended.
LEMMA NoWorkOK ==
  ASSUME NEW asked \in Nat
  PROVE  NoWork \in WorkType /\ WorkOK(NoWork, asked)
<1>1. /\ NoWork \in WorkType /\ NoWork.phase = "idle" /\ NoWork.batch = <<>> /\ NoWork.did = {}
      /\ NoWork.queued = {} /\ NoWork.back = {} /\ NoWork.short = 0
  BY DEF NoWork, WorkType, Phase
<1>2. BatchType(NoWork)
  BY <1>1, ScaleUpAssumption DEF BatchType
<1> QED
  BY <1>1, <1>2, FS_EmptySet DEF WorkOK, InGroup

\* What a step of the invocation w keeps, the jobs not being its.
WorkerInv == ColdInv /\ QueuesOK /\ Workers /\ Tracked

LEMMA AskedType ==
  ASSUME ColdTypeOK
  PROVE  \A w \in Worker : launch[w] \in Call /\ launch[w].asked \in Nat
BY ColdCounts, ScaleUpAssumption DEF Counted, Call

LEMMA ReceiveKeeps ==
  ASSUME Overlooks, WorkerInv, NEW w \in Worker, Receive(w)
  PROVE  WorkerInv'
<1>1. work[w].phase = "idle" /\ UNCHANGED <<coldVars, retry, rejected, excused>>
  BY DEF Receive
<1> DEFINE Takes(n, batch) ==
             /\ \A m \in Message : Copies(m, batch, 1 .. n) <= build[m]
             /\ build' = [m \in Message |-> build[m] - Copies(m, batch, 1 .. n)]
             /\ Update(w, [NoWork EXCEPT !.phase = "check", !.batch = batch])
<1>2. PICK n \in 1 .. BatchSize : \E batch \in [1 .. n -> {m \in Message : build[m] > 0}] : Takes(n, batch)
  BY DEF Receive
<1>3. PICK batch \in [1 .. n -> {m \in Message : build[m] > 0}] : Takes(n, batch)
  BY <1>2
<1>4. Takes(n, batch)
  BY <1>3
<1>5. n \in Nat /\ IsFiniteSet(1 .. n) /\ batch \in Seq(Message) /\ Len(batch) = n /\ DOMAIN batch = 1 .. n
  <2>1. n \in Nat /\ batch \in [1 .. n -> Message]
    BY ScaleUpAssumption
  <2> QED
    BY <2>1, FS_Interval
<1>6. \A m \in Message : /\ Copies(m, batch, 1 .. n) \in Nat
                         /\ (\E p \in 1 .. n : batch[p] = m) <=> Copies(m, batch, 1 .. n) > 0
  BY <1>5, CopiesType
<1>7. \A m \in Message : build[m] \in Nat /\ retry[m] \in Nat
  BY DEF WorkerInv, QueuesOK
<1>8. build' \in [Message -> Nat]
  BY <1>4, <1>6, <1>7
<1> DEFINE v == [NoWork EXCEPT !.phase = "check", !.batch = batch]
<1>9. /\ v \in WorkType /\ v.phase = "check" /\ v.batch = batch /\ v.did = {}
      /\ v.queued = {} /\ v.back = {} /\ v.short = 0
  BY <1>5 DEF NoWork, WorkType, Phase
<1>10. Update(w, v)
  BY <1>4
<1> HIDE DEF v
<1>11. WorkOK(v, launch'[w].asked)
  <2>1. BatchType(v)
    BY <1>5, <1>9, ScaleUpAssumption DEF BatchType
  <2> QED
    BY <1>9, <2>1, FS_EmptySet DEF WorkOK, InGroup
<1>12. /\ work' \in [Worker -> WorkType] /\ Workers'
       /\ work'[w] = v /\ \A u \in Worker \ {w} : work'[u] = work[u]
  BY <1>1, <1>10, <1>11, WorkerMoves DEF WorkerInv, coldVars
<1>13. ASSUME NEW j \in Job, InQueues(j) PROVE Kept(j)
  <2>1. PICK m \in Message : m.job = j /\ build[m] + retry[m] > 0
    BY <1>13 DEF InQueues
  <2>2. CASE build'[m] + retry[m] > 0
    BY <1>1, <2>1, <2>2 DEF Kept, Queued
  <2>3. CASE ~(build'[m] + retry[m] > 0)
    <3>1. Copies(m, batch, 1 .. n) > 0
      BY <1>4, <1>6, <1>7, <2>1, <2>3
    <3>2. PICK p \in 1 .. n : batch[p] = m
      BY <1>6, <3>1
    <3>3. Pending(v, p) /\ p \in DOMAIN v.batch /\ v.batch[p].job = j
      BY <1>5, <1>9, <2>1, <3>2 DEF Pending
    <3> QED
      BY <1>12, <3>3 DEF Kept, InBatch
  <2> QED
    BY <2>2, <2>3
<1>14. \A j \in Job : ~InBatch(work[w], j)
  <2>1. work[w].batch = <<>>
    BY <1>1 DEF WorkerInv, Workers, WorkOK
  <2>2. DOMAIN work[w].batch = {}
    BY <2>1
  <2> QED
    BY <2>2 DEF InBatch
<1>15. Tracked'
  BY <1>1, <1>12, <1>13, <1>14, WorkerTracks DEF WorkerInv, coldVars
<1>16. ColdInv'
  BY <1>1, ColdSame DEF WorkerInv, ColdInv, ColdTypeOK, coldVars
<1> QED
  BY <1>1, <1>8, <1>12, <1>15, <1>16 DEF WorkerInv, QueuesOK

\* A group ends or is gone on with: messages stay where they are, but for
\* those of jobs that are not waiting.
LEMMA BatchTracks ==
  ASSUME Tracked, QueuesOK, jobs' = jobs, excused \subseteq excused', NEW w \in Worker,
         NEW v, WorkOK(v, launch'[w].asked), launch'[w].asked \in Nat, UndoneIn(v) # {},
         v.batch = work[w].batch, work'[w] = PublishedIn(v), \A u \in Worker \ {w} : work'[u] = work[u],
         \A m \in Message : build'[m] \in Nat /\ retry'[m] \in Nat /\ build'[m] >= build[m] /\ retry'[m] >= retry[m],
         \A p \in DOMAIN v.batch :
           jobs[v.batch[p].job] = "queued" /\ v.batch[p].job \notin excused' /\ Pending(work[w], p) =>
             Kept(v.batch[p].job) \/ (Pending(v, p) /\ (v.phase \in InGroup \/ p \notin GroupIn(v)))
  PROVE  Tracked'
<1>1. /\ PublishedIn(v).batch = v.batch
      /\ \A p \in DOMAIN v.batch :
           Pending(v, p) /\ (v.phase \in InGroup \/ p \notin GroupIn(v)) => Pending(PublishedIn(v), p)
  BY PublishedKeeps
<1>2. ASSUME NEW j \in Job, jobs[j] = "queued", j \notin excused', InBatch(work[w], j) PROVE Kept(j)
  <2>1. PICK p \in DOMAIN v.batch : v.batch[p].job = j /\ Pending(work[w], p)
    BY <1>2 DEF InBatch
  <2>2. CASE Kept(j)
    BY <2>2
  <2>3. CASE Pending(PublishedIn(v), p)
    BY <1>1, <2>1, <2>3 DEF Kept, InBatch
  <2> QED
    BY <1>1, <1>2, <2>1, <2>2, <2>3
<1>3. ASSUME NEW j \in Job, InQueues(j) PROVE Kept(j)
  BY <1>3, QueuesKeep DEF Kept
<1> QED
  BY <1>2, <1>3, WorkerTracks

LEMMA GroupKeeps ==
  ASSUME WorkerInv, ColdInv', jobs' = jobs, NEW w \in Worker, NEW v, WorkOK(v, launch'[w].asked),
         UndoneIn(v) # {}, v.batch = work[w].batch, v.did = work[w].did, Update(w, Published(w, v)),
         \A u \in Worker \ {w} : launch'[u].asked = launch[u].asked,
         UNCHANGED <<build, rejected>>, retry' \in [Message -> Nat], \A m \in Message : retry'[m] >= retry[m],
         excused \subseteq excused', excused' \subseteq Job,
         \A p \in DOMAIN v.batch :
           jobs[v.batch[p].job] = "queued" /\ v.batch[p].job \notin excused' /\ Pending(work[w], p) =>
             Queued(v.batch[p].job) \/ (Pending(v, p) /\ (v.phase \in InGroup \/ p \notin GroupIn(v)))
  PROVE  WorkerInv'
<1>1. launch'[w].asked \in Nat
  BY AskedType, ScaleUpAssumption, ColdCounts, NextCounts DEF ColdInv, Counted, Call
<1>2. Published(w, v) = PublishedIn(v)
  BY GroupsOf
<1>3. WorkOK(PublishedIn(v), launch'[w].asked)
  BY <1>1, PublishedKeeps
<1>4. /\ work' \in [Worker -> WorkType] /\ Workers'
      /\ work'[w] = PublishedIn(v) /\ \A u \in Worker \ {w} : work'[u] = work[u]
  BY <1>2, <1>3, WorkerMoves DEF WorkerInv
<1>5. \A m \in Message : build'[m] \in Nat /\ retry'[m] \in Nat /\ build'[m] >= build[m] /\ retry'[m] >= retry[m]
  BY DEF WorkerInv, QueuesOK
<1>6. Tracked'
  BY <1>1, <1>4, <1>5, BatchTracks DEF WorkerInv, Kept
<1> QED
  BY <1>4, <1>6 DEF WorkerInv, QueuesOK

\* The local state of an invocation that works on a group.
LEMMA WorkOf ==
  ASSUME WorkerInv, NEW w \in Worker
  PROVE  /\ WorkOK(work[w], launch[w].asked) /\ launch[w].asked \in Nat
         /\ work[w] \in WorkType /\ BatchType(work[w])
         /\ launch \in [Actor -> Call] /\ w \in Actor /\ CallOK(launch[w])
         /\ Undone(w) = UndoneIn(work[w]) /\ Current(w) = CurrentIn(work[w]) /\ Group(w) = GroupIn(work[w])
<1>1. WorkOK(work[w], launch[w].asked) /\ launch[w].asked \in Nat
  BY AskedType DEF WorkerInv, Workers, ColdInv
<1>2. launch \in [Actor -> Call] /\ w \in Actor /\ CallOK(launch[w])
  BY ColdCounts, ScaleUpAssumption DEF WorkerInv, ColdInv, Counted, Accounts
<1> QED
  BY <1>1, <1>2, GroupsOf DEF WorkOK, BatchType

LEMMA RejectKeeps ==
  ASSUME Overlooks, WorkerInv, NEW w \in Worker, RejectGroup(w)
  PROVE  WorkerInv'
<1> DEFINE v == work[w]
<1>1. /\ v.phase = "check" /\ UndoneIn(v) # {} /\ Update(w, Published(w, v))
      /\ excused' = excused \cup {v.batch[p].job : p \in GroupIn(v)}
      /\ UNCHANGED <<coldVars, build, retry, rejected>>
  BY WorkOf DEF RejectGroup
<1>2. WorkOK(v, launch'[w].asked) /\ BatchType(v) /\ WorkOK(v, launch[w].asked)
  BY <1>1, WorkOf DEF coldVars
<1>3. excused' \subseteq Job
  BY <1>1, <1>2, BatchPositions DEF WorkerInv, QueuesOK
<1>4. \A p \in DOMAIN v.batch : v.batch[p].job \notin excused' => p \notin GroupIn(v)
  BY <1>1
<1>5. ColdInv'
  BY <1>1, ColdSame DEF WorkerInv, ColdInv, ColdTypeOK, coldVars
<1>6. \A m \in Message : retry[m] \in Nat /\ retry'[m] >= retry[m]
  BY <1>1 DEF WorkerInv, QueuesOK
<1>7. UNCHANGED <<launch, jobs, retry, build, rejected>> /\ excused \subseteq excused'
  BY <1>1 DEF coldVars
<1> QED
  BY <1>1, <1>2, <1>3, <1>4, <1>5, <1>6, <1>7, GroupKeeps DEF WorkerInv, QueuesOK

\* The runners to create are among those wanted and find room.
LEMMA NewRunnersRange ==
  ASSUME CurrentRunners \in Nat, NEW wanted \in Nat
  PROVE  /\ NewRunners(wanted) \in 0 .. wanted
         /\ Maximum # -1 /\ NewRunners(wanted) > 0 => CurrentRunners + NewRunners(wanted) <= Maximum
<1>1. CASE Maximum = -1
  BY <1>1 DEF NewRunners
<1>2. CASE Maximum # -1
  <2> DEFINE room == Maximum - CurrentRunners
             least == Min({wanted, room})
  <2>1. room \in Int
    BY ScaleUpAssumption
  <2>2. least \in Int /\ least <= wanted /\ least <= room
    <3> HIDE DEF room
    <3> QED
      BY <2>1, LeastOfTwo
  <2>3. NewRunners(wanted) = Max({0, least})
    BY <1>2 DEF NewRunners
  <2> HIDE DEF least
  <2>4. NewRunners(wanted) \in {0, least} /\ NewRunners(wanted) >= 0
    BY <2>2, <2>3, MostOfTwo
  <2> QED
    BY <1>2, <2>1, <2>2, <2>4, ScaleUpAssumption
<1> QED
  BY <1>1, <1>2

\* Positions put back that were not, as many as runners are missing.
LEMMA PutBackSize ==
  ASSUME NEW v, NEW asked, WorkOK(v, asked), NEW S \in SUBSET (DOMAIN v.batch \ v.back),
         NEW n \in 0 .. Cardinality(S)
  PROVE  /\ First(n, S) \subseteq S /\ Cardinality(First(n, S)) = n /\ IsFiniteSet(First(n, S))
         /\ Cardinality(v.back \cup First(n, S)) = v.short + n
<1>1. /\ BatchType(v) /\ IsFiniteSet(v.back) /\ IsFiniteSet(DOMAIN v.batch) /\ DOMAIN v.batch \subseteq Nat
      /\ Cardinality(v.back) = v.short
  BY BatchPositions DEF WorkOK
<1>2. IsFiniteSet(S) /\ S \in SUBSET Nat
  BY <1>1, FS_Subset
<1>3. First(n, S) \subseteq S /\ Cardinality(First(n, S)) = n
  BY <1>2, FirstSize DEF First
<1>4. IsFiniteSet(First(n, S)) /\ v.back \cap First(n, S) = {}
  BY <1>2, <1>3, FS_Subset
<1>5. Cardinality(v.back \cup First(n, S))
        = Cardinality(v.back) + Cardinality(First(n, S)) - Cardinality(v.back \cap First(n, S))
  BY <1>1, <1>4, FS_Union
<1>6. Cardinality(v.back \cap First(n, S)) = 0 /\ Cardinality(v.back) \in Nat /\ Cardinality(S) \in Nat
  BY <1>1, <1>2, <1>4, FS_EmptySet, FS_CardinalityType
<1>7. n \in Nat
  BY <1>6
<1> QED
  BY <1>1, <1>3, <1>4, <1>5, <1>6, <1>7

LEMMA DecideKeeps ==
  ASSUME Overlooks, WorkerInv, NEW w \in Worker, work[w].phase = "check", Undone(w) # {},
         NEW queued \in SUBSET Group(w), queued # {},
         \A p \in Group(w) : jobs[work[w].batch[p].job] = "queued" => p \in queued,
         Decide(w, queued), faults' \in 0 .. MaxFaults, UNCHANGED <<build, retry, rejected, excused>>
  PROVE  WorkerInv'
<1> DEFINE u      == work[w]
           wanted == Cardinality(queued)
           new    == NewRunners(wanted)
           phase  == IF new = 0 THEN "publish" ELSE "create"
           first  == First(wanted - new, GroupIn(u))
           back   == u.back \cup first
           short  == u.short + (wanted - new)
           v      == [u EXCEPT !.phase = phase, !.queued = queued, !.back = back, !.short = short]
<1>1. /\ WorkOK(u, launch[w].asked) /\ u \in WorkType /\ BatchType(u) /\ w \in Actor
      /\ Group(w) = GroupIn(u) /\ Current(w) = CurrentIn(u) /\ UndoneIn(u) # {} /\ u.phase = "check"
      /\ Counted /\ CurrentRunners \in Nat
  BY WorkOf, ColdCounts DEF WorkerInv, ColdInv, Counted
<1>2. Update(w, Published(w, v)) /\ UNCHANGED <<jobs, booting, idle, loose, raced>>
  BY <1>1 DEF Decide
<1>3. launch' = IF new = 0 THEN launch ELSE [launch EXCEPT ![w] = Begin(w, CurrentIn(u), new)]
  BY <1>1 DEF Decide
<1> HIDE DEF u
<1>4. /\ IsFiniteSet(GroupIn(u)) /\ GroupIn(u) \subseteq DOMAIN u.batch /\ DOMAIN u.batch \subseteq Nat
      /\ CurrentIn(u) \in Label
  BY <1>1, BatchPositions
<1>5. wanted \in Nat /\ wanted <= Cardinality(GroupIn(u)) /\ Cardinality(GroupIn(u)) \in Nat /\ wanted > 0
  BY <1>1, <1>4, FS_Subset, FS_CardinalityType, FS_EmptySet
<1> HIDE DEF wanted
<1>6. new \in 0 .. wanted /\ (Maximum # -1 /\ new > 0 => CurrentRunners + new <= Maximum)
  BY <1>1, <1>5, NewRunnersRange
<1> HIDE DEF new
<1>7. GroupIn(u) \in SUBSET (DOMAIN u.batch \ u.back)
  BY <1>1, <1>4 DEF WorkOK, InGroup, GroupIn, UndoneIn
<1>8. wanted - new \in 0 .. Cardinality(GroupIn(u))
  BY <1>5, <1>6
<1>9. /\ first \subseteq GroupIn(u) /\ Cardinality(first) = wanted - new
      /\ Cardinality(back) = short
  BY <1>1, <1>7, <1>8, PutBackSize
<1>10. short \in Nat /\ phase \in Phase /\ back \in SUBSET Nat /\ queued \in SUBSET Nat
  BY <1>1, <1>4, <1>5, <1>6, <1>9 DEF WorkType, Phase
<1> HIDE DEF phase, back, short
<1>11. /\ v \in WorkType /\ v.phase = phase /\ v.queued = queued /\ v.back = back /\ v.short = short
       /\ v.batch = u.batch /\ v.did = u.did
  BY <1>1, <1>10 DEF WorkType
<1> HIDE DEF v
<1>12. v.batch = work[w].batch /\ v.did = work[w].did
  BY <1>11 DEF u
<1>13. UndoneIn(v) = UndoneIn(u) /\ GroupIn(v) = GroupIn(u) /\ \A p : LabelIn(v, p) = LabelIn(u, p)
  BY <1>12, GroupsOf DEF u
<1>14. ColdInv' /\ (new > 0 => launch'[w].asked = new) /\ \A b \in Actor \ {w} : launch'[b] = launch[b]
  <2>1. CASE new = 0
    <3>1. launch' = launch
      BY <1>3, <2>1
    <3>2. ColdInv'
      BY <1>2, <3>1, ColdSame DEF WorkerInv
    <3> QED
      BY <2>1, <3>1, <3>2
  <2>2. CASE new > 0
    <3> DEFINE next == Begin(w, CurrentIn(u), new)
    <3>1. launch' = [launch EXCEPT ![w] = next]
      BY <1>3, <2>2
    <3>2. /\ next \in Call /\ CallOK(next) /\ next.asked = new /\ next.fresh = 0 /\ next.failed = 0
      <4>1. new \in Nat
        BY <1>6
      <4> QED
        BY <1>1, <1>4, <4>1, BeginType
    <3> HIDE DEF next
    <3>3. Becomes(w, next)
      BY <3>1 DEF Becomes
    <3>4. loose \in Nat /\ Held(w) \in Nat
      BY <1>1 DEF WorkerInv, ColdInv, ColdTypeOK, Counted, Held, Call
    <3>5. loose' \in Nat /\ loose' + next.fresh + next.failed <= loose + Held(w)
      BY <1>2, <3>2, <3>4
    <3>6. Maximum # -1 => CurrentRunners + next.asked - next.fresh <= Maximum
      BY <1>1, <1>6, <2>2, <3>2, ScaleUpAssumption
    <3>8. Maximum # -1 => CurrentRunners + next.asked - next.fresh <= Maximum + overlooked'
      <4>1. CurrentRunners + next.asked - next.fresh \in Int /\ overlooked' \in Nat /\ Maximum \in Int
        BY <1>1, <3>2, ScaleUpAssumption DEF Call, Overlooks
      <4>2. Maximum + 0 = Maximum
        BY <4>1
      <4> QED
        BY <3>6, <4>1, <4>2, RoomGrows
    <3>7. ColdInv' /\ launch'[w] = next /\ \A b \in Actor \ {w} : launch'[b] = launch[b]
      BY <1>1, <1>2, <3>2, <3>3, <3>5, <3>8, BecomesKeeps DEF WorkerInv
    <3> QED
      BY <3>2, <3>7
  <2> QED
    BY <1>6, <2>1, <2>2
<1>15. WorkOK(v, launch'[w].asked)
  <2>1. BatchType(v)
    BY <1>1, <1>4, <1>9, <1>11 DEF BatchType, back
  <2>2. \A p \in v.back : LabelIn(v, p) \in v.did \/ p \in GroupIn(v)
    BY <1>1, <1>9, <1>11, <1>13 DEF WorkOK, InGroup, back
  <2>3. v.phase \in InGroup
    BY <1>11 DEF InGroup, phase
  <2>4. v.phase = "create" => Cardinality(v.back \cap GroupIn(v)) + launch'[w].asked <= Cardinality(GroupIn(v))
    <3>1. SUFFICES ASSUME new > 0
                   PROVE  Cardinality(v.back \cap GroupIn(v)) + launch'[w].asked <= Cardinality(GroupIn(v))
      BY <1>6, <1>11 DEF phase
    <3>2. v.back \cap GroupIn(v) = first
      BY <1>7, <1>9, <1>11, <1>13 DEF back
    <3>3. launch'[w].asked = new /\ Cardinality(v.back \cap GroupIn(v)) = wanted - new
      BY <1>9, <1>14, <3>1, <3>2
    <3>4. new \in Nat /\ wanted - new + new = wanted
      BY <1>5, <1>6
    <3> QED
      BY <1>5, <1>13, <3>3, <3>4
  <2>5. Cardinality(v.back) = v.short /\ v.phase # "idle" /\ UndoneIn(v) # {} /\ v.queued \subseteq GroupIn(v)
    BY <1>1, <1>9, <1>11, <1>13 DEF phase
  <2> QED
    BY <2>1, <2>2, <2>3, <2>4, <2>5 DEF WorkOK
<1>16. ASSUME NEW p \in DOMAIN v.batch, jobs[v.batch[p].job] = "queued", Pending(work[w], p)
       PROVE  Pending(v, p) /\ v.phase \in InGroup
  <2>1. p \in GroupIn(v) => p \in queued
    BY <1>1, <1>12, <1>13, <1>16
  <2>2. p \in u.back \/ LabelIn(u, p) \notin u.did
    BY <1>16 DEF Pending, u
  <2> QED
    BY <1>11, <1>13, <2>1, <2>2 DEF Pending, InGroup, phase, back
<1>17. \A m \in Message : retry[m] \in Nat /\ retry'[m] >= retry[m]
  BY DEF WorkerInv, QueuesOK
<1>18. \A b \in Worker \ {w} : launch'[b].asked = launch[b].asked
  BY <1>14, ScaleUpAssumption
<1> QED
  BY <1>1, <1>2, <1>12, <1>13, <1>14, <1>15, <1>16, <1>17, <1>18, GroupKeeps DEF WorkerInv, QueuesOK

LEMMA CheckKeeps ==
  ASSUME Overlooks, WorkerInv, NEW w \in Worker, CheckGroup(w)
  PROVE  WorkerInv'
<1> DEFINE v == work[w]
           queued == {p \in Group(w) : jobs[v.batch[p].job] = "queued"}
<1>1. v.phase = "check" /\ Undone(w) # {} /\ UNCHANGED <<build, retry, rejected, excused>>
  BY DEF CheckGroup
<1>2. faults \in 0 .. MaxFaults
  BY DEF WorkerInv, ColdInv, ColdTypeOK
<1>3. CASE queued = {} /\ Update(w, Published(w, v)) /\ UNCHANGED coldVars
  <2>1. WorkOK(v, launch'[w].asked) /\ BatchType(v) /\ UndoneIn(v) # {} /\ Group(w) = GroupIn(v)
    BY <1>1, <1>3, WorkOf DEF coldVars
  <2>2. \A p \in DOMAIN v.batch : jobs[v.batch[p].job] = "queued" => p \notin GroupIn(v)
    BY <1>3, <2>1
  <2>3. ColdInv'
    BY <1>2, <1>3, ColdSame DEF WorkerInv, coldVars
  <2>4. \A m \in Message : retry[m] \in Nat /\ retry'[m] >= retry[m]
    BY <1>1 DEF WorkerInv, QueuesOK
  <2>5. UNCHANGED <<launch, jobs>>
    BY <1>3 DEF coldVars
  <2> HIDE DEF queued
  <2> QED
    BY <1>1, <1>3, <2>1, <2>2, <2>3, <2>4, <2>5, GroupKeeps DEF WorkerInv, QueuesOK
<1>4. CASE queued # {} /\ Decide(w, queued) /\ UNCHANGED faults
  <2>1. queued \in SUBSET Group(w) /\ \A p \in Group(w) : jobs[v.batch[p].job] = "queued" => p \in queued
    OBVIOUS
  <2> HIDE DEF queued
  <2> QED
    BY <1>1, <1>2, <1>4, <2>1, DecideKeeps
<1>5. ASSUME Fault, NEW p \in Group(w) \ queued, Decide(w, queued \cup {p})
      PROVE  WorkerInv'
  <2> DEFINE all == queued \cup {p}
  <2>1. /\ all \in SUBSET Group(w) /\ all # {}
        /\ \A q \in Group(w) : jobs[v.batch[q].job] = "queued" => q \in all
    OBVIOUS
  <2>2. faults' \in 0 .. MaxFaults
    BY <1>2, <1>5, FaultRange
  <2>3. Decide(w, all)
    BY <1>5
  <2> HIDE DEF all
  <2> QED
    BY <1>1, <2>1, <2>2, <2>3, DecideKeeps
<1> QED
  BY <1>3, <1>4, <1>5 DEF CheckGroup

\* The call of an invocation is over and its actor free again.
LEMMA FreedKeeps ==
  ASSUME Overlooks, ColdInv, NEW a \in Actor, Becomes(a, NoLaunch), UNCHANGED <<jobs, booting, idle, raced>>,
         faults' \in 0 .. MaxFaults, loose' = loose \/ loose' = loose + Held(a)
  PROVE  ColdInv' /\ launch'[a] = NoLaunch /\ \A b \in Actor \ {a} : launch'[b] = launch[b]
<1>1. /\ NoLaunch \in Call /\ CallOK(NoLaunch) /\ NoLaunch.fresh = 0 /\ NoLaunch.failed = 0
      /\ NoLaunch.stage = "off"
  BY NoLaunchType DEF NoLaunch
<1>2. ~Launching(NoLaunch)
  BY <1>1 DEF Launching
<1>3. loose \in Nat /\ Held(a) \in Nat
  BY ColdCounts DEF ColdInv, ColdTypeOK, Counted, Held, Call
<1>4. loose' \in Nat /\ loose' + NoLaunch.fresh + NoLaunch.failed <= loose + Held(a)
  BY <1>1, <1>3
<1> QED
  BY <1>1, <1>2, <1>4, BecomesKeeps

LEMMA SettleKeeps ==
  ASSUME Overlooks, WorkerInv, NEW w \in Worker, Settle(w)
  PROVE  WorkerInv'
<1> DEFINE u     == work[w]
           n     == launch[w].retryable
           rest  == GroupIn(u) \ u.back
           back  == u.back \cup First(n, rest)
           short == u.short + n
           v     == [u EXCEPT !.phase = "publish", !.back = back, !.short = short]
<1>1. /\ WorkOK(u, launch[w].asked) /\ u \in WorkType /\ BatchType(u) /\ Group(w) = GroupIn(u)
      /\ w \in Actor /\ launch[w] \in Call /\ CallOK(launch[w])
  BY WorkOf
<1>2. /\ u.phase = "create" /\ launch[w].stage = "done" /\ Becomes(w, NoLaunch)
      /\ UNCHANGED <<jobs, booting, idle, loose, faults, raced, build, retry, rejected, excused>>
  BY DEF Settle, LaunchStage
<1>3. Update(w, Published(w, v))
  BY <1>1 DEF Settle
<1>4. n \in Nat /\ launch[w].asked \in Nat /\ n <= launch[w].asked
  BY <1>1, <1>2 DEF Call, CallOK
<1> HIDE DEF u, n
<1>5. ColdInv' /\ launch'[w] = NoLaunch /\ \A b \in Actor \ {w} : launch'[b] = launch[b]
  BY <1>1, <1>2, FreedKeeps DEF WorkerInv, ColdInv, ColdTypeOK
<1>6. /\ GroupIn(u) \subseteq DOMAIN u.batch /\ DOMAIN u.batch \subseteq Nat
      /\ IsFiniteSet(GroupIn(u)) /\ IsFiniteSet(u.back)
      /\ UndoneIn(u) # {} /\ u.queued \subseteq GroupIn(u)
  BY <1>1, <1>2, BatchPositions DEF WorkOK, InGroup
<1>7. n \in 0 .. Cardinality(rest)
  <2>1. Cardinality(GroupIn(u)) \in Nat /\ Cardinality(u.back \cap GroupIn(u)) \in Nat
    BY <1>6, FS_Subset, FS_CardinalityType
  <2>2. /\ rest = GroupIn(u) \ (u.back \cap GroupIn(u)) /\ IsFiniteSet(u.back \cap GroupIn(u))
        /\ (u.back \cap GroupIn(u)) \cap GroupIn(u) = u.back \cap GroupIn(u)
    BY <1>6, FS_Subset
  <2> HIDE DEF rest
  <2>3. Cardinality(rest) = Cardinality(GroupIn(u)) - Cardinality(u.back \cap GroupIn(u))
    <3>1. /\ IsFiniteSet(rest) /\ IsFiniteSet(u.back \cap GroupIn(u)) /\ rest \cap (u.back \cap GroupIn(u)) = {}
          /\ GroupIn(u) = rest \cup (u.back \cap GroupIn(u))
      BY <1>6, <2>2, FS_Subset
    <3>2. Cardinality(GroupIn(u)) = Cardinality(rest) + Cardinality(u.back \cap GroupIn(u))
                                      - Cardinality(rest \cap (u.back \cap GroupIn(u)))
      BY <3>1, FS_Union
    <3>3. Cardinality(rest \cap (u.back \cap GroupIn(u))) = 0 /\ Cardinality(rest) \in Nat
      BY <3>1, FS_EmptySet, FS_CardinalityType
    <3> QED
      BY <2>1, <3>2, <3>3
  <2>4. Cardinality(u.back \cap GroupIn(u)) + launch[w].asked <= Cardinality(GroupIn(u))
    BY <1>1, <1>2 DEF WorkOK
  <2>5. launch[w].asked \in Nat
    BY <1>4
  <2> QED
    BY <1>4, <2>1, <2>3, <2>4, <2>5
<1>8. First(n, rest) \subseteq rest /\ Cardinality(back) = short
  <2>1. rest \in SUBSET (DOMAIN u.batch \ u.back)
    BY <1>6
  <2> HIDE DEF rest
  <2> QED
    BY <1>1, <1>7, <2>1, PutBackSize
<1>9. short \in Nat /\ back \in SUBSET Nat /\ "publish" \in Phase /\ back \subseteq DOMAIN u.batch
  <2>1. u.short \in Nat /\ u.back \subseteq DOMAIN u.batch
    BY <1>1 DEF BatchType, WorkType
  <2>2. back \subseteq DOMAIN u.batch
    BY <1>6, <1>8, <2>1
  <2> QED
    BY <1>4, <1>6, <2>1, <2>2 DEF Phase
<1> HIDE DEF back, short
<1>10. /\ v \in WorkType /\ v.phase = "publish" /\ v.back = back /\ v.short = short
       /\ v.batch = u.batch /\ v.did = u.did /\ v.queued = u.queued
  BY <1>1, <1>9 DEF WorkType
<1> HIDE DEF v
<1>11. v.batch = work[w].batch /\ v.did = work[w].did
  BY <1>10 DEF u
<1>12. UndoneIn(v) = UndoneIn(u) /\ GroupIn(v) = GroupIn(u) /\ \A p : LabelIn(v, p) = LabelIn(u, p)
  BY <1>11, GroupsOf DEF u
<1>13. WorkOK(v, launch'[w].asked)
  <2>1. BatchType(v)
    BY <1>1, <1>9, <1>10 DEF BatchType
  <2>2. \A p \in v.back : LabelIn(v, p) \in v.did \/ p \in GroupIn(v)
    BY <1>1, <1>8, <1>10, <1>12 DEF WorkOK, back
  <2> QED
    BY <1>6, <1>8, <1>10, <1>12, <2>1, <2>2 DEF WorkOK, InGroup
<1>14. ASSUME NEW p \in DOMAIN v.batch, Pending(work[w], p)
       PROVE  Pending(v, p) /\ v.phase \in InGroup
  <2>1. p \in u.back \/ (LabelIn(u, p) \notin u.did /\ (p \notin GroupIn(u) \/ p \in u.queued))
    BY <1>2, <1>14 DEF Pending, u
  <2> QED
    BY <1>10, <1>12, <2>1 DEF Pending, InGroup, back
<1>15. \A m \in Message : retry[m] \in Nat /\ retry'[m] >= retry[m]
  BY <1>2 DEF WorkerInv, QueuesOK
<1>16. \A b \in Worker \ {w} : launch'[b].asked = launch[b].asked
  BY <1>5, ScaleUpAssumption
<1> QED
  BY <1>2, <1>3, <1>5, <1>6, <1>11, <1>12, <1>13, <1>14, <1>15, <1>16, GroupKeeps DEF WorkerInv, QueuesOK

LEMMA PublishKeeps ==
  ASSUME Overlooks, WorkerInv, NEW w \in Worker, PublishRetry(w)
  PROVE  WorkerInv'
<1> DEFINE u      == work[w]
           p      == Min(ToPublish(w))
           m      == u.batch[p]
           next   == [m EXCEPT !.counter = @ + 1]
           queued == u.queued \ {p}
           v      == [u EXCEPT !.queued = queued]
<1>1. /\ WorkOK(u, launch[w].asked) /\ u \in WorkType /\ BatchType(u)
      /\ w \in Actor /\ launch[w] \in Call
  BY WorkOf
<1>2. /\ u.phase = "publish" /\ ToPublish(w) # {} /\ Update(w, Published(w, v))
      /\ UNCHANGED <<launch, jobs, booting, idle, loose, raced, build, rejected>>
      /\ \/ next.counter < MaxAttempts /\ retry' = [retry EXCEPT ![next] = @ + 1] /\ excused' = excused
         \/ excused' = excused \cup {m.job} /\ retry' = retry
      /\ Fault \/ UNCHANGED faults
  BY DEF PublishRetry
<1>3. p \in u.queued /\ p \in DOMAIN u.batch
  <2>1. ToPublish(w) \subseteq u.queued /\ u.queued \subseteq DOMAIN u.batch /\ DOMAIN u.batch \subseteq Nat
    BY <1>1, BatchPositions DEF ToPublish, BatchType
  <2>2. ToPublish(w) \in SUBSET Nat
    BY <2>1
  <2>3. Min(ToPublish(w)) \in ToPublish(w)
    BY <1>2, <2>2, MinOfNaturals
  <2> QED
    BY <2>1, <2>3
<1> HIDE DEF u, p
<1>4. m \in Message /\ m.job \in Job
  BY <1>1, <1>3, BatchPositions
<1> HIDE DEF m
<1>5. next.job = m.job /\ next.counter = m.counter + 1 /\ (next.counter < MaxAttempts => next \in Message)
  <2>1. m.counter \in Int /\ m.counter >= -1
    BY <1>4, ScaleUpAssumption DEF Message
  <2> QED
    BY <1>4, <2>1, ScaleUpAssumption DEF Message
<1>6. queued \in SUBSET Nat
  BY <1>1 DEF WorkType
<1> HIDE DEF queued, next
<1>7. /\ v \in WorkType /\ v.phase = "publish" /\ v.back = u.back /\ v.short = u.short
      /\ v.batch = u.batch /\ v.did = u.did /\ v.queued = queued
  BY <1>1, <1>2, <1>6 DEF WorkType
<1> HIDE DEF v
<1>8. v.batch = work[w].batch /\ v.did = work[w].did
  BY <1>7 DEF u
<1>9. UndoneIn(v) = UndoneIn(u) /\ GroupIn(v) = GroupIn(u) /\ \A q : LabelIn(v, q) = LabelIn(u, q)
  BY <1>8, GroupsOf DEF u
<1>10. WorkOK(v, launch'[w].asked) /\ UndoneIn(v) # {}
  <2>1. BatchType(v)
    BY <1>1, <1>7 DEF BatchType, queued
  <2> QED
    BY <1>1, <1>2, <1>7, <1>9, <2>1 DEF WorkOK, InGroup, queued
<1>11. ColdInv'
  <2>1. faults' \in 0 .. MaxFaults
    BY <1>2, FaultRange DEF WorkerInv, ColdInv, ColdTypeOK
  <2> QED
    BY <1>2, <2>1, ColdSame DEF WorkerInv
<1>12. \A n \in Message : retry[n] \in Nat
  BY DEF WorkerInv, QueuesOK
<1>13. /\ retry' \in [Message -> Nat] /\ \A n \in Message : retry'[n] >= retry[n]
       /\ m.job \in excused' \/ Queued(m.job)
  <2>1. CASE next.counter < MaxAttempts /\ retry' = [retry EXCEPT ![next] = @ + 1]
    <3>1. next \in Message /\ next.job = m.job
      BY <1>5, <2>1
    <3>2. retry' \in [Message -> Nat] /\ retry'[next] = retry[next] + 1 /\ \A n \in Message \ {next} : retry'[n] = retry[n]
      BY <1>12, <2>1, <3>1 DEF WorkerInv, QueuesOK
    <3>3. build'[next] \in Nat
      BY <1>2, <3>1 DEF WorkerInv, QueuesOK
    <3>4. build'[next] + retry'[next] > 0
      BY <1>12, <3>1, <3>2, <3>3
    <3>5. Queued(m.job)
      BY <3>1, <3>4 DEF Queued
    <3>6. \A n \in Message : retry'[n] >= retry[n]
      BY <1>12, <3>2
    <3> QED
      BY <3>2, <3>5, <3>6
  <2>2. CASE excused' = excused \cup {m.job} /\ retry' = retry
    <3>1. retry' \in [Message -> Nat] /\ \A n \in Message : retry'[n] >= retry[n]
      BY <1>12, <2>2 DEF WorkerInv, QueuesOK
    <3> QED
      BY <2>2, <3>1
  <2> QED
    BY <1>2, <2>1, <2>2
<1>14. excused \subseteq excused' /\ excused' \subseteq Job
  BY <1>2, <1>4 DEF WorkerInv, QueuesOK
<1>15. ASSUME NEW q \in DOMAIN v.batch, v.batch[q].job \notin excused', Pending(work[w], q)
       PROVE  Queued(v.batch[q].job) \/ (Pending(v, q) /\ v.phase \in InGroup)
  <2>1. CASE q = p
    BY <1>7, <1>13, <1>15, <2>1 DEF m
  <2>2. CASE q # p
    <3>1. q \in u.back \/ (LabelIn(u, q) \notin u.did /\ (q \notin GroupIn(u) \/ q \in queued))
      BY <1>2, <1>15, <2>2 DEF Pending, u, queued
    <3> QED
      BY <1>7, <1>9, <3>1 DEF Pending, InGroup
  <2> QED
    BY <2>1, <2>2
<1> QED
  BY <1>2, <1>8, <1>10, <1>11, <1>13, <1>14, <1>15, GroupKeeps DEF WorkerInv

\* The invocation ends: messages of its batch are put back, all that will still
\* be served among them.
LEMMA EndKeeps ==
  ASSUME WorkerInv, ColdInv', jobs' = jobs, NEW w \in Worker, NEW positions \in SUBSET (DOMAIN work[w].batch),
         Update(w, NoWork), PutBack(work[w].batch, positions), UNCHANGED <<retry, rejected, excused>>,
         \A u \in Worker \ {w} : launch'[u].asked = launch[u].asked,
         \A p \in DOMAIN work[w].batch : Pending(work[w], p) => p \in positions
  PROVE  WorkerInv'
<1> DEFINE batch == work[w].batch
<1>1. WorkOK(work[w], launch[w].asked) /\ BatchType(work[w])
  BY WorkOf
<1>2. launch'[w].asked \in Nat
  BY ScaleUpAssumption, ColdCounts, NextCounts DEF ColdInv, Counted, Call
<1>3. NoWork \in WorkType /\ WorkOK(NoWork, launch'[w].asked)
  BY <1>2, NoWorkOK
<1>4. /\ work' \in [Worker -> WorkType] /\ Workers'
      /\ work'[w] = NoWork /\ \A u \in Worker \ {w} : work'[u] = work[u]
  BY <1>3, WorkerMoves DEF WorkerInv
<1>5. IsFiniteSet(positions)
  BY <1>1, BatchPositions, FS_Subset
<1> HIDE DEF batch
<1>6. \A m \in Message : /\ Copies(m, batch, positions) \in Nat
                         /\ (\E p \in positions : batch[p] = m) <=> Copies(m, batch, positions) > 0
  BY <1>5, CopiesType
<1>7. build' = [m \in Message |-> build[m] + Copies(m, batch, positions)]
  BY DEF PutBack, batch
<1>8. \A m \in Message : build[m] \in Nat /\ retry[m] \in Nat
  BY DEF WorkerInv, QueuesOK
<1>9. /\ build' \in [Message -> Nat]
      /\ \A m \in Message : build'[m] >= build[m] /\ build'[m] >= Copies(m, batch, positions) /\ retry'[m] = retry[m]
  BY <1>6, <1>7, <1>8
<1>10. ASSUME NEW j \in Job, InQueues(j) PROVE Kept(j)
  <2>1. \A m \in Message : build'[m] \in Nat /\ retry'[m] \in Nat /\ build'[m] >= build[m] /\ retry'[m] >= retry[m]
    BY <1>8, <1>9
  <2> QED
    BY <1>10, <2>1, QueuesKeep DEF Kept, WorkerInv
<1>11. ASSUME NEW j \in Job, InBatch(work[w], j) PROVE Kept(j)
  <2>1. PICK p \in DOMAIN batch : batch[p].job = j /\ Pending(work[w], p)
    BY <1>11 DEF InBatch, batch
  <2>2. p \in positions /\ batch[p] \in Message
    BY <1>1, <2>1, BatchPositions DEF batch
  <2>3. Copies(batch[p], batch, positions) > 0
    BY <1>6, <2>2
  <2> DEFINE m == batch[p]
  <2>4. m \in Message /\ Copies(m, batch, positions) > 0 /\ m.job = j
    BY <2>1, <2>2, <2>3
  <2> HIDE DEF m
  <2>5. build'[m] + retry'[m] > 0
    BY <1>6, <1>8, <1>9, <2>4
  <2> QED
    BY <2>4, <2>5 DEF Kept, Queued
<1>12. Tracked'
  BY <1>4, <1>10, <1>11, WorkerTracks DEF WorkerInv
<1> QED
  BY <1>4, <1>9, <1>12 DEF WorkerInv, QueuesOK

LEMMA FinishKeeps ==
  ASSUME Overlooks, WorkerInv, NEW w \in Worker, Finish(w)
  PROVE  WorkerInv'
<1>1. /\ work[w].phase = "check" /\ Undone(w) = {} /\ PutBack(work[w].batch, work[w].back) /\ Update(w, NoWork)
      /\ UNCHANGED <<coldVars, retry, rejected, excused>>
  BY DEF Finish
<1>2. BatchType(work[w]) /\ UndoneIn(work[w]) = {}
  BY <1>1, WorkOf
<1>3. work[w].back \in SUBSET (DOMAIN work[w].batch)
  BY <1>2 DEF BatchType
<1>4. \A p \in DOMAIN work[w].batch : Pending(work[w], p) => p \in work[w].back
  BY <1>2 DEF Pending, UndoneIn
<1>5. ColdInv'
  BY <1>1, ColdSame DEF WorkerInv, ColdInv, ColdTypeOK, coldVars
<1> QED
  BY <1>1, <1>3, <1>4, <1>5, EndKeeps DEF coldVars

LEMMA BatchFailsKeeps ==
  ASSUME Overlooks, WorkerInv, NEW w \in Worker, BatchFails(w)
  PROVE  WorkerInv'
<1>1. /\ PutBack(work[w].batch, DOMAIN work[w].batch) /\ Update(w, NoWork) /\ Fault
      /\ Becomes(w, NoLaunch) /\ loose' = loose + Held(w)
      /\ UNCHANGED <<jobs, booting, idle, raced, retry, rejected, excused>>
  BY DEF BatchFails, Abandon
<1>2. faults' \in 0 .. MaxFaults
  BY <1>1, FaultRange DEF WorkerInv, ColdInv, ColdTypeOK
<1>3. ColdInv' /\ \A b \in Actor \ {w} : launch'[b] = launch[b]
  BY <1>1, <1>2, FreedKeeps, ScaleUpAssumption DEF WorkerInv
<1>4. \A u \in Worker \ {w} : launch'[u].asked = launch[u].asked
  BY <1>3, ScaleUpAssumption
<1> QED
  BY <1>1, <1>3, <1>4, EndKeeps

-----------------------------------------------------------------------------
\* The steps of the jobs and of the retry queue.
LEMMA EnqueueTracks ==
  ASSUME Overlooks, WorkerInv, NEW j \in Job, Enqueue(j)
  PROVE  WorkerInv'
<1> DEFINE m == [job |-> j, counter |-> -1]
<1>1. /\ build' = [build EXCEPT ![m] = @ + 1] /\ jobs' = [jobs EXCEPT ![j] = "queued"]
      /\ UNCHANGED <<launch, retry, work, rejected, excused>>
  BY DEF Enqueue
<1>2. m \in Message /\ m.job = j
  BY ScaleUpAssumption DEF Message
<1> HIDE DEF m
<1>3. \A n \in Message : build[n] \in Nat /\ retry[n] \in Nat
  BY DEF WorkerInv, QueuesOK
<1>4. build' \in [Message -> Nat] /\ build'[m] = build[m] + 1 /\ \A n \in Message : build'[n] >= build[n]
  BY <1>1, <1>2, <1>3 DEF WorkerInv, QueuesOK
<1>5. ASSUME NEW i \in Job, jobs'[i] = "queued", ~Kept(i)
      PROVE  jobs[i] = "queued" /\ ~InQueues(i) /\ \A u \in Worker : ~InBatch(work[u], i)
  <2>1. i # j
    BY <1>1, <1>2, <1>3, <1>4, <1>5 DEF Kept, Queued
  <2>2. jobs[i] = "queued"
    BY <1>1, <1>5, <2>1 DEF WorkerInv, ColdInv, ColdTypeOK
  <2>3. \A n \in Message : build'[n] \in Nat /\ retry'[n] \in Nat /\ build'[n] >= build[n] /\ retry'[n] >= retry[n]
    BY <1>1, <1>3, <1>4
  <2>4. ~InQueues(i)
    BY <1>5, <2>3, QueuesKeep DEF Kept, WorkerInv
  <2> QED
    BY <1>1, <1>5, <2>2, <2>4 DEF Kept
<1>6. Tracked'
  BY <1>1, <1>5, TrackedKept DEF WorkerInv
<1>7. ColdInv'
  BY EnqueueKeeps DEF WorkerInv
<1>8. Workers'
  BY <1>1 DEF WorkerInv, Workers
<1> QED
  BY <1>1, <1>4, <1>6, <1>7, <1>8 DEF WorkerInv, QueuesOK

\* A record of the retry queue is gone or its message on the build queue.
LEMMA RetryKeeps ==
  ASSUME Overlooks, WorkerInv, NEW m \in Message, RetryCheck(m) \/ RetryFault(m)
  PROVE  WorkerInv'
<1>1. /\ UNCHANGED <<launch, jobs, booting, idle, loose, raced, work, rejected>>
      /\ Fault \/ UNCHANGED faults
      /\ retry[m] > 0
      /\ \/ retry' = [retry EXCEPT ![m] = @ - 1]
         \/ retry' = retry
      /\ \/ build' = [build EXCEPT ![m] = @ + 1] /\ excused' = excused
         \/ build' = build /\ excused' = excused /\ jobs[m.job] # "queued"
         \/ build' = build /\ excused' = excused \cup {m.job}
  BY DEF RetryCheck, RetryFault, RetryPublishFails, RetryRefused, RetryRedelivered, Drop, coldVars
<1>2. m.job \in Job
  BY DEF Message
<1>3. \A n \in Message : build[n] \in Nat /\ retry[n] \in Nat
  BY DEF WorkerInv, QueuesOK
<1>4. /\ retry' \in [Message -> Nat] /\ \A n \in Message \ {m} : retry'[n] = retry[n]
      /\ build' \in [Message -> Nat] /\ \A n \in Message : build'[n] >= build[n]
      /\ build'[m] = build[m] + 1 \/ jobs[m.job] # "queued" \/ m.job \in excused'
  <2>1. /\ retry' \in [Message -> Nat] /\ \A n \in Message \ {m} : retry'[n] = retry[n]
    BY <1>1, <1>3 DEF WorkerInv, QueuesOK
  <2>2. /\ build' \in [Message -> Nat] /\ \A n \in Message : build'[n] >= build[n]
        /\ build'[m] = build[m] + 1 \/ jobs[m.job] # "queued" \/ m.job \in excused'
    BY <1>1, <1>3 DEF WorkerInv, QueuesOK
  <2> QED
    BY <2>1, <2>2
<1>5. ColdInv'
  <2>1. faults' \in 0 .. MaxFaults
    BY <1>1, FaultRange DEF WorkerInv, ColdInv, ColdTypeOK
  <2> QED
    BY <1>1, <2>1, ColdSame DEF WorkerInv
<1>6. excused \subseteq excused' /\ excused' \subseteq Job
  BY <1>1, <1>2 DEF WorkerInv, QueuesOK
<1>7. ASSUME NEW i \in Job, jobs'[i] = "queued", i \notin excused', ~Kept(i)
      PROVE  jobs[i] = "queued" /\ ~InQueues(i) /\ \A u \in Worker : ~InBatch(work[u], i)
  <2>1. jobs[i] = "queued" /\ \A u \in Worker : ~InBatch(work[u], i)
    BY <1>1, <1>7 DEF Kept
  <2>2. ASSUME NEW n \in Message, n.job = i, build[n] + retry[n] > 0 PROVE FALSE
    <3>1. build'[n] + retry'[n] > 0
      <4>1. CASE n = m
        <5>1. build'[m] = build[m] + 1 /\ retry'[m] \in Nat
          BY <1>4, <1>7, <2>1, <2>2, <4>1
        <5> QED
          BY <1>3, <4>1, <5>1
      <4>2. CASE n # m
        <5>1. retry'[n] = retry[n] /\ build'[n] >= build[n] /\ build'[n] \in Nat
          BY <1>4, <4>2
        <5> QED
          BY <1>3, <2>2, <5>1
      <4> QED
        BY <4>1, <4>2
    <3> QED
      BY <1>7, <2>2, <3>1 DEF Kept, Queued
  <2> QED
    BY <2>1, <2>2 DEF InQueues
<1>8. Tracked'
  BY <1>6, <1>7, TrackedKept DEF WorkerInv
<1>9. Workers'
  BY <1>1 DEF WorkerInv, Workers
<1> QED
  BY <1>1, <1>4, <1>5, <1>6, <1>8, <1>9 DEF WorkerInv, QueuesOK

\* The other steps leave the queues and the batches alone.
LEMMA QueuesSame ==
  ASSUME WorkerInv, ColdInv', UNCHANGED queueVars,
         \A w \in Worker : launch'[w].asked = launch[w].asked,
         \A j \in Job : jobs'[j] = "queued" => jobs[j] = "queued"
  PROVE  WorkerInv'
<1>1. UNCHANGED <<build, retry, work, rejected, excused>>
  BY DEF queueVars
<1>2. Workers'
  BY <1>1 DEF WorkerInv, Workers
<1>3. Tracked'
  BY <1>1 DEF WorkerInv, Tracked, InQueues
<1> QED
  BY <1>1, <1>2, <1>3 DEF WorkerInv, QueuesOK

-----------------------------------------------------------------------------
LEMMA InitInvariant == Init => IInv
<1> SUFFICES ASSUME Init PROVE IInv
  OBVIOUS
<1>1. ColdTypeOK /\ \A a \in Actor : launch[a] = NoLaunch
  BY NoLaunchType, LaunchAssumption DEF Init, ColdInit, ColdTypeOK, Call
<1>2. Accounts
  BY <1>1, NoLaunchType DEF Accounts
<1>3. CurrentRunners = 0
  <2>1. Busy = 0
    <3>1. {j \in Job : jobs[j] = "running"} = {}
      BY DEF Init, ColdInit
    <3> QED
      BY <3>1, FS_EmptySet DEF Busy
  <2>2. SumFunction(Holding) = 0
    <3>1. Holding = [a \in Actor |-> 0]
      <4>1. NoLaunch.fresh = 0 /\ NoLaunch.failed = 0
        BY DEF NoLaunch
      <4> QED
        BY <1>1, <4>1 DEF Holding, Held
    <3> QED
      BY <3>1, SumZero, LaunchAssumption
  <2>3. SumFunction(Serving) = 0
    <3>1. Serving = [l \in Label |-> 0]
      BY DEF Serving, Init, ColdInit
    <3> QED
      BY <3>1, SumZero, LaunchAssumption
  <2>4. loose = 0
    BY DEF Init, ColdInit
  <2> QED
    BY <1>1, <2>1, <2>2, <2>3, <2>4, ColdCounts DEF Counted
<1>4. RoomIsLeft
  <2>1. \A a \in Actor : launch[a].stage = "off"
    <3>1. NoLaunch.stage = "off"
      BY DEF NoLaunch
    <3> QED
      BY <1>1, <3>1
  <2>2. overlooked = 0
    BY DEF Init, PoolInit
  <2> QED
    BY <1>3, <2>1, <2>2, ScaleUpAssumption DEF RoomIsLeft, Fits
<1>5. QueuesOK
  BY NoWorkOK DEF QueuesOK, Init, ScaleUpInit
<1>6. Workers
  <2>1. \A w \in Worker : launch[w].asked \in Nat /\ work[w] = NoWork
    BY <1>1, AskedType DEF Init, ScaleUpInit
  <2> QED
    BY <2>1, NoWorkOK DEF Workers
<1>7. Tracked
  BY DEF Tracked, Init, ColdInit
<1>8. PoolTypeOK
  BY PoolAssumption DEF PoolTypeOK, Init, PoolInit
<1> QED
  BY <1>1, <1>2, <1>4, <1>5, <1>6, <1>7, <1>8 DEF IInv, ColdInv

LEMMA StepInvariant == IInv /\ [Next]_vars => IInv'
<1> SUFFICES ASSUME IInv, [Next]_vars PROVE IInv'
  OBVIOUS
<1>1. WorkerInv /\ PoolTypeOK /\ ColdInv
  BY DEF IInv, WorkerInv
<1>2. ASSUME WorkerInv', UNCHANGED poolVars PROVE IInv'
  BY <1>1, <1>2 DEF IInv, WorkerInv, PoolTypeOK, poolVars
<1>11. UNCHANGED poolVars => Overlooks
  BY <1>1 DEF Overlooks, PoolTypeOK, poolVars
<1>3. ASSUME NEW j \in Job, JobNext(j) \/ CancelNext(j) PROVE IInv'
  <2>1. JobStep(j) /\ UNCHANGED queueVars /\ UNCHANGED poolVars
    BY <1>3 DEF JobStep, JobNext, CancelNext
  <2>2. ColdInv' /\ launch' = launch /\ \A i \in Job : jobs'[i] = "queued" => jobs[i] = "queued"
    BY <1>1, <1>11, <2>1, JobKeeps
  <2> QED
    BY <1>1, <1>2, <1>11, <2>1, <2>2, QueuesSame
<1>4. ASSUME NEW j \in Job, Enqueue(j), UNCHANGED poolVars PROVE IInv'
  BY <1>1, <1>2, <1>11, <1>4, EnqueueTracks
<1>5. ASSUME NEW w \in Worker, WorkerNext(w) PROVE IInv'
  <2>1. CASE Receive(w)
    BY <1>1, <1>2, <1>11, <1>5, <2>1, ReceiveKeeps DEF WorkerNext
  <2>2. CASE RejectGroup(w)
    BY <1>1, <1>2, <1>11, <1>5, <2>2, RejectKeeps DEF WorkerNext
  <2>3. CASE CheckGroup(w)
    BY <1>1, <1>2, <1>11, <1>5, <2>3, CheckKeeps DEF WorkerNext
  <2>4. CASE Settle(w)
    BY <1>1, <1>2, <1>11, <1>5, <2>4, SettleKeeps DEF WorkerNext
  <2>5. CASE PublishRetry(w)
    BY <1>1, <1>2, <1>11, <1>5, <2>5, PublishKeeps DEF WorkerNext
  <2>6. CASE Finish(w)
    BY <1>1, <1>2, <1>11, <1>5, <2>6, FinishKeeps DEF WorkerNext
  <2>7. CASE BatchFails(w)
    BY <1>1, <1>2, <1>11, <1>5, <2>7, BatchFailsKeeps DEF WorkerNext
  <2> QED
    BY <1>5, <2>1, <2>2, <2>3, <2>4, <2>5, <2>6, <2>7 DEF WorkerNext, ScaleUpStep
<1>6. ASSUME NEW a \in Actor, ActorNext(a) PROVE IInv'
  <2>1. ColdInv' /\ jobs' = jobs /\ \A b \in Actor : launch'[b].asked = launch[b].asked
    BY <1>1, <1>6, <1>11, LaunchKeeps DEF ActorNext
  <2>2. WorkerInv'
    BY <1>1, <1>6, <1>11, <2>1, QueuesSame, ScaleUpAssumption DEF ActorNext
  <2> QED
    BY <1>2, <1>6, <2>2 DEF ActorNext
<1>7. ASSUME NEW m \in Message, RetryCheck(m) \/ RetryFault(m), UNCHANGED poolVars PROVE IInv'
  BY <1>1, <1>2, <1>11, <1>7, RetryKeeps
<1>8. ASSUME PoolStep \/ PoolCrash, UNCHANGED queueVars PROVE IInv'
  <2>1. ColdInv' /\ PoolTypeOK' /\ jobs' = jobs /\ \A w \in Worker : launch'[w] = launch[w]
    BY <1>1, <1>8, PoolKeeps
  <2>2. WorkerInv'
    BY <1>1, <1>8, <2>1, QueuesSame
  <2> QED
    BY <2>1, <2>2 DEF IInv, WorkerInv
<1>9. ASSUME ScaleDown \/ \E l \in Label : Boot(l), UNCHANGED <<queueVars, poolVars>> PROVE IInv'
  <2>1. ColdInv' /\ launch' = launch /\ jobs' = jobs
    BY <1>1, <1>9, <1>11, RunnerKeeps
  <2> QED
    BY <1>1, <1>2, <1>11, <1>9, <2>1, QueuesSame
<1>10. ASSUME UNCHANGED vars PROVE IInv'
  <2>1. UNCHANGED coldVars /\ UNCHANGED queueVars /\ UNCHANGED poolVars
    BY <1>10 DEF vars
  <2>2. ColdInv'
    BY <1>1, <1>11, <2>1, ColdSame DEF coldVars, ColdInv, ColdTypeOK
  <2>3. launch' = launch /\ jobs' = jobs
    BY <2>1 DEF coldVars
  <2> QED
    BY <1>1, <1>2, <1>11, <2>1, <2>2, <2>3, QueuesSame
<1> QED
  BY <1>3, <1>4, <1>5, <1>6, <1>7, <1>8, <1>9, <1>10 DEF Next

LEMMA Invariant == Spec => []IInv
BY InitInvariant, StepInvariant, PTL DEF Spec

LEMMA InvariantParts ==
  IInv => TypeOK /\ AllAccountedFor /\ ShortfallGoesBack /\ QueuedJobIsTracked /\ MaximumUnlessRaced
<1> SUFFICES ASSUME IInv
             PROVE  TypeOK /\ AllAccountedFor /\ ShortfallGoesBack /\ QueuedJobIsTracked /\ MaximumUnlessRaced
  OBVIOUS
<1>1. TypeOK
  <2>1. \A w \in Worker : BatchType(work[w])
    BY DEF IInv, Workers, WorkOK
  <2> QED
    BY <2>1 DEF IInv, ColdInv, QueuesOK, TypeOK, ScaleUpTypeOK, WorkType, BatchType
<1>2. AllAccountedFor
  BY DEF IInv, ColdInv, Accounts, CallOK, AllAccountedFor, LaunchStage
<1>3. ShortfallGoesBack
  BY DEF IInv, Workers, WorkOK, ShortfallGoesBack
<1>4. QueuedJobIsTracked
  BY DEF IInv, Tracked, InQueues, InBatch, QueuedJobIsTracked
<1>5. MaximumUnlessRaced
  <2>1. RoomIsLeft
    BY DEF IInv, ColdInv
  <2> QED
    BY <2>1 DEF RoomIsLeft, MaximumUnlessRaced
<1> QED
  BY <1>1, <1>2, <1>3, <1>4, <1>5

\* Every variable keeps its type, the positions of a batch included that are
\* put back or to be published (scale-up.ts, pool.ts, runner-creation.ts).
THEOREM TypeCorrect == Spec => []TypeOK
BY Invariant, InvariantParts, PTL

\* The runners there are stay within the maximum and what one listing of the
\* pool left out, for any number of invocations, pool runs and label sets,
\* until a call is decided on a count that another call makes stale
\* (scale-up.ts and pool.ts count, then create).
THEOREM MaximumHolds == Spec => []MaximumUnlessRaced
BY Invariant, InvariantParts, PTL

\* A waiting job always has a message in a queue or in an invocation, or its
\* attempts are used up or a publication was lost (scale-up.ts, job-retry.ts).
THEOREM JobsAreTracked == Spec => []QueuedJobIsTracked
BY Invariant, InvariantParts, PTL

\* Exactly as many messages go back as runners are missing for a reason worth
\* a retry, over both slices of every group of a batch (scale-up.ts).
THEOREM ShortfallsGoBack == Spec => []ShortfallGoesBack
BY Invariant, InvariantParts, PTL

\* Every runner asked for is made, retryable or final when createRunners
\* returns, whatever fails on the way (runner-creation.ts, runners.ts).
THEOREM RunnersAreAccountedFor == Spec => []AllAccountedFor
BY Invariant, InvariantParts, PTL
=============================================================================
