--------------------------- MODULE AppFailoverProofs ---------------------------
(****************************************************************************)
(* Proofs about the failover between GitHub Apps, for any number of apps    *)
(* and concurrent requests, any budgets, windows and faults: types, how     *)
(* long an app is believed exhausted and with what cause, and how often an  *)
(* app is refused.                                                          *)
(****************************************************************************)
EXTENDS AppFailover, FiniteSetTheorems, TLAPS

\* An operation by its state o: the app it uses, the answer it has, and
\* whether it has been turned down.
Free == {"idle", "again", "done", "failed"}
Over == {"done", "failed"}
Uses(o, a)  == o.app = {a}
Says(o, ks) == o.answer # {} /\ The(o.answer).kind \in ks
Turned(o)   == Says(o, Bad)
Makes(o, a) == Uses(o, a) /\ o.pc \in {"lookup", "mint"}

OpType == [pc : {"idle", "chosen", "wait", "refused", "again", "done", "failed"} \cup Waiting,
           app : Optional(App), tried : SUBSET App, looked : BOOLEAN, answer : Optional(Answer)]
ClientType == [App -> {"none", "pending", "ready"}]
Types ==
  /\ LimitsTypeOK
  /\ wants \in [Op -> Resource] /\ wants[Setup] = "core"
  /\ clients \in ClientType
  /\ op \in [Op -> OpType]

\* An operation that uses an app has tried it, and has an answer only while it
\* waits for one, or of the client it was refused.
Shape(o) ==
  /\ o.pc \in Free <=> o.app = {}
  /\ o.app \subseteq o.tried
  /\ o.pc \in Free \cup {"chosen", "wait"} => o.answer = {}
  /\ o.pc = "refused" => Turned(o)

\* A client that is being made has one maker, and is the only one waited for.
ClientOK(a) ==
  /\ clients[a] = "pending" => \E p \in Op : Makes(op[p], a)
  /\ \A p \in Op : Makes(op[p], a) => clients[a] = "pending"
  /\ \A p, q \in Op : Makes(op[p], a) /\ Makes(op[q], a) => p = q
  /\ \A p \in Op : Uses(op[p], a) /\ op[p].pc = "wait" => clients[a] = "pending"
  /\ \A p \in Op : Uses(op[p], a) /\ op[p].pc = "send" => clients[a] = "ready"

\* Until the first client is made no request has begun, and the app it is made
\* of has not been found exhausted.
SetupOK ==
  op[Setup].pc # "done" =>
    /\ \A p \in Request : op[p] = Idle
    /\ \A a \in App : clients[a] # "none" => Makes(op[Setup], a)
    /\ \A a \in App : Uses(op[Setup], a) => ~Exhausted(a, "core")

\* The exhaustion of an app is known for the rest of the window.
Spent(a, r) == quota[a][r].left = 0 /\ quota[a][r].ttl >= window
\* The operations that have been refused in this window and will report it.
Reports(o, a, r, t) ==
  Uses(o, a) /\ Says(o, {"primary"}) /\ The(o.answer).res = r /\ The(o.answer).reset = t
Refusals(a, r) == {p \in Op : Reports(op[p], a, r, window)}
\* The requests that may still be refused when it is known.
Alive(a) == clients[a] # "none" \/ \E p \in Op : Uses(op[p], a) /\ ~Turned(op[p])
Could(a, r) ==
  {p \in Request : \/ Uses(op[p], a) /\ ~Turned(op[p]) /\ (r = "registration" => wants[p] = r)
                   \/ r = "core" /\ op[p].pc \notin Over /\ a \notin op[p].tried /\ Alive(a)}
RefusalsOK(a, r) ==
  IF Spent(a, r) THEN refusals[a][r] + Cardinality(Could(a, r)) <= Cardinality(Request)
                 ELSE refusals[a][r] <= Cardinality(Refusals(a, r))

\* How long a limit may be believed exhausted: to the end of the window in
\* which GitHub has none left, or for the margin that follows it.
Allowed(a, r) ==
  {t \in Nat : (budget[a][r] = 0 /\ t <= window + Margin) \/ t <= Most(Margin, Unspecified)}
RealOK(a, r) == Exhausted(a, r) => quota[a][r].ttl \in Allowed(a, r)
\* An answer for app a tells of this window, or is known to be older.
Truth(a, x) ==
  /\ x.reset \in {0, window}
  /\ x.left = 0 /\ x.reset > 0 => budget[a][x.res] = 0
  /\ x.kind = "primary" => x.left = 0

Shapes  == \A p \in Op : Shape(op[p])
Clients == \A a \in App : ClientOK(a)
Bounds == \A a \in App, r \in Resource : RefusalsOK(a, r)
Truths == \A p \in Op, a \in App, x \in Answer : Uses(op[p], a) /\ op[p].answer = {x} => Truth(a, x)
Reals  == \A a \in App, r \in Resource : RealOK(a, r)
IInv == Types /\ Shapes /\ Clients /\ SetupOK /\ Bounds /\ Truths /\ Reals

\* What GitHub has none left of is not given back.
NotRenewed == \A a \in App, r \in Resource : budget[a][r] = 0 => budget'[a][r] = 0

-----------------------------------------------------------------------------
\* What is known of the limits.
Quota == [left : 0 .. Full, ttl : 0 .. Longest]

LEMMA Numbers ==
  /\ Full \in Nat /\ Full > 0 /\ Budget \in [Resource -> 0 .. Full]
  /\ Window \in Nat /\ Window > 0 /\ Longest \in Nat /\ Longest >= Window + 1
  /\ Unspecified \in 1 .. Longest /\ RetryAfter \in Nat /\ RetryAfter + 1 <= Longest
<1>1. /\ Budget["core"] \in Nat \ {0} /\ Budget["registration"] \in Nat \ {0}
      /\ Budget \in [Resource -> Nat \ {0}] /\ Resource = {"core", "registration"}
  BY RateLimitAssumption DEF Resource
<1>2. Full \in Nat /\ Budget["core"] < Full /\ Budget["registration"] < Full
  BY <1>1 DEF Full, Most
<1>3. Budget \in [Resource -> 0 .. Full]
  BY <1>1, <1>2
<1> QED
  BY <1>1, <1>2, <1>3, RateLimitAssumption DEF Longest, Most, Margin

LEMMA UntilRange ==
  ASSUME NEW d \in Nat, d <= Window \/ d <= RetryAfter
  PROVE  Until(d) \in 1 .. Longest /\ (d > 0 => Until(d) > d)
BY Numbers DEF Until, Margin

LEMMA KnownType ==
  ASSUME NEW left \in 0 .. Full, NEW ttl \in 0 .. Longest
  PROVE  /\ Known(left, ttl) \in Quota
         /\ ttl > 0 => Known(left, ttl).left = left /\ Known(left, ttl).ttl = ttl
         /\ ttl = 0 => Known(left, ttl).left # 0 /\ Known(left, ttl).ttl = 0
BY Numbers DEF Known, Unknown, Quota

\* What a report keeps: an exhaustion, and for how long at least.
LEMMA ReportedKeeps ==
  ASSUME NEW q \in Quota, NEW left \in 0 .. Full, NEW ttl \in 0 .. Longest
  PROVE  LET new == Reported(q, left, ttl) IN
         /\ new \in Quota
         /\ q.left = 0 /\ q.ttl > 0 => new.left = 0 /\ new.ttl >= q.ttl
         /\ left = 0 /\ ttl > 0 => new.left = 0 /\ new.ttl >= ttl
<1> DEFINE new == Reported(q, left, ttl)
<1>1. CASE q.left = 0 /\ q.ttl > 0
  <2> DEFINE later == IF left = 0 THEN Most(q.ttl, ttl) ELSE q.ttl
  <2>1. new = [q EXCEPT !.ttl = later]
    BY <1>1 DEF Reported
  <2>2. later \in 0 .. Longest /\ later >= q.ttl /\ (left = 0 => later >= ttl)
    BY Numbers DEF Most, Quota
  <2> HIDE DEF later
  <2> QED
    BY <1>1, <2>1, <2>2 DEF Quota
<1>2. CASE ~(q.left = 0 /\ q.ttl > 0)
  <2>1. new = Known(left, ttl)
    BY <1>2 DEF Reported
  <2> QED
    BY <1>2, <2>1, KnownType
<1> QED
  BY <1>1, <1>2

LEMMA QuotaType ==
  ASSUME LimitsTypeOK
  PROVE  /\ quota \in [App -> [Resource -> Quota]] /\ window \in 1 .. Window /\ cooldown \in [App -> 0 .. Longest]
         /\ \A a \in App, r \in Resource :
              /\ quota[a][r] \in Quota
              /\ quota[a][r].left \in 0 .. Full /\ quota[a][r].ttl \in 0 .. Longest
<1>1. /\ quota \in [App -> [Resource -> Quota]]
      /\ window \in 1 .. Window /\ cooldown \in [App -> 0 .. Longest]
  BY DEF LimitsTypeOK, Quota
<1> QED
  BY <1>1 DEF Quota

\* An answer of a that is reported.
LEMMA ReportKeeps ==
  ASSUME LimitsTypeOK, NEW a \in App, NEW x \in Answer, Report(a, x), UNCHANGED <<githubVars, faults>>
  PROVE  /\ LimitsTypeOK'
         /\ \A b \in App, r \in Resource :
              /\ Exhausted(b, r) => quota'[b][r].left = 0 /\ quota'[b][r].ttl >= quota[b][r].ttl
              /\ b # a \/ r # x.res => quota'[b][r] = quota[b][r]
         /\ x.kind = "primary" /\ x.reset = window => Spent(a, x.res)'
<1> DEFINE res  == x.res
           q    == quota[a][res]
           seen == Reported(q, x.left, x.reset)
           new  == IF x.kind = "primary" THEN Reported(seen, 0, Until(x.reset)) ELSE seen
           cool == IF x.kind = "secondary" THEN Most(cooldown[a], Until(x.after)) ELSE cooldown[a]
<1>1. /\ res \in Resource /\ x.left \in 0 .. Full /\ x.reset \in 0 .. Window /\ x.after \in 0 .. RetryAfter
      /\ q \in Quota /\ cooldown \in [App -> 0 .. Longest] /\ quota \in [App -> [Resource -> Quota]]
      /\ window \in 1 .. Window
  BY QuotaType DEF Answer
<1>2. quota' = [quota EXCEPT ![a][res] = new] /\ cooldown' = [cooldown EXCEPT ![a] = cool]
  BY DEF Report, Observe
<1> HIDE DEF res, q
<1>3. /\ seen \in Quota
      /\ q.left = 0 /\ q.ttl > 0 => seen.left = 0 /\ seen.ttl >= q.ttl
  <2> DEFINE left == x.left
             ttl  == x.reset
  <2>1. left \in 0 .. Full /\ ttl \in 0 .. Longest /\ seen = Reported(q, left, ttl)
    BY <1>1, Numbers
  <2> HIDE DEF left, ttl, seen
  <2> QED
    BY <1>1, <2>1, ReportedKeeps
<1> HIDE DEF seen
<1>4. Until(x.reset) \in 1 .. Longest /\ Until(x.after) \in 1 .. Longest /\ (x.reset > 0 => Until(x.reset) > x.reset)
  <2>1. x.reset \in Nat /\ x.after \in Nat /\ x.reset <= Window /\ x.after <= RetryAfter
    BY <1>1, Numbers
  <2> QED
    BY <2>1, UntilRange
<1>5. /\ new \in Quota
      /\ q.left = 0 /\ q.ttl > 0 => new.left = 0 /\ new.ttl >= q.ttl
      /\ x.kind = "primary" => new.left = 0 /\ new.ttl >= Until(x.reset)
  <2>1. CASE x.kind = "primary"
    <3> DEFINE ttl == Until(x.reset)
    <3>1. ttl \in 0 .. Longest /\ ttl > 0 /\ 0 \in 0 .. Full /\ new = Reported(seen, 0, ttl)
      BY <1>4, <2>1, Numbers
    <3> HIDE DEF ttl, new
    <3>2. /\ new \in Quota
          /\ seen.left = 0 /\ seen.ttl > 0 => new.left = 0 /\ new.ttl >= seen.ttl
          /\ new.left = 0 /\ new.ttl >= ttl
      BY <1>3, <3>1, ReportedKeeps
    <3> QED
      BY <1>1, <1>3, <3>2 DEF ttl, Quota
  <2>2. CASE x.kind # "primary"
    BY <1>3, <2>2
  <2> QED
    BY <2>1, <2>2
<1>6. cool \in 0 .. Longest
  BY <1>1, <1>4, Numbers DEF Most
<1> HIDE DEF new, cool
<1>7. quota' \in [App -> [Resource -> Quota]] /\ cooldown' \in [App -> 0 .. Longest]
  BY <1>1, <1>2, <1>5, <1>6
<1>8. LimitsTypeOK'
  BY <1>7 DEF LimitsTypeOK, Quota, githubVars
<1>9. quota'[a][res] = new /\ \A b \in App, r \in Resource : b # a \/ r # res => quota'[b][r] = quota[b][r]
  BY <1>1, <1>2
<1>10. ASSUME NEW b \in App, NEW r \in Resource, Exhausted(b, r)
       PROVE  quota'[b][r].left = 0 /\ quota'[b][r].ttl >= quota[b][r].ttl
  <2>1. CASE b = a /\ r = res
    BY <1>5, <1>9, <1>10, <2>1 DEF Exhausted, q
  <2>2. CASE ~(b = a /\ r = res)
    <3>1. quota'[b][r] = quota[b][r] /\ quota[b][r].ttl \in 0 .. Longest
      BY <1>9, <2>2, QuotaType
    <3> QED
      BY <1>10, <3>1, Numbers DEF Exhausted
  <2> QED
    BY <2>1, <2>2
<1>11. ASSUME x.kind = "primary", x.reset = window PROVE Spent(a, x.res)'
  <2>1. new.left = 0 /\ new.ttl >= window
    <3>1. new.ttl \in Nat
      BY <1>5, Numbers DEF Quota
    <3> QED
      BY <1>1, <1>4, <1>5, <1>11, <3>1, Numbers
  <2>2. quota'[a][x.res] = new /\ window' = window
    BY <1>9 DEF res, githubVars
  <2> QED
    BY <2>1, <2>2 DEF Spent
<1> QED
  BY <1>8, <1>9, <1>10, <1>11 DEF res

\* Time passes: what is believed to be exhausted stays so until its end.
LEMMA TimeKeeps ==
  ASSUME LimitsTypeOK, PassTime
  PROVE  /\ LimitsTypeOK'
         /\ \A a \in App, r \in Resource :
              /\ Exhausted(a, r) /\ quota[a][r].ttl > 1 => Exhausted(a, r)'
              /\ Exhausted(a, r)' => Exhausted(a, r)
              /\ window > 1 => Spent(a, r)' <=> Spent(a, r)
         /\ window = 1 => \A a \in App, r \in Resource : refusals'[a][r] = 0
         /\ window > 1 => window' = window - 1 /\ refusals' = refusals
<1>1. /\ window \in 1 .. Window /\ window \in Nat /\ window > 0 /\ Window \in Nat
      /\ cooldown \in [App -> 0 .. Longest] /\ quota \in [App -> [Resource -> Quota]] /\ Longest \in Nat
  BY QuotaType, Numbers
<1>2. /\ window' = IF window = 1 THEN Window ELSE window - 1
      /\ quota' = [a \in App |-> [r \in Resource |-> Known(quota[a][r].left, Later(quota[a][r].ttl))]]
      /\ cooldown' = [a \in App |-> Later(cooldown[a])]
  BY DEF PassTime
<1>3. window' \in 1 .. Window
  BY <1>1, <1>2
<1>4. ASSUME NEW t \in 0 .. Longest PROVE Later(t) \in 0 .. Longest /\ (t > 0 => Later(t) = t - 1) /\ (t = 0 => Later(t) = 0)
  BY <1>1 DEF Later, Most
<1>5. cooldown' \in [App -> 0 .. Longest]
  BY <1>1, <1>2, <1>4
<1>6. ASSUME NEW a \in App, NEW r \in Resource
      PROVE  /\ quota'[a][r] \in Quota
             /\ quota[a][r].ttl > 1 => quota'[a][r].left = quota[a][r].left /\ quota'[a][r].ttl = quota[a][r].ttl - 1
             /\ quota[a][r].ttl <= 1 => quota'[a][r].left # 0
             /\ quota[a][r].left \in Nat /\ quota[a][r].ttl \in Nat
  <2> DEFINE left == quota[a][r].left
             ttl  == quota[a][r].ttl
  <2>1. left \in 0 .. Full /\ ttl \in 0 .. Longest /\ quota'[a][r] = Known(left, Later(ttl))
    BY <1>2, QuotaType
  <2> HIDE DEF left, ttl
  <2>2. Later(ttl) \in 0 .. Longest /\ (ttl > 0 => Later(ttl) = ttl - 1) /\ (ttl = 0 => Later(ttl) = 0)
    BY <1>4, <2>1
  <2>3. /\ quota'[a][r] \in Quota
        /\ Later(ttl) > 0 => quota'[a][r].left = left /\ quota'[a][r].ttl = Later(ttl)
        /\ Later(ttl) = 0 => quota'[a][r].left # 0
    BY <2>1, <2>2, KnownType
  <2> QED
    BY <1>1, <2>1, <2>2, <2>3, Numbers DEF left, ttl
<1>7. quota' \in [App -> [Resource -> Quota]]
  BY <1>2, <1>6
<1>8. /\ budget' \in [App -> [Resource -> 0 .. Full]] /\ refusals' \in [App -> [Resource -> Nat]] /\ faults' = faults
      /\ window = 1 => \A a \in App, r \in Resource : refusals'[a][r] = 0
      /\ window > 1 => refusals' = refusals
  BY <1>1, Numbers DEF PassTime, LimitsTypeOK
<1>9. LimitsTypeOK'
  BY <1>3, <1>5, <1>7, <1>8 DEF LimitsTypeOK, Quota
<1>10. ASSUME NEW a \in App, NEW r \in Resource
       PROVE  /\ Exhausted(a, r) /\ quota[a][r].ttl > 1 => Exhausted(a, r)'
              /\ Exhausted(a, r)' => Exhausted(a, r)
              /\ window > 1 => Spent(a, r)' <=> Spent(a, r)
  BY <1>1, <1>2, <1>6 DEF Exhausted, Spent
<1> QED
  BY <1>1, <1>2, <1>8, <1>9, <1>10

-----------------------------------------------------------------------------
LEMMA TheOne == \A x : The({x}) = x
BY DEF The

\* The app of a choice is eligible and usable, and counts as tried.
LEMMA Chosen ==
  ASSUME NEW tried \in SUBSET App, NEW r \in Resource, NEW s \in Selections(tried, r)
  PROVE  /\ s.app \in App \ tried /\ ~Limited(s.app, r) /\ Usable(s.app, r)
         /\ s.tried \in SUBSET App /\ tried \subseteq s.tried /\ s.app \in s.tried
<1> DEFINE able == {a \in Eligible(tried, r) : Usable(a, r)}
           passed(a) == {b \in Eligible(tried, r) \ able : quota[b][r].left > quota[a][r].left}
<1>1. Selections(tried, r) = {[app |-> a, tried |-> tried \cup passed(a) \cup {a}] : a \in Richest(able, r)}
  BY DEF Selections
<1>2. PICK a \in Richest(able, r) : s = [app |-> a, tried |-> tried \cup passed(a) \cup {a}]
  BY <1>1
<1>3. a \in able /\ able \subseteq App \ tried
  BY DEF Richest, Eligible
<1> QED
  BY <1>2, <1>3 DEF Eligible

-----------------------------------------------------------------------------
\* The operations of a step.
LEMMA OneMoves ==
  ASSUME op \in [Op -> OpType], NEW p \in Op, NEW o, SetOp(p, o)
  PROVE  /\ op'[p] = o /\ \A q \in Op : q # p => op'[q] = op[q]
         /\ o \in OpType => op' \in [Op -> OpType]
BY DEF SetOp

LEMMA TypeOfIdle ==
  /\ Idle \in OpType
  /\ \A pc \in {"idle", "done", "failed"} :
       /\ End(pc) \in OpType /\ End(pc).pc = pc /\ End(pc).app = {} /\ End(pc).tried = {} /\ End(pc).answer = {}
BY DEF Idle, End, OpType, Optional

LEMMA TypeOfOp ==
  ASSUME NEW o \in OpType
  PROVE  /\ o.tried \in SUBSET App /\ o.answer \in Optional(Answer) /\ o.app \in Optional(App)
         /\ o.pc \in {"idle", "chosen", "wait", "refused", "again", "done", "failed"} \cup Waiting
         /\ o.app # {} => The(o.app) \in App /\ o.app = {The(o.app)}
         /\ o.answer # {} => The(o.answer) \in Answer /\ o.answer = {The(o.answer)}
<1>1. /\ o.tried \in SUBSET App /\ o.answer \in Optional(Answer) /\ o.app \in Optional(App)
      /\ o.pc \in {"idle", "chosen", "wait", "refused", "again", "done", "failed"} \cup Waiting
  BY DEF OpType
<1>2. ASSUME NEW S, NEW x \in Optional(S), x # {} PROVE The(x) \in S /\ x = {The(x)}
  BY <1>2, TheOne DEF Optional
<1> QED
  BY <1>1, <1>2

LEMMA TypeOfClient ==
  ASSUME NEW p \in Op, op[p] \in OpType
  PROVE  /\ WithClient(p) \in OpType /\ WithClient(p).answer = {}
         /\ p = Setup => WithClient(p) = End("done")
         /\ p # Setup => WithClient(p).pc = "send" /\ WithClient(p).app = op[p].app /\ WithClient(p).tried = op[p].tried
<1>1. CASE p = Setup
  BY <1>1, TypeOfIdle DEF WithClient
<1>2. CASE p # Setup
  BY <1>2 DEF WithClient, OpType, Waiting, Optional
<1> QED
  BY <1>1, <1>2

\* What each action does to its operation.
LEMMA SelectMoves ==
  ASSUME Types, NEW p \in Op, Select(p)
  PROVE  /\ Selecting(p) /\ UNCHANGED <<limitVars, wants, clients>>
         /\ op' \in [Op -> OpType] /\ \A q \in Op : q # p => op'[q] = op[q]
         /\ \/ op'[p] = End("failed")
            \/ \E a \in App \ op[p].tried :
                 /\ ~Limited(a, wants[p]) /\ Usable(a, wants[p])
                 /\ op'[p].pc = "chosen" /\ op'[p].app = {a} /\ op'[p].answer = {}
                 /\ op[p].tried \subseteq op'[p].tried /\ a \in op'[p].tried
<1> DEFINE choices == Selections(op[p].tried, wants[p])
<1>1. op[p] \in OpType /\ op[p].tried \in SUBSET App /\ wants[p] \in Resource /\ op \in [Op -> OpType]
  BY TypeOfOp DEF Types
<1>2. CASE choices = {} /\ SetOp(p, End("failed"))
  BY <1>1, <1>2, OneMoves, TypeOfIdle DEF Select
<1>3. CASE \E s \in choices : SetOp(p, [Idle EXCEPT !.pc = "chosen", !.app = {s.app}, !.tried = s.tried])
  <2>1. PICK s \in choices : SetOp(p, [Idle EXCEPT !.pc = "chosen", !.app = {s.app}, !.tried = s.tried])
    BY <1>3
  <2> DEFINE a == s.app
             t == s.tried
             o == [Idle EXCEPT !.pc = "chosen", !.app = {a}, !.tried = t]
  <2>2. /\ a \in App \ op[p].tried /\ ~Limited(a, wants[p]) /\ Usable(a, wants[p])
        /\ t \in SUBSET App /\ op[p].tried \subseteq t /\ a \in t
    BY <1>1, Chosen
  <2> HIDE DEF a, t
  <2>3. o \in OpType /\ o.pc = "chosen" /\ o.app = {a} /\ o.tried = t /\ o.answer = {}
    BY <2>2 DEF Idle, OpType, Optional
  <2>4. SetOp(p, o)
    BY <2>1 DEF a, t
  <2> HIDE DEF o
  <2>5. op'[p] = o /\ op' \in [Op -> OpType] /\ \A q \in Op : q # p => op'[q] = op[q]
    BY <1>1, <2>3, <2>4, OneMoves
  <2> QED
    BY <2>2, <2>3, <2>5 DEF Select
<1> QED
  BY <1>2, <1>3 DEF Select

LEMMA UseAppMoves ==
  ASSUME Types, Shapes, NEW p \in Op, UseApp(p)
  PROVE  /\ op[p].pc = "chosen" /\ op[p].answer = {} /\ UNCHANGED <<limitVars, wants>>
         /\ op' \in [Op -> OpType] /\ \A q \in Op : q # p => op'[q] = op[q]
         /\ \E a \in App :
              /\ Uses(op[p], a) /\ op'[p].answer = {}
              /\ \/ op'[p] = End("done") \/ (op'[p].app = {a} /\ op'[p].tried = op[p].tried)
              /\ \/ clients[a] = "ready" /\ op'[p] = WithClient(p) /\ clients' = clients
                 \/ clients[a] = "pending" /\ op'[p].pc = "wait" /\ op'[p].app = {a} /\ clients' = clients
                 \/ /\ clients[a] = "none" /\ Makes(op'[p], a)
                    /\ clients' = [clients EXCEPT ![a] = "pending"]
<1> DEFINE a == The(op[p].app)
           o == IF clients[a] = "ready" THEN WithClient(p)
                ELSE IF clients[a] = "pending" THEN [op[p] EXCEPT !.pc = "wait"]
                ELSE [op[p] EXCEPT !.pc = IF a \in Stored THEN "mint" ELSE "lookup", !.looked = a \notin Stored]
<1>1. op[p] \in OpType /\ op \in [Op -> OpType] /\ op[p].pc = "chosen"
  BY DEF Types, UseApp
<1>2. Shape(op[p])
  BY DEF Shapes
<1>3. a \in App /\ op[p].app = {a} /\ op[p].answer = {}
  BY <1>1, <1>2, TypeOfOp DEF Shape, Free
<1>4. clients[a] \in {"none", "pending", "ready"}
  BY <1>3 DEF Types, ClientType
<1>5. SetOp(p, o) /\ clients' = IF clients[a] = "none" THEN [clients EXCEPT ![a] = "pending"] ELSE clients
  BY <1>4 DEF UseApp
<1> HIDE DEF a
<1>6. /\ o \in OpType /\ o.answer = {}
      /\ o = End("done") \/ (o.app = {a} /\ o.tried = op[p].tried)
      /\ clients[a] = "ready" => o = WithClient(p)
      /\ clients[a] = "pending" => o.pc = "wait" /\ o.app = {a}
      /\ clients[a] = "none" => o.pc \in {"lookup", "mint"} /\ o.app = {a}
  <2>1. CASE clients[a] = "ready"
    BY <1>1, <1>3, <2>1, TypeOfClient
  <2>2. CASE clients[a] = "pending"
    BY <1>1, <1>3, <2>2 DEF OpType
  <2>3. CASE clients[a] = "none"
    BY <1>1, <1>3, <2>3 DEF OpType, Waiting
  <2> QED
    BY <1>4, <2>1, <2>2, <2>3
<1> HIDE DEF o
<1>7. op'[p] = o /\ op' \in [Op -> OpType] /\ \A q \in Op : q # p => op'[q] = op[q]
  BY <1>1, <1>5, <1>6, OneMoves
<1>8. UNCHANGED <<limitVars, wants>>
  BY DEF UseApp
<1> QED
  BY <1>1, <1>3, <1>4, <1>5, <1>6, <1>7, <1>8 DEF Uses, Makes

LEMMA LookUpMoves ==
  ASSUME Types, NEW p \in Op, LookUp(p)
  PROVE  /\ op[p].pc \in {"lookup", "mint"} /\ Says(op[p], {"ok", "stale"}) /\ UNCHANGED <<limitVars, wants, clients>>
         /\ op' \in [Op -> OpType] /\ \A q \in Op : q # p => op'[q] = op[q]
         /\ op'[p].pc \in {"lookup", "mint"} /\ op'[p].answer = {}
         /\ op'[p].app = op[p].app /\ op'[p].tried = op[p].tried
<1>1. op[p] \in OpType /\ op \in [Op -> OpType]
  BY DEF Types
<1> DEFINE m == [op[p] EXCEPT !.pc = "mint", !.answer = {}]
           l == [op[p] EXCEPT !.pc = "lookup", !.looked = TRUE, !.answer = {}]
<1>2. /\ m \in OpType /\ m.pc = "mint" /\ m.answer = {} /\ m.app = op[p].app /\ m.tried = op[p].tried
      /\ l \in OpType /\ l.pc = "lookup" /\ l.answer = {} /\ l.app = op[p].app /\ l.tried = op[p].tried
  BY <1>1 DEF OpType, Waiting, Optional
<1>3. /\ op[p].pc \in {"lookup", "mint"} /\ Says(op[p], {"ok", "stale"}) /\ UNCHANGED <<limitVars, wants, clients>>
      /\ SetOp(p, m) \/ SetOp(p, l)
  BY DEF LookUp, Answered, Says
<1> HIDE DEF m, l
<1>4. CASE SetOp(p, m)
  BY <1>1, <1>2, <1>3, <1>4, OneMoves
<1>5. CASE SetOp(p, l)
  BY <1>1, <1>2, <1>3, <1>5, OneMoves
<1> QED
  BY <1>3, <1>4, <1>5

\* GitHub answers: the request is refused for want of budget, or it is not.
LEMMA GitHubMoves ==
  ASSUME Types, Shapes, NEW p \in Op, GitHub(p)
  PROVE  /\ op[p].pc \in Waiting /\ op[p].answer = {}
         /\ UNCHANGED <<window, quota, cooldown, wants, clients>> /\ LimitsTypeOK'
         /\ op' \in [Op -> OpType] /\ \A q \in Op : q # p => op'[q] = op[q]
         /\ op'[p].pc = op[p].pc /\ op'[p].app = op[p].app /\ op'[p].tried = op[p].tried
         /\ op'[p].answer # {} /\ NotRenewed
         /\ \E a \in App, r \in Resource :
              /\ Uses(op[p], a) /\ r = ResourceOf(p)
              /\ \A x \in Answer : op'[p].answer = {x} => Truth(a, x)'
              /\ \/ refusals' = refusals
                 \/ /\ refusals' = [refusals EXCEPT ![a][r] = @ + 1]
                    /\ Reports(op'[p], a, r, window)
<1> DEFINE a == The(op[p].app)
           r == ResourceOf(p)
           left == budget'[a][r]
<1>1. op[p] \in OpType /\ op \in [Op -> OpType] /\ op[p].pc \in Waiting /\ op[p].answer = {}
  BY DEF Types, GitHub
<1>2. Shape(op[p]) /\ op[p].pc \notin Free
  BY <1>1 DEF Shapes, Waiting, Free
<1>3. a \in App /\ op[p].app = {a} /\ r \in Resource
  BY <1>1, <1>2, TypeOfOp DEF Shape, ResourceOf, Types, Resource
<1>4. /\ budget \in [App -> [Resource -> 0 .. Full]] /\ window \in 1 .. Window
      /\ refusals \in [App -> [Resource -> Nat]] /\ faults \in 0 .. MaxFaults
      /\ Full \in Nat /\ Window \in Nat /\ RetryAfter \in Nat /\ MaxFaults \in Nat
  BY Numbers, RateLimitAssumption DEF Types, LimitsTypeOK
<1>5. ASSUME NEW kind \in {"ok", "error", "stale", "primary", "secondary"}, NEW after \in {0, RetryAfter},
             left \in 0 .. Full, Answers(p, kind, after)
      PROVE  /\ op' \in [Op -> OpType] /\ \A q \in Op : q # p => op'[q] = op[q]
             /\ op'[p].pc = op[p].pc /\ op'[p].app = op[p].app /\ op'[p].tried = op[p].tried
             /\ op'[p].answer # {}
             /\ kind = "primary" => Reports(op'[p], a, r, window)
             /\ LET y == The(op'[p].answer) IN
                y.kind = kind /\ y.res = r /\ y.left = left /\ y.reset = window
  <2> DEFINE x == [kind |-> kind, res |-> r, left |-> left, reset |-> window, after |-> after]
             o == [op[p] EXCEPT !.answer = {x}]
  <2>1. SetOp(p, o)
    BY <1>5 DEF Answers
  <2>2. x \in Answer
    <3>1. window \in 0 .. Window /\ after \in 0 .. RetryAfter
      BY <1>4
    <3> HIDE DEF r, left
    <3> QED
      BY <1>3, <1>5, <3>1 DEF Answer
  <2>3. x.kind = kind /\ x.res = r /\ x.reset = window /\ x.left = left
    OBVIOUS
  <2> HIDE DEF x
  <2>4. /\ o \in OpType /\ o.answer = {x} /\ o.pc = op[p].pc /\ o.app = op[p].app /\ o.tried = op[p].tried
    BY <1>1, <2>2 DEF OpType, Optional
  <2> HIDE DEF o
  <2>5. op'[p] = o /\ op' \in [Op -> OpType] /\ \A q \in Op : q # p => op'[q] = op[q]
    BY <1>1, <2>1, <2>4, OneMoves
  <2>6. The(o.answer) = x /\ o.answer # {}
    BY <2>4, TheOne
  <2> HIDE DEF a, r, left
  <2> QED
    BY <1>3, <2>3, <2>4, <2>5, <2>6 DEF Reports, Uses, Says
<1>6. /\ UNCHANGED <<window, quota, cooldown, wants, clients>>
      /\ \/ /\ budget[a][r] > 0 /\ budget' = [budget EXCEPT ![a][r] = @ - 1] /\ refusals' = refusals
            /\ \E kind \in {"ok", "error", "stale"} : Answers(p, kind, 0)
            /\ Fault \/ faults' = faults
         \/ /\ budget[a][r] = 0 /\ budget' = budget /\ faults' = faults
            /\ refusals' = [refusals EXCEPT ![a][r] = @ + 1]
            /\ Answers(p, "primary", 0)
         \/ /\ Fault /\ budget' = budget /\ refusals' = refusals
            /\ \E d \in {0, RetryAfter} : Answers(p, "secondary", d)
  BY DEF GitHub
<1> HIDE DEF a, r, left
<1>7. faults' \in 0 .. MaxFaults
  BY <1>4, <1>6 DEF Fault
<1>8. budget' \in [App -> [Resource -> 0 .. Full]] /\ refusals' \in [App -> [Resource -> Nat]]
  <2>1. budget' = budget \/ (budget[a][r] > 0 /\ budget' = [budget EXCEPT ![a][r] = @ - 1])
    BY <1>6
  <2>2. budget[a][r] > 0 => budget[a][r] - 1 \in 0 .. Full
    BY <1>3, <1>4
  <2>3. refusals' = refusals \/ refusals' = [refusals EXCEPT ![a][r] = @ + 1]
    BY <1>6
  <2>4. budget' \in [App -> [Resource -> 0 .. Full]]
    <3>1. CASE budget' = budget
      BY <1>4, <3>1
    <3>2. CASE budget[a][r] > 0 /\ budget' = [budget EXCEPT ![a][r] = @ - 1]
      BY <1>3, <1>4, <2>2, <3>2
    <3> QED
      BY <2>1, <3>1, <3>2
  <2>5. refusals' \in [App -> [Resource -> Nat]]
    <3>1. CASE refusals' = refusals
      BY <1>4, <3>1
    <3>2. CASE refusals' = [refusals EXCEPT ![a][r] = @ + 1]
      BY <1>3, <1>4, <3>2
    <3> QED
      BY <2>3, <3>1, <3>2
  <2> QED
    BY <2>4, <2>5
<1>9. LimitsTypeOK' /\ left \in 0 .. Full
  BY <1>3, <1>6, <1>7, <1>8 DEF Types, LimitsTypeOK, left
<1>10. NotRenewed
  <2>1. CASE budget' = budget
    BY <2>1 DEF NotRenewed
  <2>2. CASE budget[a][r] > 0 /\ budget' = [budget EXCEPT ![a][r] = @ - 1]
    BY <1>3, <1>4, <2>2 DEF NotRenewed
  <2> QED
    BY <1>6, <2>1, <2>2
<1>11. ASSUME NEW b \in App, b = a, NEW x \in Answer, op'[p].answer = {x}
       PROVE  Truth(b, x)'
  <2>1. PICK kind \in {"ok", "error", "stale", "primary", "secondary"} :
           /\ \E d \in {0, RetryAfter} : Answers(p, kind, d)
           /\ kind = "primary" => budget[a][r] = 0 /\ budget' = budget
    BY <1>6
  <2>2. The(op'[p].answer) = x
    BY <1>11, TheOne
  <2>3. x.kind = kind /\ x.res = r /\ x.left = left /\ x.reset = window
    BY <1>5, <1>9, <2>1, <2>2
  <2>4. left = budget'[b][r] /\ window' = window
    BY <1>6, <1>11 DEF left
  <2>5. /\ x.reset \in {0, window'}
        /\ x.left = 0 /\ x.reset > 0 => budget'[b][x.res] = 0
        /\ x.kind = "primary" => x.left = 0
    BY <1>11, <2>1, <2>3, <2>4
  <2> QED
    BY <2>5 DEF Truth
<1>12. /\ op' \in [Op -> OpType] /\ \A q \in Op : q # p => op'[q] = op[q]
       /\ op'[p].pc = op[p].pc /\ op'[p].app = op[p].app /\ op'[p].tried = op[p].tried
       /\ op'[p].answer # {}
       /\ \/ refusals' = refusals
          \/ refusals' = [refusals EXCEPT ![a][r] = @ + 1] /\ Reports(op'[p], a, r, window)
  BY <1>5, <1>6, <1>9
<1>13. Uses(op[p], a) /\ r = ResourceOf(p)
  BY <1>3 DEF Uses, r
<1>14. \E b \in App, s \in Resource :
         /\ Uses(op[p], b) /\ s = ResourceOf(p)
         /\ \A x \in Answer : op'[p].answer = {x} => Truth(b, x)'
         /\ \/ refusals' = refusals
            \/ refusals' = [refusals EXCEPT ![b][s] = @ + 1] /\ Reports(op'[p], b, s, window)
  <2>1. PICK b \in App : b = a
    BY <1>3
  <2>2. \A x \in Answer : op'[p].answer = {x} => Truth(b, x)'
    BY <1>11, <2>1
  <2> QED
    BY <1>3, <1>12, <1>13, <2>1, <2>2
<1> QED
  BY <1>1, <1>6, <1>9, <1>10, <1>12, <1>14

\* The client is made: those that share it go on with their requests.
LEMMA ReadyMoves ==
  ASSUME Types, Shapes, NEW p \in Op, ClientReady(p)
  PROVE  /\ Says(op[p], {"ok"}) /\ UNCHANGED <<limitVars, wants>>
         /\ op' \in [Op -> OpType]
         /\ \E a \in App :
              /\ Makes(op[p], a) /\ clients' = [clients EXCEPT ![a] = "ready"]
              /\ \A q \in Op :
                   IF q = p \/ (Uses(op[q], a) /\ op[q].pc = "wait")
                   THEN op'[q] = WithClient(q) ELSE op'[q] = op[q]
<1> DEFINE a == The(op[p].app)
<1>1. /\ op[p] \in OpType /\ op \in [Op -> OpType] /\ op[p].pc = "mint" /\ Says(op[p], {"ok"})
      /\ clients' = [clients EXCEPT ![a] = "ready"] /\ UNCHANGED <<limitVars, wants>>
      /\ op' = [q \in Op |-> IF q \in Sharing(p) THEN WithClient(q) ELSE op[q]]
  BY DEF Types, ClientReady, Answered, Says
<1>2. a \in App /\ op[p].app = {a}
  BY <1>1, TypeOfOp DEF Shapes, Shape, Free
<1>3. op' \in [Op -> OpType]
  <2>1. \A q \in Op : (IF q \in Sharing(p) THEN WithClient(q) ELSE op[q]) \in OpType
    BY <1>1, TypeOfClient
  <2> QED
    BY <1>1, <2>1
<1> HIDE DEF a
<1>4. \A q \in Op : q \in Sharing(p) <=> (q = p \/ (Uses(op[q], a) /\ op[q].pc = "wait"))
  BY <1>2 DEF Sharing, Uses
<1> QED
  BY <1>1, <1>2, <1>3, <1>4 DEF Makes, Uses

\* It cannot be made: those that share it are refused alike.
LEMMA FailsMoves ==
  ASSUME Types, Shapes, NEW p \in Op, ClientFails(p)
  PROVE  /\ Turned(op[p]) /\ UNCHANGED <<limitVars, wants>>
         /\ op' \in [Op -> OpType]
         /\ \E a \in App :
              /\ Makes(op[p], a) /\ clients' = [clients EXCEPT ![a] = "none"]
              /\ \A q \in Op :
                   IF q = p \/ (Uses(op[q], a) /\ op[q].pc = "wait")
                   THEN /\ op'[q].pc = "refused" /\ op'[q].answer = op[p].answer
                        /\ op'[q].app = {a} /\ op'[q].tried = op[q].tried
                   ELSE op'[q] = op[q]
<1> DEFINE a == The(op[p].app)
           o(q) == [op[q] EXCEPT !.pc = "refused", !.answer = op[p].answer]
<1>1. /\ op[p] \in OpType /\ op \in [Op -> OpType] /\ op[p].pc \in {"lookup", "mint"} /\ Turned(op[p])
      /\ clients' = [clients EXCEPT ![a] = "none"] /\ UNCHANGED <<limitVars, wants>>
      /\ op' = [q \in Op |-> IF q \in Sharing(p) THEN o(q) ELSE op[q]]
  BY DEF Types, ClientFails, Answered, Turned, Says
<1>2. a \in App /\ op[p].app = {a}
  BY <1>1, TypeOfOp DEF Shapes, Shape, Free
<1>3. ASSUME NEW q \in Op
      PROVE  /\ o(q) \in OpType /\ o(q).pc = "refused" /\ o(q).answer = op[p].answer
             /\ o(q).app = op[q].app /\ o(q).tried = op[q].tried
  <2>1. op[q] \in OpType /\ op[p].answer \in Optional(Answer)
    BY <1>1, TypeOfOp
  <2> QED
    BY <2>1 DEF OpType
<1> HIDE DEF a, o
<1>4. op' \in [Op -> OpType]
  BY <1>1, <1>3
<1>5. \A q \in Op : q \in Sharing(p) <=> (q = p \/ (Uses(op[q], a) /\ op[q].pc = "wait"))
  BY <1>2 DEF Sharing, Uses
<1>6. ASSUME NEW q \in Op
      PROVE  IF q = p \/ (Uses(op[q], a) /\ op[q].pc = "wait")
             THEN /\ op'[q].pc = "refused" /\ op'[q].answer = op[p].answer
                  /\ op'[q].app = {a} /\ op'[q].tried = op[q].tried
             ELSE op'[q] = op[q]
  <2>1. CASE q \in Sharing(p)
    <3>1. op'[q] = o(q)
      BY <1>1, <2>1
    <3>2. op[q].app = {a}
      BY <1>2, <1>5, <2>1 DEF Uses
    <3> QED
      BY <1>3, <1>5, <2>1, <3>1, <3>2
  <2>2. CASE q \notin Sharing(p)
    <3>1. op'[q] = op[q]
      BY <1>1, <2>2
    <3> QED
      BY <1>5, <2>2, <3>1
  <2> QED
    BY <2>1, <2>2
<1>7. Makes(op[p], a)
  BY <1>1, <1>2 DEF Makes, Uses
<1> QED
  BY <1>1, <1>2, <1>4, <1>6, <1>7

\* An answer is reported, and its operation ends or selects again.
LEMMA ReportMoves ==
  ASSUME Types, Shapes, NEW p \in Op, Served(p) \/ Refused(p)
  PROVE  /\ op[p].pc \in {"send", "refused"} /\ UNCHANGED <<githubVars, faults, wants, clients>>
         /\ op' \in [Op -> OpType] /\ \A q \in Op : q # p => op'[q] = op[q]
         /\ op'[p].app = {} /\ op'[p].answer = {}
         /\ op'[p].pc \in Over \/ (op'[p].pc = "again" /\ op'[p].tried = op[p].tried)
         /\ \E a \in App, x \in Answer : Uses(op[p], a) /\ op[p].answer = {x} /\ Report(a, x)
<1> DEFINE x == The(op[p].answer)
           a == The(op[p].app)
           again == [Idle EXCEPT !.pc = "again", !.tried = op[p].tried]
<1>1. /\ op[p] \in OpType /\ op \in [Op -> OpType] /\ op[p].pc \in {"send", "refused"} /\ op[p].answer # {}
      /\ UNCHANGED <<githubVars, faults, wants, clients>> /\ Report(a, x)
      /\ SetOp(p, End("done")) \/ SetOp(p, End("failed")) \/ SetOp(p, again)
  BY DEF Types, Served, Refused, Answered
<1>2. a \in App /\ op[p].app = {a} /\ x \in Answer /\ op[p].answer = {x}
  BY <1>1, TypeOfOp DEF Shapes, Shape, Free
<1>3. again \in OpType /\ again.pc = "again" /\ again.app = {} /\ again.answer = {} /\ again.tried = op[p].tried
  <2>1. op[p].tried \in SUBSET App
    BY <1>1, TypeOfOp
  <2> QED
    BY <2>1 DEF Idle, OpType, Optional
<1> HIDE DEF again, a, x
<1>4. PICK o \in {End("done"), End("failed"), again} : SetOp(p, o)
  BY <1>1
<1>5. /\ o \in OpType /\ o.app = {} /\ o.answer = {}
      /\ o.pc \in Over \/ (o.pc = "again" /\ o.tried = op[p].tried)
  BY <1>3, TypeOfIdle DEF Over
<1>6. op'[p] = o /\ op' \in [Op -> OpType] /\ \A q \in Op : q # p => op'[q] = op[q]
  BY <1>1, <1>4, <1>5, OneMoves
<1> QED
  BY <1>1, <1>2, <1>5, <1>6 DEF Uses

\* Time passes: the answers grow old.
LEMMA TickMoves ==
  ASSUME Types, Tick
  PROVE  /\ PassTime /\ UNCHANGED <<wants, clients>> /\ op' \in [Op -> OpType]
         /\ \A p \in Op :
              IF op[p].answer = {} THEN op'[p] = op[p]
              ELSE /\ op'[p].pc = op[p].pc /\ op'[p].app = op[p].app /\ op'[p].tried = op[p].tried
                   /\ op'[p].answer # {}
                   /\ LET x == The(op[p].answer)
                          y == The(op'[p].answer) IN
                      y.kind = x.kind /\ y.res = x.res /\ y.left = x.left /\ y.reset = Later(x.reset)
<1> DEFINE x(p) == The(op[p].answer)
           y(p) == Older(x(p))
           o(p) == [op[p] EXCEPT !.answer = {y(p)}]
<1>1. /\ PassTime /\ UNCHANGED <<wants, clients>> /\ op \in [Op -> OpType]
      /\ op' = [p \in Op |-> IF op[p].answer = {} THEN op[p] ELSE o(p)]
  BY DEF Types, Tick
<1>2. ASSUME NEW p \in Op, op[p].answer # {}
      PROVE  /\ o(p) \in OpType /\ o(p).pc = op[p].pc /\ o(p).app = op[p].app /\ o(p).tried = op[p].tried
             /\ o(p).answer = {y(p)}
             /\ y(p).kind = x(p).kind /\ y(p).res = x(p).res /\ y(p).left = x(p).left
             /\ y(p).reset = Later(x(p).reset)
  <2>1. op[p] \in OpType /\ x(p) \in Answer
    BY <1>1, <1>2, TypeOfOp
  <2> DEFINE t == Later(x(p).reset)
  <2>2. t \in 0 .. Window
    BY <2>1, Numbers DEF Answer, Later, Most
  <2>3. y(p) = [x(p) EXCEPT !.reset = t]
    BY <2>1 DEF Answer, Older
  <2> HIDE DEF t, x
  <2>4. /\ y(p) \in Answer /\ y(p).kind = x(p).kind /\ y(p).res = x(p).res /\ y(p).left = x(p).left
        /\ y(p).reset = t
    BY <2>1, <2>2, <2>3 DEF Answer
  <2> HIDE DEF y
  <2>5. /\ o(p) \in OpType /\ o(p).pc = op[p].pc /\ o(p).app = op[p].app /\ o(p).tried = op[p].tried
        /\ o(p).answer = {y(p)}
    BY <2>1, <2>4 DEF OpType, Optional
  <2> QED
    BY <2>4, <2>5 DEF t
<1> HIDE DEF o, y
<1>3. op' \in [Op -> OpType]
  BY <1>1, <1>2
<1>4. ASSUME NEW p \in Op, op[p].answer # {}
      PROVE  op'[p] = o(p) /\ op'[p].answer # {} /\ The(op'[p].answer) = y(p)
  BY <1>1, <1>2, <1>4, TheOne
<1> QED
  BY <1>1, <1>2, <1>3, <1>4

LEMMA RestartMoves ==
  ASSUME Types, Shapes, SetupOK, Restart
  PROVE  /\ UNCHANGED <<limitVars, wants>> /\ clients' = [a \in App |-> "none"] /\ op' = [p \in Op |-> Idle]
         /\ \A p \in Op : op[p].app = {}
<1>1. ASSUME NEW p \in Op PROVE op[p].pc \in Free
  <2>1. CASE op[Setup].pc = "done"
    BY <1>1, <2>1 DEF Restart, Ended, Free, Op
  <2>2. CASE op[Setup].pc # "done"
    <3>1. op[Setup].pc = "failed" /\ \A q \in Request : op[q] = Idle
      BY <2>2 DEF Restart, Ended, SetupOK
    <3>2. Idle.pc = "idle"
      BY DEF Idle
    <3> QED
      BY <1>1, <3>1, <3>2 DEF Free, Op
  <2> QED
    BY <2>1, <2>2
<1> QED
  BY <1>1 DEF Restart, Shapes, Shape

LEMMA OthersMove ==
  ASSUME Types, NEW a \in App, NEW r \in Resource, OthersUse(a, r)
  PROVE  LimitsTypeOK' /\ NotRenewed /\ UNCHANGED <<window, refusals, quota, cooldown>>
<1>1. /\ budget \in [App -> [Resource -> 0 .. Full]] /\ faults \in 0 .. MaxFaults
      /\ Full \in Nat /\ MaxFaults \in Nat /\ budget[a][r] > 0
      /\ budget' = [budget EXCEPT ![a][r] = @ - 1] /\ faults > 0 /\ faults' = faults - 1
      /\ UNCHANGED <<window, refusals, quota, cooldown>>
  BY Numbers, RateLimitAssumption DEF Types, LimitsTypeOK, OthersUse, Fault
<1>2. budget[a][r] - 1 \in 0 .. Full /\ faults' \in 0 .. MaxFaults
  BY <1>1
<1>3. budget' \in [App -> [Resource -> 0 .. Full]]
  BY <1>1, <1>2
<1>4. NotRenewed
  BY <1>1 DEF NotRenewed
<1> QED
  BY <1>1, <1>2, <1>3, <1>4 DEF Types, LimitsTypeOK

LEMMA LimitsUnchanged == LimitsTypeOK /\ UNCHANGED limitVars => LimitsTypeOK'
BY DEF limitVars, githubVars, LimitsTypeOK

\* Types are kept by every step.
LEMMA TypesStep == ASSUME Types, Shapes, SetupOK, [Next]_vars PROVE Types'
<1>1. /\ LimitsTypeOK /\ wants \in [Op -> Resource] /\ wants[Setup] = "core" /\ clients \in ClientType
      /\ op \in [Op -> OpType]
  BY DEF Types
<1>2. ASSUME NEW p \in Op, Step(p) \/ GitHub(p) PROVE Types'
  <2>1. CASE Select(p)
    BY <1>1, <2>1, SelectMoves, LimitsUnchanged DEF Types
  <2>2. CASE UseApp(p)
    <3>1. clients' \in ClientType
      BY <1>1, <2>2, UseAppMoves DEF ClientType
    <3> QED
      BY <1>1, <2>2, <3>1, UseAppMoves, LimitsUnchanged DEF Types
  <2>3. CASE LookUp(p)
    BY <1>1, <2>3, LookUpMoves, LimitsUnchanged DEF Types
  <2>4. CASE ClientReady(p)
    <3>1. clients' \in ClientType
      BY <1>1, <2>4, ReadyMoves DEF ClientType
    <3> QED
      BY <1>1, <2>4, <3>1, ReadyMoves, LimitsUnchanged DEF Types
  <2>5. CASE ClientFails(p)
    <3>1. clients' \in ClientType
      BY <1>1, <2>5, FailsMoves DEF ClientType
    <3> QED
      BY <1>1, <2>5, <3>1, FailsMoves, LimitsUnchanged DEF Types
  <2>6. CASE Served(p) \/ Refused(p)
    <3>1. PICK a \in App, x \in Answer : Report(a, x)
      BY <2>6, ReportMoves
    <3>2. LimitsTypeOK'
      BY <1>1, <2>6, <3>1, ReportKeeps, ReportMoves
    <3> QED
      BY <1>1, <2>6, <3>2, ReportMoves DEF Types
  <2>7. CASE GitHub(p)
    BY <1>1, <2>7, GitHubMoves DEF Types
  <2> QED
    BY <1>2, <2>1, <2>2, <2>3, <2>4, <2>5, <2>6, <2>7 DEF Step
<1>3. CASE Restart
  <2>1. op' \in [Op -> OpType] /\ clients' \in ClientType
    BY <1>3, RestartMoves, TypeOfIdle DEF ClientType
  <2> QED
    BY <1>1, <1>3, <2>1, RestartMoves, LimitsUnchanged DEF Types
<1>4. CASE Tick
  BY <1>1, <1>4, TickMoves, TimeKeeps DEF Types
<1>5. ASSUME NEW a \in App, NEW r \in Resource, OthersUse(a, r), UNCHANGED failoverVars PROVE Types'
  BY <1>1, <1>5, OthersMove DEF Types, failoverVars
<1>6. CASE UNCHANGED vars
  BY <1>1, <1>6, LimitsUnchanged DEF Types, vars, failoverVars
<1> QED
  BY <1>2, <1>3, <1>4, <1>5, <1>6 DEF Next

\* The shape of an operation is kept.
LEMMA ShapesStep == ASSUME Types, Shapes, SetupOK, [Next]_vars PROVE Shapes'
<1>1. \A p \in Op : Shape(op[p]) /\ op[p] \in OpType
  BY DEF Types, Shapes
<1>2. Shape(Idle) /\ Shape(End("done")) /\ Shape(End("failed"))
  BY DEF Shape, Idle, End, Free
<1>3. ASSUME NEW p \in Op, Step(p) \/ GitHub(p), NEW q \in Op PROVE Shape(op'[q])
  <2>1. CASE Select(p)
    BY <1>1, <1>2, <2>1, SelectMoves DEF Shape, Free
  <2>2. CASE UseApp(p)
    <3>1. CASE q = p /\ op'[q] # End("done")
      <4>1. op[p] \in OpType /\ Shape(op[p])
        BY <1>1
      <4>2. PICK a \in App :
              /\ Uses(op[p], a) /\ op'[p].answer = {} /\ op'[p].app = {a} /\ op'[p].tried = op[p].tried
              /\ op'[p] = WithClient(p) \/ op'[p].pc = "wait" \/ Makes(op'[p], a)
        BY <2>2, <3>1, UseAppMoves
      <4>3. op'[p].pc \in {"send", "wait", "lookup", "mint"}
        <5>1. CASE op'[p] = WithClient(p)
          BY <3>1, <4>1, <5>1, TypeOfClient
        <5>2. CASE op'[p].pc = "wait"
          BY <5>2
        <5>3. CASE Makes(op'[p], a)
          BY <5>3 DEF Makes
        <5> QED
          BY <4>2, <5>1, <5>2, <5>3
      <4>4. {a} \subseteq op'[p].tried
        BY <4>1, <4>2 DEF Shape, Uses
      <4> QED
        BY <3>1, <4>2, <4>3, <4>4 DEF Shape, Free
    <3> QED
      BY <1>1, <1>2, <2>2, <3>1, UseAppMoves
  <2>3. CASE LookUp(p)
    BY <1>1, <2>3, LookUpMoves DEF Shape, Free
  <2>4. CASE ClientReady(p)
    BY <1>1, <1>2, <2>4, ReadyMoves, TypeOfClient DEF Shape, Free, Makes
  <2>5. CASE ClientFails(p)
    <3>1. PICK a \in App :
            /\ Makes(op[p], a)
            /\ \A i \in Op :
                 IF i = p \/ (Uses(op[i], a) /\ op[i].pc = "wait")
                 THEN /\ op'[i].pc = "refused" /\ op'[i].answer = op[p].answer
                      /\ op'[i].app = {a} /\ op'[i].tried = op[i].tried
                 ELSE op'[i] = op[i]
      BY <2>5, FailsMoves
    <3>2. CASE q = p \/ (Uses(op[q], a) /\ op[q].pc = "wait")
      <4>1. op'[q].answer = op[p].answer /\ Turned(op[p])
        BY <2>5, <3>1, <3>2, FailsMoves
      <4>2. op'[q].pc = "refused" /\ op'[q].app = {a} /\ {a} \subseteq op'[q].tried
        BY <1>1, <3>1, <3>2 DEF Shape, Makes, Uses
      <4> QED
        BY <4>1, <4>2 DEF Shape, Free, Turned, Says
    <3> QED
      BY <1>1, <3>1, <3>2
  <2>6. CASE Served(p) \/ Refused(p)
    BY <1>1, <2>6, ReportMoves DEF Shape, Free, Over
  <2>7. CASE GitHub(p)
    BY <1>1, <2>7, GitHubMoves DEF Shape, Free, Waiting
  <2> QED
    BY <1>3, <2>1, <2>2, <2>3, <2>4, <2>5, <2>6, <2>7 DEF Step
<1>4. CASE Restart
  BY <1>2, <1>4, RestartMoves DEF Shapes
<1>5. ASSUME Tick, NEW q \in Op PROVE Shape(op'[q])
  BY <1>1, <1>5, TickMoves DEF Shape, Free, Turned, Says
<1>6. CASE UNCHANGED op
  BY <1>6 DEF Shapes
<1> QED
  BY <1>3, <1>4, <1>5, <1>6 DEF Next, Shapes, vars, failoverVars

\* A client that a step does not change, as its operations do not.
LEMMA ClientKept ==
  ASSUME NEW a \in App, ClientOK(a), clients'[a] = clients[a],
         \A q \in Op : /\ Makes(op'[q], a) <=> Makes(op[q], a)
                       /\ Uses(op'[q], a) /\ op'[q].pc = "wait" => clients[a] = "pending"
                       /\ Uses(op'[q], a) /\ op'[q].pc = "send" => clients[a] = "ready"
  PROVE  ClientOK(a)'
BY DEF ClientOK

LEMMA ClientsStep == ASSUME Types, Shapes, Clients, SetupOK, [Next]_vars PROVE Clients'
<1>1. \A p \in Op : Shape(op[p]) /\ op[p] \in OpType
  BY DEF Types, Shapes
<1>2. clients \in ClientType /\ \A a \in App : ClientOK(a)
  BY DEF Types, Clients
<1>3. ASSUME NEW p \in Op, Step(p) \/ GitHub(p), NEW a \in App PROVE ClientOK(a)'
  <2>0. /\ clients[a] = "pending" => \E q \in Op : Makes(op[q], a)
        /\ \A q \in Op : Makes(op[q], a) => clients[a] = "pending"
        /\ \A q, s \in Op : Makes(op[q], a) /\ Makes(op[s], a) => q = s
        /\ \A q \in Op : Uses(op[q], a) /\ op[q].pc = "wait" => clients[a] = "pending"
        /\ \A q \in Op : Uses(op[q], a) /\ op[q].pc = "send" => clients[a] = "ready"
    BY <1>2 DEF ClientOK
  <2>1. CASE Select(p)
    <3>1. op[p].pc \in {"idle", "again"} /\ op'[p].pc \in {"failed", "chosen"} /\ clients' = clients
          /\ \A q \in Op : q # p => op'[q] = op[q]
      BY <2>1, SelectMoves, TypeOfIdle DEF Selecting
    <3>2. \A q \in Op : /\ Makes(op'[q], a) <=> Makes(op[q], a)
                        /\ Uses(op'[q], a) /\ op'[q].pc = "wait" => clients[a] = "pending"
                        /\ Uses(op'[q], a) /\ op'[q].pc = "send" => clients[a] = "ready"
      BY <2>0, <3>1 DEF Makes
    <3> QED
      BY <1>2, <3>1, <3>2, ClientKept
  <2>2. CASE UseApp(p)
    <3>1. PICK b \in App :
              /\ Uses(op[p], b)
              /\ \/ op'[p] = End("done") \/ (op'[p].app = {b} /\ op'[p].tried = op[p].tried)
              /\ \/ clients[b] = "ready" /\ op'[p] = WithClient(p) /\ clients' = clients
                 \/ clients[b] = "pending" /\ op'[p].pc = "wait" /\ op'[p].app = {b} /\ clients' = clients
                 \/ /\ clients[b] = "none" /\ Makes(op'[p], b)
                    /\ clients' = [clients EXCEPT ![b] = "pending"]
      BY <2>2, UseAppMoves
    <3>2. op[p].pc = "chosen" /\ \A q \in Op : q # p => op'[q] = op[q]
      BY <2>2, UseAppMoves
    <3>3. CASE a = b /\ clients[b] = "none"
      <4>1. clients'[a] = "pending" /\ Makes(op'[p], a)
        BY <1>2, <3>1, <3>3 DEF ClientType
      <4>2. \A q \in Op : ~Makes(op[q], a) /\ ~(Uses(op[q], a) /\ op[q].pc = "wait") /\ ~(Uses(op[q], a) /\ op[q].pc = "send")
        BY <2>0, <3>3
      <4>3. op'[p].pc \notin {"wait", "send"}
        BY <4>1 DEF Makes
      <4> QED
        BY <3>2, <4>1, <4>2, <4>3 DEF ClientOK
    <3>4. CASE ~(a = b /\ clients[b] = "none")
      <4>1. clients'[a] = clients[a]
        BY <1>2, <3>1, <3>4 DEF ClientType
      <4>2. op'[p] # End("done") => Uses(op'[p], b)
        BY <3>1 DEF Uses
      <4>3. End("done").pc = "done" /\ End("done").app = {}
        BY TypeOfIdle
      <4>4. Uses(op'[p], a) => a = b
        BY <4>2, <4>3 DEF Uses
      <4>5. ~Makes(op[p], a)
        BY <3>2 DEF Makes
      <4>6. a = b => clients[a] \in {"ready", "pending"}
        BY <1>2, <3>1, <3>4
      <4>7. WithClient(p).pc \in {"done", "send"}
        BY <1>1, TypeOfClient, TypeOfIdle
      <4>8. /\ ~Makes(op'[p], a)
            /\ Uses(op'[p], a) /\ op'[p].pc = "wait" => clients[a] = "pending"
            /\ Uses(op'[p], a) /\ op'[p].pc = "send" => clients[a] = "ready"
        BY <3>1, <4>4, <4>6, <4>7 DEF Makes
      <4>9. \A q \in Op : /\ Makes(op'[q], a) <=> Makes(op[q], a)
                          /\ Uses(op'[q], a) /\ op'[q].pc = "wait" => clients[a] = "pending"
                          /\ Uses(op'[q], a) /\ op'[q].pc = "send" => clients[a] = "ready"
        BY <2>0, <3>2, <4>5, <4>8
      <4> QED
        BY <1>2, <4>1, <4>9, ClientKept
    <3> QED
      BY <3>3, <3>4
  <2>3. CASE LookUp(p)
    <3>1. /\ op[p].pc \in {"lookup", "mint"} /\ op'[p].pc \in {"lookup", "mint"} /\ op'[p].app = op[p].app
          /\ clients' = clients /\ \A q \in Op : q # p => op'[q] = op[q]
      BY <2>3, LookUpMoves
    <3>2. \A q \in Op : /\ Makes(op'[q], a) <=> Makes(op[q], a)
                        /\ Uses(op'[q], a) /\ op'[q].pc = "wait" => clients[a] = "pending"
                        /\ Uses(op'[q], a) /\ op'[q].pc = "send" => clients[a] = "ready"
      BY <2>0, <3>1 DEF Makes, Uses
    <3> QED
      BY <1>2, <3>1, <3>2, ClientKept
  <2>4. CASE ClientReady(p)
    <3>1. PICK b \in App :
              /\ Makes(op[p], b) /\ clients' = [clients EXCEPT ![b] = "ready"]
              /\ \A q \in Op :
                   IF q = p \/ (Uses(op[q], b) /\ op[q].pc = "wait")
                   THEN op'[q] = WithClient(q) ELSE op'[q] = op[q]
      BY <2>4, ReadyMoves
    <3>2. \A q \in Op : /\ WithClient(q).pc \in {"done", "send"}
                        /\ WithClient(q).pc = "send" => WithClient(q).app = op[q].app
      BY <1>1, TypeOfClient, TypeOfIdle
    <3>3. CASE a = b
      <4>1. clients'[a] = "ready"
        BY <1>2, <3>1, <3>3 DEF ClientType
      <4>2. ASSUME NEW q \in Op PROVE ~Makes(op'[q], a) /\ ~(Uses(op'[q], a) /\ op'[q].pc = "wait")
        <5>1. CASE q = p \/ (Uses(op[q], b) /\ op[q].pc = "wait")
          BY <3>1, <3>2, <5>1 DEF Makes
        <5>2. CASE ~(q = p \/ (Uses(op[q], b) /\ op[q].pc = "wait"))
          BY <2>0, <3>1, <3>3, <5>2
        <5> QED
          BY <5>1, <5>2
      <4> QED
        BY <4>1, <4>2 DEF ClientOK
    <3>4. CASE a # b
      <4>1. clients'[a] = clients[a]
        BY <1>2, <3>1, <3>4 DEF ClientType
      <4>2. ASSUME NEW q \in Op PROVE op'[q] = op[q] \/ (~Uses(op'[q], a) /\ ~Uses(op[q], a)) \/ (op'[q].pc = "done" /\ ~Uses(op[q], a))
        BY <3>1, <3>2, <3>4 DEF Makes, Uses
      <4>3. ASSUME NEW q \in Op
            PROVE  /\ Makes(op'[q], a) <=> Makes(op[q], a)
                   /\ Uses(op'[q], a) /\ op'[q].pc = "wait" => clients[a] = "pending"
                   /\ Uses(op'[q], a) /\ op'[q].pc = "send" => clients[a] = "ready"
        BY <2>0, <4>2 DEF Makes
      <4> QED
        BY <1>2, <4>1, <4>3, ClientKept
    <3> QED
      BY <3>3, <3>4
  <2>5. CASE ClientFails(p)
    <3>1. PICK b \in App :
              /\ Makes(op[p], b) /\ clients' = [clients EXCEPT ![b] = "none"]
              /\ \A q \in Op :
                   IF q = p \/ (Uses(op[q], b) /\ op[q].pc = "wait")
                   THEN /\ op'[q].pc = "refused" /\ op'[q].answer = op[p].answer
                        /\ op'[q].app = {b} /\ op'[q].tried = op[q].tried
                   ELSE op'[q] = op[q]
      BY <2>5, FailsMoves
    <3>2. CASE a = b
      <4>1. clients'[a] = "none"
        BY <1>2, <3>1, <3>2 DEF ClientType
      <4>2. ASSUME NEW q \in Op
            PROVE  ~Makes(op'[q], a) /\ ~(Uses(op'[q], a) /\ op'[q].pc = "wait") /\ ~(Uses(op'[q], a) /\ op'[q].pc = "send")
        <5>1. CASE q = p \/ (Uses(op[q], b) /\ op[q].pc = "wait")
          BY <3>1, <5>1 DEF Makes
        <5>2. CASE ~(q = p \/ (Uses(op[q], b) /\ op[q].pc = "wait"))
          BY <2>0, <3>1, <3>2, <5>2
        <5> QED
          BY <5>1, <5>2
      <4> QED
        BY <4>1, <4>2 DEF ClientOK
    <3>3. CASE a # b
      <4>1. clients'[a] = clients[a]
        BY <1>2, <3>1, <3>3 DEF ClientType
      <4>2. ASSUME NEW q \in Op PROVE op'[q] = op[q] \/ (~Uses(op'[q], a) /\ ~Uses(op[q], a))
        BY <3>1, <3>3 DEF Makes, Uses
      <4>3. ASSUME NEW q \in Op
            PROVE  /\ Makes(op'[q], a) <=> Makes(op[q], a)
                   /\ Uses(op'[q], a) /\ op'[q].pc = "wait" => clients[a] = "pending"
                   /\ Uses(op'[q], a) /\ op'[q].pc = "send" => clients[a] = "ready"
        BY <2>0, <4>2 DEF Makes
      <4> QED
        BY <1>2, <4>1, <4>3, ClientKept
    <3> QED
      BY <3>2, <3>3
  <2>6. CASE Served(p) \/ Refused(p)
    <3>1. /\ op[p].pc \in {"send", "refused"} /\ op'[p].app = {} /\ clients' = clients
          /\ \A q \in Op : q # p => op'[q] = op[q]
      BY <2>6, ReportMoves
    <3>2. \A q \in Op : /\ Makes(op'[q], a) <=> Makes(op[q], a)
                        /\ Uses(op'[q], a) /\ op'[q].pc = "wait" => clients[a] = "pending"
                        /\ Uses(op'[q], a) /\ op'[q].pc = "send" => clients[a] = "ready"
      BY <2>0, <3>1 DEF Makes, Uses
    <3> QED
      BY <1>2, <3>1, <3>2, ClientKept
  <2>7. CASE GitHub(p)
    <3>1. /\ op'[p].pc = op[p].pc /\ op'[p].app = op[p].app /\ clients' = clients
          /\ \A q \in Op : q # p => op'[q] = op[q]
      BY <2>7, GitHubMoves
    <3>2. \A q \in Op : /\ Makes(op'[q], a) <=> Makes(op[q], a)
                        /\ Uses(op'[q], a) /\ op'[q].pc = "wait" => clients[a] = "pending"
                        /\ Uses(op'[q], a) /\ op'[q].pc = "send" => clients[a] = "ready"
      BY <2>0, <3>1 DEF Makes, Uses
    <3> QED
      BY <1>2, <3>1, <3>2, ClientKept
  <2> QED
    BY <1>3, <2>1, <2>2, <2>3, <2>4, <2>5, <2>6, <2>7 DEF Step
<1>4. ASSUME Restart, NEW a \in App PROVE ClientOK(a)'
  <2>1. clients'[a] = "none" /\ \A p \in Op : op'[p] = Idle
    BY <1>4, RestartMoves
  <2>2. Idle.app = {}
    BY DEF Idle
  <2> QED
    BY <2>1, <2>2 DEF ClientOK, Makes, Uses
<1>5. ASSUME Tick, NEW a \in App PROVE ClientOK(a)'
  <2>1. clients' = clients /\ \A p \in Op : op'[p].pc = op[p].pc /\ op'[p].app = op[p].app
    BY <1>5, TickMoves
  <2> QED
    BY <1>2, <2>1 DEF ClientOK, Makes, Uses
<1>6. ASSUME UNCHANGED <<op, clients>>, NEW a \in App PROVE ClientOK(a)'
  BY <1>2, <1>6 DEF ClientOK
<1> QED
  BY <1>3, <1>4, <1>5, <1>6 DEF Next, Clients, vars, failoverVars

\* The first client is made before any request begins.
LEMMA SetupStep == ASSUME Types, Shapes, SetupOK, [Next]_vars PROVE SetupOK'
<1>1. Setup \in Op /\ wants[Setup] = "core" /\ op[Setup] \in OpType /\ clients \in ClientType
  BY DEF Op, Types
<1>2. ASSUME op[Setup].pc # "done"
      PROVE  /\ \A p \in Request : op[p] = Idle
             /\ \A a \in App : clients[a] # "none" => Makes(op[Setup], a)
             /\ \A a \in App : Uses(op[Setup], a) => ~Exhausted(a, "core")
  BY <1>2 DEF SetupOK
<1>3. ASSUME NEW p \in Request, Step(p) \/ GitHub(p) PROVE SetupOK'
  <2>1. op[Setup].pc = "done" /\ p \in Op /\ p # Setup
    <3>1. p \in Op /\ p # Setup
      BY FailoverAssumption DEF Op, Setup
    <3>2. op[p] = Idle => op[Setup].pc = "done"
      <4>1. Idle.pc = "idle" /\ Idle.answer = {}
        BY DEF Idle
      <4>2. CASE Select(p)
        BY <3>1, <4>1, <4>2 DEF Select, Selecting
      <4>3. CASE ~Select(p)
        <5>1. op[p].pc \in {"chosen"} \cup Waiting \/ op[p].answer # {}
          BY <1>3, <4>3 DEF Step, UseApp, LookUp, ClientReady, ClientFails, Served, Refused, GitHub, Answered
        <5> QED
          BY <4>1, <5>1 DEF Waiting
      <4> QED
        BY <4>2, <4>3
    <3> QED
      BY <1>2, <3>1, <3>2
  <2>2. op'[Setup] = op[Setup]
    <3>1. op[Setup].pc # "wait"
      BY <2>1
    <3>2. CASE ClientReady(p)
      <4>1. PICK a \in App : \A q \in Op :
              IF q = p \/ (Uses(op[q], a) /\ op[q].pc = "wait") THEN op'[q] = WithClient(q) ELSE op'[q] = op[q]
        BY <2>1, <3>2, ReadyMoves
      <4> QED
        BY <1>1, <2>1, <3>1, <4>1
    <3>3. CASE ClientFails(p)
      <4>1. PICK a \in App : \A q \in Op :
              q = p \/ (Uses(op[q], a) /\ op[q].pc = "wait") \/ op'[q] = op[q]
        BY <2>1, <3>3, FailsMoves
      <4> QED
        BY <1>1, <2>1, <3>1, <4>1
    <3>4. CASE ~ClientReady(p) /\ ~ClientFails(p)
      <4>1. \A q \in Op : q # p => op'[q] = op[q]
        BY <1>3, <2>1, <3>4, SelectMoves, UseAppMoves, LookUpMoves, ReportMoves, GitHubMoves DEF Step
      <4> QED
        BY <1>1, <2>1, <4>1
    <3> QED
      BY <3>2, <3>3, <3>4
  <2> QED
    BY <2>1, <2>2 DEF SetupOK
<1>4. ASSUME Step(Setup) \/ GitHub(Setup) PROVE SetupOK'
  <2> DEFINE o == op[Setup]
             n == op'[Setup]
  <2>1. CASE o.pc = "done"
    <3>1. FALSE
      <4>1. Shape(o)
        BY <1>1 DEF Shapes
      <4>2. o.answer = {}
        BY <2>1, <4>1 DEF Shape, Free
      <4> QED
        BY <1>4, <2>1, <4>2 DEF Step, Select, Selecting, UseApp, LookUp, ClientReady, ClientFails, Served, Refused, GitHub, Answered, Waiting
    <3> QED
      BY <3>1
  <2>2. CASE o.pc # "done"
    <3>1. /\ \A p \in Request : op[p] = Idle
          /\ \A a \in App : clients[a] # "none" => Makes(o, a)
          /\ \A a \in App : Uses(o, a) => ~Exhausted(a, "core")
      BY <1>2, <2>2
    <3>2. Idle.pc = "idle" /\ Idle.app = {} /\ \A p \in Request : p \in Op /\ p # Setup
      BY FailoverAssumption DEF Idle, Op, Setup
    <3>3. SUFFICES ASSUME n.pc # "done"
                   PROVE  /\ \A p \in Request : op'[p] = Idle
                          /\ \A a \in App : clients'[a] # "none" => Makes(n, a)
                          /\ \A a \in App : Uses(n, a) => ~Exhausted(a, "core")'
      BY DEF SetupOK
    <3>4. CASE Select(Setup)
      <4>1. /\ o.pc \in {"idle", "again"} /\ UNCHANGED <<limitVars, clients>>
            /\ \A q \in Op : q # Setup => op'[q] = op[q]
            /\ n.app = {} \/ \E a \in App : ~Limited(a, "core") /\ n.app = {a}
        BY <1>1, <3>4, SelectMoves, TypeOfIdle DEF Selecting
      <4>2. \A a \in App : clients'[a] = "none"
        BY <3>1, <4>1 DEF Makes
      <4>3. ASSUME NEW a \in App, Uses(n, a) PROVE ~Exhausted(a, "core")'
        <5>1. ~Limited(a, "core") /\ quota' = quota
          BY <4>1, <4>3 DEF Uses, limitVars
        <5> QED
          BY <5>1 DEF Limited, Exhausted
      <4> QED
        BY <3>1, <3>2, <4>1, <4>2, <4>3
    <3>5. CASE UseApp(Setup)
      <4>1. PICK b \in App :
              /\ Uses(o, b)
              /\ \/ n = End("done") \/ (n.app = {b} /\ n.tried = op[Setup].tried)
              /\ \/ clients[b] = "ready" /\ n = WithClient(Setup) /\ clients' = clients
                 \/ clients[b] = "pending" /\ n.pc = "wait" /\ n.app = {b} /\ clients' = clients
                 \/ /\ clients[b] = "none" /\ Makes(n, b)
                    /\ clients' = [clients EXCEPT ![b] = "pending"]
        BY <1>1, <3>5, UseAppMoves
      <4>2. o.pc = "chosen" /\ UNCHANGED limitVars /\ \A q \in Op : q # Setup => op'[q] = op[q]
        BY <1>1, <3>5, UseAppMoves
      <4>3. \A a \in App : clients[a] = "none"
        BY <3>1, <4>2 DEF Makes
      <4>4. Makes(n, b) /\ clients' = [clients EXCEPT ![b] = "pending"]
        BY <4>1, <4>3
      <4>5. \A a \in App : clients'[a] # "none" => a = b
        BY <1>1, <4>3, <4>4 DEF ClientType
      <4>6. \A a \in App : Uses(n, a) => a = b
        BY <4>4 DEF Makes, Uses
      <4>7. ~Exhausted(b, "core")'
        <5>1. ~Exhausted(b, "core") /\ quota' = quota
          BY <3>1, <4>1, <4>2 DEF limitVars
        <5> QED
          BY <5>1 DEF Exhausted
      <4> QED
        BY <3>1, <3>2, <4>2, <4>4, <4>5, <4>6, <4>7
    <3>6. CASE LookUp(Setup) \/ GitHub(Setup)
      <4>1. /\ n.app = o.app /\ UNCHANGED <<quota, clients>> /\ \A q \in Op : q # Setup => op'[q] = op[q]
            /\ n.pc = o.pc \/ n.pc \in {"lookup", "mint"}
        BY <1>1, <3>6, LookUpMoves, GitHubMoves DEF limitVars
      <4>2. \A a \in App : (Exhausted(a, "core")' <=> Exhausted(a, "core")) /\ (Makes(o, a) => Makes(n, a)) /\ (Uses(n, a) <=> Uses(o, a))
        BY <4>1 DEF Exhausted, Makes, Uses
      <4> QED
        BY <3>1, <3>2, <4>1, <4>2
    <3>7. CASE ClientReady(Setup)
      <4>1. n = WithClient(Setup)
        BY <1>1, <3>7, ReadyMoves
      <4> QED
        BY <1>1, <3>3, <4>1, TypeOfClient, TypeOfIdle
    <3>8. CASE ClientFails(Setup)
      <4>1. PICK b \in App :
              /\ Makes(o, b) /\ clients' = [clients EXCEPT ![b] = "none"] /\ n.app = {b}
              /\ \A q \in Op : q = Setup \/ op[q].pc = "wait" \/ op'[q] = op[q]
        BY <1>1, <3>8, FailsMoves
      <4>2. \A a \in App : clients'[a] = "none"
        <5>1. \A a \in App : clients[a] # "none" => a = b
          BY <3>1, <4>1 DEF Makes, Uses
        <5> QED
          BY <1>1, <4>1, <5>1 DEF ClientType
      <4>3. \A a \in App : Uses(n, a) => Uses(o, a)
        BY <4>1 DEF Makes, Uses
      <4>4. \A p \in Request : op'[p] = Idle
        BY <3>1, <3>2, <4>1
      <4>5. quota' = quota
        BY <1>1, <3>8, FailsMoves DEF limitVars
      <4> QED
        BY <3>1, <4>2, <4>3, <4>4, <4>5 DEF Exhausted
    <3>9. CASE Served(Setup) \/ Refused(Setup)
      <4>1. /\ o.pc \in {"send", "refused"} /\ n.app = {} /\ clients' = clients
            /\ \A q \in Op : q # Setup => op'[q] = op[q]
        BY <1>1, <3>9, ReportMoves
      <4> QED
        BY <3>1, <3>2, <4>1 DEF Makes, Uses
    <3> QED
      BY <1>4, <3>4, <3>5, <3>6, <3>7, <3>8, <3>9 DEF Step
  <2> QED
    BY <2>1, <2>2
<1>5. CASE Restart
  <2>1. clients' = [a \in App |-> "none"] /\ op' = [p \in Op |-> Idle]
    BY <1>5, RestartMoves
  <2>2. Idle.app = {} /\ Request \subseteq Op
    BY DEF Idle, Op
  <2> QED
    BY <1>1, <2>1, <2>2 DEF SetupOK, Uses
<1>6. CASE Tick
  <2>1. /\ clients' = clients /\ \A p \in Op : op'[p].pc = op[p].pc /\ op'[p].app = op[p].app
        /\ \A p \in Op : op[p].answer = {} => op'[p] = op[p]
        /\ \A a \in App : Exhausted(a, "core")' => Exhausted(a, "core")
    BY <1>6, TickMoves, TimeKeeps DEF Types, Resource
  <2>2. Idle.answer = {} /\ Request \subseteq Op
    BY DEF Idle, Op
  <2> QED
    BY <1>1, <1>2, <2>1, <2>2 DEF SetupOK, Makes, Uses
<1>7. CASE UNCHANGED <<op, clients, quota>>
  BY <1>2, <1>7 DEF SetupOK, Exhausted
<1> QED
  BY <1>3, <1>4, <1>5, <1>6, <1>7 DEF Next, Op, OthersUse, vars, limitVars, failoverVars

-----------------------------------------------------------------------------
\* How often an app is refused.

LEMMA FiniteRequests == IsFiniteSet(Request) /\ Cardinality(Request) \in Nat /\ Cardinality(Request) >= 1 /\ IsFiniteSet(Op)
<1>1. IsFiniteSet(Request) /\ Cardinality(Request) \in Nat
  BY FailoverAssumption, FS_CardinalityType
<1>2. Cardinality(Request) # 0
  BY <1>1, FailoverAssumption, FS_EmptySet
<1>3. IsFiniteSet({Setup})
  BY FS_Singleton
<1>4. IsFiniteSet(Op)
  BY <1>1, <1>3, FS_Union DEF Op
<1> QED
  BY <1>1, <1>2, <1>4

LEMMA SmallerSet ==
  ASSUME NEW S, NEW T, IsFiniteSet(T), S \subseteq T
  PROVE  IsFiniteSet(S) /\ Cardinality(S) \in Nat /\ Cardinality(T) \in Nat /\ Cardinality(S) <= Cardinality(T)
BY FS_Subset, FS_CardinalityType

LEMMA FiniteOps ==
  ASSUME NEW a \in App, NEW r \in Resource
  PROVE  /\ IsFiniteSet(Could(a, r)) /\ Cardinality(Could(a, r)) \in Nat /\ Cardinality(Could(a, r)) <= Cardinality(Request)
         /\ IsFiniteSet(Refusals(a, r)) /\ Cardinality(Refusals(a, r)) \in Nat
<1>1. Could(a, r) \subseteq Request /\ Refusals(a, r) \subseteq Op
  BY DEF Could, Refusals
<1> QED
  BY <1>1, FiniteRequests, SmallerSet

\* The same, of the next state.
LEMMA FiniteOpsNext ==
  ASSUME NEW a \in App, NEW r \in Resource
  PROVE  /\ IsFiniteSet(Could(a, r)') /\ Cardinality(Could(a, r)') \in Nat /\ Cardinality(Could(a, r)') <= Cardinality(Request)
         /\ IsFiniteSet(Refusals(a, r)') /\ Cardinality(Refusals(a, r)') \in Nat
<1>1. Could(a, r)' \subseteq Request /\ Refusals(a, r)' \subseteq Op
  BY DEF Could, Refusals
<1> QED
  BY <1>1, FiniteRequests, SmallerSet

LEMMA RefusalCount == Types => \A a \in App, r \in Resource : refusals[a][r] \in Nat
BY DEF Types, LimitsTypeOK

\* A step that learns nothing of the app keeps the bound when no more requests
\* can be refused, or, while the exhaustion is unknown, none is forgotten.
LEMMA BoundKept ==
  ASSUME Types, NEW a \in App, NEW r \in Resource, RefusalsOK(a, r),
         quota'[a][r] = quota[a][r], window' = window, refusals'[a][r] = refusals[a][r],
         Spent(a, r) => Could(a, r)' \subseteq Could(a, r),
         ~Spent(a, r) => Refusals(a, r) \subseteq Refusals(a, r)'
  PROVE  RefusalsOK(a, r)'
<1>1. Spent(a, r)' <=> Spent(a, r)
  BY DEF Spent
<1>2. CASE Spent(a, r)
  <2>1. Cardinality(Could(a, r)') <= Cardinality(Could(a, r))
    BY <1>2, FiniteOps, SmallerSet
  <2>2. refusals[a][r] + Cardinality(Could(a, r)) <= Cardinality(Request)
    BY <1>2 DEF RefusalsOK
  <2>3. refusals'[a][r] + Cardinality(Could(a, r)') <= Cardinality(Request)
    BY <2>1, <2>2, FiniteOps, FiniteOpsNext, FiniteRequests, RefusalCount
  <2> QED
    BY <1>1, <1>2, <2>3 DEF RefusalsOK
<1>3. CASE ~Spent(a, r)
  <2>1. Cardinality(Refusals(a, r)) <= Cardinality(Refusals(a, r)')
    BY <1>3, FiniteOpsNext, SmallerSet
  <2>2. refusals[a][r] <= Cardinality(Refusals(a, r))
    BY <1>3 DEF RefusalsOK
  <2>3. refusals'[a][r] <= Cardinality(Refusals(a, r)')
    BY <2>1, <2>2, FiniteOps, FiniteOpsNext, FiniteRequests, RefusalCount
  <2> QED
    BY <1>1, <1>3, <2>3 DEF RefusalsOK
<1> QED
  BY <1>2, <1>3

\* The requests that could be refused do not grow when each of them could be
\* refused before: it used the app, or had yet to try it.
LEMMA CouldShrinks ==
  ASSUME NEW a \in App, NEW r \in Resource, wants' = wants,
         \A q \in Op : Uses(op'[q], a) /\ ~Turned(op'[q]) =>
            \/ Uses(op[q], a) /\ ~Turned(op[q])
            \/ r = "core" /\ clients[a] # "none" /\ a \notin op[q].tried /\ op[q].pc \notin Over
            \/ r = "registration" /\ wants[q] # r,
         \A q \in Op : op'[q].pc \notin Over /\ a \notin op'[q].tried => op[q].pc \notin Over /\ a \notin op[q].tried,
         r = "core" /\ clients'[a] # "none" => Alive(a)
  PROVE  Could(a, r)' \subseteq Could(a, r)
<1>1. Request \subseteq Op
  BY DEF Op
<1>2. ASSUME r = "core", Alive(a)' PROVE Alive(a)
  BY <1>2 DEF Alive
<1>3. ASSUME NEW q \in Request, q \in Could(a, r)' PROVE q \in Could(a, r)
  <2>1. \/ Uses(op'[q], a) /\ ~Turned(op'[q]) /\ (r = "registration" => wants[q] = r)
        \/ r = "core" /\ op'[q].pc \notin Over /\ a \notin op'[q].tried /\ Alive(a)'
    BY <1>3 DEF Could
  <2>2. CASE Uses(op'[q], a) /\ ~Turned(op'[q]) /\ (r = "registration" => wants[q] = r)
    <3>1. \/ Uses(op[q], a) /\ ~Turned(op[q])
          \/ r = "core" /\ clients[a] # "none" /\ a \notin op[q].tried /\ op[q].pc \notin Over
      BY <1>1, <2>2
    <3> QED
      BY <2>2, <3>1 DEF Could, Alive
  <2>3. CASE r = "core" /\ op'[q].pc \notin Over /\ a \notin op'[q].tried /\ Alive(a)'
    BY <1>1, <1>2, <2>3 DEF Could
  <2> QED
    BY <2>1, <2>2, <2>3
<1> QED
  BY <1>3 DEF Could

\* How an operation o that no report is made of goes on to n.
Goes(o, n) ==
  /\ n.app \subseteq o.app
  /\ n.pc \in Over \/ (o.pc \notin Over /\ o.tried \subseteq n.tried)
  /\ Turned(o) /\ n.app # {} => Turned(n)
  /\ Says(o, {"primary"}) => n.app = o.app /\ n.answer = o.answer

\* Where that is all, and the clients made are of apps in use, the bound of an
\* app that is not refused is kept.
LEMMA BoundOfGoing ==
  ASSUME Types, \A q \in Op : Goes(op[q], op'[q]), op' \in [Op -> OpType], wants' = wants,
         UNCHANGED <<quota, window>>,
         NEW a \in App, NEW r \in Resource, RefusalsOK(a, r), refusals'[a][r] = refusals[a][r],
         clients'[a] # "none" => Alive(a)
  PROVE  RefusalsOK(a, r)'
<1>1. ASSUME NEW q \in Op, Uses(op'[q], a) PROVE Uses(op[q], a) /\ (~Turned(op'[q]) => ~Turned(op[q]))
  <2>1. op[q].app \in Optional(App) /\ op'[q].app = {a} /\ op'[q].app \subseteq op[q].app
    BY <1>1, TypeOfOp DEF Types, Goes, Uses
  <2>2. op[q].app = {a}
    BY <2>1 DEF Optional
  <2> QED
    BY <2>1, <2>2 DEF Goes, Uses
<1>2. \A q \in Op : op'[q].pc \notin Over /\ a \notin op'[q].tried => op[q].pc \notin Over /\ a \notin op[q].tried
  BY DEF Goes
<1>3. Could(a, r)' \subseteq Could(a, r)
  BY <1>1, <1>2, CouldShrinks
<1>4. Refusals(a, r) \subseteq Refusals(a, r)'
  BY DEF Refusals, Reports, Goes, Uses, Says
<1> QED
  BY <1>3, <1>4, BoundKept

LEMMA GoesOn == \A o : Goes(o, o)
BY DEF Goes

LEMMA SpentIsExhausted ==
  ASSUME Types, NEW a \in App, NEW r \in Resource
  PROVE  Spent(a, r) => Exhausted(a, r) /\ Limited(a, r)
<1>1. window \in 1 .. Window /\ quota[a][r].ttl \in 0 .. Longest
  BY QuotaType DEF Types
<1>2. window \in Nat /\ window > 0 /\ quota[a][r].ttl \in Nat
  BY <1>1, Numbers
<1> QED
  BY <1>2 DEF Spent, Exhausted, Limited

\* A selection takes no app that is known to be exhausted, and one whose core
\* requests are exhausted only when its client exists.
LEMMA SelectBound ==
  ASSUME Types, Shapes, NEW p \in Op, Select(p), NEW a \in App, NEW r \in Resource, RefusalsOK(a, r)
  PROVE  RefusalsOK(a, r)'
<1>1. /\ op[p].pc \in {"idle", "again"} /\ UNCHANGED <<limitVars, wants, clients>>
      /\ \A q \in Op : q # p => op'[q] = op[q]
      /\ \/ op'[p] = End("failed")
         \/ \E b \in App \ op[p].tried :
                 /\ ~Limited(b, wants[p]) /\ Usable(b, wants[p])
                 /\ op'[p].pc = "chosen" /\ op'[p].app = {b}
                 /\ op[p].tried \subseteq op'[p].tried
  BY SelectMoves DEF Selecting
<1>2. wants[p] \in Resource /\ op[p].app = {} /\ op[p].answer = {}
  BY <1>1 DEF Types, Shapes, Shape, Free
<1>3. End("failed").pc = "failed" /\ End("failed").app = {}
  BY TypeOfIdle
<1>4. ASSUME Spent(a, r) PROVE Could(a, r)' \subseteq Could(a, r)
  <2>1. ASSUME Uses(op'[p], a)
        PROVE  \/ r = "core" /\ clients[a] # "none" /\ a \notin op[p].tried /\ op[p].pc \notin Over
               \/ r = "registration" /\ wants[p] # r
    <3>1. a \in App \ op[p].tried /\ ~Limited(a, wants[p]) /\ Usable(a, wants[p])
      BY <1>1, <1>3, <2>1 DEF Uses
    <3>2. Limited(a, r)
      BY <1>4, SpentIsExhausted
    <3>3. wants[p] # r
      BY <3>1, <3>2
    <3>4. r = "core" => wants[p] = "registration" /\ clients[a] # "none"
      BY <1>2, <3>1, <3>2, <3>3 DEF Usable, Resource
    <3> QED
      BY <1>1, <3>1, <3>3, <3>4 DEF Over, Resource
  <2>2. op'[p].pc \notin Over /\ a \notin op'[p].tried => op[p].pc \notin Over /\ a \notin op[p].tried
    BY <1>1, <1>3 DEF Over
  <2>3. \A q \in Op : Uses(op'[q], a) /\ ~Turned(op'[q]) =>
            \/ Uses(op[q], a) /\ ~Turned(op[q])
            \/ r = "core" /\ clients[a] # "none" /\ a \notin op[q].tried /\ op[q].pc \notin Over
            \/ r = "registration" /\ wants[q] # r
    BY <1>1, <2>1
  <2>4. \A q \in Op : op'[q].pc \notin Over /\ a \notin op'[q].tried => op[q].pc \notin Over /\ a \notin op[q].tried
    BY <1>1, <2>2
  <2>5. wants' = wants /\ (clients'[a] # "none" => Alive(a))
    BY <1>1 DEF Alive
  <2> QED
    BY <2>3, <2>4, <2>5, CouldShrinks
<1>5. Refusals(a, r) \subseteq Refusals(a, r)'
  BY <1>1, <1>2 DEF Refusals, Reports, Uses, limitVars, githubVars
<1> QED
  BY <1>1, <1>4, <1>5, BoundKept DEF limitVars, githubVars

\* A refusal is one of those that can be expected.
LEMMA GitHubBound ==
  ASSUME Types, Shapes, SetupOK, NEW p \in Op, GitHub(p), NEW a \in App, NEW r \in Resource, RefusalsOK(a, r)
  PROVE  RefusalsOK(a, r)'
<1>1. /\ op[p].pc \in Waiting /\ op[p].answer = {}
      /\ UNCHANGED <<window, quota, wants, clients>>
      /\ op' \in [Op -> OpType] /\ \A q \in Op : q # p => op'[q] = op[q]
      /\ op'[p].pc = op[p].pc /\ op'[p].app = op[p].app /\ op'[p].tried = op[p].tried
  BY GitHubMoves
<1>2. Goes(op[p], op'[p])
  BY <1>1 DEF Goes, Turned, Says, Over, Waiting
<1>3. CASE refusals'[a][r] = refusals[a][r]
  <2>1. \A q \in Op : Goes(op[q], op'[q])
    BY <1>1, <1>2, GoesOn
  <2>2. clients'[a] # "none" => Alive(a)
    BY <1>1 DEF Alive
  <2> QED
    BY <1>1, <1>3, <2>1, <2>2, BoundOfGoing
<1>4. CASE refusals'[a][r] # refusals[a][r]
  <2>1. refusals \in [App -> [Resource -> Nat]]
    BY DEF Types, LimitsTypeOK
  <2>2. /\ Uses(op[p], a) /\ r = ResourceOf(p) /\ Reports(op'[p], a, r, window)
        /\ refusals'[a][r] = refusals[a][r] + 1
    <3>1. PICK b \in App, s \in Resource :
              /\ Uses(op[p], b) /\ s = ResourceOf(p)
              /\ \/ refusals' = refusals
                 \/ /\ refusals' = [refusals EXCEPT ![b][s] = @ + 1]
                    /\ Reports(op'[p], b, s, window)
      BY GitHubMoves
    <3>2. refusals' = [refusals EXCEPT ![b][s] = @ + 1] /\ Reports(op'[p], b, s, window)
      BY <1>4, <3>1
    <3>3. a = b /\ r = s
      BY <1>4, <2>1, <3>2
    <3> QED
      BY <2>1, <3>1, <3>2, <3>3
  <2>3. Turned(op'[p]) /\ a \in op[p].tried
    BY <1>1, <2>2 DEF Reports, Turned, Says, Bad, Shapes, Shape, Uses
  <2>4. CASE Spent(a, r)
    <3>1. p \in Request
      <4>1. SUFFICES ASSUME p = Setup PROVE FALSE
        BY DEF Op
      <4>2. r = "core"
        BY <2>2, <4>1 DEF ResourceOf, Types
      <4>3. ~Exhausted(a, "core")
        BY <1>1, <2>2, <4>1 DEF SetupOK, Waiting
      <4> QED
        BY <2>4, <4>2, <4>3, SpentIsExhausted
    <3>2. p \in Could(a, r)
      <4>1. ~Turned(op[p])
        BY <1>1 DEF Turned, Says
      <4>2. r = "registration" => wants[p] = r
        BY <2>2 DEF ResourceOf
      <4> QED
        BY <2>2, <3>1, <4>1, <4>2 DEF Could
    <3>3. Could(a, r)' \subseteq Could(a, r) \ {p}
      <4>1. Could(a, r)' \subseteq Could(a, r)
        <5>1. \A q \in Op : Uses(op'[q], a) /\ ~Turned(op'[q]) => Uses(op[q], a) /\ ~Turned(op[q])
          BY <1>1, <2>3
        <5>2. \A q \in Op : op'[q].pc \notin Over /\ a \notin op'[q].tried => op[q].pc \notin Over /\ a \notin op[q].tried
          BY <1>1
        <5>3. clients'[a] # "none" => Alive(a)
          BY <1>1 DEF Alive
        <5> QED
          BY <1>1, <5>1, <5>2, <5>3, CouldShrinks
      <4>2. p \notin Could(a, r)'
        BY <1>1, <2>3 DEF Could
      <4> QED
        BY <4>1, <4>2
    <3>4. Cardinality(Could(a, r)') <= Cardinality(Could(a, r)) - 1
      <4>1. IsFiniteSet(Could(a, r)) /\ Cardinality(Could(a, r) \ {p}) = Cardinality(Could(a, r)) - 1
        BY <3>2, FiniteOps, FS_RemoveElement
      <4>2. IsFiniteSet(Could(a, r) \ {p})
        BY <4>1, FS_RemoveElement
      <4>3. Cardinality(Could(a, r)') <= Cardinality(Could(a, r) \ {p})
        BY <3>3, <4>2, SmallerSet
      <4> QED
        BY <4>1, <4>3
    <3>5. refusals[a][r] + Cardinality(Could(a, r)) <= Cardinality(Request)
      BY <2>4 DEF RefusalsOK
    <3>6. refusals'[a][r] + Cardinality(Could(a, r)') <= Cardinality(Request)
      BY <2>2, <3>4, <3>5, FiniteOps, FiniteOpsNext, FiniteRequests, RefusalCount
    <3>7. Spent(a, r)'
      BY <1>1, <2>4 DEF Spent
    <3> QED
      BY <3>6, <3>7 DEF RefusalsOK
  <2>5. CASE ~Spent(a, r)
    <3>1. p \notin Refusals(a, r)
      BY <1>1 DEF Refusals, Reports, Says
    <3>2. Refusals(a, r) \cup {p} \subseteq Refusals(a, r)'
      BY <1>1, <2>2, <3>1 DEF Refusals
    <3>3. Cardinality(Refusals(a, r)) + 1 <= Cardinality(Refusals(a, r)')
      <4>1. Cardinality(Refusals(a, r) \cup {p}) = Cardinality(Refusals(a, r)) + 1
        BY <3>1, FiniteOps, FS_AddElement
      <4>2. Cardinality(Refusals(a, r) \cup {p}) <= Cardinality(Refusals(a, r)')
        BY <3>2, FiniteOpsNext, SmallerSet
      <4> QED
        BY <4>1, <4>2
    <3>4. refusals[a][r] <= Cardinality(Refusals(a, r))
      BY <2>5 DEF RefusalsOK
    <3>5. refusals'[a][r] <= Cardinality(Refusals(a, r)')
      BY <2>2, <3>3, <3>4, FiniteOps, FiniteOpsNext, RefusalCount
    <3>6. ~Spent(a, r)'
      BY <1>1, <2>5 DEF Spent
    <3> QED
      BY <3>5, <3>6 DEF RefusalsOK
  <2> QED
    BY <2>4, <2>5
<1> QED
  BY <1>3, <1>4

\* When the exhaustion becomes known, the refusals so far and those that can
\* still come are of different requests.
LEMMA Learned ==
  ASSUME Types, Shapes, SetupOK, NEW p \in Op, Served(p) \/ Refused(p),
         NEW a \in App, NEW r \in Resource, Uses(op[p], a)
  PROVE  Cardinality(Refusals(a, r)) + Cardinality(Could(a, r)') <= Cardinality(Request)
<1>1. /\ op[p].pc \in {"send", "refused"} /\ UNCHANGED <<wants, clients>>
      /\ \A q \in Op : q # p => op'[q] = op[q]
      /\ op'[p].app = {} /\ op'[p].answer = {}
      /\ op'[p].pc \in Over \/ (op'[p].pc = "again" /\ op'[p].tried = op[p].tried)
  BY ReportMoves
<1>2. a \in op[p].tried
  BY DEF Shapes, Shape, Uses
<1>3. CASE op[Setup].pc = "done"
  <2>1. Setup \notin Refusals(a, r)
    <3>1. op[Setup].app = {}
      BY <1>3 DEF Shapes, Shape, Free, Op
    <3> QED
      BY <3>1 DEF Refusals, Reports, Uses
  <2>2. Refusals(a, r) \subseteq Request /\ Could(a, r)' \subseteq Request
    BY <2>1 DEF Refusals, Op, Could
  <2>3. ASSUME NEW q \in Request, q \in Refusals(a, r) PROVE q \notin Could(a, r)'
    <3>1. q \in Op /\ Uses(op[q], a) /\ Turned(op[q]) /\ a \in op[q].tried
      BY <2>3 DEF Refusals, Reports, Turned, Says, Bad, Op, Shapes, Shape, Uses
    <3>2. CASE q = p
      BY <1>1, <1>2, <3>2 DEF Could, Uses
    <3>3. CASE q # p
      BY <1>1, <3>1, <3>3 DEF Could
    <3> QED
      BY <3>2, <3>3
  <2>4. Refusals(a, r) \cap Could(a, r)' = {}
    BY <2>2, <2>3
  <2> DEFINE R == Refusals(a, r)
             C == Could(a, r)'
  <2>5. IsFiniteSet(R) /\ IsFiniteSet(C) /\ R \cup C \subseteq Request
    BY <2>2, FiniteOps, FiniteOpsNext
  <2>6. R \cap C = {} /\ Cardinality(R) \in Nat /\ Cardinality(C) \in Nat
    BY <2>4, FiniteOps, FiniteOpsNext
  <2> HIDE DEF R, C
  <2>7. Cardinality(R \cup C) = Cardinality(R) + Cardinality(C) - Cardinality(R \cap C)
    BY <2>5, FS_Union
  <2>8. Cardinality(R \cap C) = 0
    BY <2>6, FS_EmptySet
  <2>9. Cardinality(R \cup C) <= Cardinality(Request)
    BY <2>5, FiniteRequests, SmallerSet
  <2>10. Cardinality(R) + Cardinality(C) <= Cardinality(Request)
    BY <2>6, <2>7, <2>8, <2>9
  <2> QED
    BY <2>10 DEF R, C
<1>4. CASE op[Setup].pc # "done"
  <2>1. /\ \A q \in Request : op[q] = Idle
        /\ \A b \in App : clients[b] # "none" => Makes(op[Setup], b)
    BY <1>4 DEF SetupOK
  <2>2. Idle.app = {}
    BY DEF Idle
  <2>3. p = Setup
    BY <2>1, <2>2 DEF Uses, Op
  <2>4. Refusals(a, r) \subseteq {Setup}
    BY <2>1, <2>2 DEF Refusals, Reports, Uses, Op
  <2>5. clients[a] = "none"
    BY <1>1, <2>1, <2>3 DEF Makes
  <2>6. \A q \in Op : op'[q].app = {}
    BY <1>1, <2>1, <2>2, <2>3 DEF Op
  <2>7. ~Alive(a)'
    BY <1>1, <2>5, <2>6 DEF Alive, Uses
  <2>8. Could(a, r)' = {}
    BY <2>6, <2>7 DEF Could, Uses, Op
  <2>9. Cardinality(Could(a, r)') = 0
    BY <2>8, FS_EmptySet
  <2>10. Cardinality(Refusals(a, r)) <= 1
    <3>1. IsFiniteSet({Setup}) /\ Cardinality({Setup}) = 1
      BY FS_Singleton
    <3> QED
      BY <2>4, <3>1, SmallerSet
  <2> QED
    BY <2>9, <2>10, FiniteOps, FiniteRequests
<1> QED
  BY <1>3, <1>4

LEMMA ReportBound ==
  ASSUME Types, Shapes, SetupOK, NEW p \in Op, Served(p) \/ Refused(p),
         NEW b \in App, NEW r \in Resource, RefusalsOK(b, r)
  PROVE  RefusalsOK(b, r)'
<1>1. /\ op[p].pc \in {"send", "refused"} /\ UNCHANGED <<githubVars, faults, wants, clients>>
      /\ op' \in [Op -> OpType] /\ \A q \in Op : q # p => op'[q] = op[q]
      /\ op'[p].app = {} /\ op'[p].answer = {}
      /\ op'[p].pc \in Over \/ (op'[p].pc = "again" /\ op'[p].tried = op[p].tried)
  BY ReportMoves
<1>2. PICK a \in App, x \in Answer : Uses(op[p], a) /\ op[p].answer = {x} /\ Report(a, x)
  BY ReportMoves
<1>3. /\ \A c \in App, s \in Resource :
              /\ Exhausted(c, s) => quota'[c][s].left = 0 /\ quota'[c][s].ttl >= quota[c][s].ttl
              /\ c # a \/ s # x.res => quota'[c][s] = quota[c][s]
      /\ x.kind = "primary" /\ x.reset = window => Spent(a, x.res)'
  BY <1>1, <1>2, ReportKeeps DEF Types
<1>4. window' = window /\ refusals' = refusals
  BY <1>1 DEF githubVars
<1>5. Could(b, r)' \subseteq Could(b, r)
  <2>1. \A q \in Op : Uses(op'[q], b) /\ ~Turned(op'[q]) => Uses(op[q], b) /\ ~Turned(op[q])
    BY <1>1 DEF Uses
  <2>2. \A q \in Op : op'[q].pc \notin Over /\ b \notin op'[q].tried => op[q].pc \notin Over /\ b \notin op[q].tried
    BY <1>1 DEF Over
  <2>3. clients'[b] # "none" => Alive(b)
    BY <1>1 DEF Alive
  <2> QED
    BY <1>1, <2>1, <2>2, <2>3, CouldShrinks
<1>6. ASSUME ~(a = b /\ x.res = r /\ x.kind = "primary" /\ x.reset = window)
      PROVE  Refusals(b, r) \subseteq Refusals(b, r)'
  <2>1. ~Reports(op[p], b, r, window)
    BY <1>2, <1>6, TheOne DEF Reports, Uses, Says
  <2> QED
    BY <1>1, <1>4, <2>1 DEF Refusals
<1>7. CASE b # a \/ r # x.res
  <2>1. quota'[b][r] = quota[b][r]
    BY <1>3, <1>7
  <2> QED
    BY <1>4, <1>5, <1>6, <1>7, <2>1, BoundKept
<1>8. CASE b = a /\ r = x.res
  <2>1. ASSUME Spent(b, r) PROVE Spent(b, r)'
    <3>1. quota'[b][r].left = 0 /\ quota'[b][r].ttl >= quota[b][r].ttl
      BY <1>3, <2>1, SpentIsExhausted
    <3>2. quota[b][r].ttl \in Nat /\ quota'[b][r].ttl \in Nat /\ window \in Nat
      <4>1. LimitsTypeOK /\ LimitsTypeOK'
        BY <1>1, <1>2, ReportKeeps DEF Types
      <4> QED
        BY <4>1, Numbers DEF LimitsTypeOK
    <3> QED
      BY <1>4, <2>1, <3>1, <3>2 DEF Spent
  <2>2. CASE Spent(b, r)
    <3>1. Cardinality(Could(b, r)') <= Cardinality(Could(b, r))
      BY <1>5, FiniteOps, SmallerSet
    <3>2. refusals[b][r] + Cardinality(Could(b, r)) <= Cardinality(Request)
      BY <2>2 DEF RefusalsOK
    <3>3. refusals'[b][r] + Cardinality(Could(b, r)') <= Cardinality(Request)
      BY <1>4, <3>1, <3>2, FiniteOps, FiniteOpsNext, FiniteRequests, RefusalCount
    <3> QED
      BY <2>1, <2>2, <3>3 DEF RefusalsOK
  <2>3. CASE ~Spent(b, r) /\ Spent(b, r)'
    <3>1. refusals[b][r] <= Cardinality(Refusals(b, r))
      BY <2>3 DEF RefusalsOK
    <3>2. Cardinality(Refusals(b, r)) + Cardinality(Could(b, r)') <= Cardinality(Request)
      BY <1>2, <1>8, Learned
    <3>3. refusals'[b][r] + Cardinality(Could(b, r)') <= Cardinality(Request)
      BY <1>4, <3>1, <3>2, FiniteOps, FiniteOpsNext, FiniteRequests, RefusalCount
    <3> QED
      BY <2>3, <3>3 DEF RefusalsOK
  <2>4. CASE ~Spent(b, r) /\ ~Spent(b, r)'
    <3>1. Refusals(b, r) \subseteq Refusals(b, r)'
      BY <1>3, <1>6, <1>8, <2>4
    <3>2. Cardinality(Refusals(b, r)) <= Cardinality(Refusals(b, r)')
      BY <3>1, FiniteOpsNext, SmallerSet
    <3>3. refusals[b][r] <= Cardinality(Refusals(b, r))
      BY <2>4 DEF RefusalsOK
    <3>4. refusals'[b][r] <= Cardinality(Refusals(b, r)')
      BY <1>4, <3>2, <3>3, FiniteOps, FiniteOpsNext, RefusalCount
    <3> QED
      BY <2>4, <3>4 DEF RefusalsOK
  <2> QED
    BY <2>1, <2>2, <2>3, <2>4
<1> QED
  BY <1>7, <1>8

\* A window ends, or its refusals and what is known of it grow old together.
LEMMA TickBound ==
  ASSUME Types, Shapes, Tick, NEW a \in App, NEW r \in Resource, RefusalsOK(a, r)
  PROVE  RefusalsOK(a, r)'
<1>1. /\ window = 1 => refusals'[a][r] = 0
      /\ window > 1 => window' = window - 1 /\ refusals' = refusals /\ (Spent(a, r)' <=> Spent(a, r))
  BY TickMoves, TimeKeeps DEF Types
<1>2. window \in Nat /\ window > 0
  <2>1. window \in 1 .. Window
    BY DEF Types, LimitsTypeOK
  <2> QED
    BY <2>1, Numbers
<1>3. CASE window = 1
  BY <1>1, <1>3, FiniteOpsNext DEF RefusalsOK
<1>4. CASE window > 1
  <2>1. /\ UNCHANGED <<wants, clients>>
        /\ \A p \in Op :
              IF op[p].answer = {} THEN op'[p] = op[p]
              ELSE /\ op'[p].pc = op[p].pc /\ op'[p].app = op[p].app /\ op'[p].tried = op[p].tried
                   /\ op'[p].answer # {}
                   /\ The(op'[p].answer).kind = The(op[p].answer).kind /\ The(op'[p].answer).res = The(op[p].answer).res
                   /\ The(op'[p].answer).reset = Later(The(op[p].answer).reset)
    BY TickMoves
  <2>2. \A p \in Op : /\ Uses(op'[p], a) <=> Uses(op[p], a)
                      /\ Turned(op'[p]) <=> Turned(op[p])
                      /\ op'[p].pc = op[p].pc /\ op'[p].tried = op[p].tried
    BY <2>1 DEF Uses, Turned, Says
  <2>3. Could(a, r)' = Could(a, r)
    BY <2>1, <2>2 DEF Could, Alive, Op
  <2>4. Later(window) = window'
    BY <1>1, <1>2, <1>4 DEF Later, Most
  <2>5. Refusals(a, r) \subseteq Refusals(a, r)'
    BY <2>1, <2>4 DEF Refusals, Reports, Uses, Says
  <2>6. CASE Spent(a, r)
    BY <1>1, <1>4, <2>3, <2>6 DEF RefusalsOK
  <2>7. CASE ~Spent(a, r)
    <3>1. Cardinality(Refusals(a, r)) <= Cardinality(Refusals(a, r)')
      BY <2>5, FiniteOpsNext, SmallerSet
    <3>2. refusals[a][r] <= Cardinality(Refusals(a, r))
      BY <2>7 DEF RefusalsOK
    <3>3. refusals'[a][r] <= Cardinality(Refusals(a, r)')
      BY <1>1, <1>4, <3>1, <3>2, FiniteOps, FiniteOpsNext, RefusalCount
    <3> QED
      BY <1>1, <1>4, <2>7, <3>3 DEF RefusalsOK
  <2> QED
    BY <2>6, <2>7
<1> QED
  BY <1>2, <1>3, <1>4

LEMMA RestartBound ==
  ASSUME Types, Shapes, SetupOK, Restart, NEW a \in App, NEW r \in Resource, RefusalsOK(a, r)
  PROVE  RefusalsOK(a, r)'
<1>1. /\ UNCHANGED <<limitVars, wants>> /\ clients' = [b \in App |-> "none"] /\ op' = [p \in Op |-> Idle]
      /\ \A p \in Op : op[p].app = {}
  BY RestartMoves
<1>2. \A p \in Op : op'[p].app = {}
  BY <1>1 DEF Idle
<1>3. Could(a, r)' = {}
  BY <1>1, <1>2 DEF Could, Alive, Uses, Op
<1>4. Refusals(a, r) = {}
  BY <1>1 DEF Refusals, Reports, Uses
<1> QED
  BY <1>1, <1>3, <1>4, BoundKept DEF limitVars, githubVars

LEMMA BoundsStep == ASSUME Types, Shapes, SetupOK, Bounds, Types', [Next]_vars PROVE Bounds'
<1>1. op' \in [Op -> OpType] /\ clients \in ClientType
  BY DEF Types
<1>2. SUFFICES ASSUME NEW a \in App, NEW r \in Resource, RefusalsOK(a, r) PROVE RefusalsOK(a, r)'
  BY DEF Bounds
<1>3. ASSUME NEW p \in Op, Step(p) \/ GitHub(p) PROVE RefusalsOK(a, r)'
  <2>1. Shape(op[p]) /\ op[p] \in OpType
    BY DEF Shapes, Types
  <2>2. CASE UseApp(p)
    <3>1. PICK b \in App :
              /\ Uses(op[p], b)
              /\ \/ op'[p] = End("done") \/ (op'[p].app = {b} /\ op'[p].tried = op[p].tried)
              /\ \/ clients' = clients
                 \/ clients' = [clients EXCEPT ![b] = "pending"]
      BY <2>2, UseAppMoves
    <3>2. /\ op[p].pc = "chosen" /\ op[p].answer = {} /\ UNCHANGED <<limitVars, wants>>
          /\ \A q \in Op : q # p => op'[q] = op[q]
      BY <2>2, UseAppMoves
    <3>3. Goes(op[p], op'[p])
      <4>1. End("done").app = {} /\ End("done").pc = "done"
        BY TypeOfIdle
      <4> QED
        BY <3>1, <3>2, <4>1 DEF Goes, Uses, Over, Turned, Says
    <3>4. \A q \in Op : Goes(op[q], op'[q])
      BY <3>2, <3>3, GoesOn
    <3>5. clients'[a] # "none" => Alive(a)
      BY <1>1, <3>1, <3>2 DEF Alive, ClientType, Turned, Says
    <3> QED
      BY <1>1, <1>2, <3>2, <3>4, <3>5, BoundOfGoing DEF limitVars, githubVars
  <2>3. CASE LookUp(p)
    <3>1. /\ op[p].pc \in {"lookup", "mint"} /\ Says(op[p], {"ok", "stale"}) /\ UNCHANGED <<limitVars, wants, clients>>
          /\ \A q \in Op : q # p => op'[q] = op[q]
          /\ op'[p].app = op[p].app /\ op'[p].tried = op[p].tried
      BY <2>3, LookUpMoves
    <3>2. Goes(op[p], op'[p])
      BY <3>1 DEF Goes, Over, Turned, Says, Bad
    <3>3. \A q \in Op : Goes(op[q], op'[q])
      BY <3>1, <3>2, GoesOn
    <3>4. clients'[a] # "none" => Alive(a)
      BY <3>1 DEF Alive
    <3> QED
      BY <1>1, <1>2, <3>1, <3>3, <3>4, BoundOfGoing DEF limitVars, githubVars
  <2>4. CASE ClientReady(p)
    <3>1. PICK b \in App :
              /\ Makes(op[p], b) /\ clients' = [clients EXCEPT ![b] = "ready"]
              /\ \A q \in Op :
                   IF q = p \/ (Uses(op[q], b) /\ op[q].pc = "wait")
                   THEN op'[q] = WithClient(q) ELSE op'[q] = op[q]
      BY <2>4, ReadyMoves
    <3>2. Says(op[p], {"ok"}) /\ UNCHANGED <<limitVars, wants>>
      BY <2>4, ReadyMoves
    <3>3. ASSUME NEW q \in Op PROVE Goes(op[q], op'[q])
      <4>1. CASE q = p \/ (Uses(op[q], b) /\ op[q].pc = "wait")
        <5>1. Shape(op[q]) /\ op[q] \in OpType /\ op'[q] = WithClient(q)
          BY <3>1, <4>1 DEF Shapes, Types
        <5>2. ~Turned(op[q]) /\ ~Says(op[q], {"primary"}) /\ op[q].pc \notin Over
          BY <3>1, <3>2, <4>1, <5>1 DEF Shape, Turned, Says, Bad, Makes, Over
        <5>3. \/ op'[q].app = {} /\ op'[q].pc = "done"
              \/ op'[q].app = op[q].app /\ op'[q].tried = op[q].tried
          BY <5>1, TypeOfClient, TypeOfIdle
        <5> QED
          BY <5>2, <5>3 DEF Goes, Over
      <4>2. CASE ~(q = p \/ (Uses(op[q], b) /\ op[q].pc = "wait"))
        BY <3>1, <4>2, GoesOn
      <4> QED
        BY <4>1, <4>2
    <3>4. clients'[a] # "none" => Alive(a)
      <4>1. ~Turned(op[p])
        BY <3>2 DEF Turned, Says, Bad
      <4> QED
        BY <1>1, <3>1, <4>1 DEF Alive, ClientType, Makes
    <3> QED
      BY <1>1, <1>2, <3>2, <3>3, <3>4, BoundOfGoing DEF limitVars, githubVars
  <2>5. CASE ClientFails(p)
    <3>1. PICK b \in App :
              /\ Makes(op[p], b) /\ clients' = [clients EXCEPT ![b] = "none"]
              /\ \A q \in Op :
                   IF q = p \/ (Uses(op[q], b) /\ op[q].pc = "wait")
                   THEN /\ op'[q].pc = "refused" /\ op'[q].answer = op[p].answer
                        /\ op'[q].app = {b} /\ op'[q].tried = op[q].tried
                   ELSE op'[q] = op[q]
      BY <2>5, FailsMoves
    <3>2. Turned(op[p]) /\ UNCHANGED <<limitVars, wants>>
      BY <2>5, FailsMoves
    <3>3. ASSUME NEW q \in Op PROVE Goes(op[q], op'[q])
      <4>1. CASE q = p \/ (Uses(op[q], b) /\ op[q].pc = "wait")
        <5>1. /\ op[q].app = {b} /\ op[q].pc \notin Over
              /\ op[q].answer = {} \/ op[q].answer = op[p].answer
          BY <3>1, <4>1 DEF Makes, Uses, Over, Shapes, Shape
        <5>2. /\ op'[q].answer = op[p].answer /\ op'[q].app = {b} /\ op'[q].tried = op[q].tried
          BY <3>1, <4>1
        <5> QED
          BY <3>2, <5>1, <5>2 DEF Goes, Turned, Says
      <4>2. CASE ~(q = p \/ (Uses(op[q], b) /\ op[q].pc = "wait"))
        BY <3>1, <4>2, GoesOn
      <4> QED
        BY <4>1, <4>2
    <3>4. clients'[a] # "none" => Alive(a)
      BY <1>1, <3>1 DEF Alive, ClientType
    <3> QED
      BY <1>1, <1>2, <3>2, <3>3, <3>4, BoundOfGoing DEF limitVars, githubVars
  <2> QED
    BY <1>2, <1>3, <2>2, <2>3, <2>4, <2>5, SelectBound, GitHubBound, ReportBound DEF Step
<1>4. ASSUME UNCHANGED <<op, clients, wants, quota, window, refusals>> PROVE RefusalsOK(a, r)'
  <2>1. clients'[a] # "none" => Alive(a)
    BY <1>4 DEF Alive
  <2> QED
    BY <1>1, <1>2, <1>4, <2>1, BoundOfGoing, GoesOn
<1>5. ASSUME NEW b \in App, NEW s \in Resource, OthersUse(b, s), UNCHANGED failoverVars
      PROVE  UNCHANGED <<op, clients, wants, quota, window, refusals>>
  BY <1>5 DEF OthersUse, failoverVars
<1>6. CASE UNCHANGED vars
  BY <1>4, <1>6 DEF vars, limitVars, githubVars, failoverVars
<1> QED
  BY <1>2, <1>3, <1>4, <1>5, <1>6, RestartBound, TickBound DEF Next

-----------------------------------------------------------------------------
\* With what cause an app is believed exhausted.

\* The answers tell the truth: a kept answer is as true as before, and what
\* GitHub has none left of stays so until the window ends.
LEMMA TruthsKept ==
  ASSUME Types, Shapes, Truths, NotRenewed, window' = window, op' \in [Op -> OpType],
         \A q \in Op : op'[q].answer # {} =>
            \E i \in Op : op'[q].app \subseteq op[i].app /\ op'[q].answer = op[i].answer
  PROVE  Truths'
<1>1. SUFFICES ASSUME NEW q \in Op, NEW a \in App, NEW x \in Answer, Uses(op'[q], a), op'[q].answer = {x}
               PROVE  Truth(a, x)'
  BY DEF Truths
<1>2. PICK i \in Op : op'[q].app \subseteq op[i].app /\ op'[q].answer = op[i].answer
  BY <1>1
<1>3. Uses(op[i], a)
  <2>1. op[i].app \in Optional(App) /\ a \in op[i].app
    BY <1>1, <1>2, TypeOfOp DEF Types, Uses
  <2> QED
    BY <2>1 DEF Optional, Uses
<1>4. Truth(a, x)
  BY <1>1, <1>2, <1>3 DEF Truths
<1>5. x.res \in Resource
  BY DEF Answer
<1> QED
  BY <1>4, <1>5 DEF Truth, NotRenewed

\* What is believed stays within its bounds while nothing is reported.
LEMMA RealsKept ==
  ASSUME Reals, NotRenewed, UNCHANGED <<quota, window>>
  PROVE  Reals'
<1>1. SUFFICES ASSUME NEW a \in App, NEW r \in Resource, Exhausted(a, r)' PROVE quota'[a][r].ttl \in Allowed(a, r)'
  BY DEF Reals, RealOK
<1>2. Exhausted(a, r) /\ quota[a][r].ttl \in Allowed(a, r)
  BY <1>1 DEF Reals, RealOK, Exhausted
<1> QED
  BY <1>2 DEF Allowed, NotRenewed

\* A report leaves an exhaustion an end that was known or is reported.
LEMMA ReportedWithin ==
  ASSUME NEW q \in Quota, NEW left \in 0 .. Full, NEW ttl \in 0 .. Longest, NEW S,
         q.left = 0 /\ q.ttl > 0 => q.ttl \in S,
         left = 0 /\ ttl > 0 => ttl \in S
  PROVE  LET new == Reported(q, left, ttl) IN new.left = 0 /\ new.ttl > 0 => new.ttl \in S
<1> DEFINE new == Reported(q, left, ttl)
<1>1. CASE q.left = 0 /\ q.ttl > 0
  <2> DEFINE later == IF left = 0 THEN Most(q.ttl, ttl) ELSE q.ttl
  <2>1. new = [q EXCEPT !.ttl = later]
    BY <1>1 DEF Reported
  <2>2. later = q.ttl \/ (left = 0 /\ ttl > 0 /\ later = ttl)
    BY <1>1, Numbers DEF Most, Quota
  <2> HIDE DEF later
  <2> QED
    BY <1>1, <2>1, <2>2 DEF Quota
<1>2. CASE ~(q.left = 0 /\ q.ttl > 0)
  <2>1. new = Known(left, ttl)
    BY <1>2 DEF Reported
  <2>2. CASE ttl = 0
    BY <2>1, <2>2, KnownType
  <2>3. CASE ttl > 0
    BY <2>1, <2>3, KnownType
  <2> QED
    BY <2>2, <2>3, Numbers
<1> QED
  BY <1>1, <1>2

\* A true answer is reported: the end it names is that of the window, the
\* margin included, or an older one that counts for a while.
LEMMA ReportReal ==
  ASSUME LimitsTypeOK, Reals, NEW a \in App, NEW x \in Answer, Report(a, x), Truth(a, x), UNCHANGED githubVars
  PROVE  Reals'
<1> DEFINE res  == x.res
           q    == quota[a][res]
           seen == Reported(q, x.left, x.reset)
           new  == IF x.kind = "primary" THEN Reported(seen, 0, Until(x.reset)) ELSE seen
           S    == Allowed(a, res)
<1>1. /\ res \in Resource /\ x.left \in 0 .. Full /\ x.reset \in 0 .. Window
      /\ q \in Quota /\ quota \in [App -> [Resource -> Quota]]
      /\ window \in 1 .. Window /\ x.reset \in 0 .. Longest
  BY QuotaType, Numbers DEF Answer
<1>2. quota' = [quota EXCEPT ![a][res] = new]
  BY DEF Report, Observe
<1>3. q.left = 0 /\ q.ttl > 0 => q.ttl \in S
  BY <1>1 DEF Reals, RealOK, Exhausted
<1>4. x.left = 0 /\ x.reset > 0 => x.reset \in S
  <2>1. x.reset \in Nat /\ window \in Nat
    BY <1>1, Numbers
  <2> QED
    BY <2>1 DEF Truth, Allowed, Margin
<1>5. x.kind = "primary" => Until(x.reset) \in S
  <2>1. x.reset \in Nat /\ window \in Nat /\ Unspecified \in Nat
    BY <1>1, Numbers
  <2>2. CASE x.reset > 0
    BY <2>1, <2>2 DEF Truth, Allowed, Margin, Until
  <2>3. CASE x.reset = 0
    BY <2>1, <2>3 DEF Allowed, Until, Most, Margin
  <2> QED
    BY <2>1, <2>2, <2>3
<1>6. Until(x.reset) \in 0 .. Longest /\ 0 \in 0 .. Full
  <2>1. x.reset \in Nat /\ x.reset <= Window
    BY <1>1, Numbers
  <2> QED
    BY <2>1, UntilRange, Numbers
<1> HIDE DEF S
<1>7. /\ seen \in Quota
      /\ seen.left = 0 /\ seen.ttl > 0 => seen.ttl \in S
  <2> DEFINE left == x.left
             ttl  == x.reset
  <2>1. /\ left \in 0 .. Full /\ ttl \in 0 .. Longest /\ seen = Reported(q, left, ttl)
        /\ left = 0 /\ ttl > 0 => ttl \in S
    BY <1>1, <1>4
  <2> HIDE DEF left, ttl, seen, q
  <2> QED
    BY <1>1, <1>3, <2>1, ReportedKeeps, ReportedWithin
<1> HIDE DEF seen, q
<1>8. new.left = 0 /\ new.ttl > 0 => new.ttl \in S
  <2>1. CASE x.kind = "primary"
    <3> DEFINE ttl == Until(x.reset)
    <3>1. ttl \in 0 .. Longest /\ ttl \in S /\ new = Reported(seen, 0, ttl)
      BY <1>5, <1>6, <2>1
    <3> HIDE DEF ttl, new
    <3> QED
      BY <1>6, <1>7, <3>1, ReportedWithin
  <2>2. CASE x.kind # "primary"
    BY <1>7, <2>2
  <2> QED
    BY <2>1, <2>2
<1> HIDE DEF new
<1>9. SUFFICES ASSUME NEW b \in App, NEW r \in Resource PROVE RealOK(b, r)'
  BY DEF Reals
<1>10. Allowed(b, r)' = Allowed(b, r)
  BY DEF Allowed, githubVars
<1>11. CASE b = a /\ r = res
  <2>1. quota'[b][r] = new
    BY <1>1, <1>2, <1>11
  <2> QED
    BY <1>8, <1>10, <1>11, <2>1 DEF RealOK, Exhausted, S
<1>12. CASE ~(b = a /\ r = res)
  <2>1. quota'[b][r] = quota[b][r]
    BY <1>1, <1>2, <1>12
  <2> QED
    BY <1>10, <2>1 DEF Reals, RealOK, Exhausted
<1> QED
  BY <1>11, <1>12

\* Time passes: answers and beliefs grow old with the window they tell of.
LEMMA TickCause ==
  ASSUME Types, Shapes, Truths, Reals, Tick
  PROVE  Truths' /\ Reals'
<1>1. /\ PassTime /\ op \in [Op -> OpType] /\ op' \in [Op -> OpType] /\ LimitsTypeOK
  BY TickMoves DEF Types
<1>2. /\ window \in Nat /\ window >= 1 /\ quota \in [App -> [Resource -> Quota]]
  BY <1>1, QuotaType, Numbers
<1>3. /\ window' = IF window = 1 THEN Window ELSE window - 1
      /\ window # 1 => budget' = budget
      /\ quota' = [a \in App |-> [r \in Resource |-> Known(quota[a][r].left, Later(quota[a][r].ttl))]]
  BY <1>1 DEF PassTime
<1>4. ASSUME NEW p \in Op, NEW a \in App, NEW y \in Answer, Uses(op'[p], a), op'[p].answer = {y}
      PROVE  Truth(a, y)'
  <2>1. op[p].answer # {} /\ op[p] \in OpType
    BY <1>1, <1>4, TickMoves
  <2> DEFINE x == The(op[p].answer)
  <2>2. x \in Answer /\ op[p].answer = {x}
    BY <2>1, TypeOfOp
  <2>3. The(op'[p].answer) = y
    BY <1>4, TheOne
  <2>4. /\ op'[p].app = op[p].app
        /\ y.kind = x.kind /\ y.res = x.res /\ y.left = x.left /\ y.reset = Later(x.reset)
    BY <2>1, <2>3, TickMoves
  <2> HIDE DEF x
  <2>5. Truth(a, x)
    BY <1>4, <2>2, <2>4 DEF Truths, Uses
  <2>6. /\ x.reset = 0 \/ window = 1 => y.reset = 0
        /\ x.reset # 0 /\ window # 1 => y.reset = window - 1
    BY <1>2, <2>4, <2>5 DEF Truth, Later, Most
  <2>7. y.reset \in {0, window'}
    BY <1>3, <2>6
  <2>8. y.left = 0 /\ y.reset > 0 => budget'[a][y.res] = 0
    <3>1. SUFFICES ASSUME y.left = 0, y.reset > 0 PROVE budget'[a][y.res] = 0
      OBVIOUS
    <3>2. x.reset # 0 /\ window # 1
      BY <2>6, <3>1
    <3>3. x.reset > 0 /\ x.left = 0
      BY <1>2, <2>4, <2>5, <3>1, <3>2 DEF Truth
    <3> QED
      BY <1>3, <2>4, <2>5, <3>2, <3>3 DEF Truth
  <2>9. y.kind = "primary" => y.left = 0
    BY <2>4, <2>5 DEF Truth
  <2> QED
    BY <2>7, <2>8, <2>9 DEF Truth
<1>5. ASSUME NEW a \in App, NEW r \in Resource, Exhausted(a, r)'
      PROVE  quota'[a][r].ttl \in Allowed(a, r)'
  <2> DEFINE left == quota[a][r].left
             ttl  == quota[a][r].ttl
             old  == Later(ttl)
  <2>1. left \in 0 .. Full /\ ttl \in 0 .. Longest /\ ttl \in Nat
    BY <1>1, QuotaType, Numbers
  <2>2. old \in 0 .. Longest /\ (ttl > 0 => old = ttl - 1) /\ (ttl = 0 => old = 0)
    BY <2>1, Numbers DEF Later, Most
  <2>3. quota'[a][r] = Known(left, old)
    BY <1>3
  <2> HIDE DEF left, ttl, old
  <2>4. left = 0 /\ old > 0 /\ quota'[a][r].ttl = old
    BY <1>5, <2>1, <2>2, <2>3, KnownType, Numbers DEF Exhausted
  <2>5. ttl \in Allowed(a, r) /\ ttl > 1 /\ old = ttl - 1
    <3>1. ttl > 1 /\ old = ttl - 1
      BY <2>1, <2>2, <2>4
    <3>2. Exhausted(a, r)
      BY <2>1, <2>4, <3>1 DEF Exhausted, left, ttl
    <3> QED
      BY <3>1, <3>2 DEF Reals, RealOK, ttl
  <2>6. /\ old \in Nat
        /\ (budget'[a][r] = 0 /\ old <= window' + Margin) \/ old <= Most(Margin, Unspecified)
    <3>1. Most(Margin, Unspecified) \in Nat /\ Most(Margin, Unspecified) >= 1
      BY RateLimitAssumption DEF Most, Margin
    <3>2. CASE ttl <= Most(Margin, Unspecified)
      BY <2>1, <2>5, <3>1, <3>2
    <3>3. CASE budget[a][r] = 0 /\ ttl <= window + Margin /\ window # 1
      BY <1>2, <1>3, <2>1, <2>5, <3>3 DEF Margin
    <3>4. CASE ttl <= window + Margin /\ window = 1
      BY <2>1, <2>5, <3>1, <3>4 DEF Margin
    <3> QED
      BY <2>5, <3>2, <3>3, <3>4 DEF Allowed
  <2> QED
    BY <2>4, <2>6 DEF Allowed
<1> QED
  BY <1>4, <1>5 DEF Truths, Reals, RealOK

\* Every step keeps the answers true and the beliefs within their bounds.
LEMMA CauseStep ==
  ASSUME Types, Shapes, SetupOK, Truths, Reals, Types', [Next]_vars
  PROVE  Truths' /\ Reals'
<1>1. op \in [Op -> OpType] /\ op' \in [Op -> OpType] /\ LimitsTypeOK
  BY DEF Types
<1>2. ASSUME UNCHANGED <<quota, window>>, NotRenewed,
             \A q \in Op : op'[q].answer # {} =>
                \E i \in Op : op'[q].app \subseteq op[i].app /\ op'[q].answer = op[i].answer
      PROVE  Truths' /\ Reals'
  BY <1>1, <1>2, TruthsKept, RealsKept
<1>3. budget' = budget => NotRenewed
  BY DEF NotRenewed
<1>4. ASSUME NEW p \in Op, Select(p) \/ UseApp(p) \/ LookUp(p) PROVE Truths' /\ Reals'
  <2>1. /\ UNCHANGED limitVars /\ \A q \in Op : q # p => op'[q] = op[q]
        /\ op'[p].answer = {}
    BY <1>4, SelectMoves, UseAppMoves, LookUpMoves, TypeOfIdle
  <2> QED
    BY <1>2, <1>3, <2>1 DEF limitVars, githubVars
<1>5. ASSUME NEW p \in Op, ClientReady(p) PROVE Truths' /\ Reals'
  <2>1. UNCHANGED limitVars /\ \A q \in Op : op'[q] = WithClient(q) \/ op'[q] = op[q]
    BY <1>5, ReadyMoves
  <2>2. \A q \in Op : WithClient(q).answer = {}
    BY <1>1, TypeOfClient
  <2>3. \A q \in Op : op'[q].answer = {} \/ op'[q] = op[q]
    BY <2>1, <2>2
  <2> QED
    BY <1>2, <1>3, <2>1, <2>3 DEF limitVars, githubVars
<1>6. ASSUME NEW p \in Op, ClientFails(p) PROVE Truths' /\ Reals'
  <2>1. /\ UNCHANGED limitVars
        /\ \A q \in Op : \/ op'[q].answer = op[p].answer /\ op'[q].app \subseteq op[p].app
                         \/ op'[q] = op[q]
    BY <1>6, FailsMoves DEF Makes, Uses
  <2> QED
    BY <1>2, <1>3, <2>1 DEF limitVars, githubVars
<1>7. ASSUME NEW p \in Op, GitHub(p) PROVE Truths' /\ Reals'
  <2>1. /\ UNCHANGED <<window, quota>> /\ NotRenewed /\ \A q \in Op : q # p => op'[q] = op[q]
        /\ op'[p].app = op[p].app
    BY <1>7, GitHubMoves
  <2>2. PICK a \in App : Uses(op[p], a) /\ \A x \in Answer : op'[p].answer = {x} => Truth(a, x)'
    BY <1>7, GitHubMoves
  <2>3. Reals'
    BY <2>1, RealsKept
  <2>4. SUFFICES ASSUME NEW q \in Op, NEW b \in App, NEW x \in Answer, Uses(op'[q], b), op'[q].answer = {x}
                 PROVE  Truth(b, x)'
    BY <2>3 DEF Truths
  <2>5. CASE q = p
    <3>1. a = b
      BY <2>1, <2>2, <2>4, <2>5 DEF Uses
    <3> QED
      BY <2>2, <2>4, <2>5, <3>1
  <2>6. CASE q # p
    <3>1. Truth(b, x) /\ x.res \in Resource
      BY <2>1, <2>4, <2>6 DEF Truths, Answer
    <3> QED
      BY <2>1, <3>1 DEF Truth, NotRenewed
  <2> QED
    BY <2>5, <2>6
<1>8. ASSUME NEW p \in Op, Served(p) \/ Refused(p) PROVE Truths' /\ Reals'
  <2>1. /\ UNCHANGED githubVars /\ \A q \in Op : q # p => op'[q] = op[q]
        /\ op'[p].answer = {}
    BY <1>8, ReportMoves
  <2>2. PICK a \in App, x \in Answer : Uses(op[p], a) /\ op[p].answer = {x} /\ Report(a, x)
    BY <1>8, ReportMoves
  <2>3. Truth(a, x)
    BY <2>2 DEF Truths
  <2>4. Reals'
    BY <1>1, <2>1, <2>2, <2>3, ReportReal
  <2>5. \A q \in Op : op'[q].answer # {} => op'[q] = op[q]
    BY <2>1
  <2>6. window' = window /\ NotRenewed
    BY <1>3, <2>1 DEF githubVars
  <2>7. Truths'
    BY <1>1, <2>5, <2>6, TruthsKept
  <2> QED
    BY <2>4, <2>7
<1>9. CASE Restart
  <2>1. UNCHANGED limitVars /\ \A q \in Op : op'[q] = Idle
    BY <1>9, RestartMoves
  <2>2. Idle.answer = {}
    BY DEF Idle
  <2> QED
    BY <1>2, <1>3, <2>1, <2>2 DEF limitVars, githubVars
<1>10. ASSUME NEW a \in App, NEW r \in Resource, OthersUse(a, r), UNCHANGED failoverVars PROVE Truths' /\ Reals'
  <2>1. NotRenewed /\ UNCHANGED <<window, quota>> /\ op' = op
    BY <1>10, OthersMove DEF failoverVars
  <2> QED
    BY <1>2, <2>1
<1>11. CASE UNCHANGED vars
  BY <1>2, <1>3, <1>11 DEF vars, limitVars, githubVars, failoverVars
<1> QED
  BY <1>4, <1>5, <1>6, <1>7, <1>8, <1>9, <1>10, <1>11, TickCause DEF Next, Step

-----------------------------------------------------------------------------
\* The inductive invariant.

LEMMA InitIInv == Init => IInv
<1> SUFFICES ASSUME Init PROVE IInv
  OBVIOUS
<1>1. /\ LimitsInit /\ wants \in [Op -> Resource] /\ wants[Setup] = "core"
      /\ op = [p \in Op |-> Idle] /\ clients = [a \in App |-> "none"]
  BY DEF Init
<1>2. Idle.app = {} /\ Idle.answer = {} /\ Idle.pc = "idle"
  BY DEF Idle
<1>3. LimitsTypeOK
  <2>1. Unknown \in [left : 0 .. Full, ttl : 0 .. Longest] /\ Window \in 1 .. Window /\ 0 \in 0 .. Longest
    BY Numbers DEF Unknown
  <2> QED
    BY <1>1, <2>1, Numbers DEF LimitsInit, LimitsTypeOK
<1>4. Types
  BY <1>1, <1>3, TypeOfIdle DEF Types, ClientType
<1>5. Shapes
  BY <1>1, <1>2 DEF Shapes, Shape, Free, Turned, Says
<1>6. Clients
  BY <1>1, <1>2 DEF Clients, ClientOK, Makes, Uses
<1>7. SetupOK
  BY <1>1, <1>2 DEF SetupOK, Uses, Op
<1>8. ASSUME NEW a \in App, NEW r \in Resource PROVE RefusalsOK(a, r)
  <2>1. refusals[a][r] = 0
    BY <1>1 DEF LimitsInit
  <2> QED
    BY <2>1, FiniteOps DEF RefusalsOK
<1>9. Truths /\ Reals
  <2>1. ASSUME NEW a \in App, NEW r \in Resource PROVE quota[a][r].ttl = 0
    BY <1>1 DEF LimitsInit, Unknown
  <2>2. Truths
    BY <1>1, <1>2 DEF Truths
  <2> QED
    BY <2>1, <2>2 DEF Reals, RealOK, Exhausted
<1> QED
  BY <1>4, <1>5, <1>6, <1>7, <1>8, <1>9 DEF IInv, Bounds

LEMMA StepIInv == IInv /\ [Next]_vars => IInv'
<1> SUFFICES ASSUME IInv, [Next]_vars PROVE IInv'
  OBVIOUS
<1>1. Types /\ Shapes /\ Clients /\ SetupOK /\ Bounds /\ Truths /\ Reals
  BY DEF IInv
<1>2. Types'
  BY <1>1, TypesStep
<1>3. Shapes' /\ Clients' /\ SetupOK' /\ Bounds'
  BY <1>1, <1>2, ShapesStep, ClientsStep, SetupStep, BoundsStep
<1>4. Truths' /\ Reals'
  BY <1>1, <1>2, CauseStep
<1> QED
  BY <1>2, <1>3, <1>4 DEF IInv

LEMMA InvariantIInv == Spec => []IInv
BY InitIInv, StepIInv, PTL DEF Spec

-----------------------------------------------------------------------------
\* The properties.

LEMMA TypesImplyTypeOK == IInv => TypeOK
<1> SUFFICES ASSUME IInv PROVE TypeOK
  OBVIOUS
<1>1. Types /\ Shapes /\ Clients
  BY DEF IInv
<1>2. ASSUME NEW a \in App
      PROVE  Cardinality({p \in Op : op[p].app = {a} /\ op[p].pc \in {"lookup", "mint"}})
               = IF clients[a] = "pending" THEN 1 ELSE 0
  <2> DEFINE M == {p \in Op : op[p].app = {a} /\ op[p].pc \in {"lookup", "mint"}}
  <2>1. /\ clients[a] = "pending" => \E p \in Op : p \in M
        /\ \A p \in M : clients[a] = "pending"
        /\ \A p, q \in M : p = q
    BY <1>1 DEF Clients, ClientOK, Makes, Uses
  <2> HIDE DEF M
  <2>2. CASE clients[a] = "pending"
    <3>1. PICK p \in M : M = {p}
      BY <2>1, <2>2
    <3>2. Cardinality({p}) = 1
      BY FS_Singleton
    <3> QED
      BY <2>2, <3>1, <3>2 DEF M
  <2>3. CASE clients[a] # "pending"
    <3>1. M = {}
      BY <2>1, <2>3
    <3> QED
      BY <2>3, <3>1, FS_EmptySet DEF M
  <2> QED
    BY <2>2, <2>3
<1>3. ASSUME NEW p \in Op
      PROVE  /\ op[p].pc = "wait" => clients[The(op[p].app)] = "pending"
             /\ op[p].pc = "send" => clients[The(op[p].app)] = "ready"
  <2>1. SUFFICES ASSUME op[p].pc \in {"wait", "send"}
                 PROVE  /\ op[p].pc = "wait" => clients[The(op[p].app)] = "pending"
                        /\ op[p].pc = "send" => clients[The(op[p].app)] = "ready"
    OBVIOUS
  <2>2. op[p] \in OpType /\ op[p].app # {}
    BY <1>1, <2>1 DEF Types, Shapes, Shape, Free
  <2>3. The(op[p].app) \in App /\ Uses(op[p], The(op[p].app))
    BY <2>2, TypeOfOp DEF Uses
  <2> QED
    BY <1>1, <2>3 DEF Clients, ClientOK
<1> QED
  BY <1>1, <1>2, <1>3 DEF TypeOK, Types, ClientType, OpType

\* Types: every client that is being made has one maker, and it is the one that
\* the operations wait for (app-failover.ts:96-107).
THEOREM TypeCorrect == Spec => []TypeOK
BY InvariantIInv, TypesImplyTypeOK, PTL

\* In one window GitHub refuses an app at most once for each of the concurrent
\* requests: the exhaustion that the first of them reports is not forgotten, by
\* whatever answer arrives later, and no other request is sent with the app.
THEOREM RefusalsAreBounded == Spec => []RefusalsBounded
<1>1. IInv => RefusalsBounded
  <2> SUFFICES ASSUME IInv, NEW a \in App, NEW r \in Resource
               PROVE  refusals[a][r] <= Cardinality(Request)
    BY DEF RefusalsBounded
  <2>1. Types /\ Shapes /\ SetupOK /\ RefusalsOK(a, r)
    BY DEF IInv, Bounds
  <2>2. refusals[a][r] \in Nat
    BY <2>1, RefusalCount
  <2>3. CASE Spent(a, r)
    BY <2>1, <2>2, <2>3, FiniteOps, FiniteRequests DEF RefusalsOK
  <2>4. CASE ~Spent(a, r)
    <3>1. Cardinality(Refusals(a, r)) <= Cardinality(Request)
      <4>1. CASE Setup \in Refusals(a, r)
        <5>1. op[Setup].pc # "done"
          BY <2>1, <4>1 DEF Refusals, Reports, Uses, Shapes, Shape, Free
        <5>2. \A q \in Request : op[q] = Idle
          BY <2>1, <5>1 DEF SetupOK
        <5>3. Idle.app = {}
          BY DEF Idle
        <5>4. Refusals(a, r) \subseteq {Setup}
          BY <5>2, <5>3 DEF Refusals, Reports, Uses, Op
        <5>5. IsFiniteSet({Setup}) /\ Cardinality({Setup}) = 1
          BY FS_Singleton
        <5> QED
          BY <5>4, <5>5, SmallerSet, FiniteRequests
      <4>2. CASE Setup \notin Refusals(a, r)
        <5>1. Refusals(a, r) \subseteq Request
          BY <4>2 DEF Refusals, Op
        <5> QED
          BY <5>1, FiniteRequests, SmallerSet
      <4> QED
        BY <4>1, <4>2
    <3>2. refusals[a][r] <= Cardinality(Refusals(a, r))
      BY <2>1, <2>4 DEF RefusalsOK
    <3> QED
      BY <2>2, <3>1, <3>2, FiniteOps, FiniteRequests
  <2> QED
    BY <2>3, <2>4
<1> QED
  BY <1>1, InvariantIInv, PTL

\* What is believed to be exhausted stays so until its time is over.
LEMMA KeepsExhaustion ==
  ASSUME Types, Shapes, [Next]_vars, NEW a \in App, NEW r \in Resource, Exhausted(a, r), quota[a][r].ttl > 1
  PROVE  Exhausted(a, r)'
<1>1. LimitsTypeOK /\ quota[a][r].ttl \in Nat
  BY QuotaType, Numbers DEF Types
<1>2. CASE quota' = quota
  BY <1>2 DEF Exhausted
<1>3. ASSUME NEW p \in Op, Served(p) \/ Refused(p) PROVE Exhausted(a, r)'
  <2>1. PICK b \in App, x \in Answer : Report(b, x)
    BY <1>3, ReportMoves
  <2>2. UNCHANGED <<githubVars, faults>>
    BY <1>3, ReportMoves
  <2>3. quota'[a][r].left = 0 /\ quota'[a][r].ttl >= quota[a][r].ttl /\ LimitsTypeOK'
    BY <1>1, <2>1, <2>2, ReportKeeps
  <2>4. quota'[a][r].ttl \in Nat
    BY <2>3, Numbers DEF LimitsTypeOK
  <2> QED
    BY <1>1, <2>3, <2>4 DEF Exhausted
<1>4. CASE Tick
  BY <1>1, <1>4, TickMoves, TimeKeeps
<1>5. Tick \/ (\E p \in Op : Served(p) \/ Refused(p)) \/ quota' = quota
  BY DEF Next, Step, Restart, Select, UseApp, LookUp, ClientReady, ClientFails, GitHub, OthersUse,
         vars, limitVars, failoverVars
<1> QED
  BY <1>2, <1>3, <1>4, <1>5

\* An exhaustion is believed until its end, in whatever order the answers of
\* concurrent requests arrive.
THEOREM ExhaustionKept == Spec => ExhaustionIsKept
<1>1. IInv /\ [Next]_vars =>
        [\A a \in App, r \in Resource :
            Exhausted(a, r) /\ quota[a][r].ttl > 1 => Exhausted(a, r)']_vars
  BY KeepsExhaustion DEF IInv
<1> QED
  BY <1>1, InvariantIInv, PTL DEF Spec, ExhaustionIsKept

\* What is believed exhausted is so at GitHub until the window ends, or is over
\* soon after that end, however late the answers arrive.
THEOREM ExhaustionHasCause == Spec => []ExhaustionIsReal
<1>1. IInv => ExhaustionIsReal
  BY DEF IInv, Reals, RealOK, Allowed, ExhaustionIsReal
<1> QED
  BY <1>1, InvariantIInv, PTL
=============================================================================
