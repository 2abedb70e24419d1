---------------------------- MODULE AppRateLimits ----------------------------
(****************************************************************************)
(* What GitHub allows each GitHub App, and what one Lambda environment      *)
(* believes of it: the requests left of each resource and the cooldown      *)
(* after a secondary limit.  Times are lengths from now, so that a belief   *)
(* is forgotten when its length comes to zero.                              *)
(****************************************************************************)
EXTENDS Integers, FiniteSets

CONSTANTS
  App,         \* the configured GitHub Apps
  Budget,      \* requests of a resource that an app has in a window
  Window,      \* length of the window after which GitHub renews the budgets
  Unspecified, \* cooldown when the answer does not say how long (60 s)
  RetryAfter,  \* the Retry-After of a secondary limit
  MaxFaults    \* bound on errors, secondary limits, and requests of others

Resource == {"core", "registration"}

ASSUME RateLimitAssumption ==
  /\ App # {} /\ IsFiniteSet(App)
  /\ Budget \in [Resource -> Nat \ {0}]
  /\ Window \in Nat \ {0} /\ Unspecified \in Nat \ {0} /\ RetryAfter \in Nat \ {0}
  /\ MaxFaults \in Nat

VARIABLES
  budget,   \* what GitHub has left for an app and a resource
  window,   \* how long until GitHub renews the budgets
  refusals, \* requests refused for want of budget in this window (history)
  quota,    \* appRateLimitStates: requests left, and how long that is believed
  cooldown, \* appCooldowns: how long an app is left alone
  faults    \* faults left

githubVars == <<budget, window, refusals>>
limitVars == <<githubVars, quota, cooldown, faults>>

Most(a, b) == IF a > b THEN a ELSE b
Margin == 1
Longest == Most(Most(Window, Unspecified), RetryAfter) + Margin
Full == Most(Budget["core"], Budget["registration"]) + 1

\* An app of which nothing is known, or no longer, counts as full.
Unknown == [left |-> Full, ttl |-> 0]
Known(left, ttl) == IF ttl > 0 THEN [left |-> left, ttl |-> ttl] ELSE Unknown

LimitsTypeOK ==
  /\ budget \in [App -> [Resource -> 0 .. Full]]
  /\ window \in 1 .. Window
  /\ refusals \in [App -> [Resource -> Nat]]
  /\ quota \in [App -> [Resource -> [left : 0 .. Full, ttl : 0 .. Longest]]]
  /\ cooldown \in [App -> 0 .. Longest]
  /\ faults \in 0 .. MaxFaults

LimitsInit ==
  /\ budget = [a \in App |-> Budget]
  /\ window = Window
  /\ refusals = [a \in App |-> [r \in Resource |-> 0]]
  /\ quota = [a \in App |-> [r \in Resource |-> Unknown]]
  /\ cooldown = [a \in App |-> 0]
  /\ faults \in 0 .. MaxFaults

Fault == faults > 0 /\ faults' = faults - 1

\* A length, one tick later.
Later(t) == Most(0, t - 1)

PassTime ==
  /\ window' = IF window = 1 THEN Window ELSE window - 1
  /\ IF window = 1
     THEN budget' = [a \in App |-> Budget] /\ refusals' = [a \in App |-> [r \in Resource |-> 0]]
     ELSE UNCHANGED <<budget, refusals>>
  /\ quota' = [a \in App |-> [r \in Resource |-> Known(quota[a][r].left, Later(quota[a][r].ttl))]]
  /\ cooldown' = [a \in App |-> Later(cooldown[a])]
  /\ UNCHANGED faults

\* Other Lambda environments use the same apps.
OthersUse(a, r) ==
  /\ budget[a][r] > 0 /\ Fault
  /\ budget' = [budget EXCEPT ![a][r] = @ - 1]
  /\ UNCHANGED <<window, refusals, quota, cooldown>>

-----------------------------------------------------------------------------
\* reportAppRateLimit, of one observation q.

\* Mutant: an answer that was made before the exhaustion undoes it.
ReportedLast(q, left, ttl) == Known(left, ttl)

\* Mutant: an answer that has requests left prolongs the exhaustion as well.
ReportedLonger(q, left, ttl) ==
  IF q.left = 0 /\ q.ttl > 0 THEN [q EXCEPT !.ttl = Most(@, ttl)] ELSE Known(left, ttl)

\* Mutant: the end that the last of several refusals names is believed.
ReportedShorter(q, left, ttl) ==
  IF q.left = 0 /\ q.ttl > 0
  THEN [q EXCEPT !.ttl = IF left = 0 THEN ttl ELSE @]
  ELSE Known(left, ttl)

\* An exhaustion is believed until it is over, whatever arrives meanwhile.
Reported(q, left, ttl) ==
  IF q.left = 0 /\ q.ttl > 0
  THEN [q EXCEPT !.ttl = IF left = 0 THEN Most(@, ttl) ELSE @]
  ELSE Known(left, ttl)

\* How long a limit is believed when its answer names the length d.
Until(d) == IF d > 0 THEN d + Margin ELSE Unspecified

\* An answer of app a: what is left is observed, and a limit is reported.
Observe(q, answer) == Reported(q, answer.left, answer.reset)
Report(a, answer) ==
  LET seen == Observe(quota[a][answer.res], answer) IN
  /\ quota' = [quota EXCEPT ![a][answer.res] =
                 IF answer.kind = "primary" THEN Reported(seen, 0, Until(answer.reset)) ELSE seen]
  /\ cooldown' = [cooldown EXCEPT ![a] =
                    IF answer.kind = "secondary" THEN Most(@, Until(answer.after)) ELSE @]

-----------------------------------------------------------------------------
\* selectAppIndex.

Exhausted(a, r) == quota[a][r].left = 0 /\ quota[a][r].ttl > 0
Limited(a, r) == cooldown[a] > 0 \/ Exhausted(a, r)

\* The app believed to have most left; any of several.
Richest(S, r) == {a \in S : \A b \in S : quota[b][r].left <= quota[a][r].left}
=============================================================================
