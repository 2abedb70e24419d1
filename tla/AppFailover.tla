----------------------------- MODULE AppFailover -----------------------------
(****************************************************************************)
(* withAppFailover: the requests of one invocation share a set of           *)
(* installation clients, each made when it is first used.  A request that   *)
(* GitHub refuses for a rate limit is sent again with another app, and      *)
(* fails when there is none.  Requests run concurrently, and GitHub's       *)
(* answers arrive in any order.                                             *)
(****************************************************************************)
EXTENDS AppRateLimits

CONSTANTS
  Request, \* requests of an invocation
  Stored   \* apps whose installation id needs no request

ASSUME FailoverAssumption ==
  /\ IsFiniteSet(Request) /\ Request # {} /\ 0 \notin Request
  /\ Stored \subseteq App

\* The invocation begins with an operation that only makes a client.
Setup == 0
Op == Request \cup {Setup}

VARIABLES
  wants,   \* the resource each request counts for
  op,      \* the state of each operation
  clients  \* the installation clients: none, pending or ready

failoverVars == <<wants, op, clients>>
vars == <<limitVars, failoverVars>>

Answer == [kind : {"ok", "error", "stale", "primary", "secondary"}, res : Resource,
           left : 0 .. Full, reset : 0 .. Window, after : 0 .. RetryAfter]
Optional(S) == {{}} \cup {{x} : x \in S}
The(o) == CHOOSE x \in o : TRUE

\* Looking up the installation and minting its token count as core requests.
Waiting == {"lookup", "mint", "send"}
ResourceOf(p) == IF op[p].pc = "send" THEN wants[p] ELSE "core"

TypeOK ==
  /\ LimitsTypeOK
  /\ wants \in [Op -> Resource] /\ wants[Setup] = "core"
  /\ clients \in [App -> {"none", "pending", "ready"}]
  /\ op \in [Op -> [pc : {"idle", "chosen", "wait", "refused", "again", "done", "failed"} \cup Waiting,
                    app : Optional(App), tried : SUBSET App, looked : BOOLEAN, answer : Optional(Answer)]]
  /\ \A a \in App : Cardinality({p \in Op : op[p].app = {a} /\ op[p].pc \in {"lookup", "mint"}})
                      = IF clients[a] = "pending" THEN 1 ELSE 0
  /\ \A p \in Op : op[p].pc = "wait" => clients[The(op[p].app)] = "pending"
  /\ \A p \in Op : op[p].pc = "send" => clients[The(op[p].app)] = "ready"

Idle == [pc |-> "idle", app |-> {}, tried |-> {}, looked |-> FALSE, answer |-> {}]

Init ==
  /\ LimitsInit
  /\ wants \in [Op -> Resource] /\ wants[Setup] = "core"
  /\ op = [p \in Op |-> Idle]
  /\ clients = [a \in App |-> "none"]

End(pc) == [Idle EXCEPT !.pc = pc]
SetOp(p, o) == op' = [op EXCEPT ![p] = o]
Ended(p) == op[p].pc \in {"done", "failed"}

-----------------------------------------------------------------------------
\* select.

\* A client that is yet to be made needs core requests as well.
Usable(a, r) == r = "core" \/ clients[a] # "none" \/ ~Limited(a, "core")

Eligible(tried, r) == {a \in App \ tried : ~Limited(a, r)}

\* The app chosen next, with the richer ones that were passed over.
Selections(tried, r) ==
  LET able == {a \in Eligible(tried, r) : Usable(a, r)}
      passed(a) == {b \in Eligible(tried, r) \ able : quota[b][r].left > quota[a][r].left}
  IN {[app |-> a, tried |-> tried \cup passed(a) \cup {a}] : a \in Richest(able, r)}

\* The first selection of an operation, or the one after a refusal.  When
\* there is no app, the operation fails with the error it has.
Selecting(p) ==
  \/ op[p].pc = "idle" /\ (p = Setup \/ op[Setup].pc = "done")
  \/ op[p].pc = "again"

Select(p) ==
  /\ Selecting(p)
  /\ LET choices == Selections(op[p].tried, wants[p]) IN
     \/ /\ choices = {}
        /\ SetOp(p, End("failed"))
     \/ \E s \in choices :
          SetOp(p, [Idle EXCEPT !.pc = "chosen", !.app = {s.app}, !.tried = s.tried])
  /\ UNCHANGED <<limitVars, wants, clients>>

\* When all has ended, the schedule or the queue starts another invocation.
Restart ==
  /\ Ended(Setup)
  /\ op[Setup].pc = "done" => \A p \in Request : Ended(p)
  /\ op' = [p \in Op |-> Idle] /\ clients' = [a \in App |-> "none"]
  /\ UNCHANGED <<limitVars, wants>>

-----------------------------------------------------------------------------
\* getClient, and the request itself.

\* An operation that has its client.
WithClient(p) == IF p = Setup THEN End("done") ELSE [op[p] EXCEPT !.pc = "send", !.answer = {}]

\* Mutant: a client is made by each operation that finds none ready.
UseAppAlone(p) ==
  /\ op[p].pc = "chosen"
  /\ LET a == The(op[p].app) IN
     IF clients[a] = "ready" THEN SetOp(p, WithClient(p)) /\ UNCHANGED clients
     ELSE /\ SetOp(p, [op[p] EXCEPT !.pc = IF a \in Stored THEN "mint" ELSE "lookup",
                                    !.looked = a \notin Stored])
          /\ clients' = [clients EXCEPT ![a] = "pending"]
  /\ UNCHANGED <<limitVars, wants>>

UseApp(p) ==
  /\ op[p].pc = "chosen"
  /\ LET a == The(op[p].app) IN
     CASE clients[a] = "ready"   -> SetOp(p, WithClient(p)) /\ UNCHANGED clients
       [] clients[a] = "pending" -> SetOp(p, [op[p] EXCEPT !.pc = "wait"]) /\ UNCHANGED clients
       [] clients[a] = "none"    ->
            /\ SetOp(p, [op[p] EXCEPT !.pc = IF a \in Stored THEN "mint" ELSE "lookup",
                                      !.looked = a \notin Stored])
            /\ clients' = [clients EXCEPT ![a] = "pending"]
  /\ UNCHANGED <<limitVars, wants>>

\* GitHub counts the request, or refuses it.  A stored installation may be one
\* that is no more.
Answers(p, kind, after) ==
  SetOp(p, [op[p] EXCEPT !.answer =
    {[kind |-> kind, res |-> ResourceOf(p), left |-> budget'[The(op[p].app)][ResourceOf(p)],
      reset |-> window, after |-> after]}])

GitHub(p) ==
  /\ op[p].pc \in Waiting /\ op[p].answer = {}
  /\ LET a == The(op[p].app)
         r == ResourceOf(p)
     IN
     \/ /\ budget[a][r] > 0
        /\ budget' = [budget EXCEPT ![a][r] = @ - 1]
        /\ \/ Answers(p, "ok", 0) /\ UNCHANGED faults
           \/ Answers(p, "error", 0) /\ Fault
           \/ op[p].pc = "mint" /\ ~op[p].looked /\ Answers(p, "stale", 0) /\ Fault
        /\ UNCHANGED refusals
     \/ /\ budget[a][r] = 0 /\ UNCHANGED <<budget, faults>>
        /\ Answers(p, "primary", 0)
        /\ refusals' = [refusals EXCEPT ![a][r] = @ + 1]
     \/ /\ Fault /\ UNCHANGED <<budget, refusals>>
        /\ \E d \in {0, RetryAfter} : Answers(p, "secondary", d)
  /\ UNCHANGED <<window, quota, cooldown, wants, clients>>

Answered(p, pcs, kinds) == op[p].pc \in pcs /\ op[p].answer # {} /\ The(op[p].answer).kind \in kinds

\* Those that wait for the client of p.
Sharing(p) == {q \in Op : op[q].app = op[p].app /\ (q = p \/ op[q].pc = "wait")}

\* The installation was looked up, before the token or because of a 404.
LookUp(p) ==
  /\ \/ Answered(p, {"lookup"}, {"ok"})
        /\ SetOp(p, [op[p] EXCEPT !.pc = "mint", !.answer = {}])
     \/ Answered(p, {"mint"}, {"stale"})
        /\ SetOp(p, [op[p] EXCEPT !.pc = "lookup", !.looked = TRUE, !.answer = {}])
  /\ UNCHANGED <<limitVars, wants, clients>>

ClientReady(p) ==
  /\ Answered(p, {"mint"}, {"ok"})
  /\ clients' = [clients EXCEPT ![The(op[p].app)] = "ready"]
  /\ op' = [q \in Op |-> IF q \in Sharing(p) THEN WithClient(q) ELSE op[q]]
  /\ UNCHANGED <<limitVars, wants>>

Bad == {"error", "primary", "secondary"}

\* Mutant: only the operation that asked is told.
ClientFailsAlone(p) ==
  /\ Answered(p, {"lookup", "mint"}, Bad)
  /\ clients' = [clients EXCEPT ![The(op[p].app)] = "none"]
  /\ SetOp(p, [op[p] EXCEPT !.pc = "refused"])
  /\ UNCHANGED <<limitVars, wants>>

\* The next to use the app tries again; all that waited fail alike.
ClientFails(p) ==
  /\ Answered(p, {"lookup", "mint"}, Bad)
  /\ clients' = [clients EXCEPT ![The(op[p].app)] = "none"]
  /\ op' = [q \in Op |-> IF q \in Sharing(p)
                         THEN [op[q] EXCEPT !.pc = "refused", !.answer = op[p].answer] ELSE op[q]]
  /\ UNCHANGED <<limitVars, wants>>

Served(p) ==
  /\ Answered(p, {"send"}, {"ok"})
  /\ Report(The(op[p].app), The(op[p].answer))
  /\ SetOp(p, End("done"))
  /\ UNCHANGED <<githubVars, faults, wants, clients>>

\* Any answer is observed; only a rate limit is tried with another app.
Refused(p) ==
  /\ Answered(p, {"send", "refused"}, Bad)
  /\ Report(The(op[p].app), The(op[p].answer))
  /\ SetOp(p, IF The(op[p].answer).kind = "error" THEN End("failed")
              ELSE [Idle EXCEPT !.pc = "again", !.tried = op[p].tried])
  /\ UNCHANGED <<githubVars, faults, wants, clients>>

\* An answer that travels grows old as well.
Older(x) == [x EXCEPT !.reset = Later(@)]
Tick ==
  /\ PassTime
  /\ op' = [p \in Op |-> IF op[p].answer = {} THEN op[p]
                         ELSE [op[p] EXCEPT !.answer = {Older(The(op[p].answer))}]]
  /\ UNCHANGED <<wants, clients>>

-----------------------------------------------------------------------------
Step(p) ==
  \/ Select(p) \/ UseApp(p) \/ LookUp(p) \/ ClientReady(p) \/ ClientFails(p) \/ Served(p) \/ Refused(p)
Next ==
  \/ Restart \/ Tick
  \/ \E p \in Op : Step(p) \/ GitHub(p)
  \/ \E a \in App, r \in Resource : OthersUse(a, r) /\ UNCHANGED failoverVars

Fairness ==
  /\ WF_vars(Restart) /\ WF_vars(Tick)
  /\ \A p \in Op : WF_vars(Step(p) \/ GitHub(p))
Spec == Init /\ [][Next]_vars /\ Fairness

-----------------------------------------------------------------------------
\* An exhaustion is believed until its end, in whatever order the answers of
\* concurrent requests arrive (auth.ts:81-88).
ExhaustionIsKept ==
  [][\A a \in App, r \in Resource :
       Exhausted(a, r) /\ quota[a][r].ttl > 1 => Exhausted(a, r)']_vars

\* What is known of a limit is used: in one window GitHub refuses an app for
\* want of budget at most once for each of the concurrent requests.
RefusalsBounded ==
  \A a \in App, r \in Resource : refusals[a][r] <= Cardinality(Request)

\* No app is left alone for long without cause: what is believed exhausted is
\* so at GitHub until the window ends, or is over soon after that end, however
\* late the answers arrive and whatever they report (auth.ts:84-94).
ExhaustionIsReal ==
  \A a \in App, r \in Resource : Exhausted(a, r) =>
    \/ budget[a][r] = 0 /\ quota[a][r].ttl <= window + Margin
    \/ quota[a][r].ttl <= Most(Margin, Unspecified)

\* With budgets that are renewed, requests are served again and again: no
\* limit outlives its time, and no operation waits for ever for a client that
\* is not being made (app-failover.ts:96-107).
RequestsAreServed == []<>(\E p \in Request : op[p].pc = "done")
=============================================================================
