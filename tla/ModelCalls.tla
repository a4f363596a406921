----------------------------- MODULE ModelCalls -----------------------------
(***************************************************************************)
(* A call of the model from the server (llm/budget.go, llm/client.go) to   *)
(* the gateway (gateway/gateway.go) and through its balancer               *)
(* (gateway/balancer.go) to one of the providers' endpoints: the check of  *)
(* the learner's budget, retries on both sides, the choice of an endpoint, *)
(* what its answer does to it, and the record the budget is counted from.  *)
(*                                                                         *)
(* A cooldown is counted in ticks; Tick lets time pass.                    *)
(***************************************************************************)
EXTENDS Integers, FiniteSets

CONSTANTS
    Endpoints, ModelRequests,
    MaxAttempts, MaxTries,    \* request -> tries of the client, and of the gateway for each of them
    MaxTokens, CallTokens,    \* the learner's budget, and what a call costs
    FailureThreshold, CooldownCap,
    DurationBits,             \* width of a duration
    FailureCeiling,           \* bound: consecutive failures told apart; the shift is out of the width before
    MaxCalls                  \* bound: calls

ASSUME ModelAssumption ==
    /\ IsFiniteSet(ModelRequests)
    /\ MaxTokens \in Nat \ {0} /\ CallTokens \in Nat

VARIABLES
    endpoint,    \* endpoint -> what the balancer knows of it
    modelCall,   \* request -> its place
    tokens,      \* recorded tokens, of calls that were checked against the budget and of others
    calls        \* calls begun

modelVars == <<endpoint, modelCall, tokens, calls>>

NoCall == [pc |-> "idle", attempt |-> 0, try |-> 0, ep |-> "none", outcome |-> "none", checked |-> FALSE]

ModelInit ==
    /\ endpoint = [e \in Endpoints |-> [inFlight |-> 0, disabled |-> FALSE, cool |-> 0, failures |-> 0]]
    /\ modelCall = [c \in ModelRequests |-> NoCall]
    /\ tokens = [checked |-> 0, unchecked |-> 0]
    /\ calls = 0

X_OverByOne(c) ==
    /\ modelCall[c].pc = "idle"
    /\ calls < MaxCalls
    /\ calls' = calls + 1
    /\ \E checked \in BOOLEAN :
          modelCall' = [modelCall EXCEPT ![c] =
              IF checked /\ tokens.checked + tokens.unchecked > MaxTokens THEN NoCall
              ELSE [NoCall EXCEPT !.pc = "pick", !.attempt = 1, !.try = 1, !.checked = checked]]
    /\ UNCHANGED <<endpoint, tokens>>

\* A learner over budget is refused; a check that fails lets the call through.
CheckBudget(c) ==
    /\ modelCall[c].pc = "idle"
    /\ calls < MaxCalls
    /\ calls' = calls + 1
    /\ \E checked \in BOOLEAN :
          modelCall' = [modelCall EXCEPT ![c] =
              IF checked /\ tokens.checked + tokens.unchecked >= MaxTokens THEN NoCall
              ELSE [NoCall EXCEPT !.pc = "pick", !.attempt = 1, !.try = 1, !.checked = checked]]
    /\ UNCHANGED <<endpoint, tokens>>

-----------------------------------------------------------------------------
Eligible == {e \in Endpoints : ~endpoint[e].disabled /\ endpoint[e].cool = 0}

\* The least loaded of the eligible endpoints, by what their counters say now; without
\* one the answer is 503.
PickEndpoint(c) ==
    /\ modelCall[c].pc = "pick"
    /\ \/ /\ Eligible = {}
          /\ modelCall' = [modelCall EXCEPT ![c].pc = "decide", ![c].outcome = "passes"]
       \/ \E e \in Eligible :
          /\ \A f \in Eligible : endpoint[e].inFlight <= endpoint[f].inFlight
          /\ modelCall' = [modelCall EXCEPT ![c].pc = "depart", ![c].ep = e]
    /\ UNCHANGED <<endpoint, tokens, calls>>

\* Only now the counter is raised.
Depart(c) ==
    /\ modelCall[c].pc = "depart"
    /\ endpoint' = [endpoint EXCEPT ![modelCall[c].ep].inFlight = @ + 1]
    /\ modelCall' = [modelCall EXCEPT ![c].pc = "upstream"]
    /\ UNCHANGED <<tokens, calls>>

\* A duration of one tick, shifted in its width; what comes out negative is in the past.
Shifted(n) ==
    LET wrapped == (2 ^ n) % (2 ^ DurationBits)
    IN  IF wrapped >= 2 ^ (DurationBits - 1) THEN wrapped - 2 ^ DurationBits ELSE wrapped

Backoff(failures) ==
    LET d == Shifted(IF failures > 1 THEN failures - 1 ELSE 0)
    IN  IF d > CooldownCap THEN CooldownCap ELSE IF d < 0 THEN 0 ELSE d

\* The provider's answer by its status: success; 401, 402 or 403; 429, with a Retry-After
\* or not; the other transient ones; the rest.  A late success clears the cooldown that
\* another call brought about, and a cooldown replaces a longer one.
Answers(e) ==
    {[row |-> [e EXCEPT !.failures = 0, !.cool = 0], pc |-> "decide", outcome |-> "success"],
     [row |-> [e EXCEPT !.disabled = TRUE], pc |-> "decide", outcome |-> "final"],
     [row |-> [e EXCEPT !.cool = CooldownCap], pc |-> "decide", outcome |-> "passes"],
     [row |-> [e EXCEPT !.cool = Backoff(e.failures)], pc |-> "decide", outcome |-> "passes"],
     [row |-> [e EXCEPT !.failures = IF @ = FailureCeiling THEN @ ELSE @ + 1],
      pc |-> IF e.failures + 1 >= FailureThreshold THEN "cool" ELSE "decide", outcome |-> "passes"],
     [row |-> [e EXCEPT !.failures = 0], pc |-> "decide", outcome |-> "final"]}

X_LeakOnError(c) ==
    LET e == modelCall[c].ep
    IN  /\ modelCall[c].pc = "upstream"
        /\ \E a \in Answers(endpoint[e]) :
              /\ endpoint' = [endpoint EXCEPT ![e] =
                    IF a.outcome = "success" THEN [a.row EXCEPT !.inFlight = @ - 1] ELSE a.row]
              /\ modelCall' = [modelCall EXCEPT ![c].pc = a.pc, ![c].outcome = a.outcome]
        /\ UNCHANGED <<tokens, calls>>

Upstream(c) ==
    LET e == modelCall[c].ep
    IN  /\ modelCall[c].pc = "upstream"
        /\ \E a \in Answers(endpoint[e]) :
              /\ endpoint' = [endpoint EXCEPT ![e] = [a.row EXCEPT !.inFlight = @ - 1]]
              /\ modelCall' = [modelCall EXCEPT ![c].pc = a.pc, ![c].outcome = a.outcome]
        /\ UNCHANGED <<tokens, calls>>

\* The failure was counted before; by now another answer may have reset the count.
Cooldown(c) ==
    LET e == modelCall[c].ep
    IN  /\ modelCall[c].pc = "cool"
        /\ endpoint' = [endpoint EXCEPT ![e].cool = Backoff(endpoint[e].failures)]
        /\ modelCall' = [modelCall EXCEPT ![c].pc = "decide"]
        /\ UNCHANGED <<tokens, calls>>

Again(c, attempt, try) ==
    modelCall' = [modelCall EXCEPT ![c] = [NoCall EXCEPT !.pc = "pick", !.checked = modelCall[c].checked,
                                              !.attempt = attempt, !.try = try]]

\* The gateway tries again if the error may pass, or another endpoint could take the call.
TryAgain(c) ==
    LET call == modelCall[c]
    IN  /\ call.pc = "decide"
        /\ call.outcome = "passes" \/ (call.outcome = "final" /\ Eligible # {})
        /\ call.try < MaxTries[c]
        /\ Again(c, call.attempt, call.try + 1)
        /\ UNCHANGED <<endpoint, tokens, calls>>

\* The client sends it again if the status it got may pass.
SendAgain(c) ==
    LET call == modelCall[c]
    IN  /\ call.pc = "decide"
        /\ call.outcome = "passes"
        /\ call.try = MaxTries[c]
        /\ call.attempt < MaxAttempts[c]
        /\ Again(c, call.attempt + 1, 1)
        /\ UNCHANGED <<endpoint, tokens, calls>>

\* The call is over: answered, refused for good, out of tries, or cancelled in a wait.
EndCall(c) ==
    LET call == modelCall[c]
    IN  /\ call.pc = "decide"
        /\ call.outcome = "final" => (call.try = MaxTries[c] \/ Eligible = {})
        /\ modelCall' = [modelCall EXCEPT ![c] = [NoCall EXCEPT !.pc = "record", !.outcome = call.outcome, !.checked = call.checked]]
        /\ UNCHANGED <<endpoint, tokens, calls>>

\* The audit log, written once for the call, best effort; only a success has tokens.
RecordCall(c) ==
    LET call == modelCall[c]
    IN  /\ call.pc = "record"
        /\ tokens' \in {tokens,
              IF call.outcome # "success" THEN tokens
              ELSE IF call.checked THEN [tokens EXCEPT !.checked = @ + CallTokens]
              ELSE [tokens EXCEPT !.unchecked = @ + CallTokens]}
        /\ modelCall' = [modelCall EXCEPT ![c] = NoCall]
        /\ UNCHANGED <<endpoint, calls>>

Tick ==
    /\ \E e \in Endpoints : endpoint[e].cool > 0
    /\ endpoint' = [e \in Endpoints |-> [endpoint[e] EXCEPT !.cool = IF @ > 0 THEN @ - 1 ELSE 0]]
    /\ UNCHANGED <<modelCall, tokens, calls>>

ModelStep(c) == CheckBudget(c) \/ PickEndpoint(c) \/ Depart(c) \/ Upstream(c) \/ Cooldown(c)
                \/ TryAgain(c) \/ SendAgain(c) \/ EndCall(c) \/ RecordCall(c)

ModelNext == (\E c \in ModelRequests : ModelStep(c)) \/ Tick

ModelSpec == ModelInit /\ [][ModelNext]_modelVars

-----------------------------------------------------------------------------
\* budget.go:36: two concurrent calls under the limit may together cross it.  The
\* overshoot stays within one call per request in flight, however often they are retried.
BudgetOvershootBounded ==
    tokens.checked <= MaxTokens - 1 + Cardinality(ModelRequests) * CallTokens

\* balancer.go:157: the counter the balancer compares is the number of calls that are
\* with the endpoint, on every way a call can end.
LoadIsCalls == \A e \in Endpoints :
    endpoint[e].inFlight = Cardinality({c \in ModelRequests : modelCall[c].pc = "upstream" /\ modelCall[c].ep = e})
=============================================================================
