------------------------------ MODULE Upstream ------------------------------
(***************************************************************************)
(* One validation's way to mailboxlayer: the provider (provider.py) makes  *)
(* sure of the proxy list and of the secret, asks the client (client.py)   *)
(* for an answer, and on a rejected answer asks once more with a new       *)
(* secret; the client tries proxies (proxies.py) and direct requests.      *)
(* Every await of these coroutines is a step boundary.  Of the gate        *)
(* (Politeness.tla) only the cap on attempts in flight is kept here.       *)
(***************************************************************************)
EXTENDS SecretProvider, FiniteSets

CONSTANTS
    Proxies,        \* proxies the source may list
    Enabled,        \* proxies.enabled
    RefreshOnReject,\* secret.refresh_on_reject
    MaxRetries,     \* max(1, request.max_retries)
    MaxConcurrent   \* politeness.max_concurrent

VARIABLES
    fallback,       \* proxies.fallback_direct, as configured
    live,           \* ProxyPool._live
    bad,            \* ProxyPool._bad
    stale,          \* never refreshed, or refresh_minutes ago
    pc,             \* the await each caller is at
    task,           \* what the coroutines of each caller hold
    result          \* how its last validation (or health check) ended

poolVars == <<live, bad, stale>>
vars == <<secretVars, poolVars, fallback, pc, task, result>>

Results == {"accepted", "rejected", "UpstreamError", "SecretUnavailable", "escaped",
            "reachable", "unreachable"}

ASSUME UpstreamAssumption ==
    /\ Enabled \in BOOLEAN
    /\ RefreshOnReject \in BOOLEAN
    /\ MaxRotations \in Nat
    /\ MaxRetries \in Nat \ {0}
    /\ MaxConcurrent \in Nat \ {0}
    /\ None \notin Callers \cup Proxies \cup Nat \cup Results

Secrets == 0..MaxRotations

(* attempt and direct are get_json's loop counter and go_direct; proxy is    *)
(* the current attempt's, None for a direct one; key is the secret the       *)
(* request is hashed with; again marks the one retry after a rejection, and  *)
(* asked keeps the homepage's secret of the time it was decided (history).   *)
Task == [attempt : 0..MaxRetries - 1, direct : BOOLEAN, proxy : Proxies \cup {None},
         key : Secrets \cup {None}, again : BOOLEAN, asked : Secrets \cup {None}]

NoTask == [attempt |-> 0, direct |-> FALSE, proxy |-> None,
           key |-> None, again |-> FALSE, asked |-> None]

(* config.py refuses a configuration with neither proxies nor direct requests *)
Init ==
    /\ SecretInit
    /\ fallback \in BOOLEAN
    /\ Enabled \/ fallback
    /\ live = {} /\ bad = {}
    /\ stale = Enabled
    /\ pc = [c \in Callers |-> "done"]
    /\ task = [c \in Callers |-> NoTask]
    /\ result = [c \in Callers |-> None]

Goto(c, label) == pc' = [pc EXCEPT ![c] = label]

End(c, outcome) ==
    /\ Goto(c, "done")
    /\ task' = [task EXCEPT ![c] = NoTask]
    /\ result' = [result EXCEPT ![c] = outcome]

Available == live \ bad

-----------------------------------------------------------------------------
(* MailboxlayerProvider: validate, up to the secret *)

(* an address that passes the local syntax gate *)
Validate(c) ==
    /\ pc[c] = "done"
    /\ result' = [result EXCEPT ![c] = None]
    /\ IF stale THEN Goto(c, "ensure") /\ UNCHANGED secretVars
       ELSE Goto(c, "secret") /\ Get(c)
    /\ UNCHANGED <<poolVars, fallback, task>>

Replace(list) ==
    /\ live' = list
    /\ bad' = {}
    /\ stale' = FALSE

Ensured(c) ==
    /\ pc[c] = "ensure"
    /\ \E list \in SUBSET Proxies : Replace(list)
    /\ Goto(c, "secret")
    /\ Get(c)
    /\ UNCHANGED <<fallback, task, result>>

(* an httpx error is suppressed: the pool stays as it is *)
EnsureFails(c) ==
    /\ pc[c] = "ensure"
    /\ Goto(c, "secret")
    /\ Get(c)
    /\ UNCHANGED <<poolVars, fallback, task, result>>

(* the list is not JSON: the ValueError is not suppressed *)
EnsureGarbled(c) ==
    /\ pc[c] = "ensure"
    /\ End(c, "escaped")
    /\ UNCHANGED <<secretVars, poolVars, fallback>>

(* health() is behind the same get() *)
Health(c) ==
    /\ pc[c] = "done"
    /\ Goto(c, "health")
    /\ result' = [result EXCEPT ![c] = None]
    /\ Get(c)
    /\ UNCHANGED <<poolVars, fallback, task>>

Report(c) ==
    /\ pc[c] = "health"
    /\ LET secretOk == call[c] = "returned" /\ ok
       IN End(c, IF secretOk /\ (Available # {} \/ fallback) THEN "reachable" ELSE "unreachable")
    /\ Take(c)
    /\ UNCHANGED <<poolVars, fallback>>

(* get() or force_refresh() gave a secret: _request calls get_json *)
Request(c) ==
    /\ pc[c] = "secret"
    /\ call[c] = "returned"
    /\ task' = [task EXCEPT ![c].key = got[c], ![c].attempt = 0, ![c].direct = FALSE]
    /\ Take(c)
    /\ Goto(c, "pick")
    /\ UNCHANGED <<poolVars, fallback, result>>

NoSecret(c) ==
    /\ pc[c] = "secret"
    /\ call[c] = "raised"
    /\ Take(c)
    /\ End(c, "SecretUnavailable")
    /\ UNCHANGED <<poolVars, fallback>>

-----------------------------------------------------------------------------
(* UpstreamClient.get_json *)

AttemptThrough(c, p) ==
    /\ task' = [task EXCEPT ![c].proxy = p]
    /\ Goto(c, "gate")

PickProxy(c) ==
    /\ pc[c] = "pick"
    /\ ~task[c].direct
    /\ \E p \in Available : AttemptThrough(c, p)
    /\ UNCHANGED <<secretVars, poolVars, fallback, result>>

(* a proxy has failed before, or there is none *)
PickDirect(c) ==
    /\ pc[c] = "pick"
    /\ task[c].direct \/ (Available = {} /\ fallback)
    /\ task' = [task EXCEPT ![c].direct = TRUE, ![c].proxy = None]
    /\ Goto(c, "gate")
    /\ UNCHANGED <<secretVars, poolVars, fallback, result>>

PickNothing(c) ==
    /\ pc[c] = "pick"
    /\ ~task[c].direct /\ Available = {} /\ ~fallback
    /\ Goto(c, "refill")
    /\ UNCHANGED <<secretVars, poolVars, fallback, task, result>>

(* the refreshed list gives a proxy, or the loop is left *)
Refill(c) ==
    /\ pc[c] = "refill"
    /\ \E list \in SUBSET Proxies :
          /\ Replace(list)
          /\ \/ \E p \in list : AttemptThrough(c, p) /\ UNCHANGED result
             \/ list = {} /\ End(c, "UpstreamError")
    /\ UNCHANGED <<secretVars, fallback>>

(* refresh() is called outside the try: what it raises leaves get_json *)
RefillFails(c) ==
    /\ pc[c] = "refill"
    /\ End(c, "escaped")
    /\ UNCHANGED <<secretVars, poolVars, fallback>>

InFlight == {c \in Callers : pc[c] = "sent"}

(* through the gate; the request is on its way *)
Send(c) ==
    /\ pc[c] = "gate"
    /\ Cardinality(InFlight) < MaxConcurrent
    /\ Goto(c, "sent")
    /\ UNCHANGED <<secretVars, poolVars, fallback, task, result>>

(* mutation: one attempt too many *)
AgainOnceMore(c, direct) ==
    IF task[c].attempt < MaxRetries
    THEN Goto(c, "backoff") /\ task' = [task EXCEPT ![c].direct = direct] /\ UNCHANGED result
    ELSE End(c, "UpstreamError")

(* what follows a failed attempt: a pause, or the end of the loop *)
Again(c, direct) ==
    IF task[c].attempt < MaxRetries - 1
    THEN Goto(c, "backoff") /\ task' = [task EXCEPT ![c].direct = direct] /\ UNCHANGED result
    ELSE End(c, "UpstreamError")

MarkBad(c) ==
    /\ bad' = IF task[c].proxy = None THEN bad ELSE bad \cup {task[c].proxy}
    /\ UNCHANGED <<live, stale>>

(* mutation: the next attempt takes another proxy *)
AttemptFailsRotating(c) ==
    /\ pc[c] = "sent"
    /\ MarkBad(c)
    /\ Again(c, task[c].direct)
    /\ UNCHANGED <<secretVars, fallback>>

(* an error, a timeout or a body that is not a JSON object *)
AttemptFails(c) ==
    /\ pc[c] = "sent"
    /\ MarkBad(c)
    /\ Again(c, task[c].direct \/ (task[c].proxy # None /\ fallback))
    /\ UNCHANGED <<secretVars, fallback>>

Backoff(c) ==
    /\ pc[c] = "backoff"
    /\ task' = [task EXCEPT ![c].attempt = @ + 1, ![c].proxy = None]
    /\ Goto(c, "pick")
    /\ UNCHANGED <<secretVars, poolVars, fallback, result>>

-----------------------------------------------------------------------------
(* MailboxlayerProvider: what it makes of the answer *)

(* The client returns any JSON object.  Whether it looks bad is read off its *)
(* shape (success false, an error, no format_valid), so any answer may look  *)
(* good or bad, whichever secret the request was hashed with.                *)
Accepted(c) ==
    /\ pc[c] = "sent"
    /\ End(c, "accepted")
    /\ UNCHANGED <<secretVars, poolVars, fallback>>

(* mutation: the retry is not marked as one *)
RejectedUnmarked(c) ==
    /\ pc[c] = "sent"
    /\ RefreshOnReject /\ ~task[c].again
    /\ task' = [task EXCEPT ![c] = [NoTask EXCEPT !.asked = page]]
    /\ Goto(c, "secret")
    /\ ForceRefresh(c)
    /\ UNCHANGED <<poolVars, fallback, result>>

(* it looks bad: exactly one retry *)
Rejected(c) ==
    /\ pc[c] = "sent"
    /\ RefreshOnReject /\ ~task[c].again
    /\ task' = [task EXCEPT ![c] = [NoTask EXCEPT !.again = TRUE, !.asked = page]]
    /\ Goto(c, "secret")
    /\ ForceRefresh(c)
    /\ UNCHANGED <<poolVars, fallback, result>>

(* it looks bad, and is mapped and stored all the same *)
RejectedAgain(c) ==
    /\ pc[c] = "sent"
    /\ ~RefreshOnReject \/ task[c].again
    /\ End(c, "rejected")
    /\ UNCHANGED <<secretVars, poolVars, fallback>>

(* refresh_minutes have passed since the proxies were listed *)
PoolAges ==
    /\ Enabled /\ ~stale
    /\ stale' = TRUE
    /\ UNCHANGED <<secretVars, live, bad, fallback, pc, task, result>>

-----------------------------------------------------------------------------
Others == <<poolVars, fallback, pc, task, result>>

Refreshes(c) == Refreshing(c) /\ UNCHANGED Others

Prepare(c) == Ensured(c) \/ EnsureFails(c) \/ EnsureGarbled(c)
Pick(c) == PickProxy(c) \/ PickDirect(c) \/ PickNothing(c) \/ Refill(c) \/ RefillFails(c)
Answer(c) == Accepted(c) \/ Rejected(c) \/ RejectedAgain(c) \/ AttemptFails(c)
Proceed(c) ==
    Prepare(c) \/ Report(c) \/ Request(c) \/ NoSecret(c) \/ Pick(c) \/ Answer(c) \/ Backoff(c)

Environment == PoolAges \/ ((Expire \/ Rotate) /\ UNCHANGED Others)

Next ==
    \/ \E c \in Callers : Validate(c) \/ Health(c) \/ Refreshes(c) \/ Proceed(c) \/ Send(c)
    \/ Environment

Spec == Init /\ [][Next]_vars

(* The event loop runs what can run and every request has a timeout; the     *)
(* lock and the gate serve their waiters in order of arrival (hence SF).     *)
Fairness == \A c \in Callers : SF_vars(Refreshes(c) \/ Proceed(c) \/ Send(c))

FairSpec == Spec /\ Fairness

-----------------------------------------------------------------------------
(* Properties *)

TypeOK ==
    /\ SecretTypeOK
    /\ fallback \in BOOLEAN
    /\ live \subseteq Proxies
    /\ bad \subseteq Proxies
    /\ stale \in BOOLEAN
    /\ pc \in [Callers -> {"done", "ensure", "secret", "health", "pick", "refill", "gate",
                           "sent", "backoff"}]
    /\ task \in [Callers -> Task]
    /\ result \in [Callers -> Results \cup {None}]

(* The one retry of a rejected request is hashed with a secret the homepage  *)
(* showed after the rejection: never with the rejected one, nor with one     *)
(* that another caller fetched before and left in the cache                  *)
(* (secret.py:70-79, provider.py:88-91).                                     *)
RetryUsesNewSecret ==
    \A c \in Callers :
        task[c].again /\ task[c].key # None => task[c].key >= task[c].asked

(* Concurrent refreshes collapse: while somebody fetches the secret because  *)
(* it is stale, it is still stale; whoever queued behind a fetch finds its   *)
(* result (secret.py:74-78).                                                 *)
FetchesCollapse ==
    \A c \in Callers : call[c] = "fetch" /\ ~task[c].again => ~Fresh

(* With fallback_direct and a retry left, a validation does not give up      *)
(* before a direct request has failed (client.py:66-76, 106-113).            *)
GivesUpDirect ==
    [][\A c \in Callers :
          fallback /\ MaxRetries > 1 /\ pc[c] # "done" /\ result'[c] = "UpstreamError"
          => task[c].proxy = None]_vars

(* Every validation and every health check ends, however the secret's lock,  *)
(* the gate and the pool are contended.                                      *)
EveryCallEnds == \A c \in Callers : (pc[c] # "done") ~> (pc[c] = "done")

(* How many steps a validation still has before it, at most: those of get()  *)
(* or force_refresh(), five for every attempt that is left, and all of that  *)
(* again while the retry is not used up.                                     *)
CallLeft(c) ==
    CASE call[c] \in {"get", "force"} -> 3
      [] call[c] = "fetch" -> 2
      [] call[c] \in {"returned", "raised"} -> 1
      [] OTHER -> 0

AttemptLeft(c) ==
    5 * (MaxRetries - 1 - task[c].attempt) +
    CASE pc[c] = "pick" -> 5
      [] pc[c] = "refill" -> 4
      [] pc[c] = "gate" -> 3
      [] pc[c] = "sent" -> 2
      [] OTHER -> 1

Round == 5 * MaxRetries + 4
Left(c) ==
    CASE pc[c] = "done" -> 0
      [] pc[c] = "health" -> CallLeft(c)
      [] OTHER -> (IF task[c].again THEN 0 ELSE Round) +
                  CASE pc[c] = "ensure" -> Round
                    [] pc[c] = "secret" -> 5 * MaxRetries + CallLeft(c)
                    [] OTHER -> AttemptLeft(c)

(* Whatever happens to a call brings it nearer to its end, so that it ends   *)
(* after at most 2 * Round steps: neither secrets that keep changing nor     *)
(* other callers that refresh and mark the pool make it start over, and of   *)
(* callers that are rejected at once each fetches one secret more            *)
(* (client.py:66-76, provider.py:88-93, secret.py:68-79).                    *)
CallsAreBounded ==
    [][\A c \in Callers :
          pc[c] # "done" /\ <<pc[c], call[c], task[c]>> # <<pc'[c], call'[c], task'[c]>> =>
              0 <= Left(c)' /\ Left(c)' < Left(c) /\ Left(c) <= 2 * Round]_vars

(* What a call under way may have to wait for: the lock, or a place in the   *)
(* gate (secret.py:72, politeness.py:38). A call of get() that neither runs  *)
(* nor has ended would wait for ever.                                        *)
Waits(c) ==
    \/ call[c] \in {"get", "force"} /\ lock # None
    \/ pc[c] \in {"secret", "health"} /\ call[c] = "idle"
    \/ pc[c] = "gate" /\ Cardinality(InFlight) >= MaxConcurrent

(* The calls under way never all wait for one another: whoever holds the     *)
(* lock, and whoever fills the gate, can go on.                              *)
SomebodyMoves ==
    (\E c \in Callers : pc[c] # "done") => \E c \in Callers : pc[c] # "done" /\ ~Waits(c)
=============================================================================
