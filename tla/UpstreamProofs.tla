--------------------------- MODULE UpstreamProofs ---------------------------
(***************************************************************************)
(* What holds of Upstream for any callers and proxies, any number of       *)
(* rotations and attempts, with and without proxies and the fallback.      *)
(***************************************************************************)
EXTENDS Upstream, Integers, FiniteSetTheorems, TLAPS

USE UpstreamAssumption

-----------------------------------------------------------------------------
(* The inductive invariant *)

(* The lock is held by the one caller that fetches. *)
Locking ==
    /\ \A c \in Callers : call[c] = "fetch" => lock = c
    /\ lock # None => call[lock] = "fetch"

(* Where the provider is when get() or force_refresh() runs, and which one. *)
Calling(c) ==
    /\ pc[c] \notin {"secret", "health"} => call[c] = "idle"
    /\ call[c] = "force" => task[c].again
    /\ pc[c] = "secret" /\ task[c].again => call[c] \notin {"idle", "get"}
    /\ pc[c] \in {"done", "ensure", "health"} => ~task[c].again
    /\ pc[c] # "done" => result[c] = None

(* get() and force_refresh() come back: nobody waits there for nothing. *)
Running(c) == pc[c] \in {"secret", "health"} => call[c] # "idle"

(* No secret is newer than the homepage's, and that of a retry is not older  *)
(* than the homepage's when the retry was decided.                           *)
Dated(c) ==
    /\ got[c] # None => got[c] <= page
    /\ task[c].key # None =>
          task[c].key <= page /\ pc[c] \in {"pick", "refill", "gate", "sent", "backoff"}
    /\ task[c].again => task[c].asked # None
    /\ task[c].again /\ call[c] = "returned" => got[c] # None /\ got[c] >= task[c].asked
    /\ task[c].again /\ pc[c] \in {"pick", "refill", "gate", "sent", "backoff"} =>
          task[c].key # None /\ task[c].key >= task[c].asked

NotAhead ==
    /\ value # None => value <= page
    /\ \A c \in Callers : task[c].asked # None => task[c].asked <= page

(* With a fallback, every attempt after the first is a direct one. *)
Falling(c) ==
    /\ pc[c] = "refill" => ~fallback /\ ~task[c].direct
    /\ pc[c] \in {"gate", "sent"} => (task[c].proxy = None <=> task[c].direct)
    /\ fallback /\ pc[c] \in {"pick", "gate", "sent"} /\ task[c].attempt > 0 => task[c].direct
    /\ pc[c] = "backoff" => task[c].attempt < MaxRetries - 1 /\ (fallback => task[c].direct)

IInv ==
    /\ TypeOK
    /\ Locking
    /\ \A c \in Callers : Calling(c) /\ Running(c) /\ Dated(c) /\ Falling(c)
    /\ NotAhead
    /\ FetchesCollapse

-----------------------------------------------------------------------------
(* Every step preserves it, conjunct by conjunct *)

(* The types of the variables, part by part. *)
PoolTypes ==
    fallback \in BOOLEAN /\ live \subseteq Proxies /\ bad \subseteq Proxies /\ stale \in BOOLEAN

CallerTypes ==
    /\ pc \in [Callers -> {"done", "ensure", "secret", "health", "pick", "refill", "gate",
                           "sent", "backoff"}]
    /\ task \in [Callers -> Task]
    /\ result \in [Callers -> Results \cup {None}]

(* No task is a task. *)
LEMMA NoTaskIsTask == NoTask \in Task
  BY DEF NoTask, Task

(* What the coroutines change of a task keeps its type. *)
LEMMA TaskRequest ==
    ASSUME NEW t \in Task, NEW k \in Secrets \cup {None}, NEW a \in 0..MaxRetries - 1,
           NEW d \in BOOLEAN
    PROVE  [t EXCEPT !.key = k, !.attempt = a, !.direct = d] \in Task
  BY DEF Task

LEMMA TaskDirect ==
    ASSUME NEW t \in Task, NEW d \in BOOLEAN, NEW p \in Proxies \cup {None}
    PROVE  [t EXCEPT !.direct = d, !.proxy = p] \in Task
  BY DEF Task

LEMMA TaskBackoff ==
    ASSUME NEW t \in Task, NEW a \in 0..MaxRetries - 1, NEW p \in Proxies \cup {None}
    PROVE  [t EXCEPT !.attempt = a, !.proxy = p] \in Task
  BY DEF Task

(* A call that ends keeps the types. *)
LEMMA EndTypes ==
    ASSUME CallerTypes, NEW c \in Callers, NEW o \in Results, End(c, o)
    PROVE  CallerTypes'
  BY NoTaskIsTask DEF CallerTypes, End, Goto

(* Every step of the secret keeps its types. *)
LEMMA SecretSteps ==
    ASSUME SecretTypeOK, NEW c \in Callers,
           Get(c) \/ ForceRefresh(c) \/ Refreshing(c) \/ Take(c) \/ Expire \/ Rotate
    PROVE  SecretTypeOK'
<1> USE DEF SecretTypeOK
<1>1. CASE Get(c)
  BY <1>1 DEF Get, Return, Fresh
<1>2. CASE ForceRefresh(c)
  BY <1>2 DEF ForceRefresh
<1>3. CASE Locked(c)
  BY <1>3 DEF Locked, Return, Fresh
<1>4. CASE BeginFetch(c)
  BY <1>4 DEF BeginFetch
<1>5. CASE Fetched(c)
  BY <1>5 DEF Fetched, Return
<1>6. CASE FetchFailed(c)
  BY <1>6 DEF FetchFailed
<1>7. CASE Take(c)
  BY <1>7 DEF Take
<1>8. CASE Expire
  BY <1>8 DEF Expire
<1>9. CASE Rotate
  BY <1>9 DEF Rotate
<1>10. QED
  BY <1>1, <1>2, <1>3, <1>4, <1>5, <1>6, <1>7, <1>8, <1>9 DEF Refreshing

(* The types of the variables. *)
LEMMA TypeStep == IInv /\ [Next]_vars => TypeOK'
<1> SUFFICES ASSUME IInv, [Next]_vars PROVE TypeOK'
  OBVIOUS
<1>1. SecretTypeOK /\ PoolTypes /\ CallerTypes
  BY DEF IInv, TypeOK, PoolTypes, CallerTypes
<1>2. SecretTypeOK'
  <2>1. CASE UNCHANGED secretVars
    BY <1>1, <2>1 DEF secretVars, SecretTypeOK
  <2>2. CASE \E c \in Callers :
                Get(c) \/ ForceRefresh(c) \/ Refreshing(c) \/ Take(c) \/ Expire \/ Rotate
    BY <1>1, <2>2, SecretSteps
  <2>3. ASSUME NEW c \in Callers, Proceed(c)
        PROVE  UNCHANGED secretVars \/ Get(c) \/ ForceRefresh(c) \/ Take(c)
    BY <2>3 DEF Proceed, Prepare, Ensured, EnsureFails, EnsureGarbled, Report, Request,
                NoSecret, Pick, PickProxy, PickDirect, PickNothing, Refill, RefillFails, Answer,
                Accepted, Rejected, RejectedAgain, AttemptFails, Backoff
  <2>4. CASE Expire
    BY <1>1, <2>4 DEF Expire, SecretTypeOK
  <2>5. CASE Rotate
    BY <1>1, <2>5 DEF Rotate, SecretTypeOK
  <2>6. QED
    BY <2>1, <2>2, <2>3, <2>4, <2>5
    DEF Next, Validate, Health, Refreshes, Send, Environment, PoolAges, vars
<1>3. PoolTypes'
  <2>1. CASE UNCHANGED <<poolVars, fallback>>
    BY <1>1, <2>1 DEF poolVars, PoolTypes
  <2>2. CASE UNCHANGED fallback /\ \E list \in SUBSET Proxies : Replace(list)
    BY <1>1, <2>2 DEF Replace, PoolTypes
  <2>3. ASSUME NEW c \in Callers, AttemptFails(c) PROVE PoolTypes'
    <3>1. task[c].proxy \in Proxies \cup {None}
      BY <1>1 DEF CallerTypes, Task
    <3>2. QED
      BY <1>1, <2>3, <3>1 DEF AttemptFails, MarkBad, PoolTypes
  <2>4. CASE PoolAges
    BY <1>1, <2>4 DEF PoolAges, PoolTypes
  <2>5. QED
    BY <2>1, <2>2, <2>3, <2>4
    DEF Next, Validate, Health, Refreshes, Send, Environment, Proceed, Prepare, Ensured,
        EnsureFails, EnsureGarbled, Report, Request, NoSecret, Pick, PickProxy, PickDirect,
        PickNothing, Refill, RefillFails, Answer, Accepted, Rejected, RejectedAgain, Backoff,
        Others, vars
<1>4. CallerTypes'
  <2>1. CASE UNCHANGED <<pc, task, result>>
    BY <1>1, <2>1 DEF CallerTypes
  <2>2. CASE \E c \in Callers, o \in Results : End(c, o)
    BY <1>1, <2>2, EndTypes
  <2>3. ASSUME NEW c \in Callers,
               Validate(c) \/ Health(c) \/ Ensured(c) \/ EnsureFails(c) \/ PickNothing(c) \/ Send(c)
        PROVE  CallerTypes'
    BY <1>1, <2>3 DEF CallerTypes, Validate, Health, Ensured, EnsureFails, PickNothing, Send, Goto
  <2>4. ASSUME NEW c \in Callers, Request(c) PROVE CallerTypes'
    <3>1. got[c] \in Secrets \cup {None} /\ 0 \in 0..MaxRetries - 1
      BY <1>1 DEF SecretTypeOK, Secrets
    <3>2. [task[c] EXCEPT !.key = got[c], !.attempt = 0, !.direct = FALSE] \in Task
      BY <1>1, <3>1, TaskRequest DEF CallerTypes
    <3>3. QED
      BY <1>1, <2>4, <3>2 DEF CallerTypes, Request, Goto
  <2>5. ASSUME NEW c \in Callers, NEW p \in Proxies, AttemptThrough(c, p), UNCHANGED result
        PROVE  CallerTypes'
    <3>1. [task[c] EXCEPT !.proxy = p] \in Task
      BY <1>1 DEF CallerTypes, Task
    <3>2. QED
      BY <1>1, <2>5, <3>1 DEF CallerTypes, AttemptThrough, Goto
  <2>6. ASSUME NEW c \in Callers, PickDirect(c) PROVE CallerTypes'
    <3>1. [task[c] EXCEPT !.direct = TRUE, !.proxy = None] \in Task
      BY <1>1, TaskDirect DEF CallerTypes
    <3>2. QED
      BY <1>1, <2>6, <3>1 DEF CallerTypes, PickDirect, Goto
  <2>7. ASSUME NEW c \in Callers, AttemptFails(c) PROVE CallerTypes'
    <3>1. PICK d \in BOOLEAN : Again(c, d)
      BY <1>1, <1>3, <2>7 DEF AttemptFails, CallerTypes, Task, PoolTypes
    <3>2. [task[c] EXCEPT !.direct = d] \in Task
      BY <1>1 DEF CallerTypes, Task
    <3>3. CASE End(c, "UpstreamError")
      BY <1>1, <3>3, EndTypes DEF Results
    <3>4. CASE Goto(c, "backoff") /\ task' = [task EXCEPT ![c].direct = d] /\ UNCHANGED result
      BY <1>1, <3>2, <3>4 DEF CallerTypes, Goto
    <3>5. QED
      BY <3>1, <3>3, <3>4 DEF Again
  <2>8. ASSUME NEW c \in Callers, Backoff(c) PROVE CallerTypes'
    <3>1. task[c].attempt + 1 \in 0..MaxRetries - 1
      BY <1>1, <2>8 DEF IInv, Falling, CallerTypes, Task, Backoff
    <3>2. [task[c] EXCEPT !.attempt = @ + 1, !.proxy = None] \in Task
      BY <1>1, <3>1, TaskBackoff DEF CallerTypes
    <3>3. QED
      BY <1>1, <2>8, <3>2 DEF CallerTypes, Backoff, Goto
  <2>9. ASSUME NEW c \in Callers, Rejected(c) PROVE CallerTypes'
    <3>1. page \in Secrets
      BY <1>1 DEF SecretTypeOK, Secrets
    <3>2. [NoTask EXCEPT !.again = TRUE, !.asked = page] \in Task
      BY <3>1, NoTaskIsTask DEF Task
    <3>3. QED
      BY <1>1, <2>9, <3>2 DEF CallerTypes, Rejected, Goto
  <2>10. ASSUME NEW c \in Callers,
                EnsureGarbled(c) \/ NoSecret(c) \/ RefillFails(c) \/ Accepted(c) \/ RejectedAgain(c)
         PROVE  CallerTypes'
    BY <2>2, <2>10 DEF EnsureGarbled, NoSecret, RefillFails, Accepted, RejectedAgain, Results
  <2>11. ASSUME NEW c \in Callers, Report(c) PROVE CallerTypes'
    <3>1. End(c, "reachable") \/ End(c, "unreachable")
      BY <2>11 DEF Report
    <3>2. QED
      BY <2>2, <3>1 DEF Results
  <2>12. ASSUME NEW c \in Callers, PickProxy(c) \/ Refill(c) PROVE CallerTypes'
    <3>1. \/ \E p \in Proxies : AttemptThrough(c, p) /\ UNCHANGED result
          \/ End(c, "UpstreamError")
      BY <1>1, <2>12 DEF PickProxy, Refill, Available, PoolTypes
    <3>2. QED
      BY <2>2, <2>5, <3>1 DEF Results
  <2>13. QED
    BY <2>1, <2>3, <2>4, <2>6, <2>7, <2>8, <2>9, <2>10, <2>11, <2>12
    DEF Next, Refreshes, Environment, PoolAges, Proceed, Prepare, Pick, Answer, Others, vars
<1>5. QED
  BY <1>2, <1>3, <1>4 DEF TypeOK, PoolTypes, CallerTypes

(* Who fetches holds the lock. *)
LEMMA LockStep == IInv /\ [Next]_vars => Locking'
<1> SUFFICES ASSUME IInv, [Next]_vars PROVE Locking'
  OBVIOUS
<1> USE DEF IInv, TypeOK, SecretTypeOK, Locking, Calling
<1>1. ASSUME NEW c \in Callers, Validate(c) PROVE Locking'
  BY <1>1 DEF Validate, Get, Return, Goto, secretVars, poolVars
<1>2. ASSUME NEW c \in Callers, Health(c) PROVE Locking'
  BY <1>2 DEF Health, Get, Return, Goto, secretVars, poolVars
<1>3. ASSUME NEW c \in Callers, Refreshes(c) PROVE Locking'
  BY <1>3 DEF Refreshes, Refreshing, Locked, BeginFetch, Fetched, FetchFailed, Return,
              Others, Goto, secretVars, poolVars
<1>4. ASSUME NEW c \in Callers, Prepare(c) PROVE Locking'
  BY <1>4 DEF Prepare, Ensured, EnsureFails, EnsureGarbled, Get, Return, Replace, End, Goto,
              secretVars, poolVars
<1>5. ASSUME NEW c \in Callers, Report(c) PROVE Locking'
  BY <1>5 DEF Report, Take, End, Goto, secretVars, poolVars
<1>6. ASSUME NEW c \in Callers, Request(c) PROVE Locking'
  BY <1>6 DEF Request, Take, Goto, secretVars, poolVars
<1>7. ASSUME NEW c \in Callers, NoSecret(c) PROVE Locking'
  BY <1>7 DEF NoSecret, Take, End, Goto, secretVars, poolVars
<1>8. ASSUME NEW c \in Callers, PickProxy(c) PROVE Locking'
  BY <1>8 DEF PickProxy, Available, AttemptThrough, Goto, secretVars, poolVars
<1>9. ASSUME NEW c \in Callers, PickDirect(c) \/ PickNothing(c) PROVE Locking'
  BY <1>9 DEF PickDirect, PickNothing, Goto, secretVars, poolVars
<1>10. ASSUME NEW c \in Callers, Refill(c) PROVE Locking'
  BY <1>10 DEF Refill, AttemptThrough, Replace, End, Goto, secretVars, poolVars
<1>11. ASSUME NEW c \in Callers, RefillFails(c) PROVE Locking'
  BY <1>11 DEF RefillFails, End, Goto, secretVars, poolVars
<1>12. ASSUME NEW c \in Callers, Send(c) PROVE Locking'
  BY <1>12 DEF Send, Goto, secretVars, poolVars
<1>13. ASSUME NEW c \in Callers, Backoff(c) PROVE Locking'
  BY <1>13 DEF Backoff, Goto, secretVars, poolVars
<1>14. ASSUME NEW c \in Callers, Accepted(c) \/ RejectedAgain(c) PROVE Locking'
  BY <1>14 DEF Accepted, RejectedAgain, End, Goto, secretVars, poolVars
<1>15. ASSUME NEW c \in Callers, Rejected(c) PROVE Locking'
  BY <1>15 DEF Rejected, ForceRefresh, Goto, secretVars, poolVars
<1>16. ASSUME NEW c \in Callers, AttemptFails(c) PROVE Locking'
  BY <1>16 DEF AttemptFails, MarkBad, Again, End, Goto, secretVars, poolVars
<1>17. CASE Environment \/ UNCHANGED vars
  BY <1>17 DEF Environment, PoolAges, Expire, Rotate, Others, vars, secretVars, poolVars
<1>18. QED
  BY <1>1, <1>2, <1>3, <1>4, <1>5, <1>6, <1>7, <1>8, <1>9, <1>10, <1>11, <1>12, <1>13, <1>14, <1>15, <1>16, <1>17 DEF Next, Proceed, Pick, Answer

(* The provider and its secret go together. *)
LEMMA CallingStep == IInv /\ [Next]_vars => (\A d \in Callers : Calling(d))'
<1> SUFFICES ASSUME IInv, [Next]_vars PROVE (\A d \in Callers : Calling(d))'
  OBVIOUS
<1> USE DEF IInv, TypeOK, SecretTypeOK, Task, NoTask, Calling
<1>1. ASSUME NEW c \in Callers, Validate(c) PROVE (\A d \in Callers : Calling(d))'
  BY <1>1 DEF Validate, Get, Return, Goto, secretVars, poolVars
<1>2. ASSUME NEW c \in Callers, Health(c) PROVE (\A d \in Callers : Calling(d))'
  BY <1>2 DEF Health, Get, Return, Goto, secretVars, poolVars
<1>3. ASSUME NEW c \in Callers, Refreshes(c) PROVE (\A d \in Callers : Calling(d))'
  BY <1>3 DEF Refreshes, Refreshing, Locked, BeginFetch, Fetched, FetchFailed, Return,
              Others, Goto, secretVars, poolVars
<1>4. ASSUME NEW c \in Callers, Prepare(c) PROVE (\A d \in Callers : Calling(d))'
  BY <1>4 DEF Prepare, Ensured, EnsureFails, EnsureGarbled, Get, Return, Replace, End, Goto,
              secretVars, poolVars
<1>5. ASSUME NEW c \in Callers, Report(c) PROVE (\A d \in Callers : Calling(d))'
  BY <1>5 DEF Report, Take, End, Goto, secretVars, poolVars
<1>6. ASSUME NEW c \in Callers, Request(c) PROVE (\A d \in Callers : Calling(d))'
  BY <1>6 DEF Request, Take, Goto, secretVars, poolVars
<1>7. ASSUME NEW c \in Callers, NoSecret(c) PROVE (\A d \in Callers : Calling(d))'
  BY <1>7 DEF NoSecret, Take, End, Goto, secretVars, poolVars
<1>8. ASSUME NEW c \in Callers, PickProxy(c) PROVE (\A d \in Callers : Calling(d))'
  BY <1>8 DEF PickProxy, Available, AttemptThrough, Goto, secretVars, poolVars
<1>9. ASSUME NEW c \in Callers, PickDirect(c) \/ PickNothing(c) PROVE (\A d \in Callers : Calling(d))'
  BY <1>9 DEF PickDirect, PickNothing, Goto, secretVars, poolVars
<1>10. ASSUME NEW c \in Callers, Refill(c) PROVE (\A d \in Callers : Calling(d))'
  BY <1>10 DEF Refill, AttemptThrough, Replace, End, Goto, secretVars, poolVars
<1>11. ASSUME NEW c \in Callers, RefillFails(c) PROVE (\A d \in Callers : Calling(d))'
  BY <1>11 DEF RefillFails, End, Goto, secretVars, poolVars
<1>12. ASSUME NEW c \in Callers, Send(c) PROVE (\A d \in Callers : Calling(d))'
  BY <1>12 DEF Send, Goto, secretVars, poolVars
<1>13. ASSUME NEW c \in Callers, Backoff(c) PROVE (\A d \in Callers : Calling(d))'
  BY <1>13 DEF Backoff, Goto, secretVars, poolVars
<1>14. ASSUME NEW c \in Callers, Accepted(c) \/ RejectedAgain(c) PROVE (\A d \in Callers : Calling(d))'
  BY <1>14 DEF Accepted, RejectedAgain, End, Goto, secretVars, poolVars
<1>15. ASSUME NEW c \in Callers, Rejected(c) PROVE (\A d \in Callers : Calling(d))'
  BY <1>15 DEF Rejected, ForceRefresh, Goto, secretVars, poolVars
<1>16. ASSUME NEW c \in Callers, AttemptFails(c) PROVE (\A d \in Callers : Calling(d))'
  BY <1>16 DEF AttemptFails, MarkBad, Again, End, Goto, secretVars, poolVars
<1>17. CASE Environment \/ UNCHANGED vars
  BY <1>17 DEF Environment, PoolAges, Expire, Rotate, Others, vars, secretVars, poolVars
<1>18. QED
  BY <1>1, <1>2, <1>3, <1>4, <1>5, <1>6, <1>7, <1>8, <1>9, <1>10, <1>11, <1>12, <1>13, <1>14, <1>15, <1>16, <1>17 DEF Next, Proceed, Pick, Answer

(* A call of get() is under way or has its result. *)
LEMMA RunningStep == IInv /\ [Next]_vars => (\A d \in Callers : Running(d))'
<1> SUFFICES ASSUME IInv, [Next]_vars PROVE (\A d \in Callers : Running(d))'
  OBVIOUS
<1> USE DEF IInv, TypeOK, SecretTypeOK, Task, NoTask, Calling, Running
<1>1. ASSUME NEW c \in Callers, Validate(c) PROVE (\A d \in Callers : Running(d))'
  BY <1>1 DEF Validate, Get, Return, Goto, secretVars, poolVars
<1>2. ASSUME NEW c \in Callers, Health(c) PROVE (\A d \in Callers : Running(d))'
  BY <1>2 DEF Health, Get, Return, Goto, secretVars, poolVars
<1>3. ASSUME NEW c \in Callers, Refreshes(c) PROVE (\A d \in Callers : Running(d))'
  BY <1>3 DEF Refreshes, Refreshing, Locked, BeginFetch, Fetched, FetchFailed, Return,
              Others, Goto, secretVars, poolVars
<1>4. ASSUME NEW c \in Callers, Prepare(c) PROVE (\A d \in Callers : Running(d))'
  BY <1>4 DEF Prepare, Ensured, EnsureFails, EnsureGarbled, Get, Return, Replace, End, Goto,
              secretVars, poolVars
<1>5. ASSUME NEW c \in Callers, Report(c) PROVE (\A d \in Callers : Running(d))'
  BY <1>5 DEF Report, Take, End, Goto, secretVars, poolVars
<1>6. ASSUME NEW c \in Callers, Request(c) PROVE (\A d \in Callers : Running(d))'
  BY <1>6 DEF Request, Take, Goto, secretVars, poolVars
<1>7. ASSUME NEW c \in Callers, NoSecret(c) PROVE (\A d \in Callers : Running(d))'
  BY <1>7 DEF NoSecret, Take, End, Goto, secretVars, poolVars
<1>8. ASSUME NEW c \in Callers, PickProxy(c) PROVE (\A d \in Callers : Running(d))'
  BY <1>8 DEF PickProxy, Available, AttemptThrough, Goto, secretVars, poolVars
<1>9. ASSUME NEW c \in Callers, PickDirect(c) \/ PickNothing(c) PROVE (\A d \in Callers : Running(d))'
  BY <1>9 DEF PickDirect, PickNothing, Goto, secretVars, poolVars
<1>10. ASSUME NEW c \in Callers, Refill(c) PROVE (\A d \in Callers : Running(d))'
  BY <1>10 DEF Refill, AttemptThrough, Replace, End, Goto, secretVars, poolVars
<1>11. ASSUME NEW c \in Callers, RefillFails(c) PROVE (\A d \in Callers : Running(d))'
  BY <1>11 DEF RefillFails, End, Goto, secretVars, poolVars
<1>12. ASSUME NEW c \in Callers, Send(c) PROVE (\A d \in Callers : Running(d))'
  BY <1>12 DEF Send, Goto, secretVars, poolVars
<1>13. ASSUME NEW c \in Callers, Backoff(c) PROVE (\A d \in Callers : Running(d))'
  BY <1>13 DEF Backoff, Goto, secretVars, poolVars
<1>14. ASSUME NEW c \in Callers, Accepted(c) \/ RejectedAgain(c) PROVE (\A d \in Callers : Running(d))'
  BY <1>14 DEF Accepted, RejectedAgain, End, Goto, secretVars, poolVars
<1>15. ASSUME NEW c \in Callers, Rejected(c) PROVE (\A d \in Callers : Running(d))'
  BY <1>15 DEF Rejected, ForceRefresh, Goto, secretVars, poolVars
<1>16. ASSUME NEW c \in Callers, AttemptFails(c) PROVE (\A d \in Callers : Running(d))'
  BY <1>16 DEF AttemptFails, MarkBad, Again, End, Goto, secretVars, poolVars
<1>17. CASE Environment \/ UNCHANGED vars
  BY <1>17 DEF Environment, PoolAges, Expire, Rotate, Others, vars, secretVars, poolVars
<1>18. QED
  BY <1>1, <1>2, <1>3, <1>4, <1>5, <1>6, <1>7, <1>8, <1>9, <1>10, <1>11, <1>12, <1>13, <1>14, <1>15, <1>16, <1>17 DEF Next, Proceed, Pick, Answer

(* Secrets are of their time. *)
LEMMA DatedStep == IInv /\ [Next]_vars => (\A d \in Callers : Dated(d))'
<1> SUFFICES ASSUME IInv, [Next]_vars PROVE (\A d \in Callers : Dated(d))'
  OBVIOUS
<1> USE DEF IInv, TypeOK, SecretTypeOK, Task, NoTask, Secrets, Calling, Dated, NotAhead
<1>1. ASSUME NEW c \in Callers, Validate(c) PROVE (\A d \in Callers : Dated(d))'
  BY <1>1 DEF Validate, Get, Return, Goto, secretVars, poolVars
<1>2. ASSUME NEW c \in Callers, Health(c) PROVE (\A d \in Callers : Dated(d))'
  BY <1>2 DEF Health, Get, Return, Goto, secretVars, poolVars
<1>3. ASSUME NEW c \in Callers, Refreshes(c) PROVE (\A d \in Callers : Dated(d))'
  BY <1>3 DEF Refreshes, Refreshing, Locked, BeginFetch, Fetched, FetchFailed, Return,
              Others, Goto, secretVars, poolVars
<1>4. ASSUME NEW c \in Callers, Prepare(c) PROVE (\A d \in Callers : Dated(d))'
  BY <1>4 DEF Prepare, Ensured, EnsureFails, EnsureGarbled, Get, Return, Replace, End, Goto,
              secretVars, poolVars
<1>5. ASSUME NEW c \in Callers, Report(c) PROVE (\A d \in Callers : Dated(d))'
  BY <1>5 DEF Report, Take, End, Goto, secretVars, poolVars
<1>6. ASSUME NEW c \in Callers, Request(c) PROVE (\A d \in Callers : Dated(d))'
  BY <1>6 DEF Request, Take, Goto, secretVars, poolVars
<1>7. ASSUME NEW c \in Callers, NoSecret(c) PROVE (\A d \in Callers : Dated(d))'
  BY <1>7 DEF NoSecret, Take, End, Goto, secretVars, poolVars
<1>8. ASSUME NEW c \in Callers, PickProxy(c) PROVE (\A d \in Callers : Dated(d))'
  BY <1>8 DEF PickProxy, Available, AttemptThrough, Goto, secretVars, poolVars
<1>9. ASSUME NEW c \in Callers, PickDirect(c) \/ PickNothing(c) PROVE (\A d \in Callers : Dated(d))'
  BY <1>9 DEF PickDirect, PickNothing, Goto, secretVars, poolVars
<1>10. ASSUME NEW c \in Callers, Refill(c) PROVE (\A d \in Callers : Dated(d))'
  BY <1>10 DEF Refill, AttemptThrough, Replace, End, Goto, secretVars, poolVars
<1>11. ASSUME NEW c \in Callers, RefillFails(c) PROVE (\A d \in Callers : Dated(d))'
  BY <1>11 DEF RefillFails, End, Goto, secretVars, poolVars
<1>12. ASSUME NEW c \in Callers, Send(c) PROVE (\A d \in Callers : Dated(d))'
  BY <1>12 DEF Send, Goto, secretVars, poolVars
<1>13. ASSUME NEW c \in Callers, Backoff(c) PROVE (\A d \in Callers : Dated(d))'
  BY <1>13 DEF Backoff, Goto, secretVars, poolVars
<1>14. ASSUME NEW c \in Callers, Accepted(c) \/ RejectedAgain(c) PROVE (\A d \in Callers : Dated(d))'
  <2>1. /\ task' = [task EXCEPT ![c] = NoTask]
        /\ pc' = [pc EXCEPT ![c] = "done"]
        /\ UNCHANGED <<page, value, call, got>>
    BY <1>14 DEF Accepted, RejectedAgain, End, Goto, secretVars
  <2>2. QED
    BY <2>1
<1>15. ASSUME NEW c \in Callers, Rejected(c) PROVE (\A d \in Callers : Dated(d))'
  BY <1>15 DEF Rejected, ForceRefresh, Goto, secretVars, poolVars
<1>16. ASSUME NEW c \in Callers, AttemptFails(c) PROVE (\A d \in Callers : Dated(d))'
  BY <1>16 DEF AttemptFails, MarkBad, Again, End, Goto, secretVars, poolVars
<1>17. CASE Environment \/ UNCHANGED vars
  BY <1>17 DEF Environment, PoolAges, Expire, Rotate, Others, vars, secretVars, poolVars
<1>18. QED
  BY <1>1, <1>2, <1>3, <1>4, <1>5, <1>6, <1>7, <1>8, <1>9, <1>10, <1>11, <1>12, <1>13, <1>14, <1>15, <1>16, <1>17 DEF Next, Proceed, Pick, Answer

(* None is newer than the homepage's. *)
LEMMA NotAheadStep == IInv /\ [Next]_vars => NotAhead'
<1> SUFFICES ASSUME IInv, [Next]_vars PROVE NotAhead'
  OBVIOUS
<1> USE DEF IInv, TypeOK, SecretTypeOK, Task, NoTask, Secrets, NotAhead
<1>1. ASSUME NEW c \in Callers, Validate(c) PROVE NotAhead'
  BY <1>1 DEF Validate, Get, Return, Goto, secretVars, poolVars
<1>2. ASSUME NEW c \in Callers, Health(c) PROVE NotAhead'
  BY <1>2 DEF Health, Get, Return, Goto, secretVars, poolVars
<1>3. ASSUME NEW c \in Callers, Refreshes(c) PROVE NotAhead'
  BY <1>3 DEF Refreshes, Refreshing, Locked, BeginFetch, Fetched, FetchFailed, Return,
              Others, Goto, secretVars, poolVars
<1>4. ASSUME NEW c \in Callers, Prepare(c) PROVE NotAhead'
  BY <1>4 DEF Prepare, Ensured, EnsureFails, EnsureGarbled, Get, Return, Replace, End, Goto,
              secretVars, poolVars
<1>5. ASSUME NEW c \in Callers, Report(c) PROVE NotAhead'
  BY <1>5 DEF Report, Take, End, Goto, secretVars, poolVars
<1>6. ASSUME NEW c \in Callers, Request(c) PROVE NotAhead'
  BY <1>6 DEF Request, Take, Goto, secretVars, poolVars
<1>7. ASSUME NEW c \in Callers, NoSecret(c) PROVE NotAhead'
  BY <1>7 DEF NoSecret, Take, End, Goto, secretVars, poolVars
<1>8. ASSUME NEW c \in Callers, PickProxy(c) PROVE NotAhead'
  BY <1>8 DEF PickProxy, Available, AttemptThrough, Goto, secretVars, poolVars
<1>9. ASSUME NEW c \in Callers, PickDirect(c) \/ PickNothing(c) PROVE NotAhead'
  <2>1. UNCHANGED <<value, page>> /\ \A d \in Callers : task'[d].asked = task[d].asked
    BY <1>9 DEF PickDirect, PickNothing, secretVars
  <2>2. QED
    BY <2>1
<1>10. ASSUME NEW c \in Callers, Refill(c) PROVE NotAhead'
  <2>1. /\ UNCHANGED <<value, page>>
        /\ \A d \in Callers : task'[d].asked \in {task[d].asked, None}
    BY <1>10 DEF Refill, AttemptThrough, End, secretVars
  <2>2. QED
    BY <2>1
<1>11. ASSUME NEW c \in Callers, RefillFails(c) PROVE NotAhead'
  BY <1>11 DEF RefillFails, End, Goto, secretVars, poolVars
<1>12. ASSUME NEW c \in Callers, Send(c) PROVE NotAhead'
  BY <1>12 DEF Send, Goto, secretVars, poolVars
<1>13. ASSUME NEW c \in Callers, Backoff(c) PROVE NotAhead'
  BY <1>13 DEF Backoff, Goto, secretVars, poolVars
<1>14. ASSUME NEW c \in Callers, Accepted(c) \/ RejectedAgain(c) PROVE NotAhead'
  <2>1. /\ task' = [task EXCEPT ![c] = NoTask]
        /\ pc' = [pc EXCEPT ![c] = "done"]
        /\ UNCHANGED <<page, value, call, got>>
    BY <1>14 DEF Accepted, RejectedAgain, End, Goto, secretVars
  <2>2. QED
    BY <2>1
<1>15. ASSUME NEW c \in Callers, Rejected(c) PROVE NotAhead'
  BY <1>15 DEF Rejected, ForceRefresh, Goto, secretVars, poolVars
<1>16. ASSUME NEW c \in Callers, AttemptFails(c) PROVE NotAhead'
  BY <1>16 DEF AttemptFails, MarkBad, Again, End, Goto, secretVars, poolVars
<1>17. CASE Environment \/ UNCHANGED vars
  BY <1>17 DEF Environment, PoolAges, Expire, Rotate, Others, vars, secretVars, poolVars
<1>18. QED
  BY <1>1, <1>2, <1>3, <1>4, <1>5, <1>6, <1>7, <1>8, <1>9, <1>10, <1>11, <1>12, <1>13, <1>14, <1>15, <1>16, <1>17 DEF Next, Proceed, Pick, Answer

(* Direct attempts follow a failed one. *)
LEMMA FallingStep == IInv /\ [Next]_vars => (\A d \in Callers : Falling(d))'
<1> SUFFICES ASSUME IInv, [Next]_vars PROVE (\A d \in Callers : Falling(d))'
  OBVIOUS
<1> USE DEF IInv, TypeOK, SecretTypeOK, Task, NoTask, Calling, Falling
<1>1. ASSUME NEW c \in Callers, Validate(c) PROVE (\A d \in Callers : Falling(d))'
  BY <1>1 DEF Validate, Get, Return, Goto, secretVars, poolVars
<1>2. ASSUME NEW c \in Callers, Health(c) PROVE (\A d \in Callers : Falling(d))'
  BY <1>2 DEF Health, Get, Return, Goto, secretVars, poolVars
<1>3. ASSUME NEW c \in Callers, Refreshes(c) PROVE (\A d \in Callers : Falling(d))'
  BY <1>3 DEF Refreshes, Refreshing, Locked, BeginFetch, Fetched, FetchFailed, Return,
              Others, Goto, secretVars, poolVars
<1>4. ASSUME NEW c \in Callers, Prepare(c) PROVE (\A d \in Callers : Falling(d))'
  BY <1>4 DEF Prepare, Ensured, EnsureFails, EnsureGarbled, Get, Return, Replace, End, Goto,
              secretVars, poolVars
<1>5. ASSUME NEW c \in Callers, Report(c) PROVE (\A d \in Callers : Falling(d))'
  BY <1>5 DEF Report, Take, End, Goto, secretVars, poolVars
<1>6. ASSUME NEW c \in Callers, Request(c) PROVE (\A d \in Callers : Falling(d))'
  BY <1>6 DEF Request, Take, Goto, secretVars, poolVars
<1>7. ASSUME NEW c \in Callers, NoSecret(c) PROVE (\A d \in Callers : Falling(d))'
  BY <1>7 DEF NoSecret, Take, End, Goto, secretVars, poolVars
<1>8. ASSUME NEW c \in Callers, PickProxy(c) PROVE (\A d \in Callers : Falling(d))'
  BY <1>8 DEF PickProxy, Available, AttemptThrough, Goto, secretVars, poolVars
<1>9. ASSUME NEW c \in Callers, PickDirect(c) \/ PickNothing(c) PROVE (\A d \in Callers : Falling(d))'
  BY <1>9 DEF PickDirect, PickNothing, Goto, secretVars, poolVars
<1>10. ASSUME NEW c \in Callers, Refill(c) PROVE (\A d \in Callers : Falling(d))'
  BY <1>10 DEF Refill, AttemptThrough, Replace, End, Goto, secretVars, poolVars
<1>11. ASSUME NEW c \in Callers, RefillFails(c) PROVE (\A d \in Callers : Falling(d))'
  BY <1>11 DEF RefillFails, End, Goto, secretVars, poolVars
<1>12. ASSUME NEW c \in Callers, Send(c) PROVE (\A d \in Callers : Falling(d))'
  BY <1>12 DEF Send, Goto, secretVars, poolVars
<1>13. ASSUME NEW c \in Callers, Backoff(c) PROVE (\A d \in Callers : Falling(d))'
  BY <1>13 DEF Backoff, Goto, secretVars, poolVars
<1>14. ASSUME NEW c \in Callers, Accepted(c) \/ RejectedAgain(c) PROVE (\A d \in Callers : Falling(d))'
  BY <1>14 DEF Accepted, RejectedAgain, End, Goto, secretVars, poolVars
<1>15. ASSUME NEW c \in Callers, Rejected(c) PROVE (\A d \in Callers : Falling(d))'
  BY <1>15 DEF Rejected, ForceRefresh, Goto, secretVars, poolVars
<1>16. ASSUME NEW c \in Callers, AttemptFails(c) PROVE (\A d \in Callers : Falling(d))'
  BY <1>16 DEF AttemptFails, MarkBad, Again, End, Goto, secretVars, poolVars
<1>17. CASE Environment \/ UNCHANGED vars
  BY <1>17 DEF Environment, PoolAges, Expire, Rotate, Others, vars, secretVars, poolVars
<1>18. QED
  BY <1>1, <1>2, <1>3, <1>4, <1>5, <1>6, <1>7, <1>8, <1>9, <1>10, <1>11, <1>12, <1>13, <1>14, <1>15, <1>16, <1>17 DEF Next, Proceed, Pick, Answer

(* Nobody makes the secret fresh while somebody else fetches it. *)
LEMMA CollapseStep == IInv /\ [Next]_vars => FetchesCollapse'
<1> SUFFICES ASSUME IInv, [Next]_vars PROVE FetchesCollapse'
  OBVIOUS
<1> USE DEF IInv, TypeOK, SecretTypeOK, Task, NoTask, Locking, Calling, FetchesCollapse,
            Fresh
<1>1. ASSUME NEW c \in Callers, Validate(c) PROVE FetchesCollapse'
  BY <1>1 DEF Validate, Get, Return, Goto, secretVars, poolVars
<1>2. ASSUME NEW c \in Callers, Health(c) PROVE FetchesCollapse'
  BY <1>2 DEF Health, Get, Return, Goto, secretVars, poolVars
<1>3. ASSUME NEW c \in Callers, Refreshes(c) PROVE FetchesCollapse'
  BY <1>3 DEF Refreshes, Refreshing, Locked, BeginFetch, Fetched, FetchFailed, Return,
              Others, Goto, secretVars, poolVars
<1>4. ASSUME NEW c \in Callers, Prepare(c) PROVE FetchesCollapse'
  BY <1>4 DEF Prepare, Ensured, EnsureFails, EnsureGarbled, Get, Return, Replace, End, Goto,
              secretVars, poolVars
<1>5. ASSUME NEW c \in Callers, Report(c) PROVE FetchesCollapse'
  BY <1>5 DEF Report, Take, End, Goto, secretVars, poolVars
<1>6. ASSUME NEW c \in Callers, Request(c) PROVE FetchesCollapse'
  BY <1>6 DEF Request, Take, Goto, secretVars, poolVars
<1>7. ASSUME NEW c \in Callers, NoSecret(c) PROVE FetchesCollapse'
  BY <1>7 DEF NoSecret, Take, End, Goto, secretVars, poolVars
<1>8. ASSUME NEW c \in Callers, PickProxy(c) PROVE FetchesCollapse'
  BY <1>8 DEF PickProxy, Available, AttemptThrough, Goto, secretVars, poolVars
<1>9. ASSUME NEW c \in Callers, PickDirect(c) \/ PickNothing(c) PROVE FetchesCollapse'
  BY <1>9 DEF PickDirect, PickNothing, Goto, secretVars, poolVars
<1>10. ASSUME NEW c \in Callers, Refill(c) PROVE FetchesCollapse'
  BY <1>10 DEF Refill, AttemptThrough, Replace, End, Goto, secretVars, poolVars
<1>11. ASSUME NEW c \in Callers, RefillFails(c) PROVE FetchesCollapse'
  BY <1>11 DEF RefillFails, End, Goto, secretVars, poolVars
<1>12. ASSUME NEW c \in Callers, Send(c) PROVE FetchesCollapse'
  BY <1>12 DEF Send, Goto, secretVars, poolVars
<1>13. ASSUME NEW c \in Callers, Backoff(c) PROVE FetchesCollapse'
  BY <1>13 DEF Backoff, Goto, secretVars, poolVars
<1>14. ASSUME NEW c \in Callers, Accepted(c) \/ RejectedAgain(c) PROVE FetchesCollapse'
  BY <1>14 DEF Accepted, RejectedAgain, End, Goto, secretVars, poolVars
<1>15. ASSUME NEW c \in Callers, Rejected(c) PROVE FetchesCollapse'
  BY <1>15 DEF Rejected, ForceRefresh, Goto, secretVars, poolVars
<1>16. ASSUME NEW c \in Callers, AttemptFails(c) PROVE FetchesCollapse'
  BY <1>16 DEF AttemptFails, MarkBad, Again, End, Goto, secretVars, poolVars
<1>17. CASE Environment \/ UNCHANGED vars
  BY <1>17 DEF Environment, PoolAges, Expire, Rotate, Others, vars, secretVars, poolVars
<1>18. QED
  BY <1>1, <1>2, <1>3, <1>4, <1>5, <1>6, <1>7, <1>8, <1>9, <1>10, <1>11, <1>12, <1>13, <1>14, <1>15, <1>16, <1>17 DEF Next, Proceed, Pick, Answer

-----------------------------------------------------------------------------
(* What follows *)

(* The initial state satisfies the invariant. *)
LEMMA InitInv == Init => IInv
<1> SUFFICES ASSUME Init PROVE IInv
  OBVIOUS
<1> USE DEF Init, SecretInit
<1>1. TypeOK
  <2>1. SecretTypeOK
    <3>1. young \in BOOLEAN /\ ok \in BOOLEAN
      BY Zenon
    <3>2. page \in 0..MaxRotations /\ value \in 0..MaxRotations \cup {None} /\ lock \in Callers \cup {None}
      OBVIOUS
    <3>3. /\ call \in [Callers -> {"idle", "get", "force", "fetch", "returned", "raised"}]
          /\ got \in [Callers -> 0..MaxRotations \cup {None}]
      OBVIOUS
    <3>4. QED
      BY <3>1, <3>2, <3>3 DEF SecretTypeOK
  <2>2. fallback \in BOOLEAN /\ live = {} /\ bad = {} /\ stale \in BOOLEAN
    BY Zenon
  <2>3. QED
    BY <2>1, <2>2, NoTaskIsTask DEF TypeOK
<1>2. Locking /\ NotAhead /\ FetchesCollapse
  BY DEF Locking, NotAhead, FetchesCollapse, NoTask
<1>3. \A c \in Callers : Calling(c) /\ Running(c) /\ Dated(c) /\ Falling(c)
  BY DEF Calling, Running, Dated, Falling, NoTask
<1>4. QED
  BY <1>1, <1>2, <1>3 DEF IInv

(* Every step preserves it. *)
LEMMA NextInv == IInv /\ [Next]_vars => IInv'
<1> SUFFICES ASSUME IInv, [Next]_vars PROVE IInv'
  OBVIOUS
<1>1. (\A c \in Callers : Calling(c) /\ Running(c) /\ Dated(c) /\ Falling(c))'
  BY CallingStep, RunningStep, DatedStep, FallingStep
<1>2. QED
  BY <1>1, TypeStep, LockStep, NotAheadStep, CollapseStep DEF IInv

(* The invariant holds in every reachable state. *)
THEOREM Invariant == Spec => []IInv
  BY InitInv, NextInv, PTL DEF Spec

(* The variables keep their types; the loop counter of get_json stays below  *)
(* the number of attempts.                                                   *)
THEOREM TypeCorrect == Spec => []TypeOK
<1>1. IInv => TypeOK
  BY DEF IInv
<1>2. QED
  BY <1>1, Invariant, PTL

(* However many callers find the secret stale, one fetches it: nobody        *)
(* fetches, unforced, while a fresh one is there.                            *)
THEOREM Collapse == Spec => []FetchesCollapse
<1>1. IInv => FetchesCollapse
  BY DEF IInv
<1>2. QED
  BY <1>1, Invariant, PTL

(* Whatever upstream answers and whoever else fetches or waits, the retry    *)
(* after a rejection is made with a secret read after it.                    *)
THEOREM RetriedWithNew == Spec => []RetryUsesNewSecret
<1>1. IInv => RetryUsesNewSecret
  BY DEF IInv, Dated, RetryUsesNewSecret
<1>2. QED
  BY <1>1, Invariant, PTL

(* With the fallback and a second attempt, no validation fails before a      *)
(* direct request has.                                                       *)
THEOREM DirectIsTried == Spec => GivesUpDirect
<1> DEFINE Direct ==
      \A c \in Callers :
          fallback /\ MaxRetries > 1 /\ pc[c] # "done" /\ result'[c] = "UpstreamError"
          => task[c].proxy = None
<1>1. IInv /\ [Next]_vars => [Direct]_vars
  <2> SUFFICES ASSUME IInv, Next, NEW c \in Callers, fallback, MaxRetries > 1, pc[c] # "done",
                      result'[c] = "UpstreamError"
               PROVE  task[c].proxy = None
    OBVIOUS
  <2>1. result[c] # "UpstreamError"
    BY DEF IInv, Calling, Results
  <2>2. AttemptFails(c) \/ Refill(c)
    <3>1. result' # result
      BY <2>1
    <3>2. PICK d \in Callers : Validate(d) \/ Health(d) \/ Proceed(d)
      BY <3>1 DEF Next, Refreshes, Send, Environment, PoolAges, Others
    <3>3. CASE d # c
      BY <2>1, <3>2, <3>3
      DEF IInv, TypeOK, Validate, Health, Proceed, Prepare, Ensured, EnsureFails, EnsureGarbled,
          Report, Request, NoSecret, Pick, PickProxy, PickDirect, PickNothing, Refill,
          RefillFails, Answer, Accepted, Rejected, RejectedAgain, AttemptFails, Again, Backoff, End
    <3>4. CASE d = c
      BY <2>1, <3>2, <3>4
      DEF IInv, TypeOK, Validate, Health, Proceed, Prepare, Ensured, EnsureFails, EnsureGarbled,
          Report, Request, NoSecret, Pick, PickProxy, PickDirect, PickNothing,
          RefillFails, Answer, Accepted, Rejected, RejectedAgain, Backoff, End
    <3>5. QED
      BY <3>3, <3>4
  <2>3. CASE AttemptFails(c)
    <3>1. task[c].attempt = MaxRetries - 1
      <4>1. task[c].attempt \in 0..MaxRetries - 1
        BY DEF IInv, TypeOK, Task
      <4>2. ~(task[c].attempt < MaxRetries - 1)
        BY <2>1, <2>3 DEF AttemptFails, Again
      <4>3. QED
        BY <4>1, <4>2
    <3>2. task[c].direct /\ pc[c] = "sent"
      BY <2>3, <3>1 DEF IInv, Falling, AttemptFails
    <3>3. QED
      BY <3>2 DEF IInv, Falling
  <2>4. CASE Refill(c)
    BY <2>4 DEF IInv, Falling, Refill
  <2>5. QED
    BY <2>2, <2>3, <2>4
<1>2. QED
  BY <1>1, Invariant, PTL DEF Spec, GivesUpDirect

-----------------------------------------------------------------------------
(* How long a call takes: Left is a variant *)

(* What is left of an attempt and of get(). *)
LEMMA CallRange ==
    ASSUME NEW c \in Callers
    PROVE  CallLeft(c) \in 0..3
  BY DEF CallLeft

LEMMA AttemptRange ==
    ASSUME TypeOK, NEW c \in Callers
    PROVE  /\ task[c].attempt \in 0..MaxRetries - 1
           /\ AttemptLeft(c) \in 1..5 * MaxRetries
<1>1. task[c].attempt \in 0..MaxRetries - 1
  BY DEF TypeOK, Task
<1>2. QED
  BY <1>1 DEF AttemptLeft

(* What is left of a whole validation. *)
LEMMA LeftRange ==
    ASSUME TypeOK, NEW c \in Callers
    PROVE  /\ Left(c) \in 0..2 * Round
           /\ pc[c] \notin {"done", "health"} => Left(c) > 0
<1>1. Round \in Nat /\ Round = 5 * MaxRetries + 4
  BY DEF Round
<1>2. CallLeft(c) \in 0..3
  BY CallRange
<1>3. AttemptLeft(c) \in 1..5 * MaxRetries
  BY AttemptRange
<1>4. QED
  BY <1>1, <1>2, <1>3, MaxRetries \in Nat \ {0} DEF Left

(* A step of one caller does not move another. *)
LEMMA OthersStay ==
    ASSUME IInv, NEW c \in Callers, NEW d \in Callers, d # c,
           Validate(d) \/ Health(d) \/ Refreshes(d) \/ Proceed(d) \/ Send(d)
    PROVE  pc'[c] = pc[c] /\ call'[c] = call[c] /\ task'[c] = task[c]
<1> USE DEF IInv, TypeOK, SecretTypeOK
<1>1. CASE Validate(d) \/ Health(d)
  BY <1>1 DEF Validate, Health, Get, Return, Goto, secretVars
<1>2. CASE Refreshes(d)
  BY <1>2 DEF Refreshes, Others, Refreshing, Locked, BeginFetch, Fetched, FetchFailed, Return
<1>3. CASE Prepare(d)
  BY <1>3 DEF Prepare, Ensured, EnsureFails, EnsureGarbled, Get, Return, End, Goto, secretVars
<1>4. CASE Report(d) \/ Request(d) \/ NoSecret(d)
  BY <1>4 DEF Report, Request, NoSecret, Take, End, Goto
<1>5. CASE Pick(d)
  BY <1>5 DEF Pick, PickProxy, PickDirect, PickNothing, Refill, RefillFails, AttemptThrough,
              End, Goto, secretVars
<1>6. CASE Accepted(d) \/ RejectedAgain(d) \/ AttemptFails(d) \/ Backoff(d) \/ Send(d)
  BY <1>6 DEF Accepted, RejectedAgain, AttemptFails, Again, Backoff, Send, End, Goto, secretVars
<1>7. CASE Rejected(d)
  BY <1>7 DEF Rejected, ForceRefresh, Goto
<1>8. QED
  BY <1>1, <1>2, <1>3, <1>4, <1>5, <1>6, <1>7 DEF Proceed, Answer

(* A validation that ends has nothing left. *)
LEMMA EndLeft ==
    ASSUME TypeOK, NEW c \in Callers, NEW o, End(c, o)
    PROVE  Left(c)' = 0
  BY DEF TypeOK, End, Goto, Left

(* Within get() and force_refresh(). *)
LEMMA RefreshLeft ==
    ASSUME IInv, NEW c \in Callers, pc[c] # "done", Refreshes(c)
    PROVE  Left(c)' < Left(c)
<1>1. pc' = pc /\ task' = task
  BY DEF Refreshes, Others
<1>2. pc[c] \in {"secret", "health"}
  BY DEF IInv, Calling, Refreshes, Refreshing, Locked, BeginFetch, Fetched, FetchFailed
<1>3. CallLeft(c)' < CallLeft(c)
  BY DEF IInv, TypeOK, SecretTypeOK, CallLeft, Refreshes, Refreshing, Locked, BeginFetch, Fetched,
         FetchFailed, Return
<1>4. CallLeft(c) \in Nat /\ CallLeft(c)' \in Nat /\ Round \in Nat
  BY DEF CallLeft, Round
<1>5. pc'[c] = pc[c] /\ task'[c] = task[c] /\ pc[c] # "ensure" /\ Round' = Round
  BY <1>1, <1>2 DEF Round
<1>6. QED
  BY <1>2, <1>3, <1>4, <1>5, MaxRetries \in Nat \ {0} DEF Left

(* From one place of get_json to a later one. *)
LEMMA AttemptStep ==
    ASSUME IInv, NEW c \in Callers, PickProxy(c) \/ PickDirect(c) \/ PickNothing(c) \/ Send(c)
                 \/ \E p \in Proxies : pc[c] = "refill" /\ AttemptThrough(c, p)
    PROVE  Left(c)' < Left(c)
<1>1. task[c] \in Task /\ task \in [Callers -> Task]
  BY DEF IInv, TypeOK
<1>2. task'[c].attempt = task[c].attempt /\ task'[c].again = task[c].again
  BY <1>1 DEF PickProxy, PickDirect, PickNothing, Send, AttemptThrough, Task
<1>3. task[c].attempt \in 0..MaxRetries - 1 /\ Round \in Nat /\ Round' = Round
  BY <1>1 DEF Task, Round
<1>4. \/ pc[c] = "pick" /\ pc'[c] \in {"gate", "refill"}
      \/ pc[c] = "refill" /\ pc'[c] = "gate"
      \/ pc[c] = "gate" /\ pc'[c] = "sent"
  BY DEF IInv, TypeOK, PickProxy, PickDirect, PickNothing, Send, AttemptThrough, Goto
<1>5. AttemptLeft(c)' < AttemptLeft(c) /\ AttemptLeft(c) \in Nat /\ AttemptLeft(c)' \in Nat
  BY <1>2, <1>3, <1>4 DEF AttemptLeft
<1>6. /\ Left(c) = (IF task[c].again THEN 0 ELSE Round) + AttemptLeft(c)
      /\ Left(c)' = (IF task[c].again THEN 0 ELSE Round) + AttemptLeft(c)'
  BY <1>2, <1>3, <1>4 DEF Left
<1>7. QED
  BY <1>3, <1>5, <1>6

(* From the pause to the next attempt, and from a failure to the pause. *)
LEMMA RetryStep ==
    ASSUME IInv, TypeOK', NEW c \in Callers, AttemptFails(c) \/ Backoff(c)
    PROVE  Left(c)' < Left(c)
<1>1. task[c] \in Task /\ Round \in Nat /\ Round' = Round
  BY DEF IInv, TypeOK, Round
<1>2. CASE Backoff(c)
  <2>1. pc[c] = "backoff" /\ pc'[c] = "pick"
    BY <1>2 DEF IInv, TypeOK, Backoff, Goto
  <2>2. task'[c].attempt = task[c].attempt + 1 /\ task'[c].again = task[c].again
    BY <1>1, <1>2 DEF IInv, TypeOK, Backoff, Task
  <2>3. AttemptLeft(c) = 5 * (MaxRetries - 1 - task[c].attempt) + 1
    BY <2>1 DEF AttemptLeft
  <2>4. AttemptLeft(c)' = 5 * (MaxRetries - 1 - (task[c].attempt + 1)) + 5
    BY <2>1, <2>2 DEF AttemptLeft
  <2>5. task[c].attempt \in Nat
    BY <1>1 DEF Task
  <2>6. /\ Left(c) = (IF task[c].again THEN 0 ELSE Round) + AttemptLeft(c)
        /\ Left(c)' = (IF task[c].again THEN 0 ELSE Round) + AttemptLeft(c)'
    BY <1>1, <2>1, <2>2 DEF Left
  <2>7. AttemptLeft(c)' < AttemptLeft(c) /\ AttemptLeft(c) \in Int /\ AttemptLeft(c)' \in Int
    BY <2>3, <2>4, <2>5
  <2>8. QED
    BY <1>1, <2>6, <2>7
<1>3. CASE AttemptFails(c)
  <2>1. pc[c] = "sent"
    BY <1>3 DEF AttemptFails
  <2>2. CASE End(c, "UpstreamError")
    BY <2>1, <2>2, EndLeft, LeftRange DEF IInv
  <2>3. CASE \E d : Goto(c, "backoff") /\ task' = [task EXCEPT ![c].direct = d]
    <3>1. pc'[c] = "backoff"
      BY <2>3 DEF IInv, TypeOK, Goto
    <3>2. task'[c].attempt = task[c].attempt /\ task'[c].again = task[c].again
      BY <1>1, <2>3 DEF IInv, TypeOK, Task
    <3>3. task[c].attempt \in 0..MaxRetries - 1
      BY <1>1 DEF Task
    <3>4. AttemptLeft(c)' < AttemptLeft(c) /\ AttemptLeft(c) \in Int /\ AttemptLeft(c)' \in Int
      BY <2>1, <3>1, <3>2, <3>3 DEF AttemptLeft
    <3>5. /\ Left(c) = (IF task[c].again THEN 0 ELSE Round) + AttemptLeft(c)
          /\ Left(c)' = (IF task[c].again THEN 0 ELSE Round) + AttemptLeft(c)'
      BY <1>1, <2>1, <3>1, <3>2 DEF Left
    <3>6. QED
      BY <1>1, <3>4, <3>5
  <2>4. QED
    BY <1>3, <2>2, <2>3 DEF AttemptFails, Again
<1>4. QED
  BY <1>2, <1>3

(* With the secret, and to it. *)
LEMMA SecretStep ==
    ASSUME IInv, NEW c \in Callers,
           Ensured(c) \/ EnsureFails(c) \/ Request(c) \/ Rejected(c)
    PROVE  Left(c)' < Left(c)
<1>1. task[c] \in Task /\ Round = 5 * MaxRetries + 4 /\ Round' = Round /\ MaxRetries \in Nat
  BY DEF IInv, TypeOK, Round
<1>2. CASE Ensured(c) \/ EnsureFails(c)
  <2>1. pc[c] = "ensure" /\ pc'[c] = "secret" /\ task' = task /\ ~task[c].again
    BY <1>2 DEF IInv, TypeOK, Calling, Ensured, EnsureFails, Goto
  <2>2. CallLeft(c)' \in 0..3
    BY DEF CallLeft
  <2>3. QED
    BY <1>1, <2>1, <2>2 DEF Left
<1>3. CASE Request(c)
  <2>1. /\ pc[c] = "secret" /\ pc'[c] = "pick" /\ call[c] = "returned"
        /\ task'[c].again = task[c].again /\ task'[c].attempt = 0
    BY <1>1, <1>3 DEF IInv, TypeOK, Request, Goto, Task
  <2>2. AttemptLeft(c)' = 5 * MaxRetries /\ CallLeft(c) = 1
    BY <1>1, <2>1 DEF AttemptLeft, CallLeft
  <2>3. QED
    BY <1>1, <2>1, <2>2 DEF Left
<1>4. CASE Rejected(c)
  <2>1. /\ pc[c] = "sent" /\ pc'[c] = "secret" /\ ~task[c].again /\ task'[c].again
        /\ call'[c] = "force"
    BY <1>4 DEF IInv, TypeOK, SecretTypeOK, Rejected, ForceRefresh, Goto, NoTask
  <2>2. task[c].attempt \in 0..MaxRetries - 1
    BY <1>1 DEF Task
  <2>3. AttemptLeft(c) >= 2 /\ AttemptLeft(c) \in Int /\ CallLeft(c)' = 3
    BY <2>1, <2>2 DEF AttemptLeft, CallLeft
  <2>4. Left(c) = Round + AttemptLeft(c) /\ Left(c)' = 5 * MaxRetries + 3
    BY <2>1, <2>3 DEF Left
  <2>5. QED
    BY <1>1, <2>3, <2>4
<1>5. QED
  BY <1>2, <1>3, <1>4

(* Every step that moves a call brings it nearer to its end. *)
LEMMA Nearer ==
    ASSUME IInv, Next, TypeOK', NEW c \in Callers, pc[c] # "done",
           <<pc[c], call[c], task[c]>> # <<pc'[c], call'[c], task'[c]>>
    PROVE  Left(c)' < Left(c)
<1>1. ~Environment
  BY DEF Environment, PoolAges, Expire, Rotate, Others, secretVars
<1>2. PICK d \in Callers : Validate(d) \/ Health(d) \/ Refreshes(d) \/ Proceed(d) \/ Send(d)
  BY <1>1 DEF Next
<1>3. d = c
  BY <1>2, OthersStay
<1>4. ~Validate(c) /\ ~Health(c)
  BY DEF Validate, Health
<1>5. CASE Refreshes(c)
  BY <1>5, RefreshLeft
<1>6. CASE \/ EnsureGarbled(c) \/ NoSecret(c) \/ RefillFails(c) \/ Accepted(c) \/ RejectedAgain(c)
           \/ Refill(c) /\ End(c, "UpstreamError")
  <2>1. \E o : End(c, o)
    BY <1>6 DEF EnsureGarbled, NoSecret, RefillFails, Accepted, RejectedAgain
  <2>2. pc[c] \notin {"done", "health"}
    BY <1>6 DEF EnsureGarbled, NoSecret, RefillFails, Refill, Accepted, RejectedAgain
  <2>3. QED
    BY <2>1, <2>2, EndLeft, LeftRange DEF IInv
<1>7. CASE Report(c)
  <2>1. Left(c) = 1
    BY <1>7 DEF Report, Take, Left, CallLeft
  <2>2. \E o : End(c, o)
    BY <1>7 DEF Report
  <2>3. QED
    BY <2>1, <2>2, EndLeft DEF IInv
<1>8. CASE PickProxy(c) \/ PickDirect(c) \/ PickNothing(c) \/ Send(c)
  BY <1>8, AttemptStep
<1>9. CASE Refill(c) /\ \E p \in Proxies : AttemptThrough(c, p)
  BY <1>9, AttemptStep DEF Refill
<1>10. CASE AttemptFails(c) \/ Backoff(c)
  BY <1>10, RetryStep
<1>11. CASE Ensured(c) \/ EnsureFails(c) \/ Request(c) \/ Rejected(c)
  BY <1>11, SecretStep
<1>12. CASE Refill(c)
  BY <1>6, <1>9, <1>12 DEF Refill
<1>13. QED
  BY <1>2, <1>3, <1>4, <1>5, <1>6, <1>7, <1>8, <1>10, <1>11, <1>12
  DEF Proceed, Prepare, Pick, Answer

(* Every call ends after at most 2 * Round of its own steps, for any number  *)
(* of attempts and callers: each of them brings it nearer to its end.        *)
THEOREM Bounded == Spec => CallsAreBounded
<1> DEFINE Descends ==
      \A c \in Callers :
          pc[c] # "done" /\ <<pc[c], call[c], task[c]>> # <<pc'[c], call'[c], task'[c]>> =>
              0 <= Left(c)' /\ Left(c)' < Left(c) /\ Left(c) <= 2 * Round
<1>1. TypeOK => \A c \in Callers : Left(c) \in 0..2 * Round
  BY LeftRange
<1>2. TypeOK' => (\A c \in Callers : Left(c) \in 0..2 * Round)'
  BY <1>1, PTL
<1>3. IInv /\ IInv' /\ [Next]_vars => [Descends]_vars
  <2> SUFFICES ASSUME IInv, IInv', Next, NEW c \in Callers, pc[c] # "done",
                      <<pc[c], call[c], task[c]>> # <<pc'[c], call'[c], task'[c]>>
               PROVE  0 <= Left(c)' /\ Left(c)' < Left(c) /\ Left(c) <= 2 * Round
    OBVIOUS
  <2>1. TypeOK /\ TypeOK'
    BY DEF IInv
  <2>2. Left(c)' < Left(c)
    BY <2>1, Nearer
  <2>3. Left(c) \in 0..2 * Round /\ Round \in Nat
    BY <2>1, LeftRange DEF Round
  <2>4. (Left(c) \in 0..2 * Round)'
    BY <2>1, <1>2
  <2>5. QED
    BY <2>2, <2>3, <2>4 DEF Round
<1>4. QED
  BY <1>3, Invariant, PTL DEF Spec, CallsAreBounded

(* However the lock and the gate are contended, not all calls wait.          *)
THEOREM NoStandstill == Spec => []SomebodyMoves
<1>1. ASSUME IInv, NEW c \in Callers, pc[c] # "done"
      PROVE  \E d \in Callers : pc[d] # "done" /\ ~Waits(d)
  <2>1. CASE lock # None
    <3>1. lock \in Callers /\ call[lock] = "fetch"
      BY <1>1, <2>1 DEF IInv, TypeOK, SecretTypeOK, Locking
    <3>2. pc[lock] \in {"secret", "health"}
      BY <1>1, <3>1 DEF IInv, Calling
    <3>3. QED
      BY <3>1, <3>2 DEF Waits
  <2>2. CASE lock = None /\ \E d \in Callers : pc[d] \notin {"done", "gate"}
    BY <1>1, <2>2 DEF IInv, Calling, Running, Waits
  <2>3. CASE \A d \in Callers : pc[d] \in {"done", "gate"}
    <3>1. Cardinality(InFlight) = 0
      BY <2>3, FS_EmptySet DEF InFlight
    <3>2. call[c] = "idle" /\ pc[c] = "gate"
      BY <1>1, <2>3 DEF IInv, Calling
    <3>3. QED
      BY <1>1, <3>1, <3>2, MaxConcurrent \in Nat \ {0} DEF Waits
  <2>4. QED
    BY <2>1, <2>2, <2>3
<1>2. IInv => SomebodyMoves
  BY <1>1 DEF SomebodyMoves
<1>3. QED
  BY <1>2, Invariant, PTL
=============================================================================
