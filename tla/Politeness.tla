----------------------------- MODULE Politeness -----------------------------
(***************************************************************************)
(* The gate every upstream attempt passes                                  *)
(* (app/providers/mailboxlayer/politeness.py): a semaphore caps how many   *)
(* attempts are in flight, a lock held across the pause spaces their       *)
(* starts.  A caller may be cancelled at every await.                      *)
(*                                                                         *)
(* Time is kept as the time since the last start and the time left of each *)
(* caller's asyncio.sleep, so that the clock itself needs no bound.        *)
(***************************************************************************)
EXTENDS Integers, FiniteSets

CONSTANTS
    Callers,        \* tasks that use the gate
    MaxConcurrent,  \* max_concurrent
    MinInterval,    \* min_interval_seconds, in clock units
    None            \* nobody

ASSUME CallersAssumption == IsFiniteSet(Callers)
ASSUME MaxConcurrentAssumption == MaxConcurrent \in Nat \ {0}
ASSUME MinIntervalAssumption == MinInterval \in Nat
ASSUME NobodyAssumption == None \notin Callers

VARIABLES
    permits,    \* value of _sem
    pacer,      \* who holds _pace_lock across an await
    since,      \* time since _last, as far as MinInterval; never is long ago
    sleep,      \* what is left of each caller's sleep
    pc          \* where each caller is in __aenter__ / __aexit__

vars == <<permits, pacer, since, sleep, pc>>

Init ==
    /\ permits = MaxConcurrent
    /\ pacer = None
    /\ since = MinInterval
    /\ sleep = [c \in Callers |-> 0]
    /\ pc = [c \in Callers |-> "outside"]

Goto(c, label) == pc' = [pc EXCEPT ![c] = label]

(* await self._sem.acquire() *)
Arrive(c) ==
    /\ pc[c] = "outside"
    /\ Goto(c, "acquire")
    /\ UNCHANGED <<permits, pacer, since, sleep>>

Acquire(c) ==
    /\ pc[c] = "acquire"
    /\ permits > 0
    /\ permits' = permits - 1
    /\ Goto(c, "lock")
    /\ UNCHANGED <<pacer, since, sleep>>

(* The lock is free and the last start is long enough ago: the lock is given *)
(* back without an await in between.                                         *)
Pass(c) ==
    /\ pc[c] = "lock"
    /\ pacer = None
    /\ MinInterval - since <= 0
    /\ since' = 0
    /\ Goto(c, "inside")
    /\ UNCHANGED <<permits, pacer, sleep>>

(* mutation: the pause is made without holding the lock *)
PauseUnlocked(c) ==
    /\ pc[c] = "lock"
    /\ pacer = None
    /\ MinInterval - since > 0
    /\ sleep' = [sleep EXCEPT ![c] = MinInterval - since]
    /\ Goto(c, "sleep")
    /\ UNCHANGED <<permits, pacer, since>>

(* await self._sleep(wait), holding the lock *)
Pause(c) ==
    /\ pc[c] = "lock"
    /\ pacer = None
    /\ MinInterval - since > 0
    /\ pacer' = c
    /\ sleep' = [sleep EXCEPT ![c] = MinInterval - since]
    /\ Goto(c, "sleep")
    /\ UNCHANGED <<permits, since>>

(* the sleep is over, maybe late; _last = clock() *)
WakeUp(c) ==
    /\ pc[c] = "sleep"
    /\ sleep[c] = 0
    /\ pacer' = None
    /\ since' = 0
    /\ Goto(c, "inside")
    /\ UNCHANGED <<permits, sleep>>

(* __aexit__, whether the attempt succeeded, failed or was cancelled *)
Leave(c) ==
    /\ pc[c] = "inside"
    /\ permits' = permits + 1
    /\ Goto(c, "outside")
    /\ UNCHANGED <<pacer, since, sleep>>

(* mutation: a cancelled caller keeps its permit *)
CancelWithPermit(c) ==
    /\ pc[c] \in {"acquire", "lock", "sleep"}
    /\ pacer' = IF pacer = c THEN None ELSE pacer
    /\ sleep' = [sleep EXCEPT ![c] = 0]
    /\ Goto(c, "outside")
    /\ UNCHANGED <<permits, since>>

(* mutation: the semaphore is released for a permit that was never taken *)
CancelReleases(c) ==
    /\ pc[c] \in {"acquire", "lock", "sleep"}
    /\ permits' = permits + 1
    /\ pacer' = IF pacer = c THEN None ELSE pacer
    /\ sleep' = [sleep EXCEPT ![c] = 0]
    /\ Goto(c, "outside")
    /\ UNCHANGED since

(* CancelledError at one of the awaits of __aenter__: once the permit is      *)
(* taken, except BaseException gives it back                                 *)
Cancel(c) ==
    /\ pc[c] \in {"acquire", "lock", "sleep"}
    /\ permits' = IF pc[c] = "acquire" THEN permits ELSE permits + 1
    /\ pacer' = IF pacer = c THEN None ELSE pacer
    /\ sleep' = [sleep EXCEPT ![c] = 0]
    /\ Goto(c, "outside")
    /\ UNCHANGED since

Tick ==
    /\ since' = IF since < MinInterval THEN since + 1 ELSE since
    /\ sleep' = [c \in Callers |-> IF sleep[c] > 0 THEN sleep[c] - 1 ELSE 0]
    /\ UNCHANGED <<permits, pacer, pc>>

Enter(c) == Acquire(c) \/ Pass(c) \/ Pause(c) \/ WakeUp(c)

Next ==
    \/ \E c \in Callers : Arrive(c) \/ Enter(c) \/ Leave(c) \/ Cancel(c)
    \/ Tick

Spec == Init /\ [][Next]_vars

(* asyncio.Semaphore and asyncio.Lock serve their waiters in order of        *)
(* arrival, so none is passed over for ever (SF); an attempt in flight is    *)
(* bounded by wait_for and a sleep by the clock (WF).                        *)
Fairness ==
    /\ WF_vars(Tick)
    /\ \A c \in Callers :
          /\ SF_vars(Acquire(c)) /\ SF_vars(Pass(c)) /\ SF_vars(Pause(c))
          /\ WF_vars(WakeUp(c)) /\ WF_vars(Leave(c))
FairSpec == Spec /\ Fairness

-----------------------------------------------------------------------------
(* Properties *)

TypeOK ==
    /\ permits \in 0..MaxConcurrent
    /\ pacer \in Callers \cup {None}
    /\ since \in 0..MinInterval
    /\ sleep \in [Callers -> 0..MinInterval]
    /\ pc \in [Callers -> {"outside", "acquire", "lock", "sleep", "inside"}]

Holding == {c \in Callers : pc[c] \in {"lock", "sleep", "inside"}}
Inside == {c \in Callers : pc[c] = "inside"}

(* No permit is lost or made up, wherever callers are cancelled, so the gate *)
(* neither shrinks for good nor lets too many in (politeness.py:33-45).      *)
PermitsConserved == permits + Cardinality(Holding) = MaxConcurrent

(* At most max_concurrent attempts are in flight (README, politeness).       *)
AtMostMaxConcurrent == Cardinality(Inside) <= MaxConcurrent

(* Consecutive starts are at least min_interval apart, also when the caller  *)
(* that was pausing is cancelled and another takes its place.                *)
StartsAreSpaced ==
    [][\A c \in Callers : pc[c] # "inside" /\ pc'[c] = "inside" => since = MinInterval]_vars

(* A caller is let in unless it is cancelled: neither the semaphore nor the  *)
(* lock is left taken by somebody who is gone.                               *)
CallersGetIn == \A c \in Callers : (pc[c] = "acquire") ~> (pc[c] \in {"inside", "outside"})

Promise == INSTANCE Gate WITH inside <- Inside

(* The semaphore and the lock implement the gate of Gate: callers take their *)
(* permit and their turn in steps of their own and may be cancelled between  *)
(* them, and still every start is one the gate allows (politeness.py:1-6,    *)
(* 32-46).                                                                   *)
ImplementsGate == Promise!Spec
=============================================================================
