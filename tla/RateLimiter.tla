---------------------------- MODULE RateLimiter ----------------------------
(* The fixed-window limiter of /validate (app/api/ratelimit.py), for the     *)
(* hits of one key, a token or a host; keys do not meet.                     *)
EXTENDS Integers, Sequences, FiniteSets

CONSTANTS Limit, Window,
          MaxTime, MaxHits  \* bounds of the clock and of the hits since the start

ASSUME LimiterAssumption == {Limit, MaxTime, MaxHits} \subseteq Nat /\ Window \in Nat \ {0}

VARIABLES
    now,     \* the monotonic clock
    bucket,  \* the entry of _buckets
    hits     \* (history) when each hit came, and whether it was admitted

limiterVars == <<now, bucket, hits>>

Fresh == [start |-> now, count |-> 0]

LimiterInit ==
    /\ now = 0
    /\ bucket = Fresh
    /\ hits = <<>>

(* mutation: the window restarts and its count does not *)
CurrentKept == IF now - bucket.start >= Window THEN [bucket EXCEPT !.start = now] ELSE bucket

(* mutation: a window starts anew as soon as its limit is spent *)
CurrentUnlessSpent == IF now - bucket.start >= Window \/ bucket.count > Limit THEN Fresh ELSE bucket

(* the entry a hit finds: what is there, unless its window is over *)
Current == IF hits = <<>> \/ now - bucket.start >= Window THEN Fresh ELSE bucket

Check ==
    /\ Len(hits) < MaxHits
    /\ bucket' = [Current EXCEPT !.count = @ + 1]
    /\ hits' = Append(hits, [at |-> now, ok |-> bucket'.count <= Limit])
    /\ UNCHANGED now

Tick ==
    /\ now < MaxTime
    /\ now' = now + 1
    /\ UNCHANGED <<bucket, hits>>

-----------------------------------------------------------------------------
LimiterTypeOK ==
    /\ now \in 0..MaxTime
    /\ bucket \in [start : 0..MaxTime, count : 0..MaxHits]
    /\ hits \in Seq([at : 0..MaxTime, ok : BOOLEAN]) /\ Len(hits) <= MaxHits

(* the hits admitted from t on, for as long as a window *)
AdmittedFrom(t) == {n \in DOMAIN hits : hits[n].ok /\ hits[n].at \in t..(t + Window - 1)}

(* However the hits fall around the ends of the windows, no interval as long *)
(* as a window sees more than two limits of them admitted (ratelimit.py:30). *)
NeverTwiceTheLimit == \A t \in 0..MaxTime : Cardinality(AdmittedFrom(t)) <= 2 * Limit

(* A hit is refused only when a whole limit was admitted less than a window  *)
(* before it: a client that goes on while it is refused does not put off the *)
(* end of its window (ratelimit.py:29-34).                                   *)
RefusedOnlyWhenSpent ==
    \A n \in DOMAIN hits :
        hits[n].ok \/ Cardinality({k \in AdmittedFrom(hits[n].at - Window + 1) : k < n}) >= Limit
=============================================================================
