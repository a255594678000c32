--------------------------- MODULE SecretProvider ---------------------------
(***************************************************************************)
(* The request secret (app/providers/mailboxlayer/secret.py): cached with  *)
(* a TTL, refreshed under a lock by whoever finds it stale (get) or was    *)
(* told that it was rejected (force_refresh).  A secret is the number of   *)
(* the rotation that brought it to the homepage.                           *)
(***************************************************************************)
EXTENDS Naturals

CONSTANTS
    Callers,
    MaxRotations,   \* bound: times the homepage changes its secret
    None            \* no secret yet, nobody

VARIABLES
    page,       \* the secret the homepage shows
    value,      \* _value
    young,      \* clock() - _fetched_at < _ttl
    ok,         \* the flag health() reports
    lock,       \* who holds _lock while fetching
    call,       \* where each caller is in get() or force_refresh()
    got         \* what get() or force_refresh() returned to it

secretVars == <<page, value, young, ok, lock, call, got>>

SecretTypeOK ==
    /\ page \in 0..MaxRotations
    /\ value \in 0..MaxRotations \cup {None}
    /\ young \in BOOLEAN
    /\ ok \in BOOLEAN
    /\ lock \in Callers \cup {None}
    /\ call \in [Callers -> {"idle", "get", "force", "fetch", "returned", "raised"}]
    /\ got \in [Callers -> 0..MaxRotations \cup {None}]

SecretInit ==
    /\ page = 0
    /\ value = None
    /\ young = FALSE
    /\ ok = FALSE
    /\ lock = None
    /\ call = [c \in Callers |-> "idle"]
    /\ got = [c \in Callers |-> None]

Fresh == value # None /\ young

Return(c, secret) ==
    /\ call' = [call EXCEPT ![c] = "returned"]
    /\ got' = [got EXCEPT ![c] = secret]

(* get(): a fresh secret is returned at once *)
Get(c) ==
    /\ call[c] = "idle"
    /\ IF Fresh THEN Return(c, value)
       ELSE call' = [call EXCEPT ![c] = "get"] /\ UNCHANGED got
    /\ UNCHANGED <<page, value, young, ok, lock>>

ForceRefresh(c) ==
    /\ call[c] = "idle"
    /\ call' = [call EXCEPT ![c] = "force"]
    /\ UNCHANGED <<page, value, young, ok, lock, got>>

(* mutation: force_refresh is satisfied with a fresh secret *)
LockedReuse(c) ==
    /\ call[c] \in {"get", "force"}
    /\ lock = None
    /\ Fresh
    /\ Return(c, value)
    /\ UNCHANGED <<page, value, young, ok, lock>>

(* the lock is free and somebody else has refreshed in the meantime *)
Locked(c) ==
    /\ call[c] = "get"
    /\ lock = None
    /\ Fresh
    /\ Return(c, value)
    /\ UNCHANGED <<page, value, young, ok, lock>>

(* mutation: no second look at the secret under the lock *)
BeginFetchUnseen(c) ==
    /\ call[c] \in {"get", "force"}
    /\ lock = None
    /\ lock' = c
    /\ call' = [call EXCEPT ![c] = "fetch"]
    /\ UNCHANGED <<page, value, young, ok, got>>

BeginFetch(c) ==
    /\ call[c] \in {"get", "force"}
    /\ lock = None
    /\ call[c] = "get" => ~Fresh
    /\ lock' = c
    /\ call' = [call EXCEPT ![c] = "fetch"]
    /\ UNCHANGED <<page, value, young, ok, got>>

Fetched(c) ==
    /\ call[c] = "fetch"
    /\ value' = page
    /\ young' = TRUE
    /\ ok' = TRUE
    /\ lock' = None
    /\ Return(c, page)
    /\ UNCHANGED page

(* mutation: the lock is kept when the fetch raises *)
FetchFailedLocked(c) ==
    /\ call[c] = "fetch"
    /\ ok' = FALSE
    /\ call' = [call EXCEPT ![c] = "raised"]
    /\ UNCHANGED <<page, value, young, lock, got>>

(* HTTP error, or no secret on the page: SecretUnavailable *)
FetchFailed(c) ==
    /\ call[c] = "fetch"
    /\ ok' = FALSE
    /\ lock' = None
    /\ call' = [call EXCEPT ![c] = "raised"]
    /\ UNCHANGED <<page, value, young, got>>

(* the caller takes the result or the exception *)
Take(c) ==
    /\ call[c] \in {"returned", "raised"}
    /\ call' = [call EXCEPT ![c] = "idle"]
    /\ got' = [got EXCEPT ![c] = None]
    /\ UNCHANGED <<page, value, young, ok, lock>>

(* ttl_minutes have passed since the last fetch *)
Expire ==
    /\ young
    /\ young' = FALSE
    /\ UNCHANGED <<page, value, ok, lock, call, got>>

(* upstream changes its secret *)
Rotate ==
    /\ page < MaxRotations
    /\ page' = page + 1
    /\ UNCHANGED <<value, young, ok, lock, call, got>>

Refreshing(c) == Locked(c) \/ BeginFetch(c) \/ Fetched(c) \/ FetchFailed(c)
=============================================================================
