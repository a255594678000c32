------------------------------- MODULE Access -------------------------------
(***************************************************************************)
(* The API token and the TTL, each kept twice: in app_settings and in the  *)
(* memory of the process (app/api/routes_settings.py, app/main.py), changed*)
(* by administration calls whose steps interleave, by restore              *)
(* (app/api/routes_admin.py), by scripts/set_token.py and by restarts; and *)
(* the gates that read the memory (app/api/deps.py, app/auth/).            *)
(*                                                                         *)
(* A token stands for its hash: a hash matches the token it was made from  *)
(* and no other.  Writers of one row exclude each other from the flush to  *)
(* the end of the transaction; SQLite, which excludes all writers, allows  *)
(* fewer behaviours.                                                       *)
(***************************************************************************)
EXTENDS RateLimiter

CONSTANTS
    Configs,     \* configurations to consider
    Calls,       \* administration calls in progress at a time
    Ttls,        \* values the TTL is set to
    DefaultTtl,  \* validation.ttl_days
    MaxTokens,   \* bound: tokens generated
    MayFail,     \* whether statements can fail
    None

VARIABLES
    config,   \* the part of the configuration the gates read
    table,    \* the rows ttl_days and api_token_hash of app_settings
    memory,   \* ValidationService.ttl_days and app.state.api_token_hash
    minted,   \* how many tokens have been generated
    pc, task, \* what a call does, and how far it is
    read,     \* what its last SELECT returned
    stored,   \* (history) tokens that were committed
    alone,    \* (history) nothing else wrote the same rows while it ran
    clean     \* (history) nothing has happened that may part memory and table

history == <<stored, alone, clean>>
adminVars == <<table, memory, minted, pc, task, read, history>>
vars == <<config, adminVars, limiterVars>>

Keys == {"ttl", "token"}
Tokens == 1..MaxTokens
Optional(S) == S \cup {None}

ASSUME AccessAssumption == MaxTokens \in Nat /\ None \notin Ttls \cup Tokens

Stored == [ttl : Optional(Ttls), token : Optional(Tokens)]

(* Settings._check_coherence *)
Coherent(c) == c.ui => c.password

(* mutation: no default for a TTL that is not stored *)
LoadedAsIs(row) == [row EXCEPT !.ttl = @]

Loaded(row) == [row EXCEPT !.ttl = IF @ = None THEN DefaultTtl ELSE @]

Init ==
    /\ config \in {c \in Configs : Coherent(c)}
    /\ table = [ttl |-> None, token |-> None]
    /\ memory = Loaded(table)
    /\ minted = 0
    /\ pc = [c \in Calls |-> "idle"]
    /\ task = [c \in Calls |-> None]
    /\ read = [c \in Calls |-> None]
    /\ stored = {}
    /\ alone = [c \in Calls |-> TRUE]
    /\ clean = [k \in Keys |-> TRUE]
    /\ LimiterInit

-----------------------------------------------------------------------------
(* The gates.  A request carries a token, or None, and Basic credentials,    *)
(* the right ones or not.                                                    *)

Credentials == [token : Optional(Tokens), basic : BOOLEAN]

(* mutation: no token is as good as no token *)
SameToken(cred) == cred.token = memory.token

ValidApiToken(cred) == cred.token # None /\ memory.token # None /\ cred.token = memory.token

ValidUiBasic(cred) == cred.basic /\ config.password

RequireApi(cred) == config.api => ValidApiToken(cred)

AdminExposureOk == config.api \/ config.ui \/ config.loopback

RequireAdmin(cred) ==
    /\ AdminExposureOk
    /\ config.api \/ config.ui =>
           (config.api /\ ValidApiToken(cred)) \/ (config.ui /\ ValidUiBasic(cred))

-----------------------------------------------------------------------------
(* Administration calls *)

Writes(t) == IF t.op = "restore" THEN Keys ELSE {t.key}
Working(c) == pc[c] # "idle"
Others(c, keys) == {d \in Calls \ {c} : Working(d) /\ Writes(task[d]) \cap keys # {}}
Unclean(keys) == [k \in Keys |-> clean[k] /\ k \notin keys]

Goto(c, label) == pc' = [pc EXCEPT ![c] = label]

End(c) ==
    /\ Goto(c, "idle")
    /\ task' = [task EXCEPT ![c] = None]
    /\ read' = [read EXCEPT ![c] = None]
    /\ alone' = [alone EXCEPT ![c] = TRUE]

(* what a call with these rows to write does to the others' *)
Meets(c, keys) ==
    /\ alone' = [d \in Calls |-> IF d = c THEN Others(c, keys) = {} ELSE alone[d] /\ d \notin Others(c, keys)]
    /\ clean' = Unclean(IF Others(c, keys) = {} THEN {} ELSE keys)

Ask(c, t, label) ==
    /\ pc[c] = "idle"
    /\ {cred \in Credentials : RequireAdmin(cred)} # {}
    /\ task' = [task EXCEPT ![c] = t]
    /\ Goto(c, label)
    /\ Meets(c, Writes(t))
    /\ UNCHANGED <<config, limiterVars, table, memory, read, stored>>

UpdateSettings(c) == \E d \in Ttls : Ask(c, [op |-> "set", key |-> "ttl", new |-> d], "set") /\ UNCHANGED minted

RotateToken(c) ==
    /\ minted < MaxTokens
    /\ minted' = minted + 1
    /\ Ask(c, [op |-> "set", key |-> "token", new |-> minted'], "find")

DeleteToken(c) == Ask(c, [op |-> "delete", key |-> "token", new |-> None], "find") /\ UNCHANGED minted

(* any TTL, and a token this instance has stored before *)
Restore(c) ==
    \E d \in Optional(Ttls), t \in Optional(stored) :
        Ask(c, [op |-> "restore", new |-> [ttl |-> d, token |-> t]], "write") /\ UNCHANGED minted

(* the TTL in memory comes first *)
SetTtlDays(c) ==
    /\ pc[c] = "set"
    /\ memory' = [memory EXCEPT !.ttl = task[c].new]
    /\ Goto(c, "find")
    /\ UNCHANGED <<config, limiterVars, table, minted, task, read, history>>

(* mutation: the token is assigned before it is stored, as the TTL is *)
FindAssigning(c) ==
    /\ pc[c] = "find"
    /\ read' = [read EXCEPT ![c] = table[task[c].key]]
    /\ memory' = [memory EXCEPT ![task[c].key] = IF task[c].key = "token" THEN task[c].new ELSE @]
    /\ Goto(c, "write")
    /\ UNCHANGED <<config, limiterVars, table, minted, task, history>>

Find(c) ==
    /\ pc[c] = "find"
    /\ read' = [read EXCEPT ![c] = table[task[c].key]]
    /\ Goto(c, "write")
    /\ UNCHANGED <<config, limiterVars, table, memory, minted, task, history>>

(* an INSERT of a row that is there by now, an UPDATE of one that is gone *)
Conflict(c) ==
    LET t == task[c]
    IN  t.op = "set" /\ t.new # read[c] /\ (read[c] = None) # (table[t.key] = None)

Written(c) ==
    LET t == task[c]
    IN  IF t.op = "restore" THEN t.new ELSE IF t.new = read[c] THEN table ELSE [table EXCEPT ![t.key] = t.new]

(* set_setting and delete_setting, or the DELETE and INSERTs of restore *)
Write(c) ==
    /\ pc[c] = "write"
    /\ \A d \in Others(c, Writes(task[c])) : pc[d] # "commit"
    /\ ~Conflict(c)
    /\ Goto(c, "commit")
    /\ UNCHANGED <<config, limiterVars, table, memory, minted, task, read, history>>

Commit(c) ==
    /\ pc[c] = "commit"
    /\ table' = Written(c)
    /\ stored' = stored \cup ({table'.token} \ {None})
    /\ IF task[c].op = "restore"
       THEN Goto(c, "reload") /\ clean' = Unclean({"ttl"}) /\ UNCHANGED <<task, read, alone>>
       ELSE IF task[c].key = "token"
       THEN Goto(c, "assign") /\ UNCHANGED <<task, read, alone, clean>>
       ELSE End(c) /\ clean' = [clean EXCEPT !.ttl = @ \/ alone[c]]
    /\ UNCHANGED <<config, limiterVars, memory, minted>>

(* _reload_token_hash *)
Reload(c) ==
    /\ pc[c] = "reload"
    /\ read' = [read EXCEPT ![c] = table.token]
    /\ Goto(c, "assign")
    /\ UNCHANGED <<config, limiterVars, table, memory, minted, task, history>>

Assign(c) ==
    /\ pc[c] = "assign"
    /\ memory' = [memory EXCEPT !.token = IF task[c].op = "restore" THEN read[c] ELSE task[c].new]
    /\ End(c)
    /\ clean' = [clean EXCEPT !.token = @ \/ alone[c]]
    /\ UNCHANGED <<config, limiterVars, table, minted, stored>>

(* a statement fails, or the call is cancelled; of a commit that fails one   *)
(* does not know what became of it                                           *)
Fail(c) ==
    /\ Working(c) /\ pc[c] \notin {"set", "assign"}
    /\ MayFail \/ Conflict(c)
    /\ table' \in {table, IF pc[c] = "commit" THEN Written(c) ELSE table}
    /\ stored' = stored \cup ({table'.token} \ {None})
    /\ clean' = Unclean(IF table' # table \/ pc[c] = "reload" THEN Keys
                        ELSE IF task[c].op = "set" /\ task[c].key = "ttl" THEN {"ttl"} ELSE {})
    /\ End(c)
    /\ UNCHANGED <<config, limiterVars, memory, minted>>

-----------------------------------------------------------------------------
(* scripts/set_token.py, another process *)
Script ==
    /\ minted < MaxTokens
    /\ \A c \in Calls : pc[c] = "commit" => "token" \notin Writes(task[c])
    /\ minted' = minted + 1
    /\ table' = [table EXCEPT !.token = minted']
    /\ stored' = stored \cup {minted'}
    /\ alone' = [c \in Calls |-> alone[c] /\ (Working(c) => "token" \notin Writes(task[c]))]
    /\ clean' = Unclean({"token"})
    /\ UNCHANGED <<config, limiterVars, memory, pc, task, read>>

(* the process ends at any time, and starts: lifespan, _load_persisted *)
Restart ==
    /\ memory' = Loaded(table)
    /\ pc' = [c \in Calls |-> "idle"]
    /\ task' = [c \in Calls |-> None]
    /\ read' = [c \in Calls |-> None]
    /\ alone' = [c \in Calls |-> TRUE]
    /\ clean' = [k \in Keys |-> TRUE]
    /\ bucket' = Fresh /\ hits' = <<>>
    /\ UNCHANGED <<config, table, minted, stored, now>>

(* a request of /validate: the gate, then the limiter *)
Validate ==
    /\ {cred \in Credentials : RequireApi(cred)} # {}
    /\ Check
    /\ UNCHANGED <<config, adminVars>>

Next ==
    \/ \E c \in Calls : \/ UpdateSettings(c) \/ RotateToken(c) \/ DeleteToken(c) \/ Restore(c)
                        \/ SetTtlDays(c) \/ Find(c) \/ Write(c) \/ Commit(c) \/ Reload(c) \/ Assign(c)
                        \/ Fail(c)
    \/ Script
    \/ Restart
    \/ Validate
    \/ Tick /\ UNCHANGED <<config, adminVars>>

Spec == Init /\ [][Next]_vars

-----------------------------------------------------------------------------
(* Properties *)

Tasks == [op : {"set"}, key : {"ttl"}, new : Ttls] \cup [op : {"set"}, key : {"token"}, new : Tokens]
         \cup [op : {"delete"}, key : {"token"}, new : {None}] \cup [op : {"restore"}, new : Stored]

TypeOK ==
    /\ Coherent(config)
    /\ table \in Stored
    /\ memory \in [ttl : Ttls \cup {DefaultTtl}, token : Optional(Tokens)]
    /\ minted \in 0..MaxTokens
    /\ pc \in [Calls -> {"idle", "set", "find", "write", "commit", "reload", "assign"}]
    /\ task \in [Calls -> Tasks \cup {None}]
    /\ \A c \in Calls : Working(c) => task[c] \in Tasks
    /\ read \in [Calls -> Optional(Ttls \cup Tokens)]
    /\ stored \subseteq Tokens
    /\ alone \in [Calls -> BOOLEAN]
    /\ clean \in [Keys -> BOOLEAN]
    /\ LimiterTypeOK

(* A restart would find what is in memory, unless the table was changed by   *)
(* the script, a TTL by a restore, two calls overlapped, a TTL write or a    *)
(* commit of unknown outcome failed, or a restore could not read the token   *)
(* back: a failed rotation or removal alone leaves no trace                  *)
(* (routes_settings.py:72-75, 89-105, main.py:52-58).                        *)
MemoryFollowsTable ==
    \A k \in Keys :
        clean[k] /\ (\A c \in Calls : Working(c) => k \notin Writes(task[c])) => memory[k] = Loaded(table)[k]

(* With API auth on, a request passes only with a token whose hash was       *)
(* committed: none passes for want of a token, on the way to a commit that   *)
(* fails, or after a crash (deps.py:56-80, routes_settings.py:91-93).        *)
OnlyStoredTokensOpenTheApi ==
    \A cred \in Credentials : config.api /\ RequireApi(cred) => cred.token \in stored
=============================================================================
