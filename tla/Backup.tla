------------------------------- MODULE Backup -------------------------------
(***************************************************************************)
(* Backup and restore (app/services/backup_service.py, and their routes in *)
(* app/api/routes_admin.py) beside checks that go on recording.  A check   *)
(* is reduced to its statements: the row it finds, the row it inserts, the *)
(* event, the commit; Validation has the rest.  A row is its id and the    *)
(* check that found it, so that an id in use again is told apart.  The     *)
(* third table, app_settings, is in Access.                                *)
(*                                                                         *)
(* What the three databases do is outside src/ and summed up in NextFree,  *)
(* MayInsert, MayDelete and Enforced.                                      *)
(***************************************************************************)
EXTENDS Integers, FiniteSetsExt

CONSTANTS
    Checks,      \* checks of addresses, each made at most once
    Jobs,        \* calls of /backup and /restore, each made at most once
    Backends,    \* the databases to consider
    Uploads,     \* archives that come from elsewhere
    MayFail,     \* whether statements can fail
    MaxSecond,   \* bound: seconds that pass
    None

VARIABLES
    backend,     \* database.type
    db,          \* the committed rows and events
    next,        \* the sequence of each table, where the database keeps one
    second,      \* the wall clock, as precise as a snapshot's file name
    pc,
    hand,        \* the row a check has looked up or inserted
    draft,       \* what a transaction has inserted and not committed
    want,        \* the archive a job restores; None for a backup
    seen,        \* what a job's dump has read
    removed,     \* what a restore has deleted and not committed
    archives,    \* archives an operator has
    files,       \* the snapshots in backup.directory, one or none for each second
    since,       \* (history) committed since a job's first SELECT, or its DELETE
    overwritten, \* (history) a snapshot file was written twice
    torn         \* (history) an event was without its row

checkVars == <<next, hand>>
jobVars == <<want, seen, removed, archives, files, overwritten>>
vars == <<backend, db, second, pc, draft, since, torn, checkVars, jobVars>>

Processes == Checks \cup Jobs
Seconds == 0..MaxSecond
Empty == [rows |-> {}, events |-> {}]

Plus(d, x) == [t \in DOMAIN d |-> d[t] \cup x[t]]
Less(d, x) == [t \in DOMAIN d |-> d[t] \ x[t]]
Within(d, x) == \A t \in DOMAIN d : d[t] \subseteq x[t]
Ids(S) == {x.id : x \in S}
Gap(d) == {e \in d.events : e.result_id \notin Ids(d.rows)}

ASSUME BackupAssumption ==
    /\ Backends \subseteq {"sqlite", "postgres", "mysql"}
    /\ Checks \cap Jobs = {}
    /\ MaxSecond \in Nat
    /\ \A a \in Uploads : a.data = [rows |-> a.data.rows, events |-> a.data.events] /\ Gap(a.data) = {}

Row == [id : Nat, by : Checks \cup {None}]
Event == [id : Nat, result_id : Nat, by : Checks \cup {None}]
IsData(d) ==
    /\ d.rows \subseteq Row /\ IsFiniteSet(d.rows)
    /\ d.events \subseteq Event /\ IsFiniteSet(d.events)
IsArchive(a) == IsData(a.data) /\ a.sound \in BOOLEAN /\ IsData(a.during)

ASSUME NoneAssumption == None \notin Row

(* what comes from elsewhere was written by a program of the same kind *)
ASSUME UploadsAssumption ==
    /\ None \notin Uploads
    /\ \A a \in Uploads : IsArchive(a)

Init ==
    /\ backend \in Backends
    /\ db = Empty
    /\ next = [rows |-> 1, events |-> 1]
    /\ second = 0
    /\ pc = [p \in Processes |-> "idle"]
    /\ hand = [c \in Checks |-> None]
    /\ draft = [p \in Processes |-> Empty]
    /\ want = [j \in Jobs |-> None]
    /\ seen = [j \in Jobs |-> Empty]
    /\ removed = [j \in Jobs |-> Empty]
    /\ archives = Uploads
    /\ files = [s \in Seconds |-> {}]
    /\ since = [j \in Jobs |-> Empty]
    /\ overwritten = FALSE
    /\ torn = FALSE

-----------------------------------------------------------------------------
(* The databases *)

(* a restore has emptied both tables, or the events at least *)
Emptied(j) == pc[j] \in {"fill", "apply"}
Replacing(j) == pc[j] = "deleteRows" \/ Emptied(j)

(* SQLite takes max + 1; the others have a sequence *)
NextFree(t) == IF backend = "sqlite" THEN Max(Ids(db[t]) \cup {0}) + 1 ELSE next[t]

(* mutation: the sequences are set to follow what was restored *)
AfterRestored(t, ids) == IF backend = "sqlite" THEN next[t] ELSE Max({0} \cup ids) + 1

(* MySQL's counter passes an explicit id; a PostgreSQL sequence stays *)
AfterExplicit(t, ids) ==
    IF backend = "mysql" THEN Max({next[t]} \cup {i + 1 : i \in ids}) ELSE next[t]

(* SQLite has one writer; MySQL's unqualified DELETE locks the whole table *)
MayInsert(c, t) ==
    CASE backend = "sqlite" -> \A p \in Processes \ {c} : draft[p] = Empty /\ ~(p \in Jobs /\ Replacing(p))
      [] backend = "mysql" -> \A j \in Jobs : IF t = "rows" THEN ~Emptied(j) ELSE ~Replacing(j)
      [] OTHER -> TRUE

(* an unqualified DELETE waits for the writer (SQLite), for what others have *)
(* inserted into that table (MySQL), and on PostgreSQL for uncommitted       *)
(* events that refer to a row; restores go one at a time                     *)
MayDelete(j, t) ==
    /\ \A k \in Jobs \ {j} : ~Replacing(k)
    /\ \A c \in Checks :
          CASE backend = "sqlite" -> draft[c] = Empty
            [] backend = "mysql" -> draft[c][t] = {}
            [] OTHER -> t = "rows" => \A e \in draft[c].events : e.result_id \notin Ids(db.rows)

(* SQLite is used without PRAGMA foreign_keys *)
Enforced == backend # "sqlite"

(* an id an open transaction inserts or deletes makes others wait *)
Contended(t, ids, p) ==
    \E q \in Processes \ {p} : ids \cap Ids(draft[q][t] \cup IF q \in Jobs THEN removed[q][t] ELSE {}) # {}

-----------------------------------------------------------------------------
Goto(p, label) == pc' = [pc EXCEPT ![p] = label]

(* mutation: a failed flush leaves the session's work *)
LeaveOpen(p, label) == Goto(p, label) /\ UNCHANGED draft

(* the session closes; what is not committed is gone *)
Close(p, label) ==
    /\ Goto(p, label)
    /\ draft' = [draft EXCEPT ![p] = Empty]

(* what becomes visible while a job reads or replaces *)
Publish(d) ==
    /\ db' = d
    /\ since' = [j \in Jobs |-> IF pc[j] \in {"idle", "rows", "done", "failed"} THEN since[j]
                                ELSE Plus(since[j], Less(d, db))]
    /\ torn' = (torn \/ Gap(d) # {})

Unpublished == UNCHANGED <<db, since, torn>>

(* A check: Validation's latest, insert_if_changed, record_event and commit *)

Look(c) ==
    /\ pc[c] = "idle"
    /\ \E x \in db.rows \cup {None} : hand' = [hand EXCEPT ![c] = x]
    /\ Goto(c, "write")
    /\ UNCHANGED <<backend, second, draft, next, jobVars>> /\ Unpublished

Insert(c, t, x, label) ==
    /\ MayInsert(c, t)
    /\ ~Contended(t, {x.id}, c)
    /\ next' = IF backend = "sqlite" THEN next ELSE [next EXCEPT ![t] = @ + 1]
    /\ IF x.id \in Ids(db[t]) THEN Close(c, "collided")
       ELSE draft' = [draft EXCEPT ![c][t] = {x}] /\ Goto(c, label)
    /\ UNCHANGED <<backend, second, jobVars>> /\ Unpublished

InsertRow(c) ==
    LET x == [id |-> NextFree("rows"), by |-> c]
    IN  /\ pc[c] = "write" /\ hand[c] = None
        /\ hand' = [hand EXCEPT ![c] = x]
        /\ Insert(c, "rows", x, "write")

RecordEvent(c) ==
    LET i == hand[c].id
        own == i \in Ids(draft[c].rows)
    IN  /\ pc[c] = "write" /\ hand[c] # None
        /\ own \/ ~Enforced \/ (i \in Ids(db.rows) /\ ~Contended("rows", {i}, c))
        /\ Insert(c, "events", [id |-> NextFree("events"), result_id |-> i, by |-> c], "commit")
        /\ UNCHANGED hand

(* the row was replaced meanwhile: the foreign key refuses the event *)
RefuseEvent(c) ==
    /\ pc[c] = "write" /\ hand[c] # None
    /\ Enforced /\ hand[c].id \notin Ids(db.rows \cup draft[c].rows)
    /\ Close(c, "failed")
    /\ UNCHANGED <<backend, second, checkVars, jobVars>> /\ Unpublished

(* mutation: the event is committed without the row it was flushed with *)
CommitEventAlone(c) ==
    /\ pc[c] = "commit"
    /\ Publish(Plus(db, [draft[c] EXCEPT !.rows = {}]))
    /\ Close(c, "done")
    /\ UNCHANGED <<backend, second, checkVars, jobVars>>

Commit(c) ==
    /\ pc[c] = "commit"
    /\ Publish(Plus(db, draft[c]))
    /\ Close(c, "done")
    /\ UNCHANGED <<backend, second, checkVars, jobVars>>

-----------------------------------------------------------------------------
(* make_backup *)

BackUp(j) ==
    /\ pc[j] = "idle"
    /\ Goto(j, "rows")
    /\ UNCHANGED <<backend, second, draft, checkVars, jobVars>> /\ Unpublished

(* one SELECT per table; a MySQL transaction reads the snapshot of its first *)
DumpRows(j) ==
    /\ pc[j] = "rows"
    /\ seen' = [seen EXCEPT ![j] = IF backend = "mysql" THEN db ELSE [db EXCEPT !.events = {}]]
    /\ since' = [since EXCEPT ![j] = Empty]
    /\ Goto(j, "events")
    /\ UNCHANGED <<backend, db, second, draft, torn, checkVars, want, removed, archives, files, overwritten>>

Archive(j, data) == [data |-> data, sound |-> TRUE, during |-> since[j]]

(* mutation: a session for each table *)
DumpEventsNow(j) ==
    /\ pc[j] = "events"
    /\ seen' = [seen EXCEPT ![j].events = db.events]
    /\ archives' = IF want[j] = None THEN archives \cup {Archive(j, seen'[j])} ELSE archives
    /\ Goto(j, IF want[j] = None THEN "done" ELSE "persist")
    /\ UNCHANGED <<backend, second, draft, checkVars, want, removed, files, overwritten>> /\ Unpublished

DumpEvents(j) ==
    LET data == IF backend = "mysql" THEN seen[j] ELSE [seen[j] EXCEPT !.events = db.events]
    IN  /\ pc[j] = "events"
        /\ seen' = [seen EXCEPT ![j] = data]
        /\ archives' = IF want[j] = None THEN archives \cup {Archive(j, data)} ELSE archives
        /\ Goto(j, IF want[j] = None THEN "done" ELSE "persist")
        /\ UNCHANGED <<backend, second, draft, checkVars, want, removed, files, overwritten>> /\ Unpublished

-----------------------------------------------------------------------------
(* restore *)

(* the confirmation, size, members, checksum and schema version are right;   *)
(* what is not so is refused before anything is touched                      *)
Acceptable(a) == a.sound

(* mutation: a file of the server can be restored too *)
RestoreFile(j) ==
    /\ pc[j] = "idle"
    /\ \E a \in archives \cup UNION {files[s] : s \in Seconds} :
          Acceptable(a) /\ want' = [want EXCEPT ![j] = a]
    /\ Goto(j, "rows")
    /\ UNCHANGED <<backend, second, draft, checkVars, seen, removed, archives, files, overwritten>>
    /\ Unpublished

Restore(j) ==
    /\ pc[j] = "idle"
    /\ \E a \in archives : Acceptable(a) /\ want' = [want EXCEPT ![j] = a]
    /\ Goto(j, "rows")
    /\ UNCHANGED <<backend, second, draft, checkVars, seen, removed, archives, files, overwritten>>
    /\ Unpublished

(* mutation: the upload is written to the snapshot file *)
PersistUpload(j) ==
    /\ pc[j] = "persist"
    /\ files' = [files EXCEPT ![second] = {want[j]}]
    /\ overwritten' = (overwritten \/ files[second] # {})
    /\ Goto(j, "delete")
    /\ UNCHANGED <<backend, second, draft, checkVars, want, seen, removed, archives>> /\ Unpublished

PersistSnapshot(j) ==
    /\ pc[j] = "persist"
    /\ files' = [files EXCEPT ![second] = {Archive(j, seen[j])}]
    /\ overwritten' = (overwritten \/ files[second] # {})
    /\ Goto(j, "delete")
    /\ UNCHANGED <<backend, second, draft, checkVars, want, seen, removed, archives>> /\ Unpublished

(* mutation: the events are left *)
KeepEvents(j) ==
    /\ pc[j] = "delete"
    /\ MayDelete(j, "events")
    /\ Goto(j, "deleteRows")
    /\ UNCHANGED <<backend, second, draft, checkVars, jobVars>> /\ Unpublished

(* the DELETE of verification_events *)
DeleteEvents(j) ==
    /\ pc[j] = "delete"
    /\ MayDelete(j, "events")
    /\ removed' = [removed EXCEPT ![j] = [db EXCEPT !.rows = {}]]
    /\ Goto(j, "deleteRows")
    /\ UNCHANGED <<backend, second, draft, checkVars, want, seen, archives, files, overwritten>>
    /\ Unpublished

(* the DELETE of validation_results: the foreign key refuses it when an      *)
(* event was committed after the other DELETE                                *)
DeleteRows(j) ==
    /\ pc[j] = "deleteRows"
    /\ MayDelete(j, "rows")
    /\ IF Enforced /\ \E e \in db.events \ removed[j].events : e.result_id \in Ids(db.rows)
       THEN /\ Close(j, "failed")
            /\ removed' = [removed EXCEPT ![j] = Empty]
            /\ UNCHANGED since
       ELSE /\ removed' = [removed EXCEPT ![j].rows = db.rows]
            /\ since' = [since EXCEPT ![j] = Empty]
            /\ Goto(j, "fill") /\ UNCHANGED draft
    /\ UNCHANGED <<backend, db, second, torn, checkVars, want, seen, archives, files, overwritten>>

Kept(j) == Less(db, removed[j])

(* rows with the ids they had, then events *)
Fill(j) ==
    LET data == want[j].data
        clash == \E t \in {"rows", "events"} : Ids(data[t]) \cap Ids(Kept(j)[t]) # {}
        broken == Enforced /\ {e \in data.events : e.result_id \notin Ids(data.rows \cup Kept(j).rows)} # {}
    IN  /\ pc[j] = "fill"
        /\ \A t \in {"rows", "events"} : ~Contended(t, Ids(data[t]), j)
        /\ IF clash \/ broken
           THEN Close(j, "failed") /\ removed' = [removed EXCEPT ![j] = Empty] /\ UNCHANGED next
           ELSE /\ draft' = [draft EXCEPT ![j] = data]
                /\ next' = [t \in DOMAIN next |-> AfterExplicit(t, Ids(data[t]))]
                /\ Goto(j, "apply")
                /\ UNCHANGED removed
        /\ UNCHANGED <<backend, second, hand, want, seen, archives, files, overwritten>> /\ Unpublished

Apply(j) ==
    /\ pc[j] = "apply"
    /\ Publish(Plus(Kept(j), draft[j]))
    /\ Close(j, "done")
    /\ removed' = [removed EXCEPT ![j] = Empty]
    /\ UNCHANGED <<backend, second, checkVars, want, seen, archives, files, overwritten>>

-----------------------------------------------------------------------------
(* an exception, a cancellation or the end of the process *)
Fail(p) ==
    /\ MayFail
    /\ pc[p] \notin {"idle", "done", "failed", "collided"}
    /\ Close(p, "failed")
    /\ removed' = [j \in Jobs |-> IF j = p THEN Empty ELSE removed[j]]
    /\ UNCHANGED <<backend, second, checkVars, want, seen, archives, files, overwritten>> /\ Unpublished

Tick ==
    /\ second < MaxSecond
    /\ second' = second + 1
    /\ UNCHANGED <<backend, pc, draft, checkVars, jobVars>> /\ Unpublished

CheckStep(c) == InsertRow(c) \/ RecordEvent(c) \/ RefuseEvent(c) \/ Commit(c)
JobStep(j) == DumpRows(j) \/ DumpEvents(j) \/ PersistSnapshot(j)
              \/ DeleteEvents(j) \/ DeleteRows(j) \/ Fill(j) \/ Apply(j)

Next ==
    \/ \E c \in Checks : Look(c) \/ CheckStep(c)
    \/ \E j \in Jobs : BackUp(j) \/ Restore(j) \/ JobStep(j)
    \/ \E p \in Processes : Fail(p)
    \/ Tick

Spec == Init /\ [][Next]_vars

-----------------------------------------------------------------------------
(* Properties *)

TypeOK ==
    /\ backend \in Backends
    /\ IsData(db)
    /\ next \in [{"rows", "events"} -> Nat \ {0}]
    /\ second \in Seconds
    /\ pc \in [Processes -> {"idle", "write", "commit", "rows", "events", "persist", "delete",
                             "deleteRows", "fill", "apply", "done", "failed", "collided"}]
    /\ \A c \in Checks : hand[c] \in Row \cup {None}
    /\ \A p \in Processes : IsData(draft[p])
    /\ \A j \in Jobs : want[j] \in archives \cup {None} /\ \A d \in {seen[j], removed[j], since[j]} : IsData(d)
    /\ \A a \in archives : IsArchive(a)
    /\ \A s \in Seconds : \A a \in files[s] : IsArchive(a)
    /\ overwritten \in BOOLEAN /\ torn \in BOOLEAN

Snapshots == UNION {files[s] : s \in Seconds}
Saved == [t \in {"rows", "events"} |-> UNION {a.data[t] : a \in Snapshots}]

(* An archive is a state of the tables: an event in it lacks its row only    *)
(* when that was committed while the dump was reading, and never on MySQL    *)
(* (backup_service.py:62-65, 99-101).                                        *)
ArchivesAreConsistent ==
    \A a \in archives \cup Snapshots :
        torn \/ Gap(a.data) \subseteq IF backend = "mysql" THEN {} ELSE a.during.events

(* What a restore deletes is in a snapshot file, except what was committed   *)
(* after the snapshot was read and unless two restores share a second        *)
(* (backup_service.py:118-128, 173-178).                                     *)
RemovedIsSaved ==
    [][\A j \in Jobs : pc[j] = "deleteRows" /\ pc'[j] = "fill" /\ ~overwritten =>
          Within(removed'[j], Plus(Saved, since[j]))]_vars

(* A restore leaves the tables of a sound archive, whole, and beside them    *)
(* only what was committed since its DELETE, and that on PostgreSQL only     *)
(* (backup_service.py:175-208).                                              *)
RestoreIsExact ==
    [][\A j \in Jobs : pc[j] = "apply" /\ pc'[j] = "done" =>
          /\ want[j].sound
          /\ db' = Plus(want[j].data, IF backend = "postgres" THEN since[j] ELSE Empty)]_vars

(* An INSERT of a check meets a primary key in use only on PostgreSQL, and   *)
(* only when an archive from elsewhere was restored (backup_service.py:182). *)
CollidesOnlyAfterImport ==
    (\E c \in Checks : pc[c] = "collided") =>
        backend = "postgres" /\ \E j \in Jobs : want[j] \in Uploads

(* An event without its row can only be left on SQLite, by a restore         *)
(* (backup_service.py:176-200, repository.py:64-80).                         *)
TornOnlyByRestore == torn => backend = "sqlite" /\ \E j \in Jobs : want[j] # None /\ pc[j] = "done"

(* What a check or a job waits for has come: it can take its next step.      *)
ReadyToCheck(c) ==
    \/ pc[c] = "commit"
    \/ /\ pc[c] = "write" /\ hand[c] = None
       /\ MayInsert(c, "rows") /\ ~Contended("rows", {NextFree("rows")}, c)
    \/ LET i == hand[c].id
       IN  /\ pc[c] = "write" /\ hand[c] # None
           /\ \/ Enforced /\ i \notin Ids(db.rows \cup draft[c].rows)
              \/ /\ \/ i \in Ids(draft[c].rows)
                    \/ ~Enforced
                    \/ i \in Ids(db.rows) /\ ~Contended("rows", {i}, c)
                 /\ MayInsert(c, "events") /\ ~Contended("events", {NextFree("events")}, c)

ReadyToWork(j) ==
    \/ pc[j] \in {"rows", "events", "persist", "apply"}
    \/ pc[j] = "delete" /\ MayDelete(j, "events")
    \/ pc[j] = "deleteRows" /\ MayDelete(j, "rows")
    \/ pc[j] = "fill" /\ \A t \in {"rows", "events"} : ~Contended(t, Ids(want[j].data[t]), j)

Ready == (\E c \in Checks : ReadyToCheck(c)) \/ (\E j \in Jobs : ReadyToWork(j))

(* MySQL: a restore has deleted the events and waits for the row of a check, *)
(* which waits to insert its event                                           *)
MySqlCircle ==
    /\ backend = "mysql"
    /\ \E j \in Jobs : pc[j] = "deleteRows"
    /\ \E c \in Checks : pc[c] = "write" /\ draft[c].rows # {}

(* Checks, backups and restores wait for each other in a circle in two cases *)
(* only, which the database resolves by ending one of them: on MySQL, a      *)
(* check between its two INSERTs and a restore between its first two         *)
(* DELETEs; on PostgreSQL, after an archive from elsewhere was restored, a   *)
(* check whose next id a second restore has deleted, and that restore, which *)
(* waits for the check's row (session.py:44-55, backup_service.py:176-200).  *)
NobodyIsStuck ==
    \/ \A p \in Processes : pc[p] \in {"idle", "done", "failed", "collided"}
    \/ MySqlCircle
    \/ backend = "postgres" /\ \E j \in Jobs : want[j] \in Uploads
    \/ Ready
=============================================================================
