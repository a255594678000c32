---------------------------- MODULE BackupProofs ----------------------------
(***************************************************************************)
(* What holds of backups and restores beside any number of checks, for any *)
(* archives from elsewhere that are whole, on each of the three databases. *)
(***************************************************************************)
EXTENDS Backup, FiniteSetTheorems, TLAPS

USE BackupAssumption

-----------------------------------------------------------------------------
(* The inductive invariant *)

IsPair(d) == d = [rows |-> d.rows, events |-> d.events]

Shaped ==
    /\ backend \in Backends
    /\ second \in Seconds
    /\ IsPair(db)
    /\ pc = [p \in Processes |-> pc[p]] /\ draft = [p \in Processes |-> draft[p]]
    /\ hand = [c \in Checks |-> hand[c]]
    /\ want = [j \in Jobs |-> want[j]] /\ seen = [j \in Jobs |-> seen[j]]
    /\ removed = [j \in Jobs |-> removed[j]] /\ since = [j \in Jobs |-> since[j]]
    /\ files = [s \in Seconds |-> files[s]]
    /\ \A p \in Processes : IsPair(draft[p])
    /\ \A j \in Jobs : IsPair(seen[j]) /\ IsPair(removed[j]) /\ IsPair(since[j])
    /\ \A a \in archives : IsPair(a.data)

(* What a check has in hand: its own row, or one it found. *)
Checked(c) ==
    /\ pc[c] \in {"idle", "write", "commit", "done", "failed", "collided"}
    /\ pc[c] \notin {"write", "commit"} => draft[c] = Empty
    /\ pc[c] = "write" => draft[c].events = {}
    /\ \A x \in draft[c].rows : x.id = hand[c].id
    /\ pc[c] = "commit" => draft[c].events # {} /\ \A e \in draft[c].events : e.result_id = hand[c].id

(* What a job is about. *)
Staged(j) ==
    /\ pc[j] \in {"idle", "rows", "events", "persist", "delete", "deleteRows", "fill", "apply", "done", "failed"}
    /\ draft[j] = IF pc[j] = "apply" THEN want[j].data ELSE Empty
    /\ pc[j] \in {"persist", "delete", "deleteRows", "fill", "apply"} => want[j] # None
    /\ want[j] # None => want[j] \in archives /\ want[j].sound

OneRestore == \A j, k \in Jobs : Replacing(j) /\ Replacing(k) => j = k

(* What a check may have inserted beside a restore. *)
Clear(c, j) ==
    backend # "postgres" =>
        /\ Replacing(j) => draft[c].events = {}
        /\ Emptied(j) \/ (backend = "sqlite" /\ Replacing(j)) => draft[c] = Empty

(* Between its DELETEs only PostgreSQL lets an event be committed. *)
Emptying(j) ==
    pc[j] = "deleteRows" =>
        /\ removed[j].rows = {} /\ removed[j].events \subseteq db.events
        /\ backend # "postgres" => removed[j].events = db.events

(* While a restore replaces the tables, they are what it deletes and what    *)
(* has been committed since, and the latter could stand for itself.          *)
Replaces(j) ==
    Emptied(j) =>
        /\ Within(removed[j], db) /\ since[j] = Kept(j)
        /\ backend # "postgres" => since[j] = Empty
        /\ backend # "sqlite" =>
               /\ Gap(since[j]) = {}
               /\ \A e \in draft[j].events : e.result_id \in Ids(draft[j].rows \cup since[j].rows)

(* No two rows to be inserted, nor one of a check and one in the table, have *)
(* the same id.                                                              *)
Apart ==
    /\ \A p, q \in Processes : p # q => Ids(draft[p].rows) \cap Ids(draft[q].rows) = {}
    /\ \A c \in Checks : Ids(draft[c].rows) \cap Ids(db.rows) = {}

(* A dump is behind by what has been committed since it began. *)
Missing(d) == IF backend = "mysql" THEN {} ELSE d.events

Reading(j) ==
    /\ pc[j] = "events" =>
           /\ db.rows \subseteq seen[j].rows \cup since[j].rows
           /\ IF backend = "mysql"
              THEN db.events \subseteq seen[j].events \cup since[j].events /\ (torn \/ Gap(seen[j]) = {})
              ELSE torn \/ \A e \in db.events : e.result_id \in Ids(seen[j].rows) \/ e \in since[j].events
    /\ pc[j] = "persist" => torn \/ Gap(seen[j]) \subseteq Missing(since[j])
    /\ pc[j] \in {"persist", "delete", "deleteRows"} => Within(db, Plus(seen[j], since[j]))
    /\ pc[j] \in {"delete", "deleteRows"} /\ ~overwritten => \E s \in Seconds : \E a \in files[s] : a.data = seen[j]

(* Until a restore has torn tables apart, an event that is to be committed   *)
(* has its row.                                                              *)
Quiet == backend = "sqlite" => \A j \in Jobs : ~(want[j] # None /\ pc[j] = "done")

Refers(c) ==
    Quiet =>
        /\ backend = "sqlite" /\ pc[c] = "write" /\ hand[c] # None =>
               hand[c].id \in Ids(db.rows \cup draft[c].rows)
        /\ pc[c] = "commit" => hand[c].id \in Ids(db.rows \cup draft[c].rows)
        /\ backend # "sqlite" /\ pc[c] = "commit" =>
               \A k \in Jobs : Emptied(k) => hand[c].id \in Ids(since[k].rows \cup draft[c].rows)

Whole ==
    /\ torn \/ Gap(db) = {}
    /\ Quiet => ~torn

IInv ==
    /\ Shaped
    /\ \A c \in Checks : Checked(c) /\ Refers(c)
    /\ \A j \in Jobs : Staged(j) /\ Emptying(j) /\ Replaces(j) /\ Reading(j)
    /\ \A c \in Checks : \A j \in Jobs : Clear(c, j)
    /\ OneRestore
    /\ Apart
    /\ ArchivesAreConsistent
    /\ Whole

-----------------------------------------------------------------------------
(* Pairs of tables *)

(* Empty tables. *)
LEMMA EmptyPair == IsPair(Empty) /\ Empty.rows = {} /\ Empty.events = {}
  BY DEF IsPair, Empty

(* Two states of the tables with the same rows and events are the same. *)
LEMMA SamePair ==
    ASSUME NEW d, NEW x, IsPair(d), IsPair(x), d.rows = x.rows, d.events = x.events
    PROVE  d = x
  BY DEF IsPair

(* Sums and differences go table by table. *)
LEMMA Parts ==
    ASSUME NEW d, NEW x, IsPair(d)
    PROVE  /\ IsPair(Plus(d, x))
           /\ Plus(d, x).rows = d.rows \cup x.rows /\ Plus(d, x).events = d.events \cup x.events
           /\ IsPair(Less(d, x))
           /\ Less(d, x).rows = d.rows \ x.rows /\ Less(d, x).events = d.events \ x.events
           /\ Within(d, x) <=> d.rows \subseteq x.rows /\ d.events \subseteq x.events
<1> DEFINE both(f, g) == [rows |-> f, events |-> g]
<1>1. d = both(d.rows, d.events)
  BY DEF IsPair
<1>2. DOMAIN d = {"rows", "events"}
  BY <1>1
<1>3. Plus(d, x) = both(d.rows \cup x.rows, d.events \cup x.events)
  <2>1. Plus(d, x) = [t \in {"rows", "events"} |-> d[t] \cup x[t]]
    BY <1>2 DEF Plus
  <2>2. QED
    BY <2>1
<1>4. Less(d, x) = both(d.rows \ x.rows, d.events \ x.events)
  BY <1>2 DEF Less
<1>5. Within(d, x) <=> d.rows \subseteq x.rows /\ d.events \subseteq x.events
  BY <1>2 DEF Within
<1>6. QED
  BY <1>3, <1>4, <1>5 DEF IsPair

(* The ids of more rows. *)
LEMMA IdsOfBoth == ASSUME NEW S, NEW T PROVE Ids(S \cup T) = Ids(S) \cup Ids(T)
  BY DEF Ids

(* The ids of fewer rows. *)
LEMMA IdsOfFewer == ASSUME NEW S, NEW T, S \subseteq T PROVE Ids(S) \subseteq Ids(T)
  BY DEF Ids

-----------------------------------------------------------------------------
(* What a step leaves as it was *)

(* What is checked of an archive needs its rows and events only. *)
Same(p) == pc'[p] = pc[p] /\ draft'[p] = draft[p]

(* A check that does not move keeps what it has. *)
LEMMA CheckedKept ==
    ASSUME NEW c \in Checks, Checked(c), Same(c), hand'[c] = hand[c]
    PROVE  Checked(c)'
  BY DEF Checked, Same

(* So does a job. *)
LEMMA StagedKept ==
    ASSUME NEW j \in Jobs, Staged(j), Same(j), want'[j] = want[j], archives \subseteq archives'
    PROVE  Staged(j)'
  BY DEF Staged, Same

(* A restore has the tables for itself, as before. *)
LEMMA ReplacesKept ==
    ASSUME NEW j \in Jobs, Replaces(j), Same(j), removed'[j] = removed[j], since'[j] = since[j],
           db' = db, backend' = backend
    PROVE  Replaces(j)'
<1>1. Kept(j)' = Kept(j) /\ (Emptied(j)' <=> Emptied(j))
  BY DEF Kept, Same, Emptied
<1>2. QED
  BY <1>1 DEF Replaces, Same

(* Or has deleted the events, as before. *)
LEMMA EmptyingKept ==
    ASSUME NEW j \in Jobs, Emptying(j), Same(j), removed'[j] = removed[j], db' = db, backend' = backend
    PROVE  Emptying(j)'
  BY DEF Emptying, Same

(* A check and a restore that do not move leave room for each other. *)
LEMMA ClearKept ==
    ASSUME NEW c \in Checks, NEW j \in Jobs, Clear(c, j), Same(c), Same(j), backend' = backend
    PROVE  Clear(c, j)'
  BY DEF Clear, Same, Emptied, Replacing

(* A dump is as far behind as it was. *)
LEMMA ReadingKept ==
    ASSUME NEW j \in Jobs, Reading(j), Same(j), seen'[j] = seen[j], since'[j] = since[j],
           db' = db, backend' = backend, torn' = torn,
           overwritten' \/ (~overwritten /\ \A s \in Seconds : files[s] \subseteq files'[s])
    PROVE  Reading(j)'
<1>1. (pc[j] \in {"delete", "deleteRows"} /\ ~overwritten => \E s \in Seconds : \E a \in files[s] : a.data = seen[j])'
  BY DEF Reading, Same
<1>2. QED
  BY <1>1 DEF Reading, Same, Missing

(* The row of an event is still there, if nothing was published. *)
LEMMA RefersKept ==
    ASSUME NEW c \in Checks, Refers(c), Same(c), hand'[c] = hand[c], db' = db, backend' = backend,
           Quiet' => Quiet,
           \A k \in Jobs : Emptied(k)' => Emptied(k) /\ since'[k] = since[k]
    PROVE  Refers(c)'
  BY DEF Refers, Same

(* Steps of one check or one job that publish nothing. *)
LEMMA CheckMoves ==
    ASSUME IInv, NEW c \in Checks,
           UNCHANGED <<backend, second, db, since, torn, jobVars>>,
           \A p \in Processes \ {c} : Same(p),
           \A d \in Checks \ {c} : hand'[d] = hand[d],
           Shaped', Checked(c)', Refers(c)', Apart',
           \A j \in Jobs : backend # "postgres" =>
               /\ Replacing(j) => draft'[c].events = {}
               /\ Emptied(j) \/ (backend = "sqlite" /\ Replacing(j)) => draft'[c] = Empty
    PROVE  IInv'
<1>1. c \notin Jobs /\ Jobs \subseteq Processes /\ Checks \subseteq Processes
  BY DEF Processes
<1>2. /\ UNCHANGED <<want, seen, removed, archives, files, overwritten>>
      /\ \A j \in Jobs : Same(j) /\ (Replacing(j)' <=> Replacing(j)) /\ (Emptied(j)' <=> Emptied(j))
  BY <1>1 DEF jobVars, Same, Replacing, Emptied
<1>3. Quiet' <=> Quiet
  BY <1>2 DEF Quiet, Same
<1>4. ASSUME NEW d \in Checks \ {c} PROVE Checked(d)' /\ Refers(d)'
  BY <1>1, <1>2, <1>3, CheckedKept, RefersKept DEF IInv
<1>5. ASSUME NEW j \in Jobs PROVE Staged(j)' /\ Emptying(j)' /\ Replaces(j)' /\ Reading(j)'
  <2>1. Staged(j)'
    BY <1>2, StagedKept DEF IInv
  <2>2. Emptying(j)' /\ Replaces(j)'
    BY <1>2, EmptyingKept, ReplacesKept DEF IInv
  <2>3. Reading(j)'
    BY <1>2, ReadingKept DEF IInv
  <2>4. QED
    BY <2>1, <2>2, <2>3
<1>6. ASSUME NEW d \in Checks, NEW j \in Jobs PROVE Clear(d, j)'
  <2>1. CASE d = c
    BY <1>2, <2>1 DEF Clear
  <2>2. CASE d # c
    BY <1>1, <1>2, <2>2, ClearKept DEF IInv
  <2>3. QED
    BY <2>1, <2>2
<1>7. OneRestore' /\ ArchivesAreConsistent' /\ Whole'
  BY <1>2, <1>3 DEF IInv, OneRestore, ArchivesAreConsistent, Snapshots, Whole
<1>8. QED
  BY <1>4, <1>5, <1>7, <1>6 DEF IInv

(* What is left to show of a step of one job that publishes nothing. *)
LEMMA JobMoves ==
    ASSUME IInv, NEW j \in Jobs,
           UNCHANGED <<backend, second, db, torn, hand>>,
           archives \subseteq archives',
           overwritten' \/ (~overwritten /\ \A s \in Seconds : files[s] \subseteq files'[s]),
           \A p \in Processes \ {j} : Same(p),
           \A k \in Jobs \ {j} : want'[k] = want[k] /\ seen'[k] = seen[k] /\ removed'[k] = removed[k]
                                 /\ since'[k] = since[k],
           Shaped', Staged(j)', Emptying(j)', Replaces(j)', Reading(j)', Apart', ArchivesAreConsistent',
           Quiet' => Quiet,
           Replacing(j)' => \A k \in Jobs \ {j} : ~Replacing(k),
           \A c \in Checks : Clear(c, j)',
           \A c \in Checks : Emptied(j)' /\ pc[c] = "commit" /\ backend # "sqlite" /\ Quiet =>
                                 hand[c].id \in Ids(since'[j].rows \cup draft[c].rows)
    PROVE  IInv'
<1>1. \A c \in Checks : c # j /\ c \in Processes
  BY DEF Processes
<1>2. \A k \in Jobs \ {j} : (Replacing(k)' <=> Replacing(k)) /\ (Emptied(k)' <=> Emptied(k)) /\ k \in Processes
  BY DEF Same, Replacing, Emptied, Processes
<1>3. ASSUME NEW c \in Checks PROVE Checked(c)' /\ Refers(c)'
  <2>1. Same(c) /\ hand'[c] = hand[c]
    BY <1>1
  <2>2. Checked(c)'
    BY <2>1, CheckedKept DEF IInv
  <2>3. Refers(c)'
    BY <1>2, <2>1 DEF IInv, Refers, Same
  <2>4. QED
    BY <2>2, <2>3
<1>4. ASSUME NEW k \in Jobs \ {j} PROVE Staged(k)' /\ Emptying(k)' /\ Replaces(k)' /\ Reading(k)'
  <2>1. Same(k)
    BY <1>2
  <2>2. Staged(k)'
    BY <2>1, StagedKept DEF IInv
  <2>3. Emptying(k)' /\ Replaces(k)'
    BY <2>1, EmptyingKept, ReplacesKept DEF IInv
  <2>4. Reading(k)'
    BY <2>1, ReadingKept DEF IInv
  <2>5. QED
    BY <2>2, <2>3, <2>4
<1>5. ASSUME NEW c \in Checks, NEW k \in Jobs PROVE Clear(c, k)'
  BY <1>1, <1>2, ClearKept DEF IInv
<1>6. OneRestore'
  BY <1>2 DEF IInv, OneRestore
<1>7. Whole'
  BY DEF IInv, Whole
<1>8. QED
  BY <1>3, <1>4, <1>6, <1>7, <1>5 DEF IInv

-----------------------------------------------------------------------------
(* The steps of a check *)

(* A process that goes on leaves the others where they are. *)
LEMMA GotoEffects ==
    ASSUME Shaped, NEW p \in Processes, NEW label, Goto(p, label), draft' = draft
    PROVE  /\ pc' = [q \in Processes |-> pc'[q]] /\ pc'[p] = label
           /\ \A q \in Processes \ {p} : Same(q)
  BY DEF Shaped, Goto, Same

(* One that ends its session drops only its own work. *)
LEMMA CloseEffects ==
    ASSUME Shaped, NEW p \in Processes, NEW label, Close(p, label)
    PROVE  /\ pc' = [q \in Processes |-> pc'[q]] /\ pc'[p] = label
           /\ draft' = [q \in Processes |-> draft'[q]] /\ draft'[p] = Empty
           /\ \A q \in Processes : IsPair(draft'[q])
           /\ \A q \in Processes \ {p} : Same(q)
  BY EmptyPair DEF Shaped, Close, Goto, Same

(* No new rows. *)
LEMMA ApartKept ==
    ASSUME Apart, NEW p \in Processes, \A q \in Processes \ {p} : Same(q),
           Ids(draft'[p].rows) \subseteq Ids(draft[p].rows), Ids(db'.rows) \subseteq Ids(db.rows)
    PROVE  Apart'
<1>1. \A q \in Processes : Ids(draft'[q].rows) \subseteq Ids(draft[q].rows)
  BY DEF Same
<1>2. Checks \subseteq Processes
  BY DEF Processes
<1>3. QED
  BY <1>1, <1>2 DEF Apart

(* A check changes no state of the jobs. *)
LEMMA ShapedKept ==
    ASSUME Shaped, UNCHANGED <<backend, second, db, since, jobVars>>,
           pc' = [p \in Processes |-> pc'[p]], draft' = [p \in Processes |-> draft'[p]],
           hand' = [c \in Checks |-> hand'[c]], \A p \in Processes : IsPair(draft'[p])
    PROVE  Shaped'
  BY DEF Shaped, jobVars

(* A check finds a row, or none. *)
LEMMA LookStep ==
    ASSUME IInv, NEW c \in Checks, Look(c)
    PROVE  IInv'
<1>1. PICK x \in db.rows \cup {None} : hand' = [hand EXCEPT ![c] = x]
  BY DEF Look
<1>2. /\ pc[c] = "idle" /\ Goto(c, "write") /\ draft' = draft
      /\ UNCHANGED <<backend, second, db, since, torn, jobVars>>
  BY DEF Look, Unpublished
<1>3. c \in Processes
  BY DEF Processes
<1>4. /\ pc' = [q \in Processes |-> pc'[q]] /\ pc'[c] = "write"
      /\ \A q \in Processes \ {c} : Same(q)
  BY <1>2, <1>3, GotoEffects DEF IInv
<1>5. /\ hand' = [d \in Checks |-> hand'[d]] /\ hand'[c] = x
      /\ \A d \in Checks \ {c} : hand'[d] = hand[d]
  BY <1>1 DEF IInv, Shaped
<1>6. draft[c] = Empty
  BY <1>2 DEF IInv, Checked
<1>7. Shaped'
  BY <1>2, <1>4, <1>5 DEF IInv, Shaped, jobVars, IsPair
<1>8. Checked(c)'
  BY <1>2, <1>4, <1>6, EmptyPair DEF Checked
<1>9. Refers(c)'
  BY <1>2, <1>4, <1>5 DEF Refers, Ids
<1>10. Apart'
  BY <1>2, <1>3, <1>4, ApartKept DEF IInv
<1>11. QED
  BY <1>2, <1>4, <1>5, <1>6, <1>7, <1>8, <1>9, <1>10, EmptyPair, CheckMoves

(* A transaction that ends without a commit leaves nothing behind. *)
LEMMA CheckCloses ==
    ASSUME IInv, NEW c \in Checks, NEW label \in {"failed", "collided"}, Close(c, label),
           UNCHANGED <<backend, second, db, since, torn, jobVars>>,
           hand' = [d \in Checks |-> hand'[d]], \A d \in Checks \ {c} : hand'[d] = hand[d]
    PROVE  IInv'
<1>1. c \in Processes
  BY DEF Processes
<1>2. /\ pc' = [q \in Processes |-> pc'[q]] /\ pc'[c] = label
      /\ draft' = [q \in Processes |-> draft'[q]] /\ draft'[c] = Empty
      /\ \A q \in Processes : IsPair(draft'[q])
      /\ \A q \in Processes \ {c} : Same(q)
  BY <1>1, CloseEffects DEF IInv
<1>3. Shaped'
  BY <1>2 DEF IInv, Shaped, jobVars, IsPair
<1>4. Checked(c)' /\ Refers(c)'
  BY <1>2, EmptyPair DEF Checked, Refers
<1>5. Apart'
  BY <1>1, <1>2, EmptyPair, ApartKept DEF IInv, Ids
<1>6. QED
  BY <1>2, <1>3, <1>4, <1>5, EmptyPair, CheckMoves

(* Under a restore only PostgreSQL lets a check insert, or MySQL a row while *)
(* the rows are there.                                                       *)
LEMMA Admission ==
    ASSUME IInv, NEW c \in Checks, NEW t \in {"rows", "events"}, MayInsert(c, t)
    PROVE  backend # "postgres" =>
               /\ \A j \in Jobs : ~Emptied(j)
               /\ backend = "sqlite" \/ t = "events" => \A j \in Jobs : ~Replacing(j)
<1>1. backend \in {"sqlite", "postgres", "mysql"}
  BY DEF IInv, Shaped
<1>2. c \notin Jobs /\ Jobs \subseteq Processes
  BY DEF Processes
<1>3. QED
  BY <1>1, <1>2 DEF MayInsert, Replacing

(* A row, under an id nobody else has or is about to have. *)
LEMMA InsertRowStep ==
    ASSUME IInv, NEW c \in Checks, InsertRow(c)
    PROVE  IInv'
<1> DEFINE x == [id |-> NextFree("rows"), by |-> c]
<1>1. /\ pc[c] = "write" /\ hand' = [hand EXCEPT ![c] = x]
      /\ MayInsert(c, "rows") /\ ~Contended("rows", {x.id}, c)
      /\ IF x.id \in Ids(db.rows) THEN Close(c, "collided")
         ELSE draft' = [draft EXCEPT ![c]["rows"] = {x}] /\ Goto(c, "write")
      /\ UNCHANGED <<backend, second, db, since, torn, jobVars>>
  BY DEF InsertRow, Insert, Unpublished
<1>2. c \in Processes /\ c \notin Jobs
  BY DEF Processes
<1>3. /\ hand' = [d \in Checks |-> hand'[d]] /\ hand'[c] = x
      /\ \A d \in Checks \ {c} : hand'[d] = hand[d]
  BY <1>1 DEF IInv, Shaped
<1>4. CASE x.id \in Ids(db.rows)
  BY <1>1, <1>3, <1>4, CheckCloses
<1>5. CASE x.id \notin Ids(db.rows)
  <2>1. /\ pc' = [q \in Processes |-> pc'[q]] /\ pc'[c] = "write"
        /\ draft' = [q \in Processes |-> draft'[q]]
        /\ draft'[c] = [draft[c] EXCEPT !["rows"] = {x}]
        /\ \A q \in Processes \ {c} : Same(q)
    BY <1>1, <1>2, <1>5 DEF IInv, Shaped, Goto, Same
  <2>2. IsPair(draft'[c]) /\ draft'[c].rows = {x} /\ draft'[c].events = draft[c].events
    BY <1>2, <2>1 DEF IInv, Shaped, IsPair
  <2>3. Shaped'
    <3>1. \A q \in Processes : IsPair(draft'[q])
      BY <2>1, <2>2 DEF IInv, Shaped, Same
    <3>2. QED
      BY <1>1, <1>3, <2>1, <3>1, ShapedKept DEF IInv
  <2>4. Checked(c)'
    <3>1. draft[c].events = {}
      BY <1>1 DEF IInv, Checked
    <3>2. QED
      BY <1>3, <2>1, <2>2, <3>1 DEF Checked
  <2>5. x \in draft'[c].rows
    BY <2>2
  <2>6. Refers(c)'
    <3>1. hand'[c].id \in Ids(db'.rows \cup draft'[c].rows)
      BY <1>3, <2>5 DEF Ids
    <3>2. QED
      BY <2>1, <3>1 DEF Refers
  <2>7. Apart'
    <3>1. Ids(draft'[c].rows) = {x.id}
      BY <2>2 DEF Ids
    <3>2. \A q \in Processes \ {c} : x.id \notin Ids(draft[q].rows)
      <4> SUFFICES ASSUME NEW q \in Processes \ {c}, x.id \in Ids(draft[q].rows) PROVE FALSE
        OBVIOUS
      <4>1. x.id \in Ids(draft[q].rows \cup IF q \in Jobs THEN removed[q].rows ELSE {})
        BY IdsOfBoth
      <4>2. QED
        BY <1>1, <4>1 DEF Contended
    <3>3. Apart /\ \A q \in Processes \ {c} : draft'[q] = draft[q]
      BY <2>1 DEF IInv, Same
    <3>4. \A q \in Processes \ {c} : Ids(draft'[q].rows) \cap Ids(draft'[c].rows) = {}
      BY <3>1, <3>2, <3>3
    <3>5. Ids(draft'[c].rows) \cap Ids(db'.rows) = {} /\ Checks \subseteq Processes
      BY <1>1, <1>5, <3>1 DEF Processes
    <3>6. QED
      BY <1>1, <3>3, <3>4, <3>5 DEF Apart
  <2>8. draft'[c].events = {}
    BY <1>1, <2>2 DEF IInv, Checked
  <2>9. backend # "postgres" =>
            /\ \A j \in Jobs : ~Emptied(j)
            /\ backend = "sqlite" => \A j \in Jobs : ~Replacing(j)
    BY <1>1, Admission
  <2>10. QED
    BY <1>1, <1>3, <2>1, <2>3, <2>4, <2>6, <2>7, <2>8, <2>9, CheckMoves
<1>6. QED
  BY <1>4, <1>5

(* The event: of the check's own row, or of one no restore is taking away. *)
LEMMA RecordEventStep ==
    ASSUME IInv, NEW c \in Checks, RecordEvent(c)
    PROVE  IInv'
<1> DEFINE i == hand[c].id
           x == [id |-> NextFree("events"), result_id |-> i, by |-> c]
<1>1. /\ pc[c] = "write" /\ hand[c] # None /\ hand' = hand
      /\ i \in Ids(draft[c].rows) \/ ~Enforced \/ (i \in Ids(db.rows) /\ ~Contended("rows", {i}, c))
      /\ MayInsert(c, "events")
      /\ IF x.id \in Ids(db.events) THEN Close(c, "collided")
         ELSE draft' = [draft EXCEPT ![c]["events"] = {x}] /\ Goto(c, "commit")
      /\ UNCHANGED <<backend, second, db, since, torn, jobVars>>
  BY DEF RecordEvent, Insert, Unpublished
<1>2. c \in Processes /\ c \notin Jobs
  BY DEF Processes
<1>3. hand' = [d \in Checks |-> hand'[d]]
  BY <1>1 DEF IInv, Shaped
<1>4. CASE x.id \in Ids(db.events)
  BY <1>1, <1>3, <1>4, CheckCloses
<1>5. CASE x.id \notin Ids(db.events)
  <2>1. /\ pc' = [q \in Processes |-> pc'[q]] /\ pc'[c] = "commit"
        /\ draft' = [q \in Processes |-> draft'[q]]
        /\ draft'[c] = [draft[c] EXCEPT !["events"] = {x}]
        /\ \A q \in Processes \ {c} : Same(q)
    BY <1>1, <1>2, <1>5 DEF IInv, Shaped, Goto, Same
  <2>2. IsPair(draft'[c]) /\ draft'[c].rows = draft[c].rows /\ draft'[c].events = {x}
    BY <1>2, <2>1 DEF IInv, Shaped, IsPair
  <2>3. Shaped'
    <3>1. \A q \in Processes : IsPair(draft'[q])
      BY <2>1, <2>2 DEF IInv, Shaped, Same
    <3>2. QED
      BY <1>1, <1>3, <2>1, <3>1, ShapedKept DEF IInv
  <2>4. Checked(c)'
    <3>1. \A y \in draft[c].rows : y.id = i
      BY DEF IInv, Checked
    <3>2. \A e \in {x} : e.result_id = i
      OBVIOUS
    <3>3. QED
      BY <1>1, <2>1, <2>2, <3>1, <3>2 DEF Checked
  <2>5. Apart'
    BY <1>1, <1>2, <2>1, <2>2, ApartKept DEF IInv
  <2>6. Refers(c)'
    <3> SUFFICES ASSUME Quiet' PROVE /\ i \in Ids(db.rows \cup draft[c].rows)
                                     /\ backend # "sqlite" => \A k \in Jobs : Emptied(k) =>
                                            i \in Ids(since[k].rows \cup draft[c].rows)
      <4>1. \A k \in Jobs : Emptied(k)' => Emptied(k)
        BY <1>2, <2>1 DEF Emptied, Same, Processes
      <4>2. QED
        BY <1>1, <2>1, <2>2, <4>1 DEF Refers
    <3>1. Quiet
      BY <1>1, <1>2, <2>1 DEF Quiet, Same, Processes, jobVars
    <3>2. CASE backend = "sqlite"
      BY <1>1, <3>1, <3>2 DEF IInv, Refers
    <3>3. CASE i \in Ids(draft[c].rows)
      BY <3>3, IdsOfBoth
    <3>4. CASE backend # "sqlite" /\ i \in Ids(db.rows) /\ ~Contended("rows", {i}, c)
      <4>1. ASSUME NEW k \in Jobs, Emptied(k) PROVE i \in Ids(since[k].rows)
        <5>1. i \notin Ids(draft[k].rows \cup removed[k].rows)
          BY <1>2, <3>4 DEF Contended, Processes
        <5>2. i \notin Ids(removed[k].rows)
          BY <5>1, IdsOfBoth
        <5>3. PICK y \in db.rows : y.id = i
          BY <3>4 DEF Ids
        <5>4. y \notin removed[k].rows
          BY <5>2, <5>3 DEF Ids
        <5>5. since[k] = Kept(k) /\ IsPair(db)
          BY <4>1 DEF IInv, Replaces, Shaped
        <5>6. y \in since[k].rows
          BY <5>4, <5>5, Parts DEF Kept
        <5>7. QED
          BY <5>3, <5>6 DEF Ids
      <4>2. QED
        BY <3>4, <4>1, IdsOfBoth
    <3>5. QED
      BY <1>1, <3>2, <3>3, <3>4 DEF Enforced
  <2>7. backend # "postgres" => \A j \in Jobs : ~Emptied(j) /\ ~Replacing(j)
    BY <1>1, Admission
  <2>8. QED
    BY <1>1, <2>1, <2>3, <2>4, <2>5, <2>6, <2>7, CheckMoves
<1>6. QED
  BY <1>4, <1>5

(* The foreign key refuses an event. *)
LEMMA RefuseStep ==
    ASSUME IInv, NEW c \in Checks, RefuseEvent(c)
    PROVE  IInv'
<1>1. hand' = [d \in Checks |-> hand'[d]] /\ hand' = hand
  BY DEF IInv, Shaped, RefuseEvent, checkVars
<1>2. QED
  BY <1>1, CheckCloses DEF RefuseEvent, Unpublished

-----------------------------------------------------------------------------
(* The steps of a backup or a restore that publish nothing *)

(* A job neither touches a check's state nor inserts a row. *)
LEMMA JobGoes ==
    ASSUME IInv, NEW j \in Jobs, NEW label, Goto(j, label), UNCHANGED <<draft, db>>
    PROVE  /\ j \in Processes /\ pc' = [q \in Processes |-> pc'[q]] /\ pc'[j] = label
           /\ \A q \in Processes \ {j} : Same(q)
           /\ Apart' /\ draft'[j] = draft[j]
<1>1. j \in Processes
  BY DEF Processes
<1>2. /\ pc' = [q \in Processes |-> pc'[q]] /\ pc'[j] = label
      /\ \A q \in Processes \ {j} : Same(q)
  BY <1>1, GotoEffects DEF IInv
<1>3. Apart'
  BY <1>1, <1>2, ApartKept DEF IInv
<1>4. QED
  BY <1>1, <1>2, <1>3

(* A backup begins. *)
LEMMA BackUpStep ==
    ASSUME IInv, NEW j \in Jobs, BackUp(j)
    PROVE  IInv'
<1>1. /\ pc[j] = "idle" /\ Goto(j, "rows")
      /\ UNCHANGED <<backend, second, draft, next, hand, want, seen, removed, archives, files, overwritten,
                     db, since, torn>>
  BY DEF BackUp, checkVars, jobVars, Unpublished
<1>2. /\ pc' = [q \in Processes |-> pc'[q]] /\ pc'[j] = "rows"
      /\ \A q \in Processes \ {j} : Same(q)
      /\ Apart' /\ draft'[j] = draft[j]
  BY <1>1, JobGoes
<1>3. Shaped'
  BY <1>1, <1>2 DEF IInv, Shaped
<1>4. Staged(j)'
  BY <1>1, <1>2 DEF IInv, Staged
<1>5. Emptying(j)' /\ Replaces(j)' /\ Reading(j)' /\ ~Replacing(j)' /\ ~Emptied(j)'
  BY <1>2 DEF Emptying, Replaces, Emptied, Replacing, Reading
<1>6. Quiet' => Quiet
  BY <1>1, <1>2 DEF Quiet, Same, Processes
<1>7. ArchivesAreConsistent'
  BY <1>1 DEF IInv, ArchivesAreConsistent, Snapshots
<1>8. QED
  BY <1>1, <1>2, <1>3, <1>4, <1>5, <1>6, <1>7, JobMoves DEF Clear

(* A restore begins, with an archive that is acceptable. *)
LEMMA RestoreStep ==
    ASSUME IInv, NEW j \in Jobs, Restore(j)
    PROVE  IInv'
<1>1. PICK a \in archives : a.sound /\ want' = [want EXCEPT ![j] = a]
  BY DEF Restore, Acceptable
<1>2. /\ pc[j] = "idle" /\ Goto(j, "rows")
      /\ UNCHANGED <<backend, second, draft, next, hand, seen, removed, archives, files, overwritten,
                     db, since, torn>>
  BY DEF Restore, checkVars, Unpublished
<1>3. /\ pc' = [q \in Processes |-> pc'[q]] /\ pc'[j] = "rows"
      /\ \A q \in Processes \ {j} : Same(q)
      /\ Apart' /\ draft'[j] = draft[j]
  BY <1>2, JobGoes
<1>4. want' = [k \in Jobs |-> want'[k]] /\ want'[j] = a /\ \A k \in Jobs \ {j} : want'[k] = want[k]
  BY <1>1 DEF IInv, Shaped
<1>5. Shaped'
  BY <1>2, <1>3, <1>4 DEF IInv, Shaped
<1>6. Staged(j)'
  BY <1>1, <1>2, <1>3, <1>4 DEF IInv, Staged
<1>7. Emptying(j)' /\ Replaces(j)' /\ Reading(j)' /\ ~Replacing(j)' /\ ~Emptied(j)'
  BY <1>3 DEF Emptying, Replaces, Emptied, Replacing, Reading
<1>8. Quiet' => Quiet
  BY <1>2, <1>3, <1>4 DEF Quiet, Same, Processes
<1>9. ArchivesAreConsistent'
  BY <1>2 DEF IInv, ArchivesAreConsistent, Snapshots
<1>10. QED
  BY <1>2, <1>3, <1>4, <1>5, <1>6, <1>7, <1>8, <1>9, JobMoves DEF Clear

(* The first SELECT of a dump: rows that are there from now on are missed. *)
LEMMA DumpRowsStep ==
    ASSUME IInv, NEW j \in Jobs, DumpRows(j)
    PROVE  IInv'
<1> DEFINE first == IF backend = "mysql" THEN db ELSE [db EXCEPT !.events = {}]
<1>1. /\ pc[j] = "rows" /\ Goto(j, "events")
      /\ seen' = [seen EXCEPT ![j] = first] /\ since' = [since EXCEPT ![j] = Empty]
      /\ UNCHANGED <<backend, second, draft, next, hand, want, removed, archives, files, overwritten, db, torn>>
  BY DEF DumpRows, checkVars
<1>2. /\ pc' = [q \in Processes |-> pc'[q]] /\ pc'[j] = "events"
      /\ \A q \in Processes \ {j} : Same(q)
      /\ Apart' /\ draft'[j] = draft[j]
  BY <1>1, JobGoes
<1>3. /\ seen' = [k \in Jobs |-> seen'[k]] /\ since' = [k \in Jobs |-> since'[k]]
      /\ seen'[j] = first /\ since'[j] = Empty
      /\ \A k \in Jobs \ {j} : seen'[k] = seen[k] /\ since'[k] = since[k]
  BY <1>1 DEF IInv, Shaped
<1>4. IsPair(db) /\ IsPair(first) /\ first.rows = db.rows
  BY DEF IInv, Shaped, IsPair
<1>5. Shaped'
  BY <1>1, <1>2, <1>3, <1>4, EmptyPair DEF IInv, Shaped
<1>6. Staged(j)'
  BY <1>1, <1>2 DEF IInv, Staged
<1>7. Emptying(j)' /\ Replaces(j)' /\ ~Replacing(j)' /\ ~Emptied(j)'
  BY <1>2 DEF Emptying, Replaces, Emptied, Replacing
<1>8. Reading(j)'
  <2>1. torn \/ (Gap(db) = {} /\ \A e \in db.events : e.result_id \in Ids(db.rows))
    BY DEF IInv, Whole, Gap
  <2>2. QED
    BY <1>1, <1>2, <1>3, <1>4, <2>1 DEF Reading
<1>9. Quiet' => Quiet
  BY <1>1, <1>2 DEF Quiet, Same, Processes
<1>10. ArchivesAreConsistent'
  BY <1>1 DEF IInv, ArchivesAreConsistent, Snapshots
<1>11. QED
  BY <1>1, <1>2, <1>3, <1>5, <1>6, <1>7, <1>8, <1>9, <1>10, JobMoves DEF Clear

(* The second: an event it finds and whose row it has missed is one of the   *)
(* missed transactions.                                                      *)
LEMMA DumpEventsStep ==
    ASSUME IInv, NEW j \in Jobs, DumpEvents(j)
    PROVE  IInv'
<1> DEFINE data == IF backend = "mysql" THEN seen[j] ELSE [seen[j] EXCEPT !.events = db.events]
           label == IF want[j] = None THEN "done" ELSE "persist"
<1>1. /\ pc[j] = "events" /\ Goto(j, label)
      /\ seen' = [seen EXCEPT ![j] = data]
      /\ archives' = IF want[j] = None THEN archives \cup {Archive(j, data)} ELSE archives
      /\ UNCHANGED <<backend, second, draft, next, hand, want, removed, files, overwritten, db, since, torn>>
  BY DEF DumpEvents, checkVars, Unpublished
<1>2. /\ pc' = [q \in Processes |-> pc'[q]] /\ pc'[j] = label
      /\ \A q \in Processes \ {j} : Same(q)
      /\ Apart' /\ draft'[j] = draft[j]
  BY <1>1, JobGoes
<1>3. /\ seen' = [k \in Jobs |-> seen'[k]] /\ seen'[j] = data
      /\ \A k \in Jobs \ {j} : seen'[k] = seen[k]
  BY <1>1 DEF IInv, Shaped
<1>4. /\ IsPair(seen[j]) /\ IsPair(data) /\ data.rows = seen[j].rows
      /\ data.events = IF backend = "mysql" THEN seen[j].events ELSE db.events
      /\ IsPair(db)
  BY DEF IInv, Shaped, IsPair
<1>5. Shaped'
  <2>1. Archive(j, data).data = data
    BY DEF Archive
  <2>2. QED
    BY <1>1, <1>2, <1>3, <1>4, <2>1 DEF IInv, Shaped
<1>6. Staged(j)'
  BY <1>1, <1>2 DEF IInv, Staged
<1>7. Emptying(j)' /\ Replaces(j)' /\ ~Replacing(j)' /\ ~Emptied(j)'
  BY <1>2 DEF Emptying, Replaces, Emptied, Replacing
<1>8. torn \/ Gap(data) \subseteq Missing(since[j])
  <2>1. Reading(j)
    BY DEF IInv
  <2>2. CASE backend = "mysql"
    BY <1>1, <2>1, <2>2 DEF Reading, Missing
  <2>3. CASE backend # "mysql"
    BY <1>1, <1>4, <2>1, <2>3 DEF Reading, Missing, Gap
  <2>4. QED
    BY <2>2, <2>3
<1> HIDE DEF data
<1>9. Within(db, Plus(data, since[j]))
  <2>1. Reading(j)
    BY DEF IInv
  <2>2. db.rows \subseteq data.rows \cup since[j].rows /\ db.events \subseteq data.events \cup since[j].events
    BY <1>1, <1>4, <2>1 DEF Reading
  <2>3. /\ Plus(data, since[j]).rows = data.rows \cup since[j].rows
        /\ Plus(data, since[j]).events = data.events \cup since[j].events
    BY <1>4, Parts
  <2>4. QED
    BY <1>4, <2>2, <2>3, Parts
<1>10. Reading(j)'
  BY <1>1, <1>2, <1>3, <1>8, <1>9 DEF Reading, Missing
<1>11. Quiet' => Quiet
  BY <1>1, <1>2 DEF Quiet, Same, Processes
<1>12. ArchivesAreConsistent'
  <2>1. Archive(j, data).data = data /\ Archive(j, data).during = since[j]
    BY DEF Archive
  <2>2. QED
    BY <1>1, <1>8, <2>1 DEF IInv, ArchivesAreConsistent, Snapshots, Missing
<1>13. QED
  BY <1>1, <1>2, <1>3, <1>5, <1>6, <1>7, <1>10, <1>11, <1>12, JobMoves DEF Clear

(* The snapshot is written where it is found again, or over another. *)
LEMMA PersistStep ==
    ASSUME IInv, NEW j \in Jobs, PersistSnapshot(j)
    PROVE  IInv'
<1>1. /\ pc[j] = "persist" /\ Goto(j, "delete")
      /\ files' = [files EXCEPT ![second] = {Archive(j, seen[j])}]
      /\ overwritten' = (overwritten \/ files[second] # {})
      /\ UNCHANGED <<backend, second, draft, next, hand, want, seen, removed, archives, db, since, torn>>
  BY DEF PersistSnapshot, checkVars, Unpublished
<1>2. /\ pc' = [q \in Processes |-> pc'[q]] /\ pc'[j] = "delete"
      /\ \A q \in Processes \ {j} : Same(q)
      /\ Apart' /\ draft'[j] = draft[j]
  BY <1>1, JobGoes
<1>3. /\ files' = [s \in Seconds |-> files'[s]] /\ files'[second] = {Archive(j, seen[j])}
      /\ \A s \in Seconds \ {second} : files'[s] = files[s]
      /\ second \in Seconds
  BY <1>1 DEF IInv, Shaped
<1>4. Archive(j, seen[j]).data = seen[j] /\ Archive(j, seen[j]).during = since[j]
  BY DEF Archive
<1>5. Shaped'
  BY <1>1, <1>2, <1>3 DEF IInv, Shaped
<1>6. Staged(j)'
  BY <1>1, <1>2 DEF IInv, Staged
<1>7. Emptying(j)' /\ Replaces(j)' /\ ~Replacing(j)' /\ ~Emptied(j)'
  BY <1>2 DEF Emptying, Replaces, Emptied, Replacing
<1>8. Reading(j)'
  <2>1. \E s \in Seconds : \E a \in files'[s] : a.data = seen[j]
    BY <1>3, <1>4
  <2>2. QED
    BY <1>1, <1>2, <2>1 DEF IInv, Reading
<1>9. overwritten' \/ (~overwritten /\ \A s \in Seconds : files[s] \subseteq files'[s])
  BY <1>1, <1>3
<1>10. Quiet' => Quiet
  BY <1>1, <1>2 DEF Quiet, Same, Processes
<1>11. ArchivesAreConsistent'
  <2>1. Snapshots' \subseteq Snapshots \cup {Archive(j, seen[j])}
    BY <1>3 DEF Snapshots
  <2>2. torn \/ Gap(seen[j]) \subseteq Missing(since[j])
    BY <1>1 DEF IInv, Reading
  <2>3. QED
    BY <1>1, <1>4, <2>1, <2>2 DEF IInv, ArchivesAreConsistent, Missing
<1>12. QED
  BY <1>1, <1>2, <1>5, <1>6, <1>7, <1>8, <1>9, <1>10, <1>11, JobMoves DEF Clear

(* A restore that fails puts nothing in the tables and takes nothing away. *)
LEMMA JobCloses ==
    ASSUME IInv, NEW j \in Jobs, Close(j, "failed"), pc[j] \notin {"idle", "done"},
           removed' = [k \in Jobs |-> removed'[k]], removed'[j] = Empty,
           \A k \in Jobs \ {j} : removed'[k] = removed[k],
           UNCHANGED <<backend, second, hand, want, seen, archives, files, overwritten, db, since, torn>>
    PROVE  IInv'
<1>1. j \in Processes
  BY DEF Processes
<1>2. /\ pc' = [q \in Processes |-> pc'[q]] /\ pc'[j] = "failed"
      /\ draft' = [q \in Processes |-> draft'[q]] /\ draft'[j] = Empty
      /\ \A q \in Processes : IsPair(draft'[q])
      /\ \A q \in Processes \ {j} : Same(q)
  BY <1>1, CloseEffects DEF IInv
<1>3. Shaped'
  BY <1>2, EmptyPair DEF IInv, Shaped
<1>4. Staged(j)'
  BY <1>2 DEF IInv, Staged
<1>5. Emptying(j)' /\ Replaces(j)' /\ Reading(j)' /\ ~Replacing(j)' /\ ~Emptied(j)'
  BY <1>2 DEF Emptying, Replaces, Emptied, Replacing, Reading
<1>6. Apart'
  BY <1>1, <1>2, EmptyPair, ApartKept DEF IInv, Ids
<1>7. Quiet' => Quiet
  BY <1>1, <1>2 DEF Quiet, Same, Processes
<1>8. ArchivesAreConsistent'
  BY DEF IInv, ArchivesAreConsistent, Snapshots
<1>9. QED
  BY <1>2, <1>3, <1>4, <1>5, <1>6, <1>7, <1>8, JobMoves DEF Clear

(* The first DELETE takes the events that are there, beside what no check on *)
(* SQLite has inserted, and on MySQL a row at most.                          *)
LEMMA DeleteEventsStep ==
    ASSUME IInv, NEW j \in Jobs, DeleteEvents(j)
    PROVE  IInv'
<1> DEFINE gone == [db EXCEPT !.rows = {}]
<1>1. /\ pc[j] = "delete" /\ Goto(j, "deleteRows") /\ MayDelete(j, "events")
      /\ removed' = [removed EXCEPT ![j] = gone]
      /\ UNCHANGED <<backend, second, draft, next, hand, want, seen, archives, files, overwritten, db, since, torn>>
  BY DEF DeleteEvents, checkVars, Unpublished
<1>2. /\ pc' = [q \in Processes |-> pc'[q]] /\ pc'[j] = "deleteRows"
      /\ \A q \in Processes \ {j} : Same(q)
      /\ Apart' /\ draft'[j] = draft[j]
  BY <1>1, JobGoes
<1>3. IsPair(gone) /\ gone.rows = {} /\ gone.events = db.events
  <2>1. db = [rows |-> db.rows, events |-> db.events]
    BY DEF IInv, Shaped, IsPair
  <2>2. gone = [rows |-> {}, events |-> db.events]
    BY <2>1
  <2>3. QED
    BY <2>2 DEF IsPair
<1>4. /\ removed' = [k \in Jobs |-> removed'[k]] /\ removed'[j] = gone
      /\ \A k \in Jobs \ {j} : removed'[k] = removed[k]
  BY <1>1 DEF IInv, Shaped
<1> HIDE DEF gone
<1>5. Shaped'
  BY <1>1, <1>2, <1>3, <1>4 DEF IInv, Shaped
<1>6. Staged(j)'
  BY <1>1, <1>2 DEF IInv, Staged
<1>7. Emptying(j)' /\ Replaces(j)' /\ ~Emptied(j)'
  BY <1>1, <1>2, <1>3, <1>4 DEF Emptying, Replaces, Emptied
<1>8. Reading(j)'
  BY <1>1, <1>2 DEF IInv, Reading
<1>9. Quiet' => Quiet
  BY <1>1, <1>2 DEF Quiet, Same, Processes
<1>10. ArchivesAreConsistent'
  BY <1>1 DEF IInv, ArchivesAreConsistent, Snapshots
<1>11. ASSUME NEW c \in Checks PROVE Clear(c, j)'
  <2>1. backend \in {"sqlite", "postgres", "mysql"}
    BY DEF IInv, Shaped
  <2>2. backend = "sqlite" => draft[c] = Empty
    BY <1>1 DEF MayDelete
  <2>3. backend = "mysql" => draft[c].events = {}
    BY <1>1 DEF MayDelete
  <2>4. QED
    BY <1>1, <1>7, <2>1, <2>2, <2>3, EmptyPair DEF Clear
<1>12. \A k \in Jobs \ {j} : ~Replacing(k)
  BY <1>1 DEF MayDelete
<1>13. QED
  BY <1>1, <1>2, <1>4, <1>5, <1>6, <1>7, <1>8, <1>9, <1>10, <1>11, <1>12, JobMoves

(* What the two DELETEs take is the tables as they are: where an event could *)
(* have come between them, the foreign key would have refused the second.    *)
LEMMA AllRemoved ==
    ASSUME IInv, NEW j \in Jobs, pc[j] = "deleteRows",
           ~(Enforced /\ \E e \in db.events \ removed[j].events : e.result_id \in Ids(db.rows))
    PROVE  [removed[j] EXCEPT !.rows = db.rows] = db
<1>1. Emptying(j) /\ IsPair(db) /\ IsPair(removed[j])
  BY DEF IInv, Shaped
<1>2. removed[j].events = db.events
  <2>1. CASE backend # "postgres"
    BY <1>1, <2>1 DEF Emptying
  <2>2. CASE backend = "postgres"
    <3>1. Gap(db) = {}
      BY <2>2 DEF IInv, Whole, Quiet
    <3>2. db.events \subseteq removed[j].events
      BY <2>2, <3>1 DEF Gap, Enforced
    <3>3. QED
      BY <1>1, <3>2 DEF Emptying
  <2>3. QED
    BY <2>1, <2>2
<1>3. [removed[j] EXCEPT !.rows = db.rows] = [rows |-> db.rows, events |-> removed[j].events]
  BY <1>1 DEF IsPair
<1>4. QED
  BY <1>1, <1>2, <1>3 DEF IsPair

(* After the second the tables are empty but for what is committed meanwhile,*)
(* and no event that is about to be committed refers to what it deletes.     *)
LEMMA DeleteRowsStep ==
    ASSUME IInv, NEW j \in Jobs, DeleteRows(j)
    PROVE  IInv'
<1> DEFINE refused == Enforced /\ \E e \in db.events \ removed[j].events : e.result_id \in Ids(db.rows)
<1>1. /\ pc[j] = "deleteRows" /\ MayDelete(j, "rows")
      /\ UNCHANGED <<backend, second, next, hand, want, seen, archives, files, overwritten, db, torn>>
  BY DEF DeleteRows, checkVars
<1>2. CASE refused
  <2>1. Close(j, "failed") /\ removed' = [removed EXCEPT ![j] = Empty] /\ since' = since
    BY <1>2 DEF DeleteRows
  <2>2. /\ removed' = [k \in Jobs |-> removed'[k]] /\ removed'[j] = Empty
        /\ \A k \in Jobs \ {j} : removed'[k] = removed[k]
    BY <2>1 DEF IInv, Shaped
  <2>3. QED
    BY <1>1, <2>1, <2>2, JobCloses
<1>3. CASE ~refused
  <2>1. /\ removed' = [removed EXCEPT ![j].rows = db.rows] /\ since' = [since EXCEPT ![j] = Empty]
        /\ Goto(j, "fill") /\ draft' = draft
    BY <1>3 DEF DeleteRows
  <2>2. /\ pc' = [q \in Processes |-> pc'[q]] /\ pc'[j] = "fill"
        /\ \A q \in Processes \ {j} : Same(q)
        /\ Apart' /\ draft'[j] = draft[j]
    BY <1>1, <2>1, JobGoes
  <2>3. /\ removed' = [k \in Jobs |-> removed'[k]] /\ since' = [k \in Jobs |-> since'[k]]
        /\ removed'[j] = db /\ since'[j] = Empty
        /\ \A k \in Jobs \ {j} : removed'[k] = removed[k] /\ since'[k] = since[k]
        /\ IsPair(db)
    BY <1>1, <1>3, <2>1, AllRemoved DEF IInv, Shaped
  <2>4. Shaped'
    BY <1>1, <2>1, <2>2, <2>3, EmptyPair DEF IInv, Shaped
  <2>5. Staged(j)' /\ draft[j] = Empty
    BY <1>1, <2>2 DEF IInv, Staged
  <2>6. ASSUME NEW c \in Checks, backend # "postgres" PROVE draft[c] = Empty
    <3>1. backend \in {"sqlite", "mysql"}
      BY <2>6 DEF IInv, Shaped
    <3>2. CASE backend = "sqlite"
      BY <1>1, <3>2 DEF MayDelete
    <3>3. CASE backend = "mysql"
      <4>1. draft[c].rows = {}
        BY <1>1, <3>3 DEF MayDelete
      <4>2. draft[c].events = {}
        BY <1>1, <3>3 DEF IInv, Clear, Replacing
      <4>3. IsPair(draft[c])
        BY DEF IInv, Shaped, Processes
      <4>4. QED
        BY <4>1, <4>2, <4>3, EmptyPair, SamePair
    <3>4. QED
      BY <3>1, <3>2, <3>3
  <2>7. Emptying(j)' /\ Replaces(j)'
    <3>1. Within(db, db) /\ Less(db, db) = Empty
      <4>1. /\ IsPair(Less(db, db)) /\ Less(db, db).rows = {} /\ Less(db, db).events = {}
            /\ Within(db, db)
        BY <2>3, Parts
      <4>2. QED
        BY <4>1, EmptyPair, SamePair
    <3>2. Kept(j)' = Empty
      BY <1>1, <2>3, <3>1 DEF Kept
    <3>3. Gap(Empty) = {} /\ Empty.events = {}
      BY EmptyPair DEF Gap
    <3>4. QED
      BY <1>1, <2>2, <2>3, <2>5, <3>1, <3>2, <3>3 DEF Emptying, Replaces
  <2>8. Reading(j)'
    BY <2>2 DEF Reading
  <2>9. Quiet' => Quiet
    BY <1>1, <2>2 DEF Quiet, Same, Processes
  <2>10. ArchivesAreConsistent'
    BY <1>1 DEF IInv, ArchivesAreConsistent, Snapshots
  <2>11. ASSUME NEW c \in Checks, pc[c] = "commit", backend # "sqlite", Quiet
         PROVE  hand[c].id \in Ids(since'[j].rows \cup draft[c].rows)
    <3>1. hand[c].id \in Ids(db.rows) \cup Ids(draft[c].rows)
      BY <2>11, IdsOfBoth DEF IInv, Refers
    <3>2. PICK e \in draft[c].events : e.result_id = hand[c].id
      BY <2>11 DEF IInv, Checked
    <3>3. backend = "postgres"
      BY <2>6, <3>2, EmptyPair
    <3>4. hand[c].id \notin Ids(db.rows)
      BY <1>1, <3>2, <3>3 DEF MayDelete
    <3>5. QED
      BY <3>1, <3>4, IdsOfBoth
  <2>12. \A k \in Jobs \ {j} : ~Replacing(k)
    BY <1>1 DEF MayDelete
  <2>13. \A c \in Checks : Clear(c, j)'
    BY <1>1, <2>1, <2>6, EmptyPair DEF Clear
  <2>14. QED
    BY <1>1, <2>1, <2>2, <2>3, <2>4, <2>5, <2>7, <2>8, <2>9, <2>10, <2>11, <2>12, <2>13, JobMoves
<1>4. QED
  BY <1>2, <1>3

(* What is filled in has its rows, and ids that nobody else uses. *)
LEMMA FillStep ==
    ASSUME IInv, NEW j \in Jobs, Fill(j)
    PROVE  IInv'
<1> DEFINE data == want[j].data
           clash == \E t \in {"rows", "events"} : Ids(data[t]) \cap Ids(Kept(j)[t]) # {}
           broken == Enforced /\ {e \in data.events : e.result_id \notin Ids(data.rows \cup Kept(j).rows)} # {}
<1>1. /\ pc[j] = "fill" /\ ~Contended("rows", Ids(data.rows), j)
      /\ UNCHANGED <<backend, second, hand, want, seen, archives, files, overwritten, db, since, torn>>
  BY DEF Fill, Unpublished
<1>2. CASE clash \/ broken
  <2>1. Close(j, "failed") /\ removed' = [removed EXCEPT ![j] = Empty]
    BY <1>2 DEF Fill
  <2>2. /\ removed' = [k \in Jobs |-> removed'[k]] /\ removed'[j] = Empty
        /\ \A k \in Jobs \ {j} : removed'[k] = removed[k]
    BY <2>1 DEF IInv, Shaped
  <2>3. QED
    BY <1>1, <2>1, <2>2, JobCloses
<1>3. CASE ~(clash \/ broken)
  <2>1. draft' = [draft EXCEPT ![j] = data] /\ Goto(j, "apply") /\ removed' = removed
    BY <1>3 DEF Fill
  <2>2. j \in Processes
    BY DEF Processes
  <2>3. /\ pc' = [q \in Processes |-> pc'[q]] /\ pc'[j] = "apply"
        /\ draft' = [q \in Processes |-> draft'[q]] /\ draft'[j] = data
        /\ \A q \in Processes \ {j} : Same(q)
    BY <2>1, <2>2 DEF IInv, Shaped, Goto, Same
  <2>4. want[j] # None /\ want[j] \in archives /\ IsPair(data)
    BY <1>1 DEF IInv, Shaped, Staged
  <2>5. Shaped'
    <3>1. \A q \in Processes : IsPair(draft'[q])
      BY <2>3, <2>4 DEF IInv, Shaped, Same
    <3>2. QED
      BY <1>1, <2>1, <2>3, <3>1 DEF IInv, Shaped
  <2>6. Staged(j)'
    BY <1>1, <2>3 DEF IInv, Staged
  <2>7. Replaces(j) /\ Emptied(j) /\ Replacing(j)
    BY <1>1 DEF IInv, Emptied, Replacing
  <2>8. Emptying(j)' /\ Replaces(j)'
    <3>1. Kept(j)' = Kept(j)
      BY <1>1, <2>1 DEF Kept
    <3>2. backend # "sqlite" => \A e \in data.events : e.result_id \in Ids(data.rows \cup since[j].rows)
      BY <1>3, <2>7 DEF Enforced, Replaces
    <3>3. \A c \in Checks : draft'[c] = draft[c]
      BY <2>3 DEF Same, Processes
    <3>4. QED
      BY <1>1, <2>1, <2>3, <2>7, <3>1, <3>2, <3>3 DEF Emptying, Replaces
  <2>9. Reading(j)'
    BY <2>3 DEF Reading
  <2>10. Apart'
    <3>1. ASSUME NEW q \in Processes \ {j} PROVE Ids(data.rows) \cap Ids(draft[q].rows) = {}
      <4>1. Ids(data.rows) \cap Ids(draft[q].rows \cup IF q \in Jobs THEN removed[q].rows ELSE {}) = {}
        BY <1>1 DEF Contended
      <4>2. QED
        BY <4>1, IdsOfBoth
    <3>2. Apart /\ \A q \in Processes \ {j} : draft'[q] = draft[q]
      BY <2>3 DEF IInv, Same
    <3>3. QED
      BY <1>1, <2>2, <2>3, <3>1, <3>2 DEF Apart, Processes
  <2>11. Quiet' => Quiet
    BY <1>1, <2>2, <2>3 DEF Quiet, Same, Processes
  <2>12. ArchivesAreConsistent'
    BY <1>1 DEF IInv, ArchivesAreConsistent, Snapshots
  <2>13. \A k \in Jobs \ {j} : ~Replacing(k)
    BY <2>7 DEF IInv, OneRestore
  <2>14. \A c \in Checks : pc[c] = "commit" /\ backend # "sqlite" /\ Quiet =>
                               hand[c].id \in Ids(since'[j].rows \cup draft[c].rows)
    BY <1>1, <2>7 DEF IInv, Refers
  <2>15. \A c \in Checks : Clear(c, j)'
    <3>1. \A c \in Checks : draft'[c] = draft[c] /\ Clear(c, j)
      BY <2>3 DEF IInv, Same, Processes
    <3>2. QED
      BY <1>1, <2>7, <3>1, EmptyPair DEF Clear
  <2>16. QED
    BY <1>1, <2>1, <2>3, <2>5, <2>6, <2>8, <2>9, <2>10, <2>11, <2>12, <2>13, <2>14, <2>15, JobMoves
<1>4. QED
  BY <1>2, <1>3

(* A check or a job fails: its work is rolled back. *)
LEMMA FailStep ==
    ASSUME IInv, NEW p \in Processes, Fail(p)
    PROVE  IInv'
<1>1. /\ pc[p] \notin {"idle", "done", "failed", "collided"} /\ Close(p, "failed")
      /\ removed' = [j \in Jobs |-> IF j = p THEN Empty ELSE removed[j]]
      /\ UNCHANGED <<backend, second, next, hand, want, seen, archives, files, overwritten, db, since, torn>>
  BY DEF Fail, checkVars, Unpublished
<1>2. CASE p \in Jobs
  BY <1>1, <1>2, JobCloses
<1>3. CASE p \in Checks
  <2>1. removed' = removed
    BY <1>1, <1>3 DEF IInv, Shaped
  <2>2. hand' = [d \in Checks |-> hand'[d]]
    BY <1>1 DEF IInv, Shaped
  <2>3. QED
    BY <1>1, <1>3, <2>1, <2>2, CheckCloses DEF jobVars
<1>4. QED
  BY <1>2, <1>3 DEF Processes

(* Time passes. *)
LEMMA TickStep ==
    ASSUME IInv, Tick
    PROVE  IInv'
<1>1. /\ UNCHANGED <<backend, pc, draft, next, hand, want, seen, removed, archives, files, overwritten,
                     db, since, torn>>
      /\ second' = second + 1 /\ second < MaxSecond
  BY DEF Tick, checkVars, jobVars, Unpublished
<1>2. Shaped'
  BY <1>1 DEF IInv, Shaped, Seconds
<1>3. \A p \in Processes : Same(p)
  BY <1>1 DEF Same
<1>4. Checks \subseteq Processes /\ Jobs \subseteq Processes
  BY DEF Processes
<1>5. Quiet' <=> Quiet
  BY <1>1 DEF Quiet
<1>6. \A j \in Jobs : (Replacing(j)' <=> Replacing(j)) /\ (Emptied(j)' <=> Emptied(j))
  BY <1>1 DEF Replacing, Emptied
<1>7. ASSUME NEW c \in Checks PROVE Checked(c)' /\ Refers(c)'
  BY <1>1, <1>3, <1>4, <1>5, <1>6, CheckedKept, RefersKept DEF IInv
<1>8. ASSUME NEW j \in Jobs PROVE Staged(j)' /\ Emptying(j)' /\ Replaces(j)' /\ Reading(j)'
  <2>1. Staged(j)'
    BY <1>1, <1>3, <1>4, StagedKept DEF IInv
  <2>2. Emptying(j)' /\ Replaces(j)'
    BY <1>1, <1>3, <1>4, EmptyingKept, ReplacesKept DEF IInv
  <2>3. Reading(j)'
    BY <1>1, <1>3, <1>4, ReadingKept DEF IInv
  <2>4. QED
    BY <2>1, <2>2, <2>3
<1>9. OneRestore' /\ Apart' /\ ArchivesAreConsistent' /\ Whole'
  BY <1>1, <1>5, <1>6 DEF IInv, OneRestore, Apart, ArchivesAreConsistent, Snapshots, Whole
<1>10. ASSUME NEW c \in Checks, NEW j \in Jobs PROVE Clear(c, j)'
  BY <1>1, <1>3, <1>4, ClearKept DEF IInv
<1>11. QED
  BY <1>2, <1>7, <1>8, <1>9, <1>10 DEF IInv

-----------------------------------------------------------------------------
(* The steps that publish *)

(* Whoever is reading or replacing gets to know of what is new. *)
LEMMA PublishEffects ==
    ASSUME Shaped, NEW d, IsPair(d), Publish(d)
    PROVE  /\ db' = d /\ (torn' <=> torn \/ Gap(d) # {})
           /\ since' = [j \in Jobs |-> since'[j]]
           /\ \A j \in Jobs : IsPair(since'[j])
           /\ \A j \in Jobs : pc[j] \notin {"idle", "rows", "done", "failed"} =>
                  /\ since'[j].rows = since[j].rows \cup (d.rows \ db.rows)
                  /\ since'[j].events = since[j].events \cup (d.events \ db.events)
<1>1. /\ db' = d /\ torn' = (torn \/ Gap(d) # {})
      /\ since' = [j \in Jobs |-> IF pc[j] \in {"idle", "rows", "done", "failed"} THEN since[j]
                                  ELSE Plus(since[j], Less(d, db))]
  BY DEF Publish
<1>2. ASSUME NEW j \in Jobs
      PROVE  /\ IsPair(Plus(since[j], Less(d, db))) /\ IsPair(since[j])
             /\ Plus(since[j], Less(d, db)).rows = since[j].rows \cup (d.rows \ db.rows)
             /\ Plus(since[j], Less(d, db)).events = since[j].events \cup (d.events \ db.events)
  <2>1. Less(d, db).rows = d.rows \ db.rows /\ Less(d, db).events = d.events \ db.events
    BY Parts
  <2>2. IsPair(since[j])
    BY DEF Shaped
  <2>3. QED
    BY <2>1, <2>2, Parts
<1>3. QED
  BY <1>1, <1>2

(* A dump that misses what is published has it among what is new. *)
LEMMA ReadingPublished ==
    ASSUME IInv, NEW d, IsPair(d), Publish(d), NEW j \in Jobs, Same(j),
           UNCHANGED <<backend, seen, files, overwritten>>
    PROVE  Reading(j)'
<1>1. /\ db' = d /\ (torn => torn')
      /\ pc[j] \notin {"idle", "rows", "done", "failed"} =>
             /\ since'[j].rows = since[j].rows \cup (d.rows \ db.rows)
             /\ since'[j].events = since[j].events \cup (d.events \ db.events)
  BY PublishEffects DEF IInv
<1>2. IsPair(db) /\ IsPair(seen[j]) /\ Reading(j)
  BY DEF IInv, Shaped
<1>3. (pc[j] = "events" =>
           /\ db.rows \subseteq seen[j].rows \cup since[j].rows
           /\ IF backend = "mysql"
              THEN db.events \subseteq seen[j].events \cup since[j].events /\ (torn \/ Gap(seen[j]) = {})
              ELSE torn \/ \A e \in db.events : e.result_id \in Ids(seen[j].rows) \/ e \in since[j].events)'
  BY <1>1, <1>2 DEF Reading, Same
<1>4. (pc[j] = "persist" => torn \/ Gap(seen[j]) \subseteq Missing(since[j]))'
  BY <1>1, <1>2 DEF Reading, Same, Missing
<1>5. (pc[j] \in {"persist", "delete", "deleteRows"} => Within(db, Plus(seen[j], since[j])))'
  <2> SUFFICES ASSUME pc[j] \in {"persist", "delete", "deleteRows"} PROVE Within(d, Plus(seen[j], since'[j]))
    BY <1>1 DEF Same
  <2>1. Within(db, Plus(seen[j], since[j]))
    BY <1>2 DEF Reading
  <2>2. /\ db.rows \subseteq seen[j].rows \cup since[j].rows
        /\ db.events \subseteq seen[j].events \cup since[j].events
    BY <1>2, <2>1, Parts
  <2>3. /\ d.rows \subseteq seen[j].rows \cup since'[j].rows
        /\ d.events \subseteq seen[j].events \cup since'[j].events
    BY <1>1, <2>2
  <2>4. /\ Plus(seen[j], since'[j]).rows = seen[j].rows \cup since'[j].rows
        /\ Plus(seen[j], since'[j]).events = seen[j].events \cup since'[j].events
    BY <1>2, Parts
  <2>5. QED
    BY <2>3, <2>4, Parts
<1>6. (pc[j] \in {"delete", "deleteRows"} /\ ~overwritten => \E s \in Seconds : \E a \in files[s] : a.data = seen[j])'
  BY <1>2 DEF Reading, Same
<1>7. QED
  BY <1>3, <1>4, <1>5, <1>6 DEF Reading

(* A check commits its event, and its row if it inserted one. *)
LEMMA CommitStep ==
    ASSUME IInv, NEW c \in Checks, Commit(c)
    PROVE  IInv'
<1> DEFINE d == Plus(db, draft[c])
<1>1. /\ pc[c] = "commit" /\ Publish(d) /\ Close(c, "done")
      /\ UNCHANGED <<backend, second, next, hand, want, seen, removed, archives, files, overwritten>>
  BY DEF Commit, checkVars, jobVars
<1>2. c \in Processes /\ c \notin Jobs /\ Checks \subseteq Processes /\ Jobs \subseteq Processes
  BY DEF Processes
<1>3. IsPair(db) /\ IsPair(draft[c]) /\ backend \in {"sqlite", "postgres", "mysql"}
  BY <1>2 DEF IInv, Shaped
<1>4. IsPair(d) /\ d.rows = db.rows \cup draft[c].rows /\ d.events = db.events \cup draft[c].events
  BY <1>3, Parts
<1> HIDE DEF d
<1>5. /\ pc' = [q \in Processes |-> pc'[q]] /\ pc'[c] = "done"
      /\ draft' = [q \in Processes |-> draft'[q]] /\ draft'[c] = Empty
      /\ \A q \in Processes : IsPair(draft'[q])
      /\ \A q \in Processes \ {c} : Same(q)
  BY <1>1, <1>2, CloseEffects DEF IInv
<1>6. /\ db' = d /\ (torn' <=> torn \/ Gap(d) # {})
      /\ since' = [j \in Jobs |-> since'[j]] /\ \A j \in Jobs : IsPair(since'[j])
  BY <1>1, <1>4, PublishEffects DEF IInv
<1>7. ASSUME NEW j \in Jobs, Emptied(j)
      PROVE  /\ since'[j].rows = since[j].rows \cup (d.rows \ db.rows)
             /\ since'[j].events = since[j].events \cup (d.events \ db.events)
  BY <1>1, <1>4, <1>7, PublishEffects DEF IInv, Emptied
<1>8. \A j \in Jobs : Same(j) /\ (Replacing(j)' <=> Replacing(j)) /\ (Emptied(j)' <=> Emptied(j))
  BY <1>2, <1>5 DEF Same, Replacing, Emptied
<1>9. Quiet' <=> Quiet
  BY <1>1, <1>8 DEF Quiet, Same
<1>10. Shaped'
  BY <1>1, <1>4, <1>5, <1>6 DEF IInv, Shaped
<1>11. Ids(draft[c].rows) \cap Ids(db.rows) = {}
  BY DEF IInv, Apart
<1>12. \A e \in draft[c].events : e.result_id = hand[c].id
  BY <1>1 DEF IInv, Checked
<1>13. ASSUME NEW j \in Jobs PROVE Replaces(j)'
  <2> SUFFICES ASSUME Emptied(j)
               PROVE  /\ Within(removed[j], d) /\ since'[j] = Less(d, removed[j])
                      /\ backend # "postgres" => since'[j] = Empty
                      /\ backend # "sqlite" =>
                             /\ Gap(since'[j]) = {}
                             /\ \A e \in draft[j].events : e.result_id \in Ids(draft[j].rows \cup since'[j].rows)
    BY <1>1, <1>6, <1>8 DEF Replaces, Kept, Same
  <2>1. IsPair(removed[j]) /\ IsPair(since[j]) /\ IsPair(since'[j])
    BY <1>6 DEF IInv, Shaped
  <2>2. Within(removed[j], db) /\ since[j] = Less(db, removed[j])
    BY DEF IInv, Replaces, Kept
  <2>3. removed[j].rows \subseteq db.rows /\ removed[j].events \subseteq db.events
    BY <2>1, <2>2, Parts
  <2>4. since[j].rows = db.rows \ removed[j].rows /\ since[j].events = db.events \ removed[j].events
    BY <1>3, <2>2, Parts
  <2>5. Within(removed[j], d)
    BY <1>4, <2>1, <2>3, Parts
  <2>6. since'[j] = Less(d, removed[j])
    <3>1. /\ IsPair(Less(d, removed[j]))
          /\ Less(d, removed[j]).rows = d.rows \ removed[j].rows
          /\ Less(d, removed[j]).events = d.events \ removed[j].events
      BY <1>4, Parts
    <3>2. since'[j].rows = d.rows \ removed[j].rows /\ since'[j].events = d.events \ removed[j].events
      BY <1>4, <1>7, <2>3, <2>4
    <3>3. QED
      BY <2>1, <3>1, <3>2, SamePair
  <2>7. backend = "postgres"
    <3>1. draft[c].events # {}
      BY <1>1 DEF IInv, Checked
    <3>2. QED
      BY <3>1, EmptyPair DEF IInv, Clear
  <2>8. ASSUME backend # "sqlite"
        PROVE  /\ Gap(since'[j]) = {}
               /\ \A e \in draft[j].events : e.result_id \in Ids(draft[j].rows \cup since'[j].rows)
    <3>1. /\ Gap(since[j]) = {}
          /\ \A e \in draft[j].events : e.result_id \in Ids(draft[j].rows \cup since[j].rows)
      BY <2>8 DEF IInv, Replaces
    <3>2. Quiet
      BY <2>8 DEF Quiet
    <3>3. hand[c].id \in Ids(since[j].rows \cup draft[c].rows)
      BY <1>1, <2>8, <3>2 DEF IInv, Refers
    <3>4. Ids(draft[c].rows) \subseteq Ids(since'[j].rows)
      BY <1>4, <1>7, <1>11 DEF Ids
    <3>5. Ids(since[j].rows) \subseteq Ids(since'[j].rows)
      BY <1>7, IdsOfBoth
    <3>6. hand[c].id \in Ids(since'[j].rows)
      BY <3>3, <3>4, <3>5, IdsOfBoth
    <3>7. \A e \in since'[j].events : e \in since[j].events \/ e \in draft[c].events
      BY <1>4, <1>7
    <3>8. Gap(since'[j]) = {}
      BY <1>12, <3>1, <3>5, <3>6, <3>7 DEF Gap
    <3>9. /\ Ids(draft[j].rows \cup since[j].rows) = Ids(draft[j].rows) \cup Ids(since[j].rows)
          /\ Ids(draft[j].rows \cup since'[j].rows) = Ids(draft[j].rows) \cup Ids(since'[j].rows)
      BY IdsOfBoth
    <3>10. QED
      BY <3>1, <3>5, <3>8, <3>9
  <2>9. QED
    BY <2>5, <2>6, <2>7, <2>8
<1>14. ASSUME NEW j \in Jobs PROVE Staged(j)' /\ Emptying(j)' /\ Reading(j)'
  <2>1. Staged(j)' /\ Reading(j)'
    BY <1>1, <1>4, <1>8, StagedKept, ReadingPublished DEF IInv
  <2>2. Emptying(j)'
    <3> SUFFICES ASSUME pc[j] = "deleteRows" PROVE Emptying(j)'
      BY <1>8 DEF Emptying, Same
    <3>1. draft[c].events # {}
      BY <1>1 DEF IInv, Checked
    <3>2. backend = "postgres"
      BY <3>1 DEF IInv, Clear, Replacing
    <3>3. QED
      BY <1>1, <1>4, <1>6, <3>2 DEF IInv, Emptying
  <2>3. QED
    BY <2>1, <2>2
<1>15. ASSUME NEW b \in Checks, NEW j \in Jobs PROVE Clear(b, j)'
  <2>1. CASE b = c
    BY <1>5, <2>1, EmptyPair DEF Clear
  <2>2. CASE b # c
    BY <1>1, <1>2, <1>5, <1>8, <2>2, ClearKept DEF IInv
  <2>3. QED
    BY <2>1, <2>2
<1>16. OneRestore'
  BY <1>8 DEF IInv, OneRestore
<1>17. Apart'
  <2>1. \A q \in Processes : Ids(draft'[q].rows) \subseteq Ids(draft[q].rows)
    BY <1>5, EmptyPair DEF Same, Ids
  <2>2. Ids(draft'[c].rows) = {}
    BY <1>5, EmptyPair DEF Ids
  <2>3. Ids(db'.rows) = Ids(db.rows) \cup Ids(draft[c].rows)
    BY <1>4, <1>6, IdsOfBoth
  <2>4. QED
    BY <1>2, <2>1, <2>2, <2>3 DEF IInv, Apart
<1>18. ASSUME NEW b \in Checks PROVE Checked(b)' /\ Refers(b)'
  <2>1. CASE b = c
    BY <1>5, <2>1, EmptyPair DEF Checked, Refers
  <2>2. CASE b # c
    <3>1. Same(b) /\ hand'[b] = hand[b]
      BY <1>1, <1>2, <1>5, <2>2
    <3>2. Checked(b)'
      BY <3>1, CheckedKept DEF IInv
    <3>3. Ids(db.rows \cup draft[b].rows) \subseteq Ids(db'.rows \cup draft'[b].rows)
      BY <1>4, <1>6, <3>1, IdsOfFewer DEF Same
    <3>4. \A k \in Jobs : Emptied(k) =>
              Ids(since[k].rows \cup draft[b].rows) \subseteq Ids(since'[k].rows \cup draft'[b].rows)
      BY <1>7, <3>1, IdsOfFewer DEF Same
    <3>5. Refers(b)'
      BY <1>1, <1>8, <1>9, <3>1, <3>3, <3>4 DEF IInv, Refers, Same
    <3>6. QED
      BY <3>2, <3>5
  <2>3. QED
    BY <2>1, <2>2
<1>19. ArchivesAreConsistent'
  BY <1>1, <1>6 DEF IInv, ArchivesAreConsistent, Snapshots
<1>20. Whole'
  <2>1. ASSUME Quiet PROVE Gap(d) = {} /\ ~torn
    <3>1. ~torn /\ Gap(db) = {}
      BY <2>1 DEF IInv, Whole
    <3>2. hand[c].id \in Ids(db.rows \cup draft[c].rows)
      BY <1>1, <2>1 DEF IInv, Refers
    <3>3. Ids(db.rows) \subseteq Ids(d.rows) /\ hand[c].id \in Ids(d.rows)
      BY <1>4, <3>2, IdsOfBoth
    <3>4. QED
      BY <1>4, <1>12, <3>1, <3>3 DEF Gap
  <2>2. QED
    BY <1>6, <1>9, <2>1 DEF Whole
<1>21. QED
  BY <1>10, <1>13, <1>14, <1>16, <1>17, <1>18, <1>19, <1>20, <1>15 DEF IInv

(* The tables are what has been committed meanwhile and what was filled in. *)
LEMMA Replacement ==
    ASSUME IInv, NEW j \in Jobs, Apply(j)
    PROVE  /\ IsPair(db') /\ db'.rows = since[j].rows \cup draft[j].rows
           /\ db'.events = since[j].events \cup draft[j].events
           /\ since[j] = Kept(j) /\ IsPair(since[j]) /\ IsPair(draft[j])
<1>1. pc[j] = "apply" /\ db' = Plus(Kept(j), draft[j])
  BY DEF Apply, Publish
<1>2. since[j] = Kept(j) /\ IsPair(since[j]) /\ IsPair(draft[j])
  BY <1>1 DEF IInv, Shaped, Replaces, Emptied, Processes
<1>3. QED
  BY <1>1, <1>2, Parts

(* A restore commits. *)
LEMMA ApplyStep ==
    ASSUME IInv, NEW j \in Jobs, Apply(j)
    PROVE  IInv'
<1> DEFINE d == Plus(Kept(j), draft[j])
<1>1. /\ pc[j] = "apply" /\ Publish(d) /\ Close(j, "done") /\ removed' = [removed EXCEPT ![j] = Empty]
      /\ UNCHANGED <<backend, second, next, hand, want, seen, archives, files, overwritten>>
  BY DEF Apply, checkVars
<1>2. j \in Processes /\ Checks \subseteq Processes /\ Jobs \subseteq Processes /\ j \notin Checks
  BY DEF Processes
<1>3. /\ IsPair(d) /\ d.rows = since[j].rows \cup draft[j].rows
      /\ d.events = since[j].events \cup draft[j].events
      /\ db' = d
  BY <1>1, Replacement DEF Publish
<1> HIDE DEF d
<1>4. /\ pc' = [q \in Processes |-> pc'[q]] /\ pc'[j] = "done"
      /\ draft' = [q \in Processes |-> draft'[q]] /\ draft'[j] = Empty
      /\ \A q \in Processes : IsPair(draft'[q])
      /\ \A q \in Processes \ {j} : Same(q)
  BY <1>1, <1>2, CloseEffects DEF IInv
<1>5. /\ (torn' <=> torn \/ Gap(d) # {})
      /\ since' = [k \in Jobs |-> since'[k]] /\ \A k \in Jobs : IsPair(since'[k])
  BY <1>1, <1>3, PublishEffects DEF IInv
<1>6. Emptied(j) /\ \A k \in Jobs : ~Replacing(k)' /\ ~Emptied(k)'
  <2>1. Emptied(j) /\ Replacing(j)
    BY <1>1 DEF Emptied, Replacing
  <2>2. \A k \in Jobs \ {j} : ~Replacing(k)
    BY <2>1 DEF IInv, OneRestore
  <2>3. QED
    BY <1>2, <1>4, <2>1, <2>2 DEF Replacing, Emptied, Same
<1>7. want[j] # None
  BY <1>1 DEF IInv, Staged
<1>8. Quiet' => backend # "sqlite" /\ Quiet
  BY <1>1, <1>4, <1>7 DEF Quiet
<1>9. Shaped'
  <2>1. removed' = [k \in Jobs |-> removed'[k]] /\ \A k \in Jobs : IsPair(removed'[k])
    BY <1>1, EmptyPair DEF IInv, Shaped
  <2>2. QED
    BY <1>1, <1>3, <1>4, <1>5, <2>1 DEF IInv, Shaped
<1>10. ASSUME NEW k \in Jobs PROVE Staged(k)' /\ Emptying(k)' /\ Replaces(k)' /\ Reading(k)'
  <2>1. Emptying(k)' /\ Replaces(k)'
    BY <1>6 DEF Emptying, Replaces, Replacing
  <2>2. CASE k = j
    BY <1>1, <1>4, <2>1, <2>2 DEF IInv, Staged, Reading
  <2>3. CASE k # j
    BY <1>1, <1>2, <1>3, <1>4, <2>1, <2>3, StagedKept, ReadingPublished DEF IInv
  <2>4. QED
    BY <2>2, <2>3
<1>11. OneRestore'
  BY <1>6 DEF OneRestore
<1>12. Ids(d.rows) \subseteq Ids(db.rows) \cup Ids(draft[j].rows)
  <2>1. IsPair(db) /\ since[j] = Less(db, removed[j])
    BY <1>6 DEF IInv, Shaped, Replaces, Kept
  <2>2. since[j].rows \subseteq db.rows
    BY <2>1, Parts
  <2>3. d.rows \subseteq db.rows \cup draft[j].rows
    BY <1>3, <2>2
  <2>4. QED
    BY <2>3 DEF Ids
<1>13. Apart'
  <2>1. \A q \in Processes : Ids(draft'[q].rows) \subseteq Ids(draft[q].rows)
    BY <1>4, EmptyPair DEF Same, Ids
  <2>2. QED
    BY <1>2, <1>3, <1>12, <2>1 DEF IInv, Apart
<1>14. ASSUME NEW c \in Checks PROVE Checked(c)' /\ Refers(c)'
  <2>1. Same(c) /\ hand'[c] = hand[c]
    BY <1>1, <1>2, <1>4
  <2>2. Checked(c)'
    BY <2>1, CheckedKept DEF IInv
  <2>3. ASSUME backend # "sqlite", Quiet, pc[c] = "commit"
        PROVE  hand[c].id \in Ids(d.rows \cup draft[c].rows)
    <3>1. hand[c].id \in Ids(since[j].rows \cup draft[c].rows)
      BY <1>6, <2>3 DEF IInv, Refers
    <3>2. QED
      BY <1>3, <3>1, IdsOfFewer
  <2>4. Refers(c)'
    BY <1>1, <1>3, <1>6, <1>8, <2>1, <2>3 DEF Refers, Same
  <2>5. QED
    BY <2>2, <2>4
<1>15. ArchivesAreConsistent'
  BY <1>1, <1>5 DEF IInv, ArchivesAreConsistent, Snapshots
<1>16. Whole'
  <2>1. ASSUME backend # "sqlite", Quiet PROVE ~torn /\ Gap(d) = {}
    <3>1. ~torn
      BY <2>1 DEF IInv, Whole
    <3>2. /\ Gap(since[j]) = {}
          /\ \A e \in draft[j].events : e.result_id \in Ids(draft[j].rows \cup since[j].rows)
      BY <1>6, <2>1 DEF IInv, Replaces
    <3>3. Ids(d.rows) = Ids(since[j].rows) \cup Ids(draft[j].rows)
      BY <1>3, IdsOfBoth
    <3>4. QED
      BY <1>3, <3>1, <3>2, <3>3, IdsOfBoth DEF Gap
  <2>2. QED
    BY <1>3, <1>5, <1>8, <2>1 DEF Whole
<1>17. \A c \in Checks : \A k \in Jobs : Clear(c, k)'
  BY <1>6 DEF Clear
<1>18. QED
  BY <1>9, <1>10, <1>11, <1>13, <1>14, <1>15, <1>16, <1>17 DEF IInv

-----------------------------------------------------------------------------
(* The specification *)

(* Nothing is recorded, nothing runs, and what comes from elsewhere is whole. *)
LEMMA InitInv == Init => IInv
<1> SUFFICES ASSUME Init PROVE IInv
  OBVIOUS
<1>1. Checks \subseteq Processes /\ Jobs \subseteq Processes /\ 0 \in Seconds
  BY DEF Processes, Seconds
<1>2. IsPair(Empty) /\ Empty.rows = {} /\ Empty.events = {}
  BY EmptyPair
<1>3. Shaped
  BY <1>1, <1>2 DEF Init, Shaped, IsPair
<1>4. \A p \in Processes : pc[p] = "idle" /\ draft[p] = Empty
  BY DEF Init
<1>5. ASSUME NEW c \in Checks PROVE Checked(c) /\ Refers(c)
  BY <1>1, <1>2, <1>4 DEF Checked, Refers
<1>6. ASSUME NEW j \in Jobs
      PROVE  /\ Staged(j) /\ Emptying(j) /\ Replaces(j) /\ Reading(j)
             /\ ~Replacing(j) /\ ~Emptied(j) /\ want[j] = None
  BY <1>1, <1>4 DEF Init, Staged, Emptying, Replaces, Replacing, Emptied, Reading
<1>7. Ids({}) = {}
  BY DEF Ids
<1>8. Apart
  BY <1>1, <1>2, <1>4, <1>7 DEF Apart
<1>9. ArchivesAreConsistent
  BY DEF Init, ArchivesAreConsistent, Snapshots
<1>10. Gap(db) = {} /\ ~torn
  BY <1>2 DEF Init, Gap
<1>11. QED
  BY <1>3, <1>5, <1>6, <1>8, <1>9, <1>10 DEF IInv, OneRestore, Clear, Whole

(* A step that changes none of the variables. *)
LEMMA Stutter == ASSUME IInv, UNCHANGED vars PROVE IInv'
<1>1. UNCHANGED <<backend, db, next, second, pc, hand, draft, want, seen, removed, archives, files, since,
                  overwritten, torn>>
  BY DEF vars, checkVars, jobVars
<1>2. Shaped'
  BY <1>1 DEF IInv, Shaped
<1>3. (\A c \in Checks : Checked(c) /\ Refers(c))'
  BY <1>1 DEF IInv, Checked, Refers, Quiet, Emptied
<1>4. (\A j \in Jobs : Staged(j) /\ Emptying(j) /\ Replaces(j) /\ Reading(j))'
  <2> SUFFICES ASSUME NEW j \in Jobs PROVE Staged(j)' /\ Emptying(j)' /\ Replaces(j)' /\ Reading(j)'
    OBVIOUS
  <2>1. Staged(j) /\ Emptying(j) /\ Replaces(j) /\ Reading(j)
    BY DEF IInv
  <2>2. Staged(j)'
    BY <1>1, <2>1 DEF Staged
  <2>3. Emptying(j)' /\ Replaces(j)'
    BY <1>1, <2>1 DEF Emptying, Replaces, Emptied, Kept
  <2>4. Reading(j)'
    BY <1>1, <2>1 DEF Reading, Missing
  <2>5. QED
    BY <2>2, <2>3, <2>4
<1>5. OneRestore' /\ Apart' /\ Whole' /\ ArchivesAreConsistent'
  BY <1>1 DEF IInv, OneRestore, Replacing, Emptied, Apart, Whole, Quiet, ArchivesAreConsistent, Snapshots
<1>6. (\A c \in Checks : \A j \in Jobs : Clear(c, j))'
  BY <1>1 DEF IInv, Clear, Replacing, Emptied
<1>7. QED
  BY <1>2, <1>3, <1>4, <1>5, <1>6 DEF IInv

(* Every step keeps the invariant. *)
LEMMA NextInv == IInv /\ [Next]_vars => IInv'
<1> SUFFICES ASSUME IInv, [Next]_vars PROVE IInv'
  OBVIOUS
<1>1. ASSUME NEW c \in Checks, Look(c) \/ CheckStep(c) PROVE IInv'
  BY <1>1, LookStep, InsertRowStep, RecordEventStep, RefuseStep, CommitStep DEF CheckStep
<1>2. ASSUME NEW j \in Jobs, BackUp(j) \/ Restore(j) \/ JobStep(j) PROVE IInv'
  BY <1>2, BackUpStep, RestoreStep, DumpRowsStep, DumpEventsStep, PersistStep, DeleteEventsStep,
     DeleteRowsStep, FillStep, ApplyStep
     DEF JobStep
<1>3. ASSUME NEW p \in Processes, Fail(p) PROVE IInv'
  BY <1>3, FailStep
<1>4. CASE Tick
  BY <1>4, TickStep
<1>5. CASE UNCHANGED vars
  BY <1>5, Stutter
<1>6. QED
  BY <1>1, <1>2, <1>3, <1>4, <1>5 DEF Next

(* The invariant holds in every state that can be reached. *)
THEOREM Invariant == Spec => []IInv
<1>1. Init => IInv
  BY InitInv
<1>2. IInv /\ [Next]_vars => IInv'
  BY NextInv
<1>3. QED
  BY <1>1, <1>2, PTL DEF Spec

(* Whatever checks commit while a dump is read, an event in its archive      *)
(* lacks its row only when that was committed between the two SELECTs        *)
(* (backup_service.py:62-65, 99-101).                                        *)
THEOREM ConsistentArchives == Spec => []ArchivesAreConsistent
<1>1. IInv => ArchivesAreConsistent
  BY DEF IInv
<1>2. QED
  BY <1>1, Invariant, PTL

(* Only a restore on SQLite can leave an event without its row               *)
(* (backup_service.py:176-200).                                              *)
THEOREM OnlyRestoresTear == Spec => []TornOnlyByRestore
<1>1. IInv => TornOnlyByRestore
  BY DEF IInv, Whole, Quiet, TornOnlyByRestore
<1>2. QED
  BY <1>1, Invariant, PTL

(* A job gets on by its own steps only. *)
LEMMA OwnStep ==
    ASSUME IInv, [Next]_vars, NEW j \in Jobs, pc'[j] # pc[j], pc'[j] # "failed"
    PROVE  BackUp(j) \/ Restore(j) \/ JobStep(j)
<1>1. j \in Processes /\ j \notin Checks /\ pc = [p \in Processes |-> pc[p]]
  BY DEF Processes, IInv, Shaped
<1>2. ASSUME NEW c \in Checks, Look(c) \/ CheckStep(c) PROVE FALSE
  <2>1. \E l \in {"write", "commit", "collided", "failed", "done"} : pc' = [pc EXCEPT ![c] = l]
    BY <1>2 DEF Look, CheckStep, InsertRow, RecordEvent, Insert, RefuseEvent, Commit, Close, Goto
  <2>2. QED
    BY <1>1, <2>1
<1>3. ASSUME NEW k \in Jobs, k # j, BackUp(k) \/ Restore(k) \/ JobStep(k) PROVE FALSE
  <2>1. \E l \in {"rows", "events", "persist", "delete", "deleteRows", "fill", "apply", "done", "failed"} :
            pc' = [pc EXCEPT ![k] = l]
    BY <1>3 DEF BackUp, Restore, JobStep, DumpRows, DumpEvents, PersistSnapshot, DeleteEvents, DeleteRows, Fill,
       Apply, Close, Goto
  <2>2. QED
    BY <1>1, <1>3, <2>1
<1>4. ASSUME NEW p \in Processes, Fail(p) PROVE FALSE
  <2>1. pc' = [pc EXCEPT ![p] = "failed"]
    BY <1>4 DEF Fail, Close, Goto
  <2>2. QED
    BY <1>1, <2>1
<1>5. ~Tick /\ ~UNCHANGED vars
  BY DEF Tick, vars
<1>6. QED
  BY <1>2, <1>3, <1>4, <1>5 DEF Next

(* The step of a restore that replaces the tables. *)
LEMMA DoneByApply ==
    ASSUME IInv, [Next]_vars, NEW j \in Jobs, pc[j] = "apply", pc'[j] = "done"
    PROVE  Apply(j)
<1>1. BackUp(j) \/ Restore(j) \/ JobStep(j)
  BY OwnStep
<1>2. QED
  BY <1>1 DEF BackUp, Restore, JobStep, DumpRows, DumpEvents, PersistSnapshot, DeleteEvents, DeleteRows, Fill

(* The step of a restore that empties them. *)
LEMMA FillAfterDelete ==
    ASSUME IInv, [Next]_vars, NEW j \in Jobs, pc[j] = "deleteRows", pc'[j] = "fill"
    PROVE  DeleteRows(j)
<1>1. BackUp(j) \/ Restore(j) \/ JobStep(j)
  BY OwnStep
<1>2. QED
  BY <1>1 DEF BackUp, Restore, JobStep, DumpRows, DumpEvents, PersistSnapshot, DeleteEvents, Fill, Apply

(* The tables are what a sound archive holds, and on PostgreSQL what has     *)
(* been committed since the DELETE.                                          *)
LEMMA ExactStep ==
    ASSUME IInv, [Next]_vars, NEW j \in Jobs, pc[j] = "apply", pc'[j] = "done"
    PROVE  /\ want[j].sound
           /\ db' = Plus(want[j].data, IF backend = "postgres" THEN since[j] ELSE Empty)
<1> DEFINE new == IF backend = "postgres" THEN since[j] ELSE Empty
<1>1. Apply(j) /\ Emptied(j)
  BY DoneByApply DEF Emptied
<1>2. /\ IsPair(db') /\ db'.rows = since[j].rows \cup draft[j].rows
      /\ db'.events = since[j].events \cup draft[j].events
  BY <1>1, Replacement
<1>3. draft[j] = want[j].data /\ want[j].sound /\ IsPair(want[j].data)
  BY DEF IInv, Staged, Shaped
<1>4. since[j] = new
  BY <1>1 DEF IInv, Replaces
<1>5. /\ IsPair(Plus(want[j].data, new))
      /\ Plus(want[j].data, new).rows = want[j].data.rows \cup new.rows
      /\ Plus(want[j].data, new).events = want[j].data.events \cup new.events
  BY <1>3, Parts
<1> HIDE DEF new
<1>6. db' = Plus(want[j].data, new)
  <2>1. db'.rows = Plus(want[j].data, new).rows /\ db'.events = Plus(want[j].data, new).events
    BY <1>2, <1>3, <1>4, <1>5
  <2>2. QED
    BY <1>2, <1>5, <2>1, SamePair
<1>7. QED
  BY <1>3, <1>6 DEF new

(* A restore leaves a sound archive, whole, and beside it only what checks   *)
(* committed after its DELETE, and that on PostgreSQL only                   *)
(* (backup_service.py:175-208).                                              *)
THEOREM ExactRestores == Spec => RestoreIsExact
<1>1. IInv /\ [Next]_vars =>
          [\A j \in Jobs : pc[j] = "apply" /\ pc'[j] = "done" =>
              /\ want[j].sound
              /\ db' = Plus(want[j].data, IF backend = "postgres" THEN since[j] ELSE Empty)]_vars
  BY ExactStep
<1>2. QED
  BY <1>1, Invariant, PTL DEF Spec, RestoreIsExact

(* What is deleted is in the snapshot, or came after it was read. *)
LEMMA SavedStep ==
    ASSUME IInv, [Next]_vars, NEW j \in Jobs, pc[j] = "deleteRows", pc'[j] = "fill", ~overwritten
    PROVE  Within(removed'[j], Plus(Saved, since[j]))
<1>1. removed'[j] = db
  <2>1. DeleteRows(j)
    BY FillAfterDelete
  <2>2. pc'[j] = "fill" /\ (Close(j, "failed") => pc'[j] = "failed")
    BY DEF Close, Goto, IInv, Shaped, Processes
  <2>3. /\ ~(Enforced /\ \E e \in db.events \ removed[j].events : e.result_id \in Ids(db.rows))
        /\ removed' = [removed EXCEPT ![j].rows = db.rows]
    BY <2>1, <2>2 DEF DeleteRows
  <2>4. QED
    BY <2>3, AllRemoved DEF IInv, Shaped
<1>2. IsPair(db) /\ IsPair(seen[j]) /\ Reading(j)
  BY DEF IInv, Shaped
<1>3. Within(db, Plus(seen[j], since[j]))
  BY <1>2 DEF Reading
<1>4. /\ db.rows \subseteq seen[j].rows \cup since[j].rows
      /\ db.events \subseteq seen[j].events \cup since[j].events
  BY <1>2, <1>3, Parts
<1>5. PICK s \in Seconds : \E a \in files[s] : a.data = seen[j]
  BY <1>2 DEF Reading
<1>6. PICK a \in Snapshots : a.data = seen[j]
  BY <1>5 DEF Snapshots
<1>7. IsPair(Saved) /\ seen[j].rows \subseteq Saved.rows /\ seen[j].events \subseteq Saved.events
  <2>1. IsPair(Saved)
    <3> DEFINE all(t) == UNION {x.data[t] : x \in Snapshots}
    <3>1. Saved = [t \in {"rows", "events"} |-> all(t)]
      BY DEF Saved
    <3> HIDE DEF all
    <3>2. Saved = [rows |-> all("rows"), events |-> all("events")]
      BY <3>1
    <3>3. QED
      BY <3>2 DEF IsPair
  <2>2. Saved.rows = UNION {x.data.rows : x \in Snapshots} /\ Saved.events = UNION {x.data.events : x \in Snapshots}
    BY DEF Saved
  <2>3. QED
    BY <1>6, <2>1, <2>2
<1>8. /\ Plus(Saved, since[j]).rows = Saved.rows \cup since[j].rows
      /\ Plus(Saved, since[j]).events = Saved.events \cup since[j].events
  BY <1>7, Parts
<1>9. Within(db, Plus(Saved, since[j]))
  BY <1>2, <1>4, <1>7, <1>8, Parts
<1>10. QED
  BY <1>1, <1>9

(* Unless two restores share a second, what a restore deletes is in a        *)
(* snapshot file, or was committed after that was read                       *)
(* (backup_service.py:118-128, 173-178).                                     *)
THEOREM SavedBeforeRemoved == Spec => RemovedIsSaved
<1>1. IInv /\ [Next]_vars =>
          [\A j \in Jobs : pc[j] = "deleteRows" /\ pc'[j] = "fill" /\ ~overwritten =>
              Within(removed'[j], Plus(Saved, since[j]))]_vars
  BY SavedStep
<1>2. QED
  BY <1>1, Invariant, PTL DEF Spec, RemovedIsSaved

-----------------------------------------------------------------------------
(* Types and ids *)

Tables == {"rows", "events"}

(* Tables are finite and their ids numbers, so that SQLite has a greatest.   *)
Typed ==
    /\ next \in [Tables -> Nat \ {0}]
    /\ IsData(db)
    /\ \A c \in Checks : hand[c] \in Row \cup {None}
    /\ \A p \in Processes : IsData(draft[p])
    /\ \A j \in Jobs : IsData(seen[j]) /\ IsData(removed[j]) /\ IsData(since[j])
    /\ \A a \in archives : IsArchive(a)
    /\ \A s \in Seconds : \A a \in files[s] : IsArchive(a)
    /\ overwritten \in BOOLEAN /\ torn \in BOOLEAN

Imported == \E j \in Jobs : want[j] \in Uploads
Ahead == backend = "mysql" \/ (backend = "postgres" /\ ~Imported)
Below(d, n) == \A t \in Tables : \A x \in d[t] : x.id < n[t]

(* A sequence is ahead of its table, on PostgreSQL as long as nothing comes  *)
(* from elsewhere: whatever may be restored was numbered by it.              *)
Numbered ==
    /\ Ahead => Below(db, next) /\ \A p \in Processes : Below(draft[p], next)
    /\ Ahead /\ backend = "postgres" =>
          /\ \A j \in Jobs : Below(seen[j], next)
          /\ \A a \in archives \ Uploads : Below(a.data, next)
    /\ \A j \in Jobs : pc[j] = "idle" => want[j] = None
    /\ CollidesOnlyAfterImport

-----------------------------------------------------------------------------
(* The greatest id *)

(* A finite set of numbers has a greatest: of the members, one has none      *)
(* above it, for there are as many members as numbers of members above.      *)
LEMMA Greatest ==
    ASSUME NEW S \in SUBSET Nat, IsFiniteSet(S), S # {}
    PROVE  \E m \in S : \A y \in S : m >= y
<1> DEFINE above(x) == {y \in S : y > x}
           n == Cardinality(S)
           f == [x \in S |-> Cardinality(above(x))]
<1>1. n \in Nat /\ n # 0
  BY FS_CardinalityType, FS_EmptySet
<1>2. ASSUME NEW x \in S
      PROVE  IsFiniteSet(above(x)) /\ Cardinality(above(x)) \in Nat /\ Cardinality(above(x)) < n
  <2>1. above(x) \subseteq S /\ x \notin above(x)
    OBVIOUS
  <2>2. IsFiniteSet(above(x)) /\ Cardinality(above(x)) <= n /\ (n = Cardinality(above(x)) => S = above(x))
    BY <2>1, FS_Subset
  <2>3. Cardinality(above(x)) \in Nat
    BY <2>2, FS_CardinalityType
  <2>4. QED
    BY <1>1, <2>1, <2>2, <2>3
<1>3. ASSUME NEW x \in S, NEW y \in S, x < y PROVE Cardinality(above(y)) < Cardinality(above(x))
  <2>1. above(y) \subseteq above(x) /\ y \in above(x) /\ y \notin above(y)
    BY <1>3
  <2>2. /\ Cardinality(above(y)) <= Cardinality(above(x))
        /\ (Cardinality(above(x)) = Cardinality(above(y)) => above(x) = above(y))
    BY <1>2, <2>1, FS_Subset
  <2>3. QED
    BY <1>2, <2>1, <2>2
<1>4. f \in Injection(S, 0..(n - 1))
  <2>1. f \in [S -> 0..(n - 1)]
    BY <1>1, <1>2
  <2>2. \A x, y \in S : f[x] = f[y] => x = y
    <3> SUFFICES ASSUME NEW x \in S, NEW y \in S, f[x] = f[y], x # y PROVE FALSE
      OBVIOUS
    <3>1. x < y \/ y < x
      OBVIOUS
    <3>2. QED
      BY <1>2, <1>3, <3>1
  <2> HIDE DEF f
  <2>3. QED
    BY <2>1, <2>2 DEF Injection, IsInjective
<1>5. IsFiniteSet(0..(n - 1)) /\ Cardinality(0..(n - 1)) = n
  <2> HIDE DEF n
  <2>1. n - 1 \in Int /\ ~(0 > n - 1) /\ (n - 1) - 0 + 1 = n
    BY <1>1
  <2>2. QED
    BY <2>1, FS_Interval
<1>6. f \in Surjection(S, 0..(n - 1))
  BY <1>4, <1>5, FS_Injection
<1>7. PICK m \in S : Cardinality(above(m)) = 0
  <2>1. 0 \in 0..(n - 1)
    BY <1>1
  <2>2. PICK m \in S : f[m] = 0
    BY <1>6, <2>1 DEF Surjection
  <2>3. QED
    BY <2>2
<1>8. above(m) = {}
  BY <1>2, <1>7, FS_EmptySet
<1>9. \A y \in S : ~(y > m)
  BY <1>8
<1>10. \A y \in S : m >= y
  BY <1>9
<1>11. QED
  BY <1>10

(* So Max is a member, and none is above it. *)
LEMMA MaxIsGreatest ==
    ASSUME NEW S \in SUBSET Nat, IsFiniteSet(S), S # {}
    PROVE  Max(S) \in S /\ \A y \in S : Max(S) >= y
  BY Greatest DEF Max

(* A finite table has finitely many ids. *)
LEMMA IdsFinite ==
    ASSUME NEW S, IsFiniteSet(S)
    PROVE  IsFiniteSet(Ids(S)) /\ IsFiniteSet({i + 1 : i \in Ids(S)})
<1> DEFINE f == [x \in S |-> x.id]
           g == [x \in S |-> x.id + 1]
<1>1. f \in Surjection(S, Ids(S)) /\ g \in Surjection(S, {i + 1 : i \in Ids(S)})
  BY DEF Surjection, Ids
<1>2. QED
  BY <1>1, FS_Surjection

(* What rows and events are made of. *)
LEMMA SizedIds ==
    ASSUME NEW d, IsData(d), NEW t \in Tables
    PROVE  /\ \A x \in d[t] : x.id \in Nat
           /\ Ids(d[t]) \in SUBSET Nat /\ IsFiniteSet(Ids(d[t]))
           /\ IsFiniteSet({i + 1 : i \in Ids(d[t])})
<1>1. \A x \in d[t] : x.id \in Nat
  <2>1. (\A x \in Row : x.id \in Nat) /\ (\A x \in Event : x.id \in Nat)
    BY DEF Row, Event
  <2>2. d["rows"] \subseteq Row /\ d["events"] \subseteq Event
    BY DEF IsData
  <2>3. QED
    BY <2>1, <2>2 DEF Tables
<1>2. IsFiniteSet(d[t])
  <2>1. IsFiniteSet(d["rows"]) /\ IsFiniteSet(d["events"])
    BY DEF IsData
  <2>2. QED
    BY <2>1 DEF Tables
<1>3. QED
  BY <1>1, <1>2, IdsFinite DEF Ids

(* SQLite hands out an id that no committed row has; every database a number.*)
LEMMA NextFreeIsFree ==
    ASSUME Typed, NEW t \in Tables
    PROVE  /\ NextFree(t) \in Nat \ {0}
           /\ backend = "sqlite" => NextFree(t) \notin Ids(db[t])
           /\ backend # "sqlite" => NextFree(t) = next[t]
<1> DEFINE S == Ids(db[t]) \cup {0}
<1>1. S \in SUBSET Nat /\ IsFiniteSet(S) /\ S # {}
  <2>1. Ids(db[t]) \in SUBSET Nat /\ IsFiniteSet(Ids(db[t]))
    BY SizedIds DEF Typed
  <2>2. IsFiniteSet(S)
    BY <2>1, FS_AddElement
  <2>3. QED
    BY <2>1, <2>2
<1>2. Max(S) \in Nat /\ \A y \in S : Max(S) >= y
  BY <1>1, MaxIsGreatest
<1>3. Max(S) + 1 \in Nat \ {0} /\ Max(S) + 1 \notin S
  BY <1>2
<1>4. next[t] \in Nat \ {0}
  BY DEF Typed
<1>5. QED
  BY <1>3, <1>4 DEF NextFree

(* MySQL's counter is beyond what it was and beyond what was inserted.       *)
LEMMA AfterExplicitIsAhead ==
    ASSUME Typed, NEW d, IsData(d), NEW t \in Tables
    PROVE  /\ AfterExplicit(t, Ids(d[t])) \in Nat \ {0}
           /\ backend # "mysql" => AfterExplicit(t, Ids(d[t])) = next[t]
           /\ backend = "mysql" => /\ next[t] <= AfterExplicit(t, Ids(d[t]))
                                   /\ \A x \in d[t] : x.id < AfterExplicit(t, Ids(d[t]))
<1> DEFINE S == {i + 1 : i \in Ids(d[t])} \cup {next[t]}
<1>1. next[t] \in Nat \ {0}
  BY DEF Typed
<1>2. Ids(d[t]) \in SUBSET Nat /\ \A x \in d[t] : x.id \in Nat /\ x.id \in Ids(d[t])
  BY SizedIds DEF Ids
<1>3. S \in SUBSET Nat /\ IsFiniteSet(S) /\ S # {}
  <2>1. IsFiniteSet({i + 1 : i \in Ids(d[t])})
    BY SizedIds
  <2>2. IsFiniteSet(S)
    BY <2>1, FS_AddElement
  <2>3. QED
    BY <1>1, <1>2, <2>2
<1>4. Max(S) \in S /\ \A y \in S : Max(S) >= y
  BY <1>3, MaxIsGreatest
<1>5. Max(S) \in Nat \ {0} /\ next[t] <= Max(S)
  BY <1>1, <1>3, <1>4
<1>6. ASSUME NEW x \in d[t] PROVE x.id < Max(S)
  <2>1. x.id \in Nat /\ x.id + 1 \in S
    BY <1>2
  <2> HIDE DEF S
  <2>2. Max(S) >= x.id + 1
    BY <1>4, <2>1
  <2>3. QED
    BY <1>5, <2>1, <2>2
<1>7. {next[t]} \cup {i + 1 : i \in Ids(d[t])} = S
  OBVIOUS
<1>8. QED
  BY <1>1, <1>5, <1>6, <1>7 DEF AfterExplicit

-----------------------------------------------------------------------------
(* The types of the variables *)

(* Tables of finitely many rows, put together or taken apart. *)
LEMMA SizedParts ==
    ASSUME NEW d, IsPair(d), IsData(d), NEW x
    PROVE  IsData(Less(d, x)) /\ (IsData(x) => IsData(Plus(d, x)))
<1>1. /\ Plus(d, x).rows = d.rows \cup x.rows /\ Plus(d, x).events = d.events \cup x.events
      /\ Less(d, x).rows = d.rows \ x.rows /\ Less(d, x).events = d.events \ x.events
  BY Parts
<1>2. IsFiniteSet(d.rows) /\ IsFiniteSet(d.events)
  BY DEF IsData, Tables
<1>3. IsFiniteSet(d.rows \ x.rows) /\ IsFiniteSet(d.events \ x.events)
  BY <1>2, FS_Subset
<1>4. IsData(x) => IsFiniteSet(d.rows \cup x.rows) /\ IsFiniteSet(d.events \cup x.events)
  BY <1>2, FS_Union DEF IsData, Tables
<1>5. QED
  BY <1>1, <1>3, <1>4 DEF IsData, Tables

(* The tables of rows and of events. *)
LEMMA SizedPair ==
    ASSUME NEW d, d.rows \subseteq Row, d.events \subseteq Event, IsFiniteSet(d.rows), IsFiniteSet(d.events)
    PROVE  IsData(d)
  BY DEF IsData, Tables

(* No rows at all. *)
LEMMA SizedEmpty == IsData(Empty)
  BY EmptyPair, FS_EmptySet, SizedPair

(* One table of two, or none. *)
LEMMA SizedOnly ==
    ASSUME NEW d, IsPair(d), IsData(d)
    PROVE  IsData([d EXCEPT !.events = {}])
<1>1. [d EXCEPT !.events = {}].rows = d.rows /\ [d EXCEPT !.events = {}].events = {}
  BY DEF IsPair
<1>2. QED
  BY <1>1, FS_EmptySet, SizedPair DEF IsData, Tables

(* What is published is as finite as what was there. *)
LEMMA TypedPublish ==
    ASSUME IInv, Typed, NEW d, IsPair(d), IsData(d), Publish(d)
    PROVE  IsData(db)' /\ (\A j \in Jobs : IsData(since[j]))' /\ torn' \in BOOLEAN
<1>1. IsData(Less(d, db))
  BY SizedParts
<1>2. ASSUME NEW j \in Jobs PROVE IsData(Plus(since[j], Less(d, db)))
  BY <1>1, SizedParts DEF IInv, Shaped, Typed
<1>3. QED
  BY <1>2 DEF Publish, Typed

(* The steps of a check. *)
LEMMA CheckTyped ==
    ASSUME IInv, Typed, NEW c \in Checks, Look(c) \/ CheckStep(c)
    PROVE  Typed'
<1>1. c \in Processes
  BY DEF Processes
<1>2. /\ draft = [p \in Processes |-> draft[p]] /\ hand = [d \in Checks |-> hand[d]]
      /\ IsPair(draft[c]) /\ IsData(draft[c]) /\ IsPair(db)
  BY <1>1 DEF IInv, Shaped, Typed
<1>3. CASE Look(c)
  BY <1>2, <1>3, SizedEmpty DEF Look, Unpublished, checkVars, jobVars, Typed, IsData
<1>4. CASE RefuseEvent(c)
  <2>1. /\ UNCHANGED <<next, hand, want, seen, removed, archives, files, overwritten, db, since, torn>>
        /\ draft' = [draft EXCEPT ![c] = Empty]
    BY <1>4 DEF RefuseEvent, Unpublished, Close, checkVars, jobVars
  <2>2. QED
    BY <1>1, <1>2, <2>1, SizedEmpty DEF Typed
<1>5. CASE Commit(c)
  <2>1. Publish(Plus(db, draft[c]))
        /\ UNCHANGED <<next, hand, want, seen, removed, archives, files, overwritten>>
        /\ draft' = [draft EXCEPT ![c] = Empty]
    BY <1>5 DEF Commit, Close, checkVars, jobVars
  <2>2. IsData(Plus(db, draft[c])) /\ IsPair(Plus(db, draft[c]))
    BY <1>2, SizedParts, Parts DEF Typed
  <2>3. IsData(db)' /\ (\A j \in Jobs : IsData(since[j]))' /\ torn' \in BOOLEAN
    BY <2>1, <2>2, TypedPublish
  <2>4. QED
    BY <1>1, <1>2, <2>1, <2>3, SizedEmpty DEF Typed
<1>6. ASSUME NEW t \in Tables, NEW x, NEW label, Insert(c, t, x, label),
             IsData([draft[c] EXCEPT ![t] = {x}]), \A d \in Checks : hand'[d] \in Row \cup {None}
      PROVE  Typed'
  <2>1. /\ UNCHANGED <<want, seen, removed, archives, files, overwritten, db, since, torn>>
        /\ next' \in {next, [next EXCEPT ![t] = @ + 1]}
        /\ draft' \in {[draft EXCEPT ![c] = Empty], [draft EXCEPT ![c][t] = {x}]}
    BY <1>6 DEF Insert, Unpublished, Close, jobVars
  <2>2. next' \in [Tables -> Nat \ {0}]
    BY <2>1 DEF Typed
  <2>3. \A p \in Processes : IsData(draft'[p])
    <3>1. draft'[c] \in {Empty, [draft[c] EXCEPT ![t] = {x}]} /\ \A p \in Processes \ {c} : draft'[p] = draft[p]
      BY <1>1, <1>2, <2>1
    <3>2. QED
      BY <1>6, <3>1, SizedEmpty DEF Typed
  <2>4. QED
    BY <1>6, <2>1, <2>2, <2>3 DEF Typed
<1>7. CASE InsertRow(c)
  <2> DEFINE x == [id |-> NextFree("rows"), by |-> c]
  <2>1. x \in Row
    BY NextFreeIsFree DEF Row, Tables
  <2>2. hand' = [hand EXCEPT ![c] = x] /\ Insert(c, "rows", x, "write")
    BY <1>7 DEF InsertRow
  <2> HIDE DEF x
  <2>3. IsData([draft[c] EXCEPT !["rows"] = {x}])
    <3>1. [draft[c] EXCEPT !["rows"] = {x}].rows = {x} /\ [draft[c] EXCEPT !["rows"] = {x}].events = draft[c].events
      BY <1>2 DEF IsPair
    <3>2. draft[c].events \subseteq Event /\ IsFiniteSet(draft[c].events) /\ IsFiniteSet({x})
      BY <1>2, FS_Singleton DEF IsData, Tables
    <3>3. QED
      BY <2>1, <3>1, <3>2, SizedPair
  <2>4. \A d \in Checks : hand'[d] \in Row \cup {None}
    BY <1>2, <2>1, <2>2 DEF Typed
  <2>5. QED
    BY <1>6, <2>2, <2>3, <2>4 DEF Tables
<1>8. CASE RecordEvent(c)
  <2> DEFINE x == [id |-> NextFree("events"), result_id |-> hand[c].id, by |-> c]
  <2>1. x \in Event
    <3>1. hand[c] \in Row
      BY <1>8 DEF RecordEvent, Typed
    <3>2. hand[c].id \in Nat
      BY <3>1 DEF Row
    <3>3. QED
      BY <3>2, NextFreeIsFree DEF Event, Tables
  <2>2. hand' = hand /\ Insert(c, "events", x, "commit")
    BY <1>8 DEF RecordEvent
  <2> HIDE DEF x
  <2>3. IsData([draft[c] EXCEPT !["events"] = {x}])
    <3>1. [draft[c] EXCEPT !["events"] = {x}].rows = draft[c].rows /\ [draft[c] EXCEPT !["events"] = {x}].events = {x}
      BY <1>2 DEF IsPair
    <3>2. draft[c].rows \subseteq Row /\ IsFiniteSet(draft[c].rows) /\ IsFiniteSet({x})
      BY <1>2, FS_Singleton DEF IsData, Tables
    <3>3. QED
      BY <2>1, <3>1, <3>2, SizedPair
  <2>4. \A d \in Checks : hand'[d] \in Row \cup {None}
    BY <2>2 DEF Typed
  <2>5. QED
    BY <1>6, <2>2, <2>3, <2>4 DEF Tables
<1>9. QED
  BY <1>3, <1>4, <1>5, <1>7, <1>8 DEF CheckStep

(* What a job has dumped is an archive. *)
LEMMA ArchiveStored ==
    ASSUME Typed, NEW j \in Jobs, NEW d, IsData(d)
    PROVE  IsArchive(Archive(j, d))
  BY DEF Typed, IsArchive, Archive

(* The steps of a job. *)
LEMMA JobTyped ==
    ASSUME IInv, Typed, NEW j \in Jobs, BackUp(j) \/ Restore(j) \/ JobStep(j)
    PROVE  Typed'
<1>1. j \in Processes
  BY DEF Processes
<1>2. /\ draft = [p \in Processes |-> draft[p]] /\ seen = [k \in Jobs |-> seen[k]]
      /\ removed = [k \in Jobs |-> removed[k]] /\ since = [k \in Jobs |-> since[k]]
      /\ files = [s \in Seconds |-> files[s]] /\ second \in Seconds
      /\ IsPair(db) /\ IsPair(seen[j])
  BY DEF IInv, Shaped
<1>3. CASE BackUp(j) \/ Restore(j)
  BY <1>3 DEF BackUp, Restore, Unpublished, checkVars, jobVars, Typed
<1>4. CASE DumpRows(j)
  <2>1. IsData([db EXCEPT !.events = {}])
    BY <1>2, SizedOnly DEF Typed
  <2>2. /\ UNCHANGED <<next, hand, draft, removed, archives, files, overwritten, db, torn>>
        /\ \A k \in Jobs : seen'[k] \in {seen[k], db, [db EXCEPT !.events = {}]} /\ since'[k] \in {since[k], Empty}
    BY <1>2, <1>4 DEF DumpRows, checkVars
  <2>3. QED
    BY <2>1, <2>2, SizedEmpty DEF Typed
<1>5. CASE DumpEvents(j)
  <2> DEFINE data == IF backend = "mysql" THEN seen[j] ELSE [seen[j] EXCEPT !.events = db.events]
  <2>1. IsData(data)
    <3>1. [seen[j] EXCEPT !.events = db.events].rows = seen[j].rows /\ [seen[j] EXCEPT !.events = db.events].events = db.events
      BY <1>2 DEF IsPair
    <3>2. IsData(seen[j]) /\ IsData(db)
      BY DEF Typed
    <3>3. IsData([seen[j] EXCEPT !.events = db.events])
      BY <3>1, <3>2, SizedPair DEF IsData, Tables
    <3>4. QED
      BY <3>2, <3>3
  <2>2. /\ UNCHANGED <<next, hand, draft, removed, files, overwritten, db, since, torn>>
        /\ seen' = [seen EXCEPT ![j] = data]
        /\ archives' \in {archives, archives \cup {Archive(j, data)}}
    BY <1>5 DEF DumpEvents, Unpublished, checkVars
  <2> HIDE DEF data
  <2>3. \A k \in Jobs : seen'[k] \in {seen[k], data}
    BY <1>2, <2>2
  <2>4. IsArchive(Archive(j, data))
    BY <2>1, ArchiveStored
  <2>5. (\A a \in archives : IsArchive(a))'
    BY <2>2, <2>4 DEF Typed
  <2>6. QED
    BY <2>1, <2>2, <2>3, <2>5 DEF Typed
<1>6. CASE PersistSnapshot(j)
  <2>1. /\ UNCHANGED <<next, hand, draft, seen, removed, archives, db, since, torn>>
        /\ files' = [files EXCEPT ![second] = {Archive(j, seen[j])}]
        /\ overwritten' = (overwritten \/ files[second] # {})
    BY <1>6 DEF PersistSnapshot, Unpublished, checkVars
  <2>2. IsArchive(Archive(j, seen[j]))
    BY ArchiveStored DEF Typed
  <2>3. (\A s \in Seconds : \A a \in files[s] : IsArchive(a))'
    BY <1>2, <2>1, <2>2 DEF Typed, IsArchive
  <2>4. overwritten' \in BOOLEAN
    BY <2>1
  <2>5. QED
    BY <2>1, <2>3, <2>4 DEF Typed, IsArchive
<1>7. CASE DeleteEvents(j)
  <2>1. IsData([db EXCEPT !.rows = {}])
    <3>1. [db EXCEPT !.rows = {}].rows = {} /\ [db EXCEPT !.rows = {}].events = db.events
      BY <1>2 DEF IsPair
    <3>2. QED
      BY <3>1, FS_EmptySet DEF Typed, IsData
  <2>2. /\ UNCHANGED <<next, hand, draft, seen, archives, files, overwritten, db, since, torn>>
        /\ \A k \in Jobs : removed'[k] \in {removed[k], [db EXCEPT !.rows = {}]}
    BY <1>2, <1>7 DEF DeleteEvents, Unpublished, checkVars
  <2>3. QED
    BY <2>1, <2>2 DEF Typed
<1>8. CASE DeleteRows(j)
  <2>1. IsData([removed[j] EXCEPT !.rows = db.rows])
    <3>1. /\ [removed[j] EXCEPT !.rows = db.rows].rows = db.rows
          /\ [removed[j] EXCEPT !.rows = db.rows].events = removed[j].events
      BY DEF IInv, Shaped, IsPair
    <3>2. QED
      BY <3>1 DEF Typed, IsData
  <2>2. /\ UNCHANGED <<next, hand, seen, archives, files, overwritten, db, torn>>
        /\ \A p \in Processes : draft'[p] \in {draft[p], Empty}
        /\ \A k \in Jobs : /\ removed'[k] \in {removed[k], Empty, [removed[j] EXCEPT !.rows = db.rows]}
                           /\ since'[k] \in {since[k], Empty}
    BY <1>1, <1>2, <1>8 DEF DeleteRows, Close, checkVars
  <2>3. QED
    BY <2>1, <2>2, SizedEmpty DEF Typed
<1>9. CASE Fill(j)
  <2> DEFINE data == want[j].data
  <2>1. IsData(data)
    BY <1>9 DEF IInv, Staged, Typed, IsArchive, Fill
  <2>2. /\ UNCHANGED <<hand, seen, archives, files, overwritten, db, since, torn>>
        /\ \/ UNCHANGED next
           \/ next' = [t \in DOMAIN next |-> AfterExplicit(t, Ids(data[t]))]
        /\ \A p \in Processes : draft'[p] \in {draft[p], Empty, data}
        /\ \A k \in Jobs : removed'[k] \in {removed[k], Empty}
    BY <1>1, <1>2, <1>9 DEF Fill, Unpublished, Close
  <2> HIDE DEF data
  <2>3. next' \in [Tables -> Nat \ {0}]
    <3>1. DOMAIN next = Tables
      BY DEF Typed
    <3>2. \A t \in Tables : AfterExplicit(t, Ids(data[t])) \in Nat \ {0}
      BY <2>1, AfterExplicitIsAhead
    <3>3. QED
      BY <2>2, <3>1, <3>2 DEF Typed
  <2>4. QED
    BY <2>1, <2>2, <2>3, SizedEmpty DEF Typed
<1>10. CASE Apply(j)
  <2> DEFINE d == Plus(Kept(j), draft[j])
  <2>1. /\ UNCHANGED <<next, hand, seen, archives, files, overwritten>>
        /\ Publish(d)
        /\ \A p \in Processes : draft'[p] \in {draft[p], Empty}
        /\ \A k \in Jobs : removed'[k] \in {removed[k], Empty}
    BY <1>1, <1>2, <1>10 DEF Apply, Close, checkVars
  <2>2. IsData(Kept(j)) /\ IsPair(Kept(j))
    BY <1>2, SizedParts, Parts DEF Kept, Typed
  <2>3. IsData(d) /\ IsPair(d)
    BY <1>1, <2>2, SizedParts, Parts DEF Typed
  <2> HIDE DEF d
  <2>4. IsData(db)' /\ (\A k \in Jobs : IsData(since[k]))' /\ torn' \in BOOLEAN
    BY <2>1, <2>3, TypedPublish
  <2>5. QED
    BY <2>1, <2>4, SizedEmpty DEF Typed
<1>11. QED
  BY <1>3, <1>4, <1>5, <1>6, <1>7, <1>9, <1>10, <1>8 DEF JobStep

(* Every step keeps the tables finite. *)
LEMMA TypedStep == IInv /\ Typed /\ [Next]_vars => Typed'
<1> SUFFICES ASSUME IInv, Typed, [Next]_vars PROVE Typed'
  OBVIOUS
<1>1. ASSUME NEW p \in Processes, Fail(p) PROVE Typed'
  <2>1. /\ UNCHANGED <<next, hand, seen, archives, files, overwritten, db, since, torn>>
        /\ \A q \in Processes : draft'[q] \in {draft[q], Empty}
        /\ \A k \in Jobs : removed'[k] \in {removed[k], Empty}
    BY <1>1 DEF Fail, Close, Unpublished, checkVars, IInv, Shaped
  <2>2. QED
    BY <2>1, SizedEmpty DEF Typed
<1>2. CASE Tick \/ UNCHANGED vars
  <2>1. UNCHANGED <<next, hand, draft, seen, removed, archives, files, overwritten, db, since, torn>>
    BY <1>2 DEF Tick, Unpublished, vars, checkVars, jobVars
  <2>2. QED
    BY <2>1 DEF Typed
<1>3. QED
  BY <1>1, <1>2, CheckTyped, JobTyped DEF Next

(* There is nothing but what comes from elsewhere. *)
LEMMA TypedInit == Init => Typed
<1> SUFFICES ASSUME Init PROVE Typed
  OBVIOUS
<1>1. \A a \in Uploads : IsArchive(a)
  BY UploadsAssumption
<1>2. next \in [Tables -> Nat \ {0}]
  BY DEF Init, Tables
<1>3. QED
  BY <1>1, <1>2, SizedEmpty DEF Init, Typed

(* Tables stay finite and ids numbers. *)
LEMMA TypedAlways == Spec => []Typed
  BY TypedInit, TypedStep, Invariant, PTL DEF Spec

(* Every variable keeps its type, for any archives that may be restored.     *)
THEOREM TypeCorrect == Spec => []TypeOK
<1>1. IInv /\ Typed => TypeOK
  <2> SUFFICES ASSUME IInv, Typed PROVE TypeOK
    OBVIOUS
  <2>1. \A p \in Processes : pc[p] \in {"idle", "write", "commit", "rows", "events", "persist", "delete",
                                        "deleteRows", "fill", "apply", "done", "failed", "collided"}
    BY DEF IInv, Checked, Staged, Processes
  <2>2. pc = [p \in Processes |-> pc[p]]
    BY DEF IInv, Shaped
  <2>3. \A j \in Jobs : want[j] \in archives \cup {None}
    BY DEF IInv, Staged
  <2>4. QED
    BY <2>1, <2>2, <2>3 DEF IInv, Shaped, Typed, Tables, TypeOK
<1>2. QED
  BY <1>1, Invariant, TypedAlways, PTL

-----------------------------------------------------------------------------
(* Ids that are in use *)

(* A sequence that goes on stays ahead. *)
LEMMA BelowLater ==
    ASSUME NEW d, IsData(d), NEW m \in [Tables -> Nat], NEW n \in [Tables -> Nat],
           \A t \in Tables : m[t] <= n[t], Below(d, m)
    PROVE  Below(d, n)
<1> SUFFICES ASSUME NEW t \in Tables, NEW x \in d[t] PROVE x.id < n[t]
  BY DEF Below
<1>1. x.id \in Nat
  BY SizedIds
<1>2. x.id < m[t]
  BY DEF Below
<1>3. QED
  BY <1>1, <1>2

(* It is ahead of tables put together, or taken apart. *)
LEMMA BelowParts ==
    ASSUME NEW n, NEW d, IsPair(d), Below(d, n), NEW x
    PROVE  Below(Less(d, x), n) /\ (Below(x, n) => Below(Plus(d, x), n))
  BY Parts DEF Below, Tables

(* Nothing is easy to be ahead of. *)
LEMMA BelowEmpty == \A n : Below(Empty, n)
  BY EmptyPair DEF Below, Tables

(* One table of two. *)
LEMMA BelowOnly ==
    ASSUME NEW n, NEW d, IsPair(d), Below(d, n), NEW x, Below(x, n)
    PROVE  Below([d EXCEPT !.events = x.events], n) /\ Below([d EXCEPT !.events = {}], n)
<1>1. /\ [d EXCEPT !.events = x.events].rows = d.rows /\ [d EXCEPT !.events = x.events].events = x.events
      /\ [d EXCEPT !.events = {}].rows = d.rows /\ [d EXCEPT !.events = {}].events = {}
  BY DEF IsPair
<1>2. QED
  BY <1>1 DEF Below, Tables

(* What has been imported remains so. *)
LEMMA ImportedForGood ==
    ASSUME IInv, Numbered, UNCHANGED backend,
           want' = want \/ \E j \in Jobs : pc[j] = "idle" /\ \E a : want' = [want EXCEPT ![j] = a]
    PROVE  Ahead' => Ahead
<1> SUFFICES ASSUME Imported PROVE Imported'
  BY DEF Ahead
<1>1. PICK j \in Jobs : want[j] \in Uploads
  BY DEF Imported
<1>2. pc[j] # "idle"
  BY <1>1, UploadsAssumption DEF Numbered
<1>3. want'[j] = want[j]
  BY <1>2 DEF IInv, Shaped
<1>4. QED
  BY <1>1, <1>3 DEF Imported

(* Nothing is numbered and nothing published. *)
LEMMA NumberedKept ==
    ASSUME IInv, Typed, Numbered, UNCHANGED <<backend, next, db, seen, archives, want>>,
           \A p \in Processes : draft'[p] \in {draft[p], Empty},
           \A p \in Processes : pc'[p] = pc[p] \/ pc'[p] \notin {"idle", "collided"}
    PROVE  Numbered'
<1>1. (Ahead' <=> Ahead) /\ (Imported' <=> Imported)
  BY DEF Ahead, Imported
<1>2. \A p \in Processes : Below(draft[p], next) => Below(draft'[p], next)
  BY BelowEmpty
<1>3. \A j \in Jobs : pc'[j] = "idle" => pc[j] = "idle"
  BY DEF Processes
<1>4. CollidesOnlyAfterImport'
  <2>1. \A c \in Checks : pc'[c] = "collided" => pc[c] = "collided"
    BY DEF Processes
  <2>2. QED
    BY <2>1 DEF Numbered, CollidesOnlyAfterImport
<1>5. QED
  BY <1>1, <1>2, <1>3, <1>4 DEF Numbered

(* An INSERT takes the next number, and meets it in the table only if some   *)
(* of that was numbered elsewhere.                                           *)
LEMMA InsertNumbered ==
    ASSUME IInv, Typed, Typed', Numbered, NEW c \in Checks, NEW t \in Tables, NEW x, NEW label,
           x.id = NextFree(t), Insert(c, t, x, label), label \in {"write", "commit"}
    PROVE  Numbered'
<1>1. c \in Processes /\ c \notin Jobs
  BY DEF Processes
<1>2. UNCHANGED <<backend, want, seen, archives, db>>
  BY DEF Insert, Unpublished, jobVars
<1>3. (Ahead' <=> Ahead) /\ (Imported' <=> Imported)
  BY <1>2 DEF Ahead, Imported
<1>4. backend \in {"sqlite", "postgres", "mysql"}
  BY DEF IInv, Shaped
<1>5. pc = [p \in Processes |-> pc[p]] /\ draft = [p \in Processes |-> draft[p]] /\ IsPair(draft[c])
  BY <1>1 DEF IInv, Shaped
<1>6. next \in [Tables -> Nat] /\ next' \in [Tables -> Nat] /\ \A u \in Tables : next[u] <= next'[u]
  BY DEF Typed, Insert
<1>7. ASSUME Ahead PROVE x.id \notin Ids(db[t]) /\ x.id < next'[t]
  <2>1. backend # "sqlite" /\ x.id = next[t]
    BY <1>4, <1>7, NextFreeIsFree DEF Ahead
  <2>2. next'[t] = next[t] + 1
    BY <2>1 DEF Insert, Typed
  <2>3. Below(db, next)
    BY <1>7 DEF Numbered
  <2>4. ASSUME NEW y \in db[t] PROVE y.id # next[t]
    BY <1>6, <2>3 DEF Below
  <2>5. QED
    BY <1>6, <2>1, <2>2, <2>4 DEF Ids
<1>8. ASSUME Ahead PROVE \A p \in Processes : Below(draft'[p], next')
  <2>1. draft'[c] = [draft[c] EXCEPT ![t] = {x}] /\ \A p \in Processes \ {c} : draft'[p] = draft[p]
    BY <1>1, <1>5, <1>7, <1>8 DEF Insert
  <2>2. \A p \in Processes : Below(draft[p], next')
    BY <1>6, <1>8, BelowLater DEF Numbered, Typed
  <2>3. Below(draft'[c], next')
    <3>1. \A u \in Tables : draft'[c][u] = IF u = t THEN {x} ELSE draft[c][u]
      BY <1>5, <2>1 DEF IsPair, Tables
    <3>2. QED
      BY <1>1, <1>7, <1>8, <2>2, <3>1 DEF Below
  <2>4. QED
    BY <2>1, <2>2, <2>3
<1>9. \A d : IsData(d) /\ Below(d, next) => Below(d, next')
  BY <1>6, BelowLater
<1>10. \A j \in Jobs : pc'[j] = pc[j]
  BY <1>1, <1>5 DEF Insert, Close, Goto, Processes
<1>11. CollidesOnlyAfterImport'
  <2>1. CASE x.id \in Ids(db[t])
    <3>1. backend # "sqlite"
      BY <2>1, NextFreeIsFree
    <3>2. ~Ahead
      BY <1>7, <2>1
    <3>3. QED
      BY <1>2, <1>4, <3>1, <3>2 DEF Ahead, Imported, CollidesOnlyAfterImport
  <2>2. CASE x.id \notin Ids(db[t])
    <3>1. \A d \in Checks : pc'[d] = "collided" => pc[d] = "collided"
      BY <1>5, <2>2 DEF Insert, Goto, Processes
    <3>2. QED
      BY <1>2, <3>1 DEF Numbered, CollidesOnlyAfterImport
  <2>3. QED
    BY <2>1, <2>2
<1>12. IsData(db) /\ (\A j \in Jobs : IsData(seen[j])) /\ \A a \in archives : IsData(a.data)
  BY DEF Typed, IsArchive
<1>13. QED
  BY <1>2, <1>3, <1>8, <1>9, <1>10, <1>11, <1>12 DEF Numbered

(* The steps of a check. *)
LEMMA CheckNumbered ==
    ASSUME IInv, Typed, Typed', Numbered, NEW c \in Checks, Look(c) \/ CheckStep(c)
    PROVE  Numbered'
<1>1. c \in Processes /\ c \notin Jobs
  BY DEF Processes
<1>2. pc = [p \in Processes |-> pc[p]] /\ draft = [p \in Processes |-> draft[p]] /\ IsPair(db)
  BY DEF IInv, Shaped
<1>3. CASE Look(c) \/ RefuseEvent(c)
  <2>1. /\ UNCHANGED <<backend, next, db, seen, archives, want>>
        /\ \A p \in Processes : draft'[p] \in {draft[p], Empty}
        /\ \A p \in Processes : pc'[p] = pc[p] \/ pc'[p] \notin {"idle", "collided"}
    BY <1>1, <1>2, <1>3 DEF Look, RefuseEvent, Unpublished, Close, Goto, checkVars, jobVars
  <2>2. QED
    BY <2>1, NumberedKept
<1>4. CASE InsertRow(c)
  <2> DEFINE x == [id |-> NextFree("rows"), by |-> c]
  <2>1. Insert(c, "rows", x, "write") /\ x.id = NextFree("rows")
    BY <1>4 DEF InsertRow
  <2> HIDE DEF x
  <2>2. QED
    BY <2>1, InsertNumbered DEF Tables
<1>5. CASE RecordEvent(c)
  <2> DEFINE x == [id |-> NextFree("events"), result_id |-> hand[c].id, by |-> c]
  <2>1. Insert(c, "events", x, "commit") /\ x.id = NextFree("events")
    BY <1>5 DEF RecordEvent
  <2> HIDE DEF x
  <2>2. QED
    BY <2>1, InsertNumbered DEF Tables
<1>6. CASE Commit(c)
  <2>1. /\ db' = Plus(db, draft[c]) /\ UNCHANGED <<backend, next, seen, archives, want>>
        /\ \A p \in Processes : draft'[p] \in {draft[p], Empty}
        /\ \A p \in Processes : pc'[p] = pc[p] \/ pc'[p] = "done"
    BY <1>1, <1>2, <1>6 DEF Commit, Publish, Close, Goto, checkVars, jobVars
  <2>2. (Ahead' <=> Ahead) /\ (Imported' <=> Imported)
    BY <2>1 DEF Ahead, Imported
  <2>3. Ahead => Below(db', next) /\ \A p \in Processes : Below(draft'[p], next)
    BY <1>1, <1>2, <2>1, BelowParts, BelowEmpty DEF Numbered
  <2>4. CollidesOnlyAfterImport'
    BY <2>1 DEF Numbered, CollidesOnlyAfterImport, Processes
  <2>5. QED
    BY <2>1, <2>2, <2>3, <2>4 DEF Numbered, Processes
<1>7. QED
  BY <1>3, <1>4, <1>5, <1>6 DEF CheckStep

(* The steps of a job. *)
LEMMA JobNumbered ==
    ASSUME IInv, Typed, Typed', Numbered, NEW j \in Jobs, BackUp(j) \/ Restore(j) \/ JobStep(j)
    PROVE  Numbered'
<1>1. j \in Processes /\ j \notin Checks
  BY DEF Processes
<1>2. /\ pc = [p \in Processes |-> pc[p]] /\ draft = [p \in Processes |-> draft[p]]
      /\ seen = [k \in Jobs |-> seen[k]] /\ want = [k \in Jobs |-> want[k]]
      /\ IsPair(db) /\ IsPair(seen[j])
  BY DEF IInv, Shaped
<1>3. \E l \in {"rows", "events", "persist", "delete", "deleteRows", "fill", "apply", "done", "failed"} :
          pc' = [pc EXCEPT ![j] = l]
  BY DEF BackUp, Restore, JobStep, DumpRows, DumpEvents, PersistSnapshot, DeleteEvents, DeleteRows, Fill, Apply,
     Close, Goto
<1>4. \A p \in Processes : pc'[p] = pc[p] \/ (p = j /\ pc'[p] \notin {"idle", "collided"})
  BY <1>2, <1>3
<1>5. CASE BackUp(j) \/ PersistSnapshot(j) \/ DeleteEvents(j) \/ DeleteRows(j)
  <2>1. /\ UNCHANGED <<backend, next, db, seen, archives, want>>
        /\ \A p \in Processes : draft'[p] \in {draft[p], Empty}
    BY <1>2, <1>5 DEF BackUp, PersistSnapshot, DeleteEvents, DeleteRows, Close, Unpublished, checkVars, jobVars
  <2>2. QED
    BY <1>4, <2>1, NumberedKept
<1>6. ASSUME UNCHANGED <<backend, want>> PROVE CollidesOnlyAfterImport'
  BY <1>1, <1>4, <1>6 DEF Numbered, CollidesOnlyAfterImport, Processes
<1>7. CASE Restore(j)
  <2>1. pc[j] = "idle" /\ UNCHANGED <<backend, next, db, seen, archives, draft>>
    BY <1>7 DEF Restore, Unpublished, checkVars
  <2>2. PICK a : want' = [want EXCEPT ![j] = a]
    BY <1>7 DEF Restore
  <2>3. Ahead' => Ahead
    BY <2>1, <2>2, ImportedForGood
  <2>4. \A k \in Jobs : pc'[k] = "idle" => want'[k] = None
    <3> SUFFICES ASSUME NEW k \in Jobs, pc'[k] = "idle" PROVE want'[k] = None
      OBVIOUS
    <3>1. pc'[j] = "rows"
      BY <1>1, <1>2, <1>7 DEF Restore, Goto
    <3>2. k # j
      BY <3>1
    <3>3. pc[k] = "idle" /\ want'[k] = want[k]
      BY <1>2, <1>4, <2>2, <3>2 DEF Processes
    <3>4. QED
      BY <3>3 DEF Numbered
  <2>5. CollidesOnlyAfterImport'
    <3>1. \A k \in Jobs : want[k] \in Uploads => want'[k] \in Uploads
      BY <1>2, <2>1, <2>2, UploadsAssumption DEF Numbered
    <3>2. QED
      BY <1>1, <1>4, <2>1, <3>1 DEF Numbered, CollidesOnlyAfterImport, Processes
  <2>6. QED
    BY <2>1, <2>3, <2>4, <2>5 DEF Numbered
<1>8. CASE DumpRows(j)
  <2>1. UNCHANGED <<backend, next, db, archives, draft, want>>
        /\ \A k \in Jobs : seen'[k] \in {seen[k], db, [db EXCEPT !.events = {}]}
    BY <1>2, <1>8 DEF DumpRows, checkVars
  <2>2. (Ahead' <=> Ahead) /\ CollidesOnlyAfterImport'
    BY <1>6, <2>1 DEF Ahead, Imported
  <2>3. Below(db, next) => Below([db EXCEPT !.events = {}], next)
    BY <1>2, BelowOnly
  <2>4. QED
    BY <1>4, <2>1, <2>2, <2>3 DEF Numbered, Processes
<1>9. CASE DumpEvents(j)
  <2> DEFINE data == IF backend = "mysql" THEN seen[j] ELSE [seen[j] EXCEPT !.events = db.events]
  <2>1. /\ UNCHANGED <<backend, next, db, draft, want>>
        /\ seen' = [seen EXCEPT ![j] = data]
        /\ archives' \in {archives, archives \cup {Archive(j, data)}}
    BY <1>9 DEF DumpEvents, Unpublished, checkVars
  <2>2. (Ahead' <=> Ahead) /\ CollidesOnlyAfterImport'
    BY <1>6, <2>1 DEF Ahead, Imported
  <2>3. Below(db, next) /\ Below(seen[j], next) => Below(data, next)
    BY <1>2, BelowOnly
  <2> HIDE DEF data
  <2>4. Archive(j, data).data = data
    BY DEF Archive
  <2>5. \A k \in Jobs : seen'[k] \in {seen[k], data}
    BY <1>2, <2>1
  <2>6. QED
    BY <1>4, <2>1, <2>2, <2>3, <2>4, <2>5 DEF Numbered, Processes
<1>10. CASE Fill(j)
  <2> DEFINE data == want[j].data
  <2>1. want[j] # None /\ want[j] \in archives /\ pc[j] = "fill" /\ IsData(data)
    BY <1>10 DEF IInv, Staged, Fill, Typed, IsArchive
  <2>2. /\ UNCHANGED <<backend, db, seen, archives, want>>
        /\ \/ next' = next /\ \A p \in Processes : draft'[p] \in {draft[p], Empty}
           \/ /\ next' = [t \in DOMAIN next |-> AfterExplicit(t, Ids(data[t]))]
              /\ \A p \in Processes : draft'[p] \in {draft[p], data}
    BY <1>1, <1>2, <1>10 DEF Fill, Unpublished, Close
  <2>3. (Ahead' <=> Ahead) /\ CollidesOnlyAfterImport'
    BY <1>6, <2>2 DEF Ahead, Imported
  <2>4. Ahead => want[j] \in archives \ Uploads \/ backend = "mysql"
    BY <2>1 DEF Ahead, Imported
  <2> HIDE DEF data
  <2>5. CASE next' = next /\ \A p \in Processes : draft'[p] \in {draft[p], Empty}
    BY <1>4, <2>2, <2>5, NumberedKept
  <2>6. CASE /\ next' = [t \in DOMAIN next |-> AfterExplicit(t, Ids(data[t]))]
             /\ \A p \in Processes : draft'[p] \in {draft[p], data}
    <3>1. \A t \in Tables : next'[t] = AfterExplicit(t, Ids(data[t]))
      BY <2>6 DEF Typed
    <3>2. next \in [Tables -> Nat] /\ next' \in [Tables -> Nat] /\ \A t \in Tables : next[t] <= next'[t]
      <4>1. \A t \in Tables : next[t] <= next'[t]
        BY <2>1, <3>1, AfterExplicitIsAhead DEF Typed
      <4>2. QED
        BY <4>1 DEF Typed
    <3>3. \A d : IsData(d) /\ Below(d, next) => Below(d, next')
      BY <3>2, BelowLater
    <3>4. ASSUME Ahead PROVE Below(data, next')
      <4>1. CASE backend = "mysql"
        BY <2>1, <3>1, <4>1, AfterExplicitIsAhead DEF Below
      <4>2. CASE backend # "mysql"
        BY <2>1, <2>4, <3>3, <3>4, <4>2 DEF Numbered, Ahead, data
      <4>3. QED
        BY <4>1, <4>2
    <3>5. /\ IsData(db) /\ (\A p \in Processes : IsData(draft[p])) /\ (\A k \in Jobs : IsData(seen[k]))
          /\ \A a \in archives : IsData(a.data)
      BY DEF Typed, IsArchive
    <3>6. QED
      BY <1>4, <2>2, <2>3, <2>6, <3>3, <3>4, <3>5 DEF Numbered, Processes
  <2>7. QED
    BY <2>2, <2>5, <2>6
<1>11. CASE Apply(j)
  <2>1. /\ db' = Plus(Kept(j), draft[j]) /\ UNCHANGED <<backend, next, seen, archives, want>>
        /\ \A p \in Processes : draft'[p] \in {draft[p], Empty}
    BY <1>1, <1>2, <1>11 DEF Apply, Publish, Close, checkVars
  <2>2. (Ahead' <=> Ahead) /\ CollidesOnlyAfterImport'
    BY <1>6, <2>1 DEF Ahead, Imported
  <2>3. Ahead => Below(db', next)
    <3>1. IsPair(Kept(j)) /\ (Below(db, next) => Below(Kept(j), next))
      BY <1>2, Parts, BelowParts DEF Kept
    <3>2. QED
      BY <1>1, <2>1, <3>1, BelowParts DEF Numbered
  <2>4. \A p \in Processes : Below(draft[p], next) => Below(draft'[p], next)
    BY <2>1, BelowEmpty
  <2>5. QED
    BY <1>4, <2>1, <2>2, <2>3, <2>4 DEF Numbered, Processes
<1>12. QED
  BY <1>5, <1>7, <1>8, <1>9, <1>10, <1>11 DEF JobStep

(* Every step keeps the sequences ahead. *)
LEMMA NumberedStep == IInv /\ Typed /\ Numbered /\ [Next]_vars => Numbered'
<1> SUFFICES ASSUME IInv, Typed, Numbered, [Next]_vars PROVE Numbered'
  OBVIOUS
<1>1. Typed'
  BY TypedStep
<1>2. ASSUME NEW p \in Processes, Fail(p) PROVE Numbered'
  <2>1. /\ UNCHANGED <<backend, next, db, seen, archives, want>>
        /\ \A q \in Processes : draft'[q] \in {draft[q], Empty}
        /\ \A q \in Processes : pc'[q] = pc[q] \/ pc'[q] \notin {"idle", "collided"}
    BY <1>2 DEF Fail, Close, Goto, Unpublished, checkVars, IInv, Shaped
  <2>2. QED
    BY <2>1, NumberedKept
<1>3. CASE Tick \/ UNCHANGED vars
  <2>1. UNCHANGED <<backend, next, db, seen, archives, want, draft, pc>>
    BY <1>3 DEF Tick, Unpublished, vars, checkVars, jobVars
  <2>2. QED
    BY <2>1, NumberedKept
<1>4. QED
  BY <1>1, <1>2, <1>3, CheckNumbered, JobNumbered DEF Next

(* Every state is numbered. *)
LEMMA NumberedAlways == Spec => []Numbered
<1>1. Init => Numbered
  <2> SUFFICES ASSUME Init PROVE Numbered
    OBVIOUS
  <2>1. \A c \in Checks : pc[c] # "collided"
    BY DEF Init, Processes
  <2>2. QED
    BY <2>1, BelowEmpty DEF Init, Numbered, CollidesOnlyAfterImport
<1>2. QED
  BY <1>1, NumberedStep, Invariant, TypedAlways, PTL DEF Spec

(* An INSERT of a check meets an id in use only on PostgreSQL, and only if   *)
(* an archive from elsewhere was restored there: SQLite numbers after the    *)
(* rows there are and MySQL's counter passes what a restore inserts, while   *)
(* what PostgreSQL's sequence has numbered it stays ahead of                 *)
(* (backup_service.py:182-208).                                              *)
THEOREM OnlyImportsCollide == Spec => []CollidesOnlyAfterImport
<1>1. Numbered => CollidesOnlyAfterImport
  BY DEF Numbered
<1>2. QED
  BY <1>1, NumberedAlways, PTL

-----------------------------------------------------------------------------
(* Who waits for whom *)

(* Only a restore under way has deleted something, a check that has inserted *)
(* a row has it in hand, and SQLite has one writer.                          *)
Tidy ==
    /\ \A j \in Jobs : ~Replacing(j) => removed[j] = Empty
    /\ \A c \in Checks : pc[c] = "write" /\ draft[c] # Empty => hand[c] # None
    /\ backend = "sqlite" => \A p, q \in Processes : draft[p] # Empty /\ draft[q] # Empty => p = q

(* Nothing is inserted or deleted anew. *)
LEMMA TidyKept ==
    ASSUME IInv, Tidy, UNCHANGED <<backend, hand>>,
           \A j \in Jobs : removed'[j] \in {removed[j], Empty} /\ (Replacing(j) /\ ~Replacing(j)' => removed'[j] = Empty),
           \A p \in Processes : draft'[p] \in {draft[p], Empty},
           \A c \in Checks : pc'[c] = "write" => pc[c] = "write" \/ draft'[c] = Empty
    PROVE  Tidy'
<1>1. \A j \in Jobs : ~Replacing(j)' => removed'[j] = Empty
  BY DEF Tidy
<1>2. \A c \in Checks : pc'[c] = "write" /\ draft'[c] # Empty => hand'[c] # None
  BY DEF Tidy, Processes
<1>3. backend' = "sqlite" => \A p, q \in Processes : draft'[p] # Empty /\ draft'[q] # Empty => p = q
  BY DEF Tidy
<1>4. QED
  BY <1>1, <1>2, <1>3 DEF Tidy

(* A check inserts one thing, on SQLite when nobody else has.                *)
LEMMA InsertTidy ==
    ASSUME IInv, Tidy, NEW c \in Checks, NEW t \in Tables, NEW x, NEW label, Insert(c, t, x, label),
           label = "write" => hand'[c] # None, \A d \in Checks \ {c} : hand'[d] = hand[d]
    PROVE  Tidy'
<1>1. c \in Processes /\ c \notin Jobs
  BY DEF Processes
<1>2. /\ UNCHANGED <<backend, removed>>
      /\ \A p \in Processes \ {c} : pc'[p] = pc[p] /\ draft'[p] = draft[p]
      /\ \/ pc'[c] = "collided" /\ draft'[c] = Empty
         \/ pc'[c] = label
  BY <1>1 DEF Insert, Close, Goto, jobVars, IInv, Shaped
<1>3. \A j \in Jobs : ~Replacing(j)' => removed'[j] = Empty
  BY <1>1, <1>2 DEF Tidy, Replacing, Emptied, Processes
<1>4. \A d \in Checks : pc'[d] = "write" /\ draft'[d] # Empty => hand'[d] # None
  BY <1>1, <1>2 DEF Tidy, Processes
<1>5. backend = "sqlite" => \A p \in Processes \ {c} : draft[p] = Empty
  BY DEF Insert, MayInsert
<1>6. QED
  BY <1>2, <1>3, <1>4, <1>5 DEF Tidy

(* Every step is tidy. *)
LEMMA TidyStep == IInv /\ Typed /\ Tidy /\ [Next]_vars => Tidy'
<1> SUFFICES ASSUME IInv, Typed, Tidy, [Next]_vars PROVE Tidy'
  OBVIOUS
<1>1. /\ pc = [p \in Processes |-> pc[p]] /\ draft = [p \in Processes |-> draft[p]]
      /\ removed = [j \in Jobs |-> removed[j]] /\ hand = [c \in Checks |-> hand[c]]
  BY DEF IInv, Shaped
<1>2. ASSUME NEW c \in Checks, Look(c) PROVE Tidy'
  <2>1. /\ UNCHANGED <<backend, draft, removed>> /\ pc[c] = "idle" /\ draft[c] = Empty
        /\ \A p \in Processes \ {c} : pc'[p] = pc[p]
        /\ \A d \in Checks \ {c} : hand'[d] = hand[d]
    BY <1>1, <1>2 DEF Look, Goto, jobVars, IInv, Checked
  <2>2. \A j \in Jobs : ~Replacing(j)' => removed'[j] = Empty
    BY <2>1 DEF Tidy, Replacing, Emptied, Processes
  <2>3. QED
    BY <2>1, <2>2 DEF Tidy, Processes
<1>3. ASSUME NEW c \in Checks, InsertRow(c) PROVE Tidy'
  <2> DEFINE x == [id |-> NextFree("rows"), by |-> c]
  <2>1. Insert(c, "rows", x, "write") /\ hand' = [hand EXCEPT ![c] = x]
    BY <1>3 DEF InsertRow
  <2>2. x # None
    <3>1. NextFree("rows") \in Nat
      BY NextFreeIsFree DEF Tables
    <3>2. x \in Row
      BY <3>1 DEF Row
    <3>3. QED
      BY <3>2, NoneAssumption
  <2> HIDE DEF x
  <2>3. QED
    BY <1>1, <2>1, <2>2, InsertTidy DEF Tables
<1>4. ASSUME NEW c \in Checks, RecordEvent(c) PROVE Tidy'
  <2> DEFINE x == [id |-> NextFree("events"), result_id |-> hand[c].id, by |-> c]
  <2>1. Insert(c, "events", x, "commit") /\ UNCHANGED hand
    BY <1>4 DEF RecordEvent
  <2> HIDE DEF x
  <2>2. QED
    BY <2>1, InsertTidy DEF Tables
<1>5. ASSUME NEW c \in Checks, RefuseEvent(c) \/ Commit(c) PROVE Tidy'
  <2>1. /\ UNCHANGED <<backend, hand, removed>>
        /\ \A p \in Processes : draft'[p] \in {draft[p], Empty}
        /\ pc'[c] \in {"done", "failed"} /\ \A p \in Processes \ {c} : pc'[p] = pc[p]
    BY <1>1, <1>5 DEF RefuseEvent, Commit, Close, Goto, checkVars, jobVars, Processes
  <2>2. \A j \in Jobs : Replacing(j)' <=> Replacing(j)
    BY <2>1 DEF Replacing, Emptied, Processes
  <2>3. QED
    BY <2>1, <2>2, TidyKept DEF Processes
<1>6. ASSUME NEW j \in Jobs, BackUp(j) \/ Restore(j) \/ DumpRows(j) \/ DumpEvents(j) \/ PersistSnapshot(j)
      PROVE  Tidy'
  <2>1. /\ UNCHANGED <<backend, hand, removed, draft>> /\ ~Replacing(j) /\ ~Replacing(j)'
        /\ \A p \in Processes \ {j} : pc'[p] = pc[p]
    BY <1>1, <1>6 DEF BackUp, Restore, DumpRows, DumpEvents, PersistSnapshot, Goto, Replacing, Emptied, checkVars,
                      jobVars, Processes
  <2>2. \A k \in Jobs : Replacing(k)' <=> Replacing(k)
    BY <2>1 DEF Replacing, Emptied, Processes
  <2>3. QED
    BY <2>1, <2>2, TidyKept DEF Processes
<1>7. ASSUME NEW j \in Jobs, DeleteEvents(j) \/ DeleteRows(j) PROVE Tidy'
  <2>1. /\ UNCHANGED <<backend, hand>> /\ (Replacing(j)' \/ removed'[j] = Empty)
        /\ \A p \in Processes : draft'[p] \in {draft[p], Empty}
        /\ \A p \in Processes \ {j} : pc'[p] = pc[p]
        /\ \A k \in Jobs \ {j} : removed'[k] = removed[k]
    BY <1>1, <1>7 DEF DeleteEvents, DeleteRows, Close, Goto, Replacing, Emptied, Unpublished, checkVars, Processes
  <2>2. \A k \in Jobs : ~Replacing(k)' => removed'[k] = Empty
    BY <2>1 DEF Tidy, Replacing, Emptied, Processes
  <2>3. QED
    BY <2>1, <2>2 DEF Tidy, Processes
<1>8. ASSUME NEW j \in Jobs, Fill(j) PROVE Tidy'
  <2>1. /\ UNCHANGED <<backend, hand>> /\ Replacing(j)
        /\ \A p \in Processes \ {j} : pc'[p] = pc[p] /\ draft'[p] = draft[p]
        /\ \A k \in Jobs \ {j} : removed'[k] = removed[k]
        /\ Replacing(j)' \/ removed'[j] = Empty
    BY <1>1, <1>8 DEF Fill, Close, Goto, Replacing, Emptied, Processes
  <2>2. \A k \in Jobs : ~Replacing(k)' => removed'[k] = Empty
    BY <2>1 DEF Tidy, Replacing, Emptied, Processes
  <2>3. backend = "sqlite" => \A p \in Processes \ {j} : draft[p] = Empty
    <3>1. backend = "sqlite" => \A c \in Checks : draft[c] = Empty
      BY <2>1 DEF IInv, Clear
    <3>2. \A k \in Jobs \ {j} : draft[k] = Empty
      BY <2>1 DEF IInv, OneRestore, Staged, Replacing, Emptied
    <3>3. QED
      BY <3>1, <3>2 DEF Processes
  <2>4. j \notin Checks
    OBVIOUS
  <2>5. QED
    BY <2>1, <2>2, <2>3, <2>4 DEF Tidy, Processes
<1>9. ASSUME NEW j \in Jobs, Apply(j) PROVE Tidy'
  <2>1. /\ UNCHANGED <<backend, hand>>
        /\ \A p \in Processes : draft'[p] \in {draft[p], Empty}
        /\ \A p \in Processes \ {j} : pc'[p] = pc[p]
        /\ removed'[j] = Empty /\ \A k \in Jobs \ {j} : removed'[k] = removed[k]
    BY <1>1, <1>9 DEF Apply, Close, Goto, checkVars, Processes
  <2>2. \A k \in Jobs \ {j} : Replacing(k)' <=> Replacing(k)
    BY <2>1 DEF Replacing, Emptied, Processes
  <2>3. QED
    BY <2>1, <2>2, TidyKept DEF Processes
<1>10. ASSUME NEW p \in Processes, Fail(p) PROVE Tidy'
  <2>1. /\ UNCHANGED <<backend, hand>>
        /\ \A q \in Processes : draft'[q] \in {draft[q], Empty}
        /\ pc'[p] = "failed" /\ \A q \in Processes \ {p} : pc'[q] = pc[q]
        /\ \A j \in Jobs : removed'[j] = IF j = p THEN Empty ELSE removed[j]
    BY <1>1, <1>10 DEF Fail, Close, Goto, checkVars
  <2>2. \A k \in Jobs \ {p} : Replacing(k)' <=> Replacing(k)
    BY <2>1 DEF Replacing, Emptied, Processes
  <2>3. QED
    BY <2>1, <2>2, TidyKept DEF Processes
<1>11. CASE Tick \/ UNCHANGED vars
  <2>1. UNCHANGED <<backend, hand, removed, draft, pc>>
    BY <1>11 DEF Tick, vars, checkVars, jobVars
  <2>2. QED
    BY <2>1, TidyKept DEF Replacing, Emptied
<1>12. QED
  BY <1>2, <1>3, <1>4, <1>5, <1>6, <1>7, <1>8, <1>9, <1>10, <1>11 DEF Next, CheckStep, JobStep

(* A check that has inserted its row and may insert can leave its event.     *)
LEMMA OwnRowGoesOn ==
    ASSUME IInv, Tidy, NEW c \in Checks, pc[c] = "write", draft[c] # Empty, MayInsert(c, "events"),
           ~Contended("events", {NextFree("events")}, c)
    PROVE  Ready
<1>1. hand[c] # None
  BY DEF Tidy
<1>2. draft[c].rows # {}
  <2>1. IsPair(draft[c]) /\ draft[c].events = {}
    BY DEF IInv, Shaped, Checked, Processes
  <2>2. QED
    BY <2>1, EmptyPair, SamePair
<1>3. hand[c].id \in Ids(draft[c].rows)
  <2>1. PICK x \in draft[c].rows : TRUE
    BY <1>2
  <2>2. x.id = hand[c].id
    BY DEF IInv, Checked
  <2>3. QED
    BY <2>1, <2>2 DEF Ids
<1>4. ReadyToCheck(c)
  BY <1>1, <1>3 DEF ReadyToCheck
<1>5. QED
  BY <1>4 DEF Ready

(* The next number of a sequence is in nobody's way, if it is ahead.         *)
LEMMA NextIsFree ==
    ASSUME IInv, Typed, Numbered, Tidy, Ahead, NEW p \in Processes, NEW t \in Tables
    PROVE  ~Contended(t, {NextFree(t)}, p)
<1>1. NextFree(t) = next[t] /\ next[t] \in Nat
  BY NextFreeIsFree DEF Ahead, Typed
<1>2. ASSUME NEW d, IsData(d), Below(d, next) PROVE next[t] \notin Ids(d[t])
  <2>1. \A x \in d[t] : x.id \in Nat /\ x.id < next[t]
    BY <1>2, SizedIds DEF Below
  <2>2. QED
    BY <1>1, <2>1 DEF Ids
<1>3. \A q \in Processes : next[t] \notin Ids(draft[q][t])
  BY <1>2 DEF Numbered, Typed
<1>4. ASSUME NEW j \in Jobs PROVE next[t] \notin Ids(removed[j][t])
  <2>1. CASE Replacing(j)
    <3>1. removed[j].rows \subseteq db.rows /\ removed[j].events \subseteq db.events
      <4>1. CASE Emptied(j)
        BY <4>1, Parts DEF IInv, Shaped, Replaces
      <4>2. CASE pc[j] = "deleteRows"
        BY <4>2 DEF IInv, Emptying
      <4>3. QED
        BY <2>1, <4>1, <4>2 DEF Replacing
    <3>2. Below(removed[j], next)
      BY <3>1 DEF Numbered, Below, Tables
    <3>3. QED
      BY <1>2, <3>2 DEF Typed
  <2>2. CASE ~Replacing(j)
    BY <1>2, <2>2, BelowEmpty, SizedEmpty DEF Tidy
  <2>3. QED
    BY <2>1, <2>2
<1>5. ASSUME NEW q \in Processes
      PROVE  next[t] \notin Ids(draft[q][t] \cup IF q \in Jobs THEN removed[q][t] ELSE {})
  <2>1. next[t] \notin Ids({})
    BY DEF Ids
  <2>2. QED
    BY <1>3, <1>4, <2>1, IdsOfBoth
<1>6. QED
  BY <1>1, <1>5 DEF Contended

(* Where nobody else has inserted or deleted anything, nobody is in the way. *)
LEMMA NobodyInTheWay ==
    ASSUME NEW p \in Processes, NEW t \in Tables, NEW ids,
           \A q \in Processes \ {p} : draft[q] = Empty, \A j \in Jobs \ {p} : removed[j] = Empty
    PROVE  ~Contended(t, ids, p)
<1>1. Empty[t] = {}
  BY DEF Empty, Tables
<1>2. \A q \in Processes \ {p} : draft[q][t] \cup (IF q \in Jobs THEN removed[q][t] ELSE {}) = {}
  BY <1>1
<1>3. QED
  BY <1>2 DEF Contended, Ids

(* Unless a sequence is behind, or a restore on MySQL is between its DELETEs *)
(* and a check between its INSERTs, somebody can go on.                      *)
LEMMA SomebodyGoesOn ==
    ASSUME IInv, Typed, Numbered, Tidy, ~(backend = "postgres" /\ Imported), ~MySqlCircle, ~Ready
    PROVE  \A p \in Processes : pc[p] \in {"idle", "done", "failed", "collided"}
<1>1. backend \in {"sqlite", "postgres", "mysql"} /\ (Ahead \/ backend = "sqlite")
  BY DEF IInv, Shaped, Ahead
<1>2. ASSUME NEW c \in Checks
      PROVE  /\ pc[c] \in {"idle", "write", "done", "failed", "collided"}
             /\ draft[c].events = {} /\ (draft[c] # Empty => pc[c] = "write")
  BY EmptyPair DEF IInv, Checked, Ready, ReadyToCheck
<1>3. ASSUME NEW j \in Jobs
      PROVE  pc[j] \in {"idle", "delete", "deleteRows", "fill", "done", "failed"} /\ draft[j] = Empty
  BY DEF IInv, Staged, Ready, ReadyToWork
<1>4. ASSUME NEW c \in Checks, draft[c] # Empty, MayInsert(c, "events") PROVE FALSE
  <2>1. ~Contended("events", {NextFree("events")}, c)
    <3>1. CASE Ahead
      BY <3>1, NextIsFree DEF Tables, Processes
    <3>2. CASE backend = "sqlite"
      <4>1. \A q \in Processes \ {c} : draft[q] = Empty
        BY <1>4, <3>2 DEF Tidy, Processes
      <4>2. \A j \in Jobs : ~Replacing(j)
        BY <1>4, <3>2 DEF IInv, Clear
      <4>3. QED
        BY <4>1, <4>2, NobodyInTheWay DEF Tidy, Tables, Processes
    <3>3. QED
      BY <1>1, <3>1, <3>2
  <2>2. QED
    BY <1>2, <1>4, <2>1, OwnRowGoesOn
<1>5. ASSUME NEW j \in Jobs, pc[j] = "fill" PROVE FALSE
  <2>1. Emptied(j) /\ \A k \in Jobs \ {j} : removed[k] = Empty
    BY <1>5 DEF IInv, OneRestore, Replacing, Emptied, Tidy
  <2>2. CASE \A c \in Checks : draft[c] = Empty
    <3>1. \A t \in Tables : ~Contended(t, Ids(want[j].data[t]), j)
      BY <1>3, <2>1, <2>2, NobodyInTheWay DEF Processes
    <3>2. QED
      BY <1>5, <3>1 DEF Tables, Ready, ReadyToWork
  <2>3. ASSUME NEW c \in Checks, draft[c] # Empty PROVE FALSE
    <3>1. backend = "postgres"
      BY <2>1, <2>3 DEF IInv, Clear
    <3>2. QED
      BY <1>4, <2>3, <3>1 DEF MayInsert
  <2>4. QED
    BY <2>2, <2>3
<1>6. ASSUME NEW j \in Jobs, pc[j] = "deleteRows" PROVE FALSE
  <2>1. Replacing(j) /\ \A k \in Jobs \ {j} : ~Replacing(k)
    BY <1>6 DEF IInv, OneRestore, Replacing
  <2>2. ASSUME NEW c \in Checks, backend = "sqlite" PROVE draft[c] = Empty
    BY <2>1, <2>2 DEF IInv, Clear
  <2>3. ASSUME NEW c \in Checks, backend = "mysql" PROVE draft[c].rows = {}
    BY <1>2, <1>6, <2>3, EmptyPair DEF MySqlCircle
  <2>4. MayDelete(j, "rows")
    BY <1>1, <1>2, <2>1, <2>2, <2>3 DEF MayDelete
  <2>5. QED
    BY <1>6, <2>4 DEF Ready, ReadyToWork
<1>7. \A j \in Jobs : ~Replacing(j) /\ ~Emptied(j) /\ removed[j] = Empty
  BY <1>3, <1>5, <1>6 DEF Replacing, Emptied, Tidy
<1>8. ASSUME NEW c \in Checks PROVE draft[c] = Empty
  <2>1. SUFFICES ASSUME draft[c] # Empty PROVE FALSE
    OBVIOUS
  <2>2. MayInsert(c, "events")
    BY <1>7, <2>1 DEF MayInsert, Tidy, Processes
  <2>3. QED
    BY <1>4, <2>1, <2>2
<1>9. \A p \in Processes : draft[p] = Empty
  BY <1>3, <1>8 DEF Processes
<1>10. ASSUME NEW j \in Jobs, pc[j] = "delete" PROVE FALSE
  <2>1. MayDelete(j, "events")
    BY <1>7, <1>9, EmptyPair DEF MayDelete, Processes
  <2>2. QED
    BY <1>10, <2>1 DEF Ready, ReadyToWork
<1>11. ASSUME NEW c \in Checks, pc[c] = "write" PROVE FALSE
  <2>1. \A t \in Tables : MayInsert(c, t)
    BY <1>7, <1>9 DEF MayInsert
  <2>2. \A t \in Tables : \A ids : ~Contended(t, ids, c)
    BY <1>7, <1>9, NobodyInTheWay DEF Processes
  <2>3. ReadyToCheck(c)
    <3>1. CASE hand[c] = None
      BY <1>11, <2>1, <2>2, <3>1 DEF ReadyToCheck, Tables
    <3>2. CASE hand[c] # None
      <4>1. hand[c].id \in Ids(db.rows) \/ hand[c].id \notin Ids(db.rows \cup draft[c].rows)
            \/ hand[c].id \in Ids(draft[c].rows)
        BY IdsOfBoth
      <4>2. /\ ~Contended("rows", {hand[c].id}, c) /\ ~Contended("events", {NextFree("events")}, c)
            /\ MayInsert(c, "events")
        BY <2>1, <2>2 DEF Tables
      <4>3. QED
        BY <1>11, <3>2, <4>1, <4>2 DEF ReadyToCheck
    <3>3. QED
      BY <3>1, <3>2
  <2>4. QED
    BY <2>3 DEF Ready
<1>12. QED
  BY <1>2, <1>3, <1>5, <1>6, <1>10, <1>11 DEF Processes

(* Checks, backups and restores wait for each other in a circle in two cases *)
(* only, any number of them: where the ids given out are new, a check that   *)
(* has inserted waits for nobody, except on MySQL for a restore that has     *)
(* deleted the events and, in turn, waits for its row (session.py:44-55,     *)
(* backup_service.py:176-200).                                               *)
THEOREM NoDeadlock == Spec => []NobodyIsStuck
<1>1. Init => Tidy
  BY DEF Init, Tidy, Processes
<1>2. IInv /\ Typed /\ Numbered /\ Tidy => NobodyIsStuck
  BY SomebodyGoesOn DEF NobodyIsStuck, Imported
<1>3. QED
  BY <1>1, <1>2, TidyStep, NumberedAlways, Invariant, TypedAlways, PTL DEF Spec
=============================================================================
