----------------------------- MODULE Revisions -----------------------------
(***************************************************************************)
(* What becomes a revision of one address, and what the diff of two shows: *)
(* the mapping of a raw answer (app/providers/mailboxlayer/mapping.py), the*)
(* hash that decides about a new row (app/db/repository.py) and the diff   *)
(* (app/services/history_service.py).                                      *)
(*                                                                         *)
(* A JSON value is the text that json.dumps gives it.  The hash is taken of*)
(* that text; the diff compares Python values, where true, 1 and 1.0 are   *)
(* equal.                                                                  *)
(***************************************************************************)
EXTENDS SequencesExt

CONSTANTS
    Answers,       \* raw answers of mailboxlayer; a field left out is "null"
    Spellings,     \* of the address
    MaxRevisions,  \* bound
    None

VARIABLES
    revisions,     \* the stored results of the address, oldest first
    latest         \* (history) the result of the last check

revisionVars == <<revisions, latest>>

RevisionsInit == revisions = <<>> /\ latest = None

-----------------------------------------------------------------------------
Signals == {"format_valid", "mx_found", "smtp_check", "catch_all", "disposable", "did_you_mean", "score"}

(* cached and source vary too, but not among results that are stored *)
Fields == Signals \cup {"email_raw", "verdict", "reason", "checked_at"}

(* The fields the hash leaves out and those the diff leaves out: two lists,  *)
(* in two files.                                                             *)
VolatileFields == {"checked_at"}

(* mutation: a field is added to one of the lists only *)
VolatileAndSpelling == {"checked_at", "email_raw"}

Volatile == {"checked_at"}

(* "is True" and "is False" hold of the JSON literals only *)
DeriveVerdict(raw) ==
    IF raw.format_valid = "false" THEN <<"undeliverable", "invalid address format">>
    ELSE IF raw.mx_found = "false" THEN <<"undeliverable", "no MX record for domain">>
    ELSE IF "true" \in {raw.catch_all, raw.disposable} THEN <<"risky", "catch-all or disposable domain">>
    ELSE IF raw.smtp_check = "true" THEN <<"deliverable", "null">>
    ELSE <<"unknown", "insufficient signals from upstream">>

ToSchema(raw, email_raw, now) ==
    [f \in Fields |->
        CASE f = "verdict" -> DeriveVerdict(raw)[1]
          [] f = "reason" -> DeriveVerdict(raw)[2]
          [] f = "email_raw" -> email_raw
          [] f = "checked_at" -> now
          [] f = "did_you_mean" -> IF raw[f] = "" THEN "null" ELSE raw[f]
          [] OTHER -> raw[f]]

Times == {"then", "now"}

ASSUME RevisionsAssumption ==
    /\ MaxRevisions \in Nat
    /\ \A raw \in Answers, email_raw \in Spellings, now \in Times : ToSchema(raw, email_raw, now) # None

ResultHash(result) == [f \in Fields \ VolatileFields |-> result[f]]

(* a check that reached mailboxlayer, and insert_if_changed *)
Check ==
    \E raw \in Answers, email_raw \in Spellings, now \in Times :
        LET result == ToSchema(raw, email_raw, now)
            unchanged == revisions # <<>> /\ ResultHash(Last(revisions)) = ResultHash(result)
        IN  /\ unchanged \/ Len(revisions) < MaxRevisions
            /\ latest' = result
            /\ revisions' = IF unchanged THEN revisions ELSE Append(revisions, result)

(* Python's equality of JSON values *)
Value(text) == CASE text \in {"true", "1", "1.0"} -> "1" [] text \in {"false", "0", "0.0"} -> "0" [] OTHER -> text

(* HistoryService.diff *)
Diff(a, b) == {f \in Fields \ Volatile : Value(a[f]) # Value(b[f])}

-----------------------------------------------------------------------------
RevisionsTypeOK ==
    /\ \A n \in DOMAIN revisions : DOMAIN revisions[n] = Fields
    /\ Len(revisions) <= MaxRevisions
    /\ (latest = None) = (revisions = <<>>)

Respelled(a, b) == {f \in Fields \ Volatile : a[f] # b[f] /\ Value(a[f]) = Value(b[f])}

(* Two revisions in a row differ in something their diff shows, unless only  *)
(* the text of a value changed, as from 1 to 1.0; and the newest one differs *)
(* in nothing the diff shows from what the last check said, whether that     *)
(* check added it or found it there.  The hash decides the one, the diff the *)
(* other, and each has a list of its own of what it leaves out               *)
(* (repository.py:25-32, 55-57, history_service.py:21, 86-92).               *)
HashAgreesWithDiff ==
    /\ \A n \in 2..Len(revisions) :
           LET a == revisions[n - 1]
               b == revisions[n]
           IN  Diff(a, b) # {} \/ Respelled(a, b) # {}
    /\ latest # None => Diff(Last(revisions), latest) = {}
=============================================================================
