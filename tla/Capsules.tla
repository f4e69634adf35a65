------------------------------- MODULE Capsules -------------------------------
(***************************************************************************)
(* Evidence capsules and the offline verifier.  A build reads its sections  *)
(* one after the other in a live database: the records first, then the      *)
(* lifecycle events, then the key registry, and signs what it collected.    *)
(* Records arrive, are redacted and deleted meanwhile, keys are registered  *)
(* and revoked, and whoever owns the database may rewrite or drop rows.     *)
(* Sections the verifier does not look into are left out.                   *)
(***************************************************************************)
EXTENDS Naturals, Sequences, SequencesExt, FiniteSetsExt, Filters

CONSTANTS
  Builds,    \* capsule requests
  Scopes,    \* the options they may name: [ids, from, to]; no ids is every record
  MaxNow     \* bound on the changes of the database, which are also its clock

VARIABLES
  now,
  records,   \* rows of the workspace in the order of their id
  events,    \* lifecycle events, oldest first
  env,       \* status of the signing key in the settings
  row,       \* its row in the database registry, or NoRow
  linked,    \* ids the newest record leads to, stored or not
  build      \* each request and the capsule it makes

vars == <<now, records, events, env, row, linked, build>>

NoRow == [status |-> "none", at |-> 0]
Null == <<>>

\* compute_record_hash, as a term
HashOf(id, text, prev) == <<id, text, prev>>

Waiting == [pc |-> "records", scope |-> CHOOSE s \in Scopes : TRUE, recs |-> <<>>, events |-> <<>>,
            signed |-> TRUE, key |-> NoRow, at |-> 0, altered |-> "none", missing |-> {}]

Init == /\ now = 0 /\ records = <<>> /\ events = <<>> /\ linked = {}
        /\ env \in {"active", "retired"} /\ row = NoRow
        /\ build = [b \in Builds |-> Waiting]

-------------------------------------------------------------------------------
\* The database moves on.

Tick == now < MaxNow /\ now' = now + 1

Ingest ==
  LET prev == IF records = <<>> THEN Null ELSE Last(records).hash
      id == now + 1
  IN /\ Tick
     /\ records' = Append(records, [id |-> id, at |-> now + 1, prev |-> prev, text |-> "own",
                                    hash |-> HashOf(id, "own", prev), digest |-> "own",
                                    state |-> "active", forged |-> FALSE])
     /\ linked' = linked \cup {id}
     /\ UNCHANGED <<events, env, row, build>>

\* apply_lifecycle_event: the text goes, the digests are committed to, the hashes stay
Lifecycle(type) == \E i \in DOMAIN records :
  /\ records[i].state \in (IF type = "redaction" THEN {"active"} ELSE {"active", "redacted"})
  /\ Tick
  /\ events' = Append(events, [id |-> records[i].id, type |-> type, digest |-> records[i].digest, at |-> now + 1])
  /\ records' = [records EXCEPT ![i].text = "", ![i].forged = FALSE,
                                ![i].state = IF type = "redaction" THEN "redacted" ELSE "deleted"]
  /\ UNCHANGED <<env, row, linked, build>>

\* the owner of the database rewrites a row: the text that is left, or the digest
Rewrite == \E i \in DOMAIN records :
  /\ ~records[i].forged
  /\ Tick
  /\ records' = [records EXCEPT ![i].forged = TRUE,
                   ![i].text = IF records[i].state = "active" THEN "other" ELSE @,
                   ![i].digest = IF records[i].state = "active" THEN @ ELSE IF @ = "own" THEN "other" ELSE "own"]
  /\ UNCHANGED <<events, env, row, linked, build>>

\* ... or drops it: from the end of the chain, nothing points to it
Drop == \E i \in DOMAIN records :
  /\ Tick
  /\ records' = RemoveAt(records, i)
  /\ linked' = IF i < Len(records) THEN linked
               ELSE {id \in linked : i > 1 /\ id <= records[i - 1].id}
  /\ UNCHANGED <<events, env, row, build>>

Register == /\ row = NoRow /\ Tick
            /\ row' = [status |-> "active", at |-> 0]
            /\ UNCHANGED <<records, events, env, linked, build>>

\* a second revocation is not refused and moves the time of the first
Revoke == /\ row # NoRow /\ Tick
          /\ row' = [status |-> "compromised", at |-> now + 1]
          /\ UNCHANGED <<records, events, env, linked, build>>

-------------------------------------------------------------------------------
\* A capsule is built.

InRange(t, s) == s.from <= t /\ t <= s.to

\* _resolve_records: chosen records whatever their date, or those of the range
Selected(s) == Kept(records, {r \in Range(records) : IF s.ids # {} THEN r.id \in s.ids
                                                                     ELSE InRange(r.at, s)})

\* ids the last selected record leads to and that were not selected
Missing(recs) == IF recs = <<>> THEN {}
                 ELSE {id \in linked : id <= Last(recs).id} \ {recs[i].id : i \in DOMAIN recs}

ReadRecords(b) ==
  /\ build[b].pc = "records"
  /\ \E s \in Scopes :
       build' = [build EXCEPT ![b] = [Waiting EXCEPT !.pc = "events", !.scope = s, !.recs = Selected(s),
                                                     !.missing = Missing(Selected(s))]]
  /\ UNCHANGED <<now, records, events, env, row, linked>>

\* list_events_for_workspace, whatever records were chosen; a signature is checked against
\* the registry of the settings only
ReadEvents(b) ==
  /\ build[b].pc = "events"
  /\ build' = [build EXCEPT ![b].pc = "registry", ![b].signed = (env # "retired"),
                 ![b].events = Kept(events, {e \in Range(events) : InRange(e.at, build[b].scope)})]
  /\ UNCHANGED <<now, records, events, env, row, linked>>

\* load_registry_from_db: a row stands before the entry of the settings
ReadRegistry(b) ==
  /\ build[b].pc = "registry"
  /\ build' = [build EXCEPT ![b].pc = "sign",
                 ![b].key = IF row # NoRow THEN row ELSE [status |-> env, at |-> 0]]
  /\ UNCHANGED <<now, records, events, env, row, linked>>

\* generatedAt, the signature and the manifest
Sign(b) == /\ build[b].pc = "sign"
           /\ build' = [build EXCEPT ![b].pc = "signed", ![b].at = now]
           /\ UNCHANGED <<now, records, events, env, row, linked>>

\* the zip changes hands: its document, the key it names, or a file of it
Alter(b) == /\ build[b].pc = "signed" /\ build[b].altered = "none"
            /\ \E part \in {"document", "keyId", "file"} : build' = [build EXCEPT ![b].altered = part]
            /\ UNCHANGED <<now, records, events, env, row, linked>>

Next == \/ Ingest \/ Lifecycle("redaction") \/ Lifecycle("deletion") \/ Rewrite \/ Drop
        \/ Register \/ Revoke
        \/ \E b \in Builds : ReadRecords(b) \/ ReadEvents(b) \/ ReadRegistry(b) \/ Sign(b) \/ Alter(b)

Spec == Init /\ [][Next]_vars

-------------------------------------------------------------------------------
\* The verifier, which sees the capsule c only.

\* verify_chain on an entry: recomputed, or backed by the event of its state
EntryOk(c, r) ==
  LET matching == Kept(c.events, {e \in Range(c.events) : e.id = r.id
                              /\ e.type = IF r.state = "deleted" THEN "deletion" ELSE "redaction"})
  IN IF r.state = "active" THEN HashOf(r.id, r.text, r.prev) = r.hash
     ELSE matching # <<>> /\ c.signed /\ Last(matching).digest = r.digest

\* mutant: the links are not compared
ChainOkUnlinked(c) == \A i \in DOMAIN c.recs : EntryOk(c, c.recs[i])

ChainOk(c) == \A i \in DOMAIN c.recs :
  /\ EntryOk(c, c.recs[i])
  /\ c.recs[i].prev = IF i = 1 THEN Null ELSE c.recs[i - 1].hash

\* verify_key_trust, from the registry the capsule carries
KeyStatus(c) == IF c.key.status = "retired" THEN "retired"
                ELSE IF c.key.at > 0 /\ c.at >= c.key.at THEN "compromised" ELSE "valid"

Redacted(c) == \E i \in DOMAIN c.recs : c.recs[i].state # "active"

\* verify_capsule: signature first, then manifest and chain, then the key
Verdict(c) ==
  IF c.altered = "keyId" THEN "unverifiable"
  ELSE IF c.altered \in {"document", "file"} \/ ~ChainOk(c) THEN "tampered"
  ELSE IF KeyStatus(c) # "valid" THEN "expired_or_compromised_key"
  ELSE IF Redacted(c) THEN "valid_with_redactions" ELSE "valid"

-------------------------------------------------------------------------------
TypeOK == /\ now \in 0..MaxNow /\ linked \subseteq 1..MaxNow
          /\ \A b \in Builds : /\ build[b].scope \in Scopes /\ build[b].at <= now
                               /\ build[b].missing \subseteq linked \cup 1..now

\* "verifies, fully offline, that the evidence is genuine" whatever went on while the capsule
\* was built: the verdict of a signed capsule nobody altered is tampered exactly when a
\* selected record was rewritten since its last lifecycle event, the chain leads to a record
\* that is not there, or the event of a redacted record lies outside the range or was
\* signed by a retired key; a key revoked before the registry was read is always reported.
CapsuleHonest == \A b \in Builds : build[b].pc = "signed" =>
  LET c == build[b]
      unbacked == \E i \in DOMAIN c.recs : c.recs[i].state # "active" /\
        (\/ ~c.signed
         \/ \A j \in DOMAIN events : events[j].id = c.recs[i].id /\ InRange(events[j].at, c.scope)
                 => (events[j].type = "deletion") # (c.recs[i].state = "deleted"))
  IN /\ c.altered = "none" =>
          (Verdict(c) = "tampered" <=> \/ \E i \in DOMAIN c.recs : c.recs[i].forged
                                       \/ c.missing # {} \/ unbacked)
     /\ c.altered # "none" => Verdict(c) \in {"tampered", "unverifiable"}
     /\ c.key.status # "active" => Verdict(c) \notin {"valid", "valid_with_redactions"}
===============================================================================
