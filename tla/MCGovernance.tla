----------------------------- MODULE MCGovernance -----------------------------
(* What governs the records and what others see or hear of them, side by side     *)
(* for TLC.  The components share no state here, so each behaviour lets one of  *)
(* them move (focus).                                                          *)
EXTENDS Integers, Sequences, FiniteSets

CONSTANTS
  Workers,                      \* requests in flight
  \* a policy
  Values, MaxVersion, NoTx,     \* values of a column, bound of its versions, no transaction
  \* recalls
  Recallable, Campaigns,        \* records and campaigns
  Parent,                       \* record a record evolved from, or itself
  Cap, Limit,                   \* limits of the descendants and of the matching records
  \* outcomes
  Events, Window, MinDecided,   \* reports, window of a duplicate, outcomes a score needs
  MaxReports,                   \* bound: batches of reports
  \* agent actions
  Sessions, Actions, Malformed, \* sessions, actions, and those that cannot be read
  MaxBatches, MaxBatch,         \* bounds: batches and their length
  \* certificates
  Requests, Scope,              \* requests and the records they certify
  MaxReviews, MaxChanges,       \* bounds: reviews, what people change
  \* witness rounds
  Hashes, Rounds, Backends,     \* hashes of records, rounds, backends in order
  Configured,                   \* the backends the settings name
  \* capsules
  Builds, Scopes, MaxNow,       \* capsules, what they may cover, bound of the clock
  \* reviews and the merge gate
  Commands, Gates, Claims,      \* attest commands, gate calls, what a reviewer enters
  Typed, Unit, MaxMinutes,      \* seconds typed, seconds of a tick, bound of the clock
  \* exports
  Jobs, MaxAge, Ttl, MaxHours,  \* exports, age that is swept, expiry, bound of the clock
  \* webhooks
  Hooks, Threshold,             \* webhooks and their thresholds
  Notified, Scores              \* records posted, risk scores

ASSUME CampaignsAssumption == "none" \notin Campaigns
ASSUME ReportsAssumption == Window \in Nat /\ \A e \in Events : e.at \in Int
ASSUME BatchesAssumption == MaxBatch \in Nat
ASSUME HashesAssumption == Hashes \subseteq Nat /\ Hashes # {}
ASSUME BackendsAssumption == Backends \in Seq(STRING)
ASSUME ReviewsAssumption == /\ Unit \in Nat /\ Typed \subseteq Nat /\ MaxMinutes \in Nat
                            /\ \A e \in Claims : e.lines \in Nat /\ e.comments \in Nat

VARIABLES
  focus,  \* the component that moves
  poupserts, porow, poversions, potx, pooverlaps,
  rcstored, rcgraph, rcmark, rccampaign, rchandler,
  ourows, oubatch, ouanswered, ouaborted, oudelivered,
  alrows, albatch, aloverlaps, albegun,
  cepolicy, cefit, cereviews, cerequest, cefacts, cechanges,
  wistored, wiround, wianchored, wireceipts, wirewritten,
  canow, carecords, caevents, caenv, carow, calinked, cabuild,
  ganow, gastarted, gacommand, gareviews, gagate,
  exredis, exnow, exkv, extask, extold, exunsaved,
  whredis, whlist, whrequest, whsaid, whexcused, whpost

\* one outcome reported twice of a record, another of it, and one of another record
OutcomeEvents == {[record |-> 1, type |-> "survived", source |-> "ci", at |-> 0],
                  [record |-> 1, type |-> "survived", source |-> "ci", at |-> 2],
                  [record |-> 1, type |-> "reverted", source |-> "ci", at |-> 1],
                  [record |-> 2, type |-> "reverted", source |-> "manual", at |-> 1]}

\* everything, what came later, what came first, and one chosen record
CapsuleScopes == {[ids |-> {}, from |-> 0, to |-> 4], [ids |-> {}, from |-> 2, to |-> 4],
                  [ids |-> {}, from |-> 0, to |-> 2], [ids |-> {2}, from |-> 0, to |-> 4]}

ParentOf == <<1, 1, 2>>
BackendsInOrder == <<"tsa", "rekor">>
ReviewClaims == {[lines |-> 1, comments |-> 3]}
Thresholds == <<50, 70>>

Policy == INSTANCE PolicyVersions WITH
  upserts <- poupserts, row <- porow, versions <- poversions, tx <- potx, overlaps <- pooverlaps

Recalls == INSTANCE Recall WITH
  Records <- Recallable,
  stored <- rcstored, graph <- rcgraph, mark <- rcmark, campaign <- rccampaign, handler <- rchandler

Results == INSTANCE Outcomes WITH
  MaxBatches <- MaxReports, rows <- ourows, batch <- oubatch, answered <- ouanswered,
  aborted <- ouaborted, delivered <- oudelivered

Ledger == INSTANCE ActionLedger WITH
  rows <- alrows, batch <- albatch, overlaps <- aloverlaps, begun <- albegun

Certs == INSTANCE Certificates WITH
  policy <- cepolicy,
  fit <- cefit, reviews <- cereviews, request <- cerequest, facts <- cefacts, changes <- cechanges

Witnesses == INSTANCE Witness WITH
  stored <- wistored, round <- wiround, anchored <- wianchored, receipts <- wireceipts,
  rewritten <- wirewritten

Capsule == INSTANCE Capsules WITH
  now <- canow, records <- carecords,
  events <- caevents, env <- caenv, row <- carow, linked <- calinked, build <- cabuild

Gate == INSTANCE ReviewGate WITH
  MaxNow <- MaxMinutes, now <- ganow, started <- gastarted, command <- gacommand,
  reviews <- gareviews, gate <- gagate

Exports == INSTANCE ExportJobs WITH
  MaxNow <- MaxHours, redis <- exredis, now <- exnow, kv <- exkv,
  task <- extask, told <- extold, unsaved <- exunsaved

Notices == INSTANCE Webhooks WITH
  Records <- Notified, redis <- whredis,
  list <- whlist, request <- whrequest, said <- whsaid, excused <- whexcused, post <- whpost

poVars == <<poupserts, porow, poversions, potx, pooverlaps>>
rcVars == <<rcstored, rcgraph, rcmark, rccampaign, rchandler>>
ouVars == <<ourows, oubatch, ouanswered, ouaborted, oudelivered>>
alVars == <<alrows, albatch, aloverlaps, albegun>>
ceVars == <<cepolicy, cefit, cereviews, cerequest, cefacts, cechanges>>
wiVars == <<wistored, wiround, wianchored, wireceipts, wirewritten>>
caVars == <<canow, carecords, caevents, caenv, carow, calinked, cabuild>>
gaVars == <<ganow, gastarted, gacommand, gareviews, gagate>>
exVars == <<exredis, exnow, exkv, extask, extold, exunsaved>>
whVars == <<whredis, whlist, whrequest, whsaid, whexcused, whpost>>

vars == <<focus, poVars, rcVars, ouVars, alVars, ceVars, wiVars, caVars, gaVars, exVars, whVars>>

Init == /\ focus \in {"po", "rc", "ou", "al", "ce", "wi", "ca", "ga", "ex", "wh"}
        /\ Policy!Init
        /\ Recalls!Init
        /\ Results!Init
        /\ Ledger!Init
        /\ Certs!Init
        /\ Witnesses!Init
        /\ Capsule!Init
        /\ Gate!Init
        /\ Exports!Init
        /\ Notices!Init
        /\ focus # "po" => ~poupserts
        /\ focus # "rc" => rcstored = {} /\ rcgraph = "up"
        /\ focus # "ce" => cepolicy = [rules |-> {"fit"}, active |-> TRUE] /\ cefit = [r \in Scope |-> TRUE]
        /\ focus # "wi" => wistored = {}
        /\ focus # "ca" => caenv = "active"
        /\ focus # "ex" => ~exredis
        /\ focus # "wh" => ~whredis

\* only the component in focus moves
PolicyKeeps == UNCHANGED <<focus, rcVars, ouVars, alVars, ceVars, wiVars, caVars, gaVars, exVars, whVars>>
RecallsKeeps == UNCHANGED <<focus, poVars, ouVars, alVars, ceVars, wiVars, caVars, gaVars, exVars, whVars>>
ResultsKeeps == UNCHANGED <<focus, poVars, rcVars, alVars, ceVars, wiVars, caVars, gaVars, exVars, whVars>>
LedgerKeeps == UNCHANGED <<focus, poVars, rcVars, ouVars, ceVars, wiVars, caVars, gaVars, exVars, whVars>>
CertsKeeps == UNCHANGED <<focus, poVars, rcVars, ouVars, alVars, wiVars, caVars, gaVars, exVars, whVars>>
WitnessesKeeps == UNCHANGED <<focus, poVars, rcVars, ouVars, alVars, ceVars, caVars, gaVars, exVars, whVars>>
CapsuleKeeps == UNCHANGED <<focus, poVars, rcVars, ouVars, alVars, ceVars, wiVars, gaVars, exVars, whVars>>
GateKeeps == UNCHANGED <<focus, poVars, rcVars, ouVars, alVars, ceVars, wiVars, caVars, exVars, whVars>>
ExportsKeeps == UNCHANGED <<focus, poVars, rcVars, ouVars, alVars, ceVars, wiVars, caVars, gaVars, whVars>>
NoticesKeeps == UNCHANGED <<focus, poVars, rcVars, ouVars, alVars, ceVars, wiVars, caVars, gaVars, exVars>>

Next == \/ focus = "po" /\ Policy!Next /\ PolicyKeeps
        \/ focus = "rc" /\ Recalls!Next /\ RecallsKeeps
        \/ focus = "ou" /\ Results!Next /\ ResultsKeeps
        \/ focus = "al" /\ Ledger!Next /\ LedgerKeeps
        \/ focus = "ce" /\ Certs!Next /\ CertsKeeps
        \/ focus = "wi" /\ Witnesses!Next /\ WitnessesKeeps
        \/ focus = "ca" /\ Capsule!Next /\ CapsuleKeeps
        \/ focus = "ga" /\ Gate!Next /\ GateKeeps
        \/ focus = "ex" /\ Exports!Next /\ ExportsKeeps
        \/ focus = "wh" /\ Notices!Next /\ NoticesKeeps

Spec == Init /\ [][Next]_vars

-------------------------------------------------------------------------------
\* Every component keeps to its types.
TypeOK == /\ Policy!TypeOK
          /\ Recalls!TypeOK
          /\ Results!TypeOK
          /\ Ledger!TypeOK
          /\ Certs!TypeOK
          /\ Witnesses!TypeOK
          /\ Capsule!TypeOK
          /\ Gate!TypeOK
          /\ Exports!TypeOK
          /\ Notices!TypeOK

(* Policies, patched or put *)
\* However updates of a policy overlap, its versions are one numbered history, and without
\* overlapping updates the last version is the policy in force.
PolicyHistory == Policy!OneHistory /\ Policy!VersionInForce

(* Recalls *)
\* A campaign marks nothing it did not freeze when it was opened, a graph that does not
\* answer never reads as one without descendants, and a record leaves quarantine only by a
\* clearance of its campaign or a campaign that froze it too.
RecallsHold == []Recalls!FrozenScope /\ Recalls!BlastHonest /\ Recalls!QuarantineHolds

(* Outcomes *)
\* No answer lets a report be forgotten, doubles come from overlapping requests alone, and
\* a double leaves the durability score where it was.
OutcomesCounted == []Results!AnsweredKept /\ []Results!DoublesOverlap /\ Results!DoublesWeighNothing

(* Evidence *)
\* What is shown to others stands: action chains fork only where batches overlapped,
\* certificates say what was true, a witnessed root gives a rewriting away, the verdict on
\* a capsule is what happened to its records, and the merge gate passes on a review that
\* stands and on time that was spent on it.
EvidenceStands == /\ Ledger!LinksKept /\ Ledger!ForksOverlap /\ Certs!CertifiedFacts
                  /\ Witnesses!RewriteShows /\ Capsule!CapsuleHonest
                  /\ Gate!GateSound /\ Gate!OwnTime

(* Exports and webhooks *)
\* A background export in progress has a task and a finished one stays; the list of webhooks
\* is what administrators were told, and each eligible one is posted to once.
DeliveriesHonest == /\ []Exports!ProgressIsReal /\ Exports!FinishedStays
                    /\ []Notices!ListAsTold /\ []Notices!PostedOnce

(* Not a property of the code: a statement of its documentation *)
\* The version a policy that is patched points to has the text of the policy.
PolicyNoDrift == ~poupserts => Policy!NoDrift


===============================================================================
