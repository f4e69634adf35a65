------------------------------ MODULE Certificates ------------------------------
(***************************************************************************)
(* Eligibility certificates: issue_certificate reads the policy, then the   *)
(* records of the scope, then the latest review of each record in turn, and *)
(* signs what it found.  Reviewers, scans and admins go on meanwhile; a     *)
(* certificate is not looked at again when they do.                         *)
(***************************************************************************)
EXTENDS Naturals, Sequences, FiniteSets, SequencesExt, Filters

CONSTANTS
  Requests,    \* certificate requests, each served once
  Scope,       \* records of the scope
  MaxReviews,  \* bound on the review entries
  MaxChanges   \* bound on what reviewers, scans and admins do

VARIABLES
  policy,      \* the policy row: its rules and whether it is active
  fit,         \* whether a record passes the risk, license and model rules
  reviews,     \* review entries by updated_at, oldest first
  request,     \* the requests and what they have read
  facts,       \* what was true of each record while the request ran
  changes

vars == <<policy, fit, reviews, request, facts, changes>>

Rules == {"fit", "review", "unknown_pass"}
Statuses == {"pending", "approved", "rejected", "deferred"}

NotRead == [pc |-> "start", rules |-> {}, records |-> {}, todo |-> {}, eligible |-> TRUE]

\* _get_review_status: the entry of the record updated last; "deferred" is not known to it
Status(r) == LET E == Kept(reviews, [record : {r}, status : Statuses]) IN
  IF E = <<>> \/ Last(E).status = "deferred" THEN "unknown" ELSE Last(E).status

\* what a rule set makes of a status
Passes(rules, s) == \/ "review" \notin rules
                    \/ s = "approved"
                    \/ s = "unknown" /\ "unknown_pass" \in rules

InForce(r) == LET I == {i \in DOMAIN reviews : reviews[i].record = r} IN
  IF I = {} THEN "unknown"
  ELSE LET s == reviews[CHOOSE i \in I : \A j \in I : j <= i].status
       IN IF s = "deferred" THEN "unknown" ELSE s

Init == /\ policy \in {[rules |-> R, active |-> a] : R \in {{"fit"}, Rules, Rules \ {"unknown_pass"}},
                                                     a \in BOOLEAN}
        /\ fit \in [Scope -> BOOLEAN]
        /\ reviews = <<>>
        /\ request = [q \in Requests |-> NotRead]
        /\ facts = [q \in Requests |-> [r \in Scope |-> [status |-> {}, fit |-> {}]]]
        /\ changes = 0

Running(q) == request[q].pc \in {"policy", "reviews"}

\* a fact observed from outside while requests run
Noted(Q, s, f) == facts' = [q \in Requests |->
  IF q \in Q THEN [r \in Scope |-> [status |-> facts[q][r].status \cup {s[r]},
                                    fit |-> facts[q][r].fit \cup {f[r]}]]
  ELSE facts[q]]

AllInForce == [r \in Scope |-> InForce(r)]

\* create_certificate: the active policy, or 404
ReadPolicy(q) ==
  /\ request[q].pc = "start"
  /\ request' = [request EXCEPT ![q].pc = IF policy.active THEN "policy" ELSE "refused",
                                ![q].rules = IF policy.active THEN policy.rules ELSE {}]
  /\ Noted(IF policy.active THEN {q} ELSE {}, AllInForce, fit)
  /\ UNCHANGED <<policy, fit, reviews, changes>>

\* the records of the scope, as they are now, and the rules that need nothing else
ReadRecords(q) ==
  /\ request[q].pc = "policy"
  /\ request' = [request EXCEPT ![q].pc = "reviews", ![q].records = Scope, ![q].todo = Scope,
       ![q].eligible = Scope # {} /\ ("fit" \in request[q].rules => \A r \in Scope : fit[r])]
  /\ UNCHANGED <<policy, fit, reviews, facts, changes>>

\* the review of one record
ReadReview(q) == \E r \in request[q].todo :
  /\ request[q].pc = "reviews"
  /\ request' = [request EXCEPT ![q].todo = @ \ {r},
                                ![q].eligible = @ /\ Passes(request[q].rules, Status(r))]
  /\ UNCHANGED <<policy, fit, reviews, facts, changes>>

\* attestation, certificate and audit row, one commit; an ineligible one is not signed
Issue(q) == /\ request[q].pc = "reviews" /\ request[q].todo = {}
            /\ request' = [request EXCEPT ![q].pc = "issued"]
            /\ UNCHANGED <<policy, fit, reviews, facts, changes>>

\* the request fails before its commit
Lost(q) == /\ Running(q)
           /\ request' = [request EXCEPT ![q].pc = "refused"]
           /\ UNCHANGED <<policy, fit, reviews, facts, changes>>

-------------------------------------------------------------------------------
Change == changes < MaxChanges /\ changes' = changes + 1 /\ UNCHANGED request

\* what is in force after the change counts for the requests that run
Observed == facts' = [q \in Requests |->
  IF Running(q) THEN [r \in Scope |-> [status |-> facts[q][r].status \cup {InForce(r)'},
                                       fit |-> facts[q][r].fit \cup {fit'[r]}]]
  ELSE facts[q]]

\* POST /reviews
CreateReview == \E r \in Scope :
  /\ Change /\ Len(reviews) < MaxReviews
  /\ reviews' = Append(reviews, [record |-> r, status |-> "pending"])
  /\ UNCHANGED <<policy, fit>> /\ Observed

\* PATCH /reviews/{id}: any status follows any other, and updated_at moves
UpdateReview == \E i \in DOMAIN reviews, s \in Statuses :
  /\ Change /\ s # reviews[i].status
  /\ reviews' = Append(RemoveAt(reviews, i), [reviews[i] EXCEPT !.status = s])
  /\ UNCHANGED <<policy, fit>> /\ Observed

\* DELETE /reviews/{id}: the entry below counts again, or none
DeleteReview == \E i \in DOMAIN reviews :
  /\ Change /\ reviews' = RemoveAt(reviews, i)
  /\ UNCHANGED <<policy, fit>> /\ Observed

\* a scan or a risk update writes another result
Rescan == \E r \in Scope :
  /\ Change /\ fit' = [fit EXCEPT ![r] = ~@]
  /\ UNCHANGED <<policy, reviews>> /\ Observed

\* PUT /indemnity/policy replaces name, rules and active
UpsertPolicy == \E R \in {{"fit"}, Rules, Rules \ {"unknown_pass"}}, a \in BOOLEAN :
  /\ Change /\ policy' = [rules |-> R, active |-> a]
  /\ UNCHANGED <<fit, reviews, facts>>

Next == \/ \E q \in Requests : \/ ReadPolicy(q) \/ ReadRecords(q) \/ ReadReview(q)
                               \/ Issue(q) \/ Lost(q)
        \/ CreateReview \/ UpdateReview \/ DeleteReview \/ Rescan \/ UpsertPolicy

Spec == Init /\ [][Next]_vars

-------------------------------------------------------------------------------
TypeOK == /\ policy.rules \subseteq Rules /\ policy.active \in BOOLEAN
          /\ \A i \in DOMAIN reviews : reviews[i].record \in Scope /\ reviews[i].status \in Statuses
          /\ \A q \in Requests :
               /\ request[q].pc \in {"start", "policy", "reviews", "issued", "refused"}
               /\ request[q].todo \subseteq request[q].records

\* A signed certificate says of every record of its scope what was true of it at some
\* moment of the request, under the rules that were active when it began, and one that is
\* refused names a rule that was broken at some moment: reviews are read one by one and
\* may change in between, but an old or another entry never counts
\* (indemnity_service.py:90, :156-204).
CertifiedFacts == \A q \in Requests : request[q].pc = "issued" =>
  LET ok(r) == {s \in facts[q][r].status : Passes(request[q].rules, s)}
      needsFit == "fit" \in request[q].rules IN
  IF request[q].eligible
  THEN \A r \in Scope : ok(r) # {} /\ (needsFit => TRUE \in facts[q][r].fit)
  ELSE \/ Scope = {}
       \/ \E r \in Scope : \/ ok(r) # facts[q][r].status
                           \/ needsFit /\ FALSE \in facts[q][r].fit
===============================================================================
