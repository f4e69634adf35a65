------------------------------- MODULE Webhooks -------------------------------
(* Webhooks of a workspace: administrators register and delete them, the list   *)
(* is one value of the key-value store and is read and written back whole, and   *)
(* every ingested record with a risk score starts a task that posts to those    *)
(* whose threshold it meets.  In the dictionary of the process reading and      *)
(* writing is one step; in Redis requests overlap, and the list expires.        *)
EXTENDS Naturals, Sequences, FiniteSets, SequencesExt, Filters

CONSTANTS Hooks,      \* webhooks ever registered
          Threshold,  \* the risk threshold of each
          Records,    \* records ingested
          Scores      \* risk scores of a record

VARIABLES
  redis,     \* whether the store is Redis
  list,      \* the stored list
  request,   \* of each webhook: the request of an administrator about it
  said,      \* what an administrator was told last of a webhook
  excused,   \* webhooks set back by an overlapping write, or gone with their list
  post       \* of each record: the task that posts it

vars == <<redis, list, request, said, excused, post>>

NoRequest == [op |-> "none"]
NoTask == [st |-> "none"]

Init == /\ redis \in BOOLEAN
        /\ list = <<>>
        /\ request = [h \in Hooks |-> NoRequest]
        /\ said = [h \in Hooks |-> "nothing"]
        /\ excused = {}
        /\ post = [r \in Records |-> NoTask]

\* the new list of a request that read seen
Changed(op, h, seen) == IF op = "register" THEN Append(seen, h)
                        ELSE Kept(seen, Hooks \ {h})

\* the address is accepted and the list read; a webhook that is not listed cannot be deleted
Read(op, h) ==
  /\ request[h] = NoRequest
  /\ IF op = "register" THEN said[h] = "nothing"
     ELSE said[h] # "nothing" /\ h \in ToSet(list)
  /\ request' = [request EXCEPT ![h] = [op |-> op, seen |-> list]]
  /\ UNCHANGED <<redis, list, said, excused, post>>

\* what a write of q sets back to what q had read
Undone(q) == (ToSet(q.seen) \ ToSet(list)) \cup (ToSet(list) \ ToSet(q.seen))

\* the list is written back; in the dictionary nothing came between
Write(h) ==
  LET q == request[h]
  IN /\ q # NoRequest
     /\ list' = Changed(q.op, h, q.seen)
     /\ request' = [request EXCEPT ![h] = NoRequest]
     /\ said' = [said EXCEPT ![h] = q.op]
     /\ excused' = excused \cup Undone(q)
     /\ UNCHANGED <<redis, post>>

Request(h) == \E op \in {"register", "delete"} :
  /\ redis \/ \A g \in Hooks : request[g] = NoRequest
  /\ Read(op, h)

\* Redis does not answer, before or after it wrote; the address of a new one was refused
Fail(h) ==
  LET q == request[h]
  IN /\ redis /\ q # NoRequest
     /\ \/ UNCHANGED <<list, excused>>
        \/ list' = Changed(q.op, h, q.seen) /\ excused' = excused \cup Undone(q) \cup {h}
     /\ request' = [request EXCEPT ![h] = NoRequest]
     /\ said' = [said EXCEPT ![h] = IF q.op = "register" THEN "failed" ELSE @]
     /\ UNCHANGED <<redis, post>>

\* two hours without a write
Expire == /\ redis /\ list # <<>>
          /\ list' = <<>>
          /\ excused' = excused \cup ToSet(list)
          /\ UNCHANGED <<redis, request, said, post>>

Lost(p) == IF p.st = "posting" THEN [p EXCEPT !.st = "lost"] ELSE p

\* the process stops: its tasks end, and its dictionary
Stop == /\ list # <<>> /\ \A h \in Hooks : request[h] = NoRequest
        /\ list' = IF redis THEN list ELSE <<>>
        /\ excused' = IF redis THEN excused ELSE excused \cup ToSet(list)
        /\ post' = [r \in Records |-> Lost(post[r])]
        /\ UNCHANGED <<redis, request, said>>

Eligible(s) == Kept(list, {h \in Hooks : s >= Threshold[h]})

\* a stored record starts its task, which reads the list once
Trigger(r) ==
  /\ post[r] = NoTask
  /\ \E s \in Scores :
       post' = [post EXCEPT ![r] = [st |-> "posting", score |-> s, todo |-> Eligible(s),
                                    asked |-> ToSet(Eligible(s)), sent |-> <<>>,
                                    gone |-> {h \in Hooks : said[h] = "delete"} \ excused]]
  /\ UNCHANGED <<redis, list, request, said, excused>>

\* one post after the other; a timeout or an error is logged and the next one follows
Post(r) ==
  /\ post[r].st = "posting" /\ post[r].todo # <<>>
  /\ post' = [post EXCEPT ![r].todo = Tail(@), ![r].sent = Append(@, Head(post[r].todo))]
  /\ UNCHANGED <<redis, list, request, said, excused>>

Done(r) == /\ post[r].st = "posting" /\ post[r].todo = <<>>
           /\ post' = [post EXCEPT ![r].st = "done"]
           /\ UNCHANGED <<redis, list, request, said, excused>>

\* Redis does not answer: the task ends with the error
TriggerFails(r) == /\ redis /\ post[r] = NoTask
                   /\ post' = [post EXCEPT ![r] = [st |-> "lost"]]
                   /\ UNCHANGED <<redis, list, request, said, excused>>

Next == \/ Expire \/ Stop
        \/ \E h \in Hooks : Request(h) \/ Write(h) \/ Fail(h)
        \/ \E r \in Records : Trigger(r) \/ TriggerFails(r) \/ Done(r) \/ Post(r)

Spec == Init /\ [][Next]_vars

-------------------------------------------------------------------------------
\* Requests and tasks keep to their types.
TypeOK == /\ redis \in BOOLEAN
          /\ list \in Seq(Hooks)
          /\ \A h \in Hooks : request[h] = NoRequest \/ request[h].op \in {"register", "delete"}
          /\ said \in [Hooks -> {"nothing", "register", "delete", "failed"}]
          /\ excused \subseteq Hooks
          /\ \A r \in Records : post[r].st \in {"none", "posting", "done", "lost"}

\* The list is what the administrators were told, each webhook once, but for webhooks whose
\* requests overlapped in Redis and lists that expired (register_webhook, delete_webhook).
ListAsTold ==
  /\ IsInjective(list)
  /\ \A h \in Hooks \ excused : h \in ToSet(list) <=> said[h] = "register"

\* When the task of a record has ended, every webhook it found eligible was posted to once,
\* whatever the ones before it answered, and none whose threshold the score does not meet or
\* whose deletion had been answered before (trigger_webhooks).
PostedOnce ==
  \A r \in Records : post[r].st = "done" =>
    LET p == post[r]
    IN /\ IsInjective(p.sent)
       /\ ToSet(p.sent) = p.asked
       /\ \A h \in ToSet(p.sent) : p.score >= Threshold[h] /\ h \notin p.gone

===============================================================================
