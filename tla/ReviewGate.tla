------------------------------ MODULE ReviewGate ------------------------------
(* Human reviews of one change: the attest command of the extension with its    *)
(* tracker of the time spent, POST /review/attest, and the gate a CI job asks    *)
(* before it merges.  Commands may overlap, be cancelled, or lose their answer; *)
(* created_at is the start of the transaction, so rows may commit in another    *)
(* order than their times.  The scope ref and the workspace are one.            *)
EXTENDS Naturals, FiniteSets

CONSTANTS Commands,  \* runs of the attest command
          Gates,     \* calls of the merge gate
          Claims,    \* what a reviewer enters: [lines, comments]
          Typed,     \* seconds a reviewer may type over the measured ones
          Unit,      \* seconds of one step of the clock
          MaxNow     \* bound of the clock

VARIABLES now, started, command, reviews, gate

vars == <<now, started, command, reviews, gate>>

Rank == [shallow |-> 0, adequate |-> 1, deep |-> 2]
Verdicts == {"approved", "changes_requested"}
Idle == [st |-> "idle"]

Lesser(a, b) == IF a < b THEN a ELSE b

\* the score times 5 * max(lines, 1): time to 40, comments to 30, coverage to 30
Score(lines, seconds, comments) ==
  LET lr == IF lines = 0 THEN 1 ELSE lines
  IN 40 * Lesser(seconds, 5 * lr) + 50 * lr * Lesser(comments, 3) + 3 * lr * Lesser(lines, 50)

Depth(lines, seconds, comments) ==
  LET lr == IF lines = 0 THEN 1 ELSE lines
      raw == Score(lines, seconds, comments)
  IN CASE seconds < lr -> "shallow"
       [] seconds >= lr /\ raw >= 350 * lr -> "deep"
       [] seconds >= lr /\ raw < 350 * lr /\ raw >= 175 * lr -> "adequate"
       [] OTHER -> "shallow"

Init == /\ now = 0
        /\ started = MaxNow + 1  \* the tracker is not running
        /\ command = [c \in Commands |-> Idle]
        /\ reviews = {}
        /\ gate = [g \in Gates |-> Idle]

Running == started <= MaxNow
Seconds == IF Running THEN Unit * (now - started) ELSE 0

Underway(c) == command[c].st \in {"prompt", "posted", "open", "stored"}

\* the tracker starts unless it already shows seconds; the boxes of a command that still
\* asks are closed by the new ones
Invoke(c) ==
  /\ command[c].st = "idle"
  /\ started' = IF Seconds = 0 THEN now ELSE started
  /\ command' = [d \in Commands |->
       CASE d = c -> [st |-> "prompt", invoked |-> now,
                      after |-> {e \in Commands : command[e].st \notin {"idle", "answered"}}]
         [] d # c /\ command[d].st = "prompt" -> [st |-> "ended"]
         [] OTHER -> command[d]]
  /\ UNCHANGED <<now, reviews, gate>>

\* any of the boxes is closed without an entry: the tracker runs on
Cancel(c) == /\ command[c].st = "prompt"
             /\ command' = [command EXCEPT ![c] = [st |-> "ended"]]
             /\ UNCHANGED <<now, started, reviews, gate>>

Submit(c) ==
  /\ command[c].st = "prompt"
  /\ \E e \in Claims, v \in Verdicts, s \in Typed \cup {Seconds} :
       command' = [command EXCEPT ![c] =
         [st |-> "posted", invoked |-> @.invoked, after |-> @.after,
          from |-> IF Running THEN started ELSE now, measured |-> s = Seconds,
          lines |-> e.lines, comments |-> e.comments, seconds |-> s, verdict |-> v]]
  /\ UNCHANGED <<now, started, reviews, gate>>

\* the first statement of the request: its now() is the created_at of the row
Begin(c) ==
  /\ command[c].st = "posted"
  /\ command' = [command EXCEPT ![c] = [st |-> "open", at |-> now, review |-> @]]
  /\ UNCHANGED <<now, started, reviews, gate>>

\* the attestation, the review and the audit row commit together
Record(c) ==
  LET r == command[c].review
  IN /\ command[c].st = "open"
     /\ reviews' = reviews \cup
          {[by |-> c, at |-> command[c].at, stored |-> now, verdict |-> r.verdict,
            lines |-> r.lines, seconds |-> r.seconds, measured |-> r.measured,
            from |-> r.from, invoked |-> r.invoked, after |-> r.after,
            depth |-> Depth(r.lines, r.seconds, r.comments)]}
     /\ command' = [command EXCEPT ![c] = [st |-> "stored"]]
     /\ UNCHANGED <<now, started, gate>>

\* the answer resets the tracker, whichever command runs it now
Answer(c) == /\ command[c].st = "stored"
             /\ command' = [command EXCEPT ![c] = [st |-> "answered"]]
             /\ started' = MaxNow + 1
             /\ UNCHANGED <<now, reviews, gate>>

\* the request fails before or after its commit, or its answer is lost: no reset
Fail(c) == /\ command[c].st \in {"posted", "open", "stored"}
           /\ command' = [command EXCEPT ![c] = [st |-> "ended"]]
           /\ UNCHANGED <<now, started, reviews, gate>>

Latest == {r \in reviews : \A q \in reviews : q.at <= r.at}

Passes(r, min) == r.verdict = "approved" /\ Rank[r.depth] >= Rank[min]

\* one read decides; the audit row and the answer repeat it
Ask(g) ==
  /\ gate[g].st = "idle"
  /\ \E min \in {"adequate", "deep"} :
       \/ reviews = {} /\ gate' = [gate EXCEPT ![g] = [st |-> "answered", passed |-> FALSE]]
       \/ \E r \in Latest :
            gate' = [gate EXCEPT ![g] = [st |-> "answered", passed |-> Passes(r, min), min |-> min,
                                         review |-> r, seen |-> reviews]]
  /\ UNCHANGED <<now, started, command, reviews>>

Tick == /\ now < MaxNow
        /\ now' = now + 1
        /\ UNCHANGED <<started, command, reviews, gate>>

Next == \/ Tick
        \/ \E c \in Commands : \/ Invoke(c) \/ Cancel(c) \/ Submit(c) \/ Begin(c)
                               \/ Record(c) \/ Answer(c) \/ Fail(c)
        \/ \E g \in Gates : Ask(g)

Spec == Init /\ [][Next]_vars

-------------------------------------------------------------------------------
\* Reviews and clocks keep to their types.
TypeOK == /\ now \in 0..MaxNow
          /\ started \in 0..(MaxNow + 1)
          /\ \A c \in Commands : command[c].st \in {"idle", "prompt", "posted", "open", "stored",
                                                    "answered", "ended"}
          /\ \A r \in reviews : r.depth \in DOMAIN Rank /\ r.verdict \in Verdicts
          /\ \A g \in Gates : gate[g].st \in {"idle", "answered"}

\* The gate passes a change only on an approving review that no other review, begun after
\* this one was stored, had replaced when the gate read, and never on one that claims less
\* than a second a line (compute_depth_signal, get_review_status, review_gate).
GateSound ==
  \A g \in Gates : gate[g].st # "idle" /\ gate[g].passed =>
    LET r == gate[g].review
    IN /\ r.verdict = "approved"
       /\ \A q \in gate[g].seen : q.at <= r.stored
       /\ r.seconds >= r.lines /\ r.seconds > 0
       /\ gate[g].min = "deep" => r.depth = "deep"

\* Measured seconds are those of the command that signs them, unless an earlier command of
\* the window was cancelled, failed, or still under way (startReview, reset).
OwnTime == \A r \in reviews : r.measured /\ r.from < r.invoked => r.after # {}

===============================================================================
