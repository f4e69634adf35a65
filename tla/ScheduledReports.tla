----------------------------- MODULE ScheduledReports -----------------------------
(***************************************************************************)
(* Scheduled reports: the loop of a server process selects what is due and  *)
(* executes one report after the other; users run, change and delete them   *)
(* meanwhile.  A report is moved to its next date before it is sent, so that *)
(* one that cannot be sent does not stay due.                                *)
(***************************************************************************)
EXTENDS Naturals, Sequences, FiniteSets, SequencesExt

CONSTANTS
  Reports,    \* reports
  Servers,    \* server processes, each with a loop
  Manual,     \* users run reports by hand
  MaxPeriod,  \* bound: dates of a report
  MaxChanges  \* bound: crashes, and changes and runs by users

VARIABLES
  report,   \* rows: enabled, the period next_run_at stands for, and whether it is due
  queue,    \* what is left of the selection of a loop
  job,      \* the report a loop executes: the period it took
  manual,   \* reports that run by hand: whether they were sent
  sent,     \* mails of each period
  changes   \* crashes, changes and manual runs so far

vars == <<report, queue, job, manual, sent, changes>>

NoJob == [report |-> "none", period |-> 0]
NoRow == [enabled |-> FALSE, period |-> 0, due |-> FALSE]

Init == /\ report = [r \in Reports |-> [enabled |-> TRUE, period |-> 1, due |-> FALSE]]
        /\ queue = [s \in Servers |-> <<>>]
        /\ job = [s \in Servers |-> NoJob]
        /\ manual = [r \in Reports |-> "no"]
        /\ sent = [r \in Reports |-> [p \in 1..MaxPeriod |-> 0]]
        /\ changes = 0

Selected == {r \in Reports : report[r].enabled /\ report[r].due}

\* the next date comes
Due(r) ==
  /\ report[r].period \in 1..MaxPeriod /\ ~report[r].due
  /\ report' = [report EXCEPT ![r].due = TRUE]
  /\ UNCHANGED <<queue, job, manual, sent, changes>>

\* _run_due_reports: the selection
Tick(s) ==
  /\ queue[s] = <<>> /\ job[s] = NoJob /\ Selected # {}
  /\ queue' = [queue EXCEPT ![s] = SetToSeq(Selected)]
  /\ UNCHANGED <<report, job, manual, sent, changes>>

\* mutant: the next date is counted from the last one, which is still in the past
AdvancedFromDue(r) == [report[r] EXCEPT !.period = IF @ > MaxPeriod THEN @ ELSE @ + 1]

\* the next period; the one after MaxPeriod stands for all later ones
Advanced(r) == [report[r] EXCEPT !.period = IF @ > MaxPeriod THEN @ ELSE @ + 1, !.due = FALSE]

JobOf(r) == IF report[r].enabled THEN [report |-> r, period |-> report[r].period] ELSE NoJob

\* _execute_report: it reads the row again, looks at enabled but not at the date, and
\* commits the next date
Take(s) ==
  /\ queue[s] # <<>> /\ job[s] = NoJob
  /\ LET r == Head(queue[s]) IN
       /\ report' = IF report[r].enabled THEN [report EXCEPT ![r] = Advanced(r)] ELSE report
       /\ job' = [job EXCEPT ![s] = JobOf(r)]
  /\ queue' = [queue EXCEPT ![s] = Tail(@)]
  /\ UNCHANGED <<manual, sent, changes>>

Count(r, p) == IF p \in 1..MaxPeriod THEN [sent EXCEPT ![r][p] = @ + 1] ELSE sent

\* the mail goes out
Send(s) ==
  /\ job[s] # NoJob
  /\ sent' = Count(job[s].report, job[s].period)
  /\ job' = [job EXCEPT ![s] = NoJob]
  /\ UNCHANGED <<report, queue, manual, changes>>

\* no SMTP host, no recipients, or an exception that is logged: the loop goes on
SendFails(s) ==
  /\ job[s] # NoJob
  /\ job' = [job EXCEPT ![s] = NoJob]
  /\ UNCHANGED <<report, queue, manual, sent, changes>>

\* the process stops: what it took and did not send is lost
Crash(s) ==
  /\ changes < MaxChanges /\ changes' = changes + 1
  /\ queue' = [queue EXCEPT ![s] = <<>>] /\ job' = [job EXCEPT ![s] = NoJob]
  /\ UNCHANGED <<report, manual, sent>>

\* run_report_now: sends first, also a report that is disabled
RunSends(r) ==
  /\ Manual /\ manual[r] = "no" /\ report[r].period \in 1..MaxPeriod
  /\ changes < MaxChanges /\ changes' = changes + 1
  /\ manual' = [manual EXCEPT ![r] = "sent"]
  /\ sent' \in {sent, Count(r, report[r].period)}
  /\ UNCHANGED <<report, queue, job>>

\* run_report_now: then the next date is committed, counted from now; a failure before
\* leaves the report as it was, a report that is gone stays gone
RunEnds(r) ==
  /\ manual[r] = "sent"
  /\ manual' = [manual EXCEPT ![r] = "no"]
  /\ report' \in {report, IF report[r] = NoRow THEN report ELSE [report EXCEPT ![r] = Advanced(r)]}
  /\ UNCHANGED <<queue, job, sent, changes>>

\* update_scheduled_report: on or off, or another frequency, which sets a new date
Change(r) ==
  /\ changes < MaxChanges /\ changes' = changes + 1 /\ report[r] # NoRow
  /\ report' \in {[report EXCEPT ![r].enabled = ~@], [report EXCEPT ![r].due = FALSE]}
  /\ UNCHANGED <<queue, job, manual, sent>>

\* delete_scheduled_report
Delete(r) ==
  /\ changes < MaxChanges /\ changes' = changes + 1
  /\ report' = [report EXCEPT ![r] = NoRow]
  /\ UNCHANGED <<queue, job, manual, sent>>

Next == \/ \E r \in Reports : Due(r) \/ RunSends(r) \/ RunEnds(r) \/ Change(r) \/ Delete(r)
        \/ \E s \in Servers : Tick(s) \/ Take(s) \/ Send(s) \/ SendFails(s) \/ Crash(s)

\* the loops run and a mail is sent or fails in the end
Loops == \A s \in Servers : /\ WF_vars(Tick(s)) /\ WF_vars(Take(s))
                            /\ WF_vars(Send(s) \/ SendFails(s))

Spec == Init /\ [][Next]_vars /\ Loops

-------------------------------------------------------------------------------
\* Type invariant.
TypeOK == /\ \A r \in Reports : report[r].period \in 0..MaxPeriod + 1
          /\ \A s \in Servers : Len(queue[s]) <= Cardinality(Reports)
                                /\ job[s].report \in Reports \cup {"none"}

\* With one server and nobody running reports by hand, no period is mailed twice, whatever
\* crashes, fails or is changed.
MailedOnce == (Cardinality(Servers) = 1 /\ ~Manual) =>
                \A r \in Reports, p \in 1..MaxPeriod : sent[r][p] <= 1

\* A report that is due does not stay due: one that cannot be sent, or a crash, holds up
\* neither itself nor the others.
DueHandled == \A r \in Reports : (report[r].enabled /\ report[r].due) ~>
                                 ~(report[r].enabled /\ report[r].due)
===============================================================================
