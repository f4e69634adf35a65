------------------------------ MODULE ExportJobs ------------------------------
(* Background exports: POST /export/async stores a pending job in the key-value *)
(* store and starts a task that writes the file and stores the job again; the   *)
(* client polls and downloads.  The store is a dictionary of the process, swept *)
(* when an export is started, or Redis, whose keys expire; Redis may fail, and  *)
(* the process may stop at any await.                                           *)
EXTENDS Naturals

CONSTANTS Jobs,    \* exports asked for
          MaxAge,  \* max_age_seconds of cleanup_old_jobs, in steps of the clock
          Ttl,     \* ttl of RedisStore.set, in steps of the clock
          MaxNow   \* bound of the clock

VARIABLES
  redis,    \* whether the store is Redis
  now,
  kv,       \* the stored jobs
  task,     \* the tasks of this process, with their job objects
  told,     \* what the client of a job was last told
  unsaved   \* jobs whose task was stopped, or could not store its end

vars == <<redis, now, kv, task, told, unsaved>>

Final == {"done", "failed"}
Absent == [status |-> "absent", full |-> FALSE, completed |-> 0, set |-> 0]
NoTask == [st |-> "none"]

Init == /\ redis \in BOOLEAN
        /\ now = 0
        /\ kv = [j \in Jobs |-> Absent]
        /\ task = [j \in Jobs |-> NoTask]
        /\ told = [j \in Jobs |-> "nothing"]
        /\ unsaved = {}

\* a job as the store keeps it from now on
Entry(status, full, completed) ==
  [status |-> status, full |-> full, completed |-> completed, set |-> now]

\* mutant: the age of a job is not looked at
SweptAny(j) == ~redis /\ kv[j].status \in Final

\* finished jobs of the dictionary that are too old; Redis is not swept
Swept(j) == ~redis /\ kv[j].status \in Final /\ now - kv[j].completed > MaxAge

\* the records are read and the dictionary is swept, then the job is stored, then its task made
Start(j) ==
  /\ told[j] = "nothing"
  /\ kv' = [i \in Jobs |-> IF i = j THEN Entry("pending", FALSE, 0)
                           ELSE IF Swept(i) THEN Absent ELSE kv[i]]
  /\ \E f \in {"json", "csv", "parquet"}, some \in BOOLEAN :
       task' = [task EXCEPT ![j] = [st |-> "created", format |-> f, some |-> some]]
  /\ told' = [told EXCEPT ![j] = "pending"]
  /\ UNCHANGED <<redis, now, unsaved>>

\* json and csv are written at once, csv of no records as nothing; parquet in a thread
Run(j) ==
  /\ task[j].st = "created"
  /\ task' = [task EXCEPT ![j] =
       IF @.format = "parquet" THEN [st |-> "writing"]
       ELSE [st |-> "storing", status |-> "done", full |-> @.format = "json" \/ @.some,
             completed |-> now]]
  /\ UNCHANGED <<redis, now, kv, told, unsaved>>

\* the thread ends: the file, or an exception (pyarrow is missing, a column has two types)
Written(j) ==
  /\ task[j].st = "writing"
  /\ \E s \in Final :
       task' = [task EXCEPT ![j] = [st |-> "storing", status |-> s, full |-> s = "done",
                                    completed |-> now]]
  /\ UNCHANGED <<redis, now, kv, told, unsaved>>

\* the finally of run_export_job
Store(j) ==
  /\ task[j].st = "storing"
  /\ kv' = [kv EXCEPT ![j] = Entry(task[j].status, task[j].full, task[j].completed)]
  /\ task' = [task EXCEPT ![j] = NoTask]
  /\ UNCHANGED <<redis, now, told, unsaved>>

\* Redis fails: the task ends with the error and the stored job stays as it was
StoreFails(j) ==
  /\ redis /\ task[j].st = "storing"
  /\ task' = [task EXCEPT ![j] = NoTask]
  /\ unsaved' = unsaved \cup {j}
  /\ UNCHANGED <<redis, now, kv, told>>

\* the process stops: the dictionary goes with it; a task cancelled while its thread writes
\* may still store its job, which says running
Stop ==
  /\ \E J \in SUBSET {j \in Jobs : redis /\ task[j].st = "writing"} :
       kv' = [j \in Jobs |-> IF ~redis THEN Absent
                             ELSE IF j \in J THEN Entry("running", FALSE, 0) ELSE kv[j]]
  /\ unsaved' = unsaved \cup {j \in Jobs : task[j] # NoTask}
  /\ task' = [j \in Jobs |-> NoTask]
  /\ UNCHANGED <<redis, now, told>>

Expired(j) == redis /\ kv[j] # Absent /\ now - kv[j].set >= Ttl

Expire(j) == /\ Expired(j)
             /\ kv' = [kv EXCEPT ![j] = Absent]
             /\ UNCHANGED <<redis, now, task, told, unsaved>>

\* GET of the status
Poll(j) == /\ told[j] # "nothing"
           /\ told' = [told EXCEPT ![j] = kv[j].status]
           /\ UNCHANGED <<redis, now, kv, task, unsaved>>

\* GET of the file: a job that is done and empty is answered as an error
Download(j) ==
  /\ told[j] # "nothing"
  /\ told' = [told EXCEPT ![j] = IF kv[j].status # "done" THEN kv[j].status
                                 ELSE IF kv[j].full THEN "served" ELSE "no output"]
  /\ UNCHANGED <<redis, now, kv, task, unsaved>>

Tick == /\ now < MaxNow
        /\ now' = now + 1
        /\ UNCHANGED <<redis, kv, task, told, unsaved>>

Next == \/ Tick \/ Stop
        \/ \E j \in Jobs : \/ Start(j) \/ Run(j) \/ Written(j) \/ Store(j) \/ StoreFails(j)
                           \/ Expire(j) \/ Poll(j) \/ Download(j)

Spec == Init /\ [][Next]_vars

-------------------------------------------------------------------------------
\* Jobs and tasks keep to their types.
TypeOK == /\ redis \in BOOLEAN /\ now \in 0..MaxNow /\ unsaved \subseteq Jobs
          /\ \A j \in Jobs :
               /\ kv[j].status \in {"absent", "pending", "running", "done", "failed"}
               /\ kv[j].full => kv[j].status = "done"
               /\ task[j].st \in {"none", "created", "writing", "storing"}
               /\ told[j] \in {"nothing", "absent", "pending", "running", "done", "failed",
                               "served", "no output"}

\* A job that reads as in progress has a task that will end it, unless its task was stopped
\* or could not store its end (run_export_job).
ProgressIsReal == \A j \in Jobs : kv[j].status \in {"pending", "running"} =>
                                    task[j] # NoTask \/ j \in unsaved

\* A finished job is what every later poll reads, until it is an hour old or its key expires,
\* or the process and its dictionary are gone (cleanup_old_jobs, RedisStore).
FinishedStays ==
  [][\A j \in Jobs : kv[j].status \in Final /\ kv'[j] # kv[j] =>
       /\ kv'[j] = Absent
       /\ IF redis THEN now - kv[j].set >= Ttl
          ELSE now - kv[j].completed > MaxAge \/ task' = [i \in Jobs |-> NoTask]]_vars

===============================================================================
