-------------------------------- MODULE ApiStart --------------------------------
(***************************************************************************)
(* The start of the processes that share one database: main() of the API    *)
(* connects, applies the pending migrations under an advisory lock, makes   *)
(* sure of the bucket and listens; a worker does the same but for the       *)
(* migrations.  A step that fails ends the process (log.Fatal) and the      *)
(* container starts it again.                                               *)
(*                                                                          *)
(* The lock belongs to a session of PostgreSQL.  The pool keeps one idle    *)
(* connection while the process starts, so lock, migrations and unlock use  *)
(* the same session, unless that connection breaks or reaches               *)
(* connMaxLifetime in between: then the lock is gone and nobody notices.    *)
(***************************************************************************)
EXTENDS Faults, Sequences, FiniteSets

CONSTANTS
    Apis,           \* the processes that migrate
    WorkerProcs,    \* those that do not
    LastMigration,  \* the files are 1 .. LastMigration, in alphabetical order
    NoSession,      \* the advisory lock is free
    OrphanSession   \* it is held by a session whose client is gone

Procs == Apis \cup WorkerProcs
Files == 1 .. LastMigration

ASSUME StartAssumption ==
    /\ LastMigration \in Nat
    /\ NoSession \notin Procs /\ OrphanSession \notin Procs
    /\ NoSession # OrphanSession

VARIABLES
    schema,     \* the files whose statements were committed, in that order
    versions,   \* the rows of schema_migrations
    table,      \* schema_migrations exists
    lock,       \* the session that holds the advisory lock
    bucket,     \* the MinIO bucket exists
    stage,      \* the call each process is about to make
    todo        \* the files a process has yet to apply

database == <<schema, versions, table>>
vars == <<faults, schema, versions, table, lock, bucket, stage, todo>>

Stages == {"dial", "table", "create", "lock", "read", "record", "commit",
           "unlock", "bucket", "make", "serve"}

\* A new deployment, or an upgrade of one with fewer migrations.
Init ==
    /\ FaultsInit
    /\ \E n \in 0 .. LastMigration :
         /\ schema = [k \in 1 .. n |-> k] /\ versions = 1 .. n
         /\ table \in BOOLEAN /\ (n > 0 => table)
    /\ bucket \in BOOLEAN
    /\ lock = NoSession
    /\ stage = [p \in Procs |-> "dial"] /\ todo = [p \in Procs |-> {}]

-------------------------------------------------------------------------------
(* How a process goes on. *)

At(p, s) == stage[p] = s
Go(p, s) == stage' = [stage EXCEPT ![p] = s]

\* The session of p ends: its lock is released, at once or when the server
\* notices that the client is gone.
EndSession(p) == lock' \in IF lock = p THEN {NoSession, OrphanSession} ELSE {lock}

\* The process ends and is started again.  What it had not committed is gone.
Exit(p) == Go(p, "dial") /\ todo' = [todo EXCEPT ![p] = {}] /\ EndSession(p)

\* The file whose turn it is.
Current(p) == CHOOSE k \in todo[p] : \A l \in todo[p] : k <= l

\* Mutant of NextFile: the loop does not end when no file is left.
NextFileAlways(p, rest) == todo' = [todo EXCEPT ![p] = rest] /\ Go(p, "record")

\* The loop over the sorted files.
NextFile(p, rest) ==
    /\ todo' = [todo EXCEPT ![p] = rest]
    /\ Go(p, IF rest = {} THEN "unlock" ELSE "record")

-------------------------------------------------------------------------------
(* The calls of main() and Migrate, one action each. *)

\* NewRabbitMQWithRetry and database.New.
Dial(p) ==
    /\ At(p, "dial") /\ Go(p, IF p \in Apis THEN "table" ELSE "bucket")
    /\ NoFault /\ UNCHANGED <<database, lock, bucket, todo>>

\* CREATE TABLE IF NOT EXISTS looks the name up and then creates it; without
\* the lock, two sessions may both find nothing and the second one fails.
CheckTable(p) ==
    /\ At(p, "table") /\ Go(p, IF table THEN "lock" ELSE "create")
    /\ NoFault /\ UNCHANGED <<database, lock, bucket, todo>>

CreateTable(p) ==
    /\ At(p, "create")
    /\ IF table THEN Exit(p) ELSE Go(p, "lock") /\ UNCHANGED <<lock, todo>>
    /\ table' = TRUE
    /\ NoFault /\ UNCHANGED <<schema, versions, bucket>>

\* Mutant of TakeLock: pg_try_advisory_lock, and no migration without it.
TakeLockOrSkip(p) ==
    /\ At(p, "lock")
    /\ IF lock = NoSession THEN lock' = p /\ Go(p, "read")
                           ELSE Go(p, "bucket") /\ UNCHANGED lock
    /\ NoFault /\ UNCHANGED <<database, bucket, todo>>

\* pg_advisory_lock waits until the lock is free.
TakeLock(p) ==
    /\ At(p, "lock") /\ lock = NoSession
    /\ lock' = p /\ Go(p, "read")
    /\ NoFault /\ UNCHANGED <<database, bucket, todo>>

\* appliedMigrations
ReadVersions(p) ==
    /\ At(p, "read") /\ NextFile(p, Files \ versions)
    /\ NoFault /\ UNCHANGED <<database, lock, bucket>>

\* Another session has inserted the row of p's file and not yet committed.
RowPending(p) == \E q \in Procs \ {p} : At(q, "commit") /\ Current(q) = Current(p)

\* Mutant of RecordMigration: INSERT ... ON CONFLICT DO NOTHING.
RecordMigrationTwice(p) ==
    /\ At(p, "record") /\ ~RowPending(p) /\ Go(p, "commit")
    /\ NoFault /\ UNCHANGED <<database, lock, bucket, todo>>

\* Begin, the statements of the file and the INSERT, all in one transaction:
\* the row waits for one of another session and is refused if it exists.
RecordMigration(p) ==
    /\ At(p, "record") /\ ~RowPending(p)
    /\ IF Current(p) \in versions THEN Exit(p)
       ELSE Go(p, "commit") /\ UNCHANGED <<lock, todo>>
    /\ NoFault /\ UNCHANGED <<database, bucket>>

\* Mutant of CommitMigration: the row is inserted after the transaction.
CommitMigrationApart(p) ==
    /\ At(p, "commit")
    /\ schema' = Append(schema, Current(p))
    /\ \/ NextFile(p, todo[p] \ {Current(p)}) /\ NoFault /\ UNCHANGED lock
            /\ versions' = versions \cup {Current(p)}
       \/ Exit(p) /\ Fault("lost") /\ UNCHANGED versions
    /\ UNCHANGED <<table, bucket>>

\* The commit may succeed although its answer is an error.
CommitMigration(p) ==
    /\ At(p, "commit")
    /\ schema' = Append(schema, Current(p)) /\ versions' = versions \cup {Current(p)}
    /\ \/ NextFile(p, todo[p] \ {Current(p)}) /\ NoFault /\ UNCHANGED lock
       \/ Exit(p) /\ Fault("lost")
    /\ UNCHANGED <<table, bucket>>

\* The deferred pg_advisory_unlock.  On a session without the lock it is only a
\* warning, and so is its failure: then the idle connection keeps the lock.
Unlock(p) ==
    /\ At(p, "unlock") /\ Go(p, "bucket")
    /\ \/ lock' = (IF lock = p THEN NoSession ELSE lock) /\ NoFault
       \/ Fault("call") /\ UNCHANGED lock
    /\ UNCHANGED <<database, bucket, todo>>

\* Mutant of Recycle: no SetConnMaxLifetime.
RecycleNever(p) == At(p, "serve") /\ lock = p /\ FALSE /\ UNCHANGED vars

\* connMaxLifetime: the pool of a process that serves replaces its connections.
Recycle(p) ==
    /\ At(p, "serve") /\ lock = p /\ lock' = NoSession
    /\ NoFault /\ UNCHANGED <<database, bucket, stage, todo>>

\* EnsureBucket: BucketExists and MakeBucket are two calls, and the second of
\* two processes that find none is refused.
CheckBucket(p) ==
    /\ At(p, "bucket") /\ Go(p, IF bucket THEN "serve" ELSE "make")
    /\ NoFault /\ UNCHANGED <<database, lock, bucket, todo>>

MakeBucket(p) ==
    /\ At(p, "make")
    /\ IF bucket THEN Exit(p) ELSE Go(p, "serve") /\ UNCHANGED <<lock, todo>>
    /\ bucket' = TRUE
    /\ NoFault /\ UNCHANGED database

-------------------------------------------------------------------------------
(* What goes wrong. *)

\* A call fails and main() gives up (the dial only after ten attempts).
CallFails(p) ==
    /\ stage[p] \notin {"unlock", "serve"} /\ Exit(p)
    /\ Fault("call") /\ UNCHANGED <<database, bucket>>

Crash(p) == Exit(p) /\ Fault("crash") /\ UNCHANGED <<database, bucket>>

\* The connection breaks or expires.  An idle one is replaced without an error
\* at the next call; one in use fails its call.
LoseSession(p) ==
    /\ p \in Apis
    /\ IF stage[p] \in {"lock", "commit"} THEN Exit(p)
       ELSE EndSession(p) /\ UNCHANGED <<stage, todo>>
    /\ Fault("session") /\ UNCHANGED <<database, bucket>>

\* The server gives a session up whose client is gone.
OrphanEnds ==
    /\ lock = OrphanSession /\ lock' = NoSession
    /\ NoFault /\ UNCHANGED <<database, bucket, stage, todo>>

Step(p) ==
    \/ Dial(p) \/ CheckTable(p) \/ CreateTable(p) \/ TakeLock(p) \/ ReadVersions(p)
    \/ RecordMigration(p) \/ CommitMigration(p) \/ Unlock(p)
    \/ CheckBucket(p) \/ MakeBucket(p) \/ Recycle(p)

Next == \/ \E p \in Procs : Step(p) \/ CallFails(p) \/ Crash(p) \/ LoseSession(p)
        \/ OrphanEnds

Spec == Init /\ [][Next]_vars

\* A process goes on, and waiters for the lock are served in turn; the server
\* notices lost clients.  No fault has to happen.
FairSpec == /\ Spec /\ WF_vars(OrphanEnds)
            /\ \A p \in Procs : WF_vars(Step(p)) /\ SF_vars(TakeLock(p))

-------------------------------------------------------------------------------
(* Properties. *)

\* Every variable has its type, and only a process in the loop has files to apply.
TypeOK ==
    /\ faults \in Nat
    /\ schema \in Seq(Files) /\ versions \subseteq Files
    /\ table \in BOOLEAN /\ bucket \in BOOLEAN
    /\ lock \in Procs \cup {NoSession, OrphanSession}
    /\ stage \in [Procs -> Stages] /\ todo \in [Procs -> SUBSET Files]
    /\ \A p \in Procs : todo[p] # {} <=> stage[p] \in {"record", "commit"}

\* Each migration is committed once, in order, and recorded exactly if it was
\* committed, whatever dies, loses its session or runs beside another instance
\* (Migrate: "Cada migración corre dentro de una transacción junto con el
\* registro").
SchemaInOrder == /\ \A i \in 1 .. Len(schema) : schema[i] = i
                 /\ versions = 1 .. Len(schema)

\* An API that serves has every migration in its database: none gets past
\* Migrate because another instance is at it, or was interrupted.
ServesComplete == \A p \in Apis : stage[p] = "serve" => versions = Files

\* One instance applies the changes and the others wait (migrate.go:13).  Only
\* true while no session is lost.
OneMigrates == \A p, q \in Apis :
    stage[p] \in {"read", "record", "commit"} /\ stage[q] \in {"read", "record", "commit"}
        => p = q

\* What the instances do to the schema, and when they answer requests, is an
\* upgrade one migration at a time, whatever they run beside and whatever fails
\* (migrate.go 17).
Deployment == INSTANCE Upgrade WITH
    version <- Len(schema),
    serving <- {p \in Apis : stage[p] = "serve"}

UpgradeSpec == Deployment!Spec

\* Every process comes to serve and stays: no lock is left behind, and losing
\* one of the races costs a restart only.
EveryProcessServes == <>[](\A p \in Procs : stage[p] = "serve")
===============================================================================
