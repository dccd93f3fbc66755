---------------------------- MODULE ApiStartProofs ----------------------------
(***************************************************************************)
(* Theorems about ApiStart, for any number of instances, workers, migration *)
(* files and faults.                                                        *)
(*                                                                          *)
(* The order of the migrations does not depend on the lock, which a lost    *)
(* session releases, but on the primary key of schema_migrations: what a     *)
(* process has yet to apply is a final part of the files, and it gets past   *)
(* the INSERT only if that part begins where the schema ends.                *)
(***************************************************************************)
EXTENDS ApiStart, TLAPS

\* What p has yet to apply begins at file m.
Begins(p, m) == m \in Files /\ todo[p] = m .. LastMigration

\* A process applies the files that are missing, or some that another one has
\* applied since it read the versions; its INSERT succeeds for the next file only.
Pending == \A p \in Procs : At(p, "record") \/ At(p, "commit") =>
    \E m \in Files : /\ Begins(p, m) /\ m <= Len(schema) + 1
                     /\ At(p, "commit") => m = Len(schema) + 1

OneCommits == \A p, q \in Procs : At(p, "commit") /\ At(q, "commit") => p = q

\* Whoever is past Migrate found, or left, nothing to apply.
PastMigrate == \A p \in Apis :
    stage[p] \in {"unlock", "bucket", "make", "serve"} => versions = Files

StartInv == TypeOK /\ SchemaInOrder /\ Pending /\ OneCommits /\ PastMigrate

-------------------------------------------------------------------------------
\* The file whose turn it is, and what is left after it.
LEMMA CurrentIsFirst ==
    ASSUME NEW p, NEW m, Begins(p, m)
    PROVE  Current(p) = m /\ todo[p] \ {Current(p)} = (m + 1) .. LastMigration
<1>1. m \in todo[p] /\ \A l \in todo[p] : m <= l
  BY StartAssumption DEF Begins, Files
<1>2. \A k \in todo[p] : (\A l \in todo[p] : k <= l) => k = m
  BY <1>1, StartAssumption DEF Begins, Files
<1>3. Current(p) = m
  BY <1>1, <1>2 DEF Current
<1>4. QED
  BY <1>3, StartAssumption DEF Begins, Files

\* The schema is a beginning of the files.
LEMMA SchemaIsBeginning ==
    ASSUME TypeOK, SchemaInOrder
    PROVE  Len(schema) \in 0 .. LastMigration
<1>1. Len(schema) \in Nat /\ \A i \in 1 .. Len(schema) : schema[i] \in Files
  BY DEF TypeOK
<1>2. Len(schema) > 0 => schema[Len(schema)] = Len(schema) /\ schema[Len(schema)] \in Files
  BY <1>1 DEF SchemaInOrder
<1>3. QED
  BY <1>1, <1>2, StartAssumption DEF Files

-------------------------------------------------------------------------------
\* The initial states.
LEMMA StartInit == Init => StartInv
<1> SUFFICES ASSUME Init PROVE StartInv
  OBVIOUS
<1>1. PICK n \in 0 .. LastMigration :
        schema = [k \in 1 .. n |-> k] /\ versions = 1 .. n /\ table \in BOOLEAN
  BY DEF Init
<1>2. schema \in Seq(Files) /\ Len(schema) = n /\ versions \subseteq Files
  BY <1>1, StartAssumption DEF Files
<1>3. table \in BOOLEAN
  BY <1>1
<1>4. SchemaInOrder
  BY <1>1, <1>2, StartAssumption DEF SchemaInOrder
<1>5. /\ faults \in Nat /\ lock = NoSession /\ bucket \in BOOLEAN
      /\ stage \in [Procs -> Stages] /\ todo \in [Procs -> SUBSET Files]
      /\ \A p \in Procs : stage[p] = "dial" /\ todo[p] = {}
  BY DEF Init, FaultsInit, Stages
<1>6. TypeOK
  BY <1>2, <1>3, <1>5 DEF TypeOK
<1>7. Pending /\ OneCommits /\ PastMigrate
  BY <1>5 DEF Pending, OneCommits, PastMigrate, At, Procs
<1>8. QED
  BY <1>4, <1>6, <1>7 DEF StartInv

\* What a step of p keeps if it changes no migration: p stays out of the loop
\* unless it reads the versions, and gets past Migrate only if nothing is missing.
LEMMA OutsideTheLoop ==
    ASSUME StartInv, NEW p \in Procs, NEW s \in Stages \ {"record", "commit"},
           Go(p, s), todo' = [todo EXCEPT ![p] = {}],
           UNCHANGED <<schema, versions>>,
           table' \in BOOLEAN, bucket' \in BOOLEAN, faults' \in Nat,
           lock' \in Procs \cup {NoSession, OrphanSession},
           p \in Apis /\ s \in {"unlock", "bucket", "make", "serve"} => versions = Files
    PROVE  StartInv'
<1> USE DEF StartInv, TypeOK, Go
<1>1. TypeOK'
  OBVIOUS
<1>2. SchemaInOrder'
  BY DEF SchemaInOrder
<1>3. Pending'
  BY DEF Pending, Begins, At
<1>4. OneCommits'
  BY DEF OneCommits, At
<1>5. PastMigrate'
  BY DEF PastMigrate, Procs
<1>6. QED
  BY <1>1, <1>2, <1>3, <1>4, <1>5

-------------------------------------------------------------------------------
\* The INSERT of p succeeds only for the file after the schema's last.
LEMMA RecordStep ==
    ASSUME StartInv, NEW p \in Procs, At(p, "record"), ~RowPending(p),
           Current(p) \notin versions, Go(p, "commit"),
           UNCHANGED <<faults, schema, versions, table, lock, bucket, todo>>
    PROVE  StartInv'
<1> USE DEF StartInv, TypeOK, Go
<1>1. PICK m \in Files : Begins(p, m) /\ m <= Len(schema) + 1
  BY DEF Pending
<1>2. m = Len(schema) + 1 /\ Current(p) = m
  BY <1>1, CurrentIsFirst, SchemaIsBeginning DEF SchemaInOrder, Files
<1>3. \A q \in Procs \ {p} : ~At(q, "commit")
  <2> SUFFICES ASSUME NEW q \in Procs \ {p}, At(q, "commit") PROVE FALSE
    OBVIOUS
  <2>1. PICK l \in Files : Begins(q, l) /\ l = Len(schema) + 1
    BY DEF Pending
  <2>2. Current(q) = Current(p)
    BY <1>2, <2>1, CurrentIsFirst
  <2>3. QED
    BY <2>2 DEF RowPending
<1>4. TypeOK'
  BY DEF At, Stages
<1>5. SchemaInOrder'
  BY DEF SchemaInOrder
<1>6. Pending'
  <2> SUFFICES ASSUME NEW q \in Procs, (At(q, "record") \/ At(q, "commit"))'
               PROVE  \E l \in Files : /\ Begins(q, l)' /\ l <= Len(schema) + 1
                                       /\ At(q, "commit")' => l = Len(schema) + 1
    BY DEF Pending
  <2>1. CASE q = p
    BY <1>1, <1>2, <2>1 DEF Begins
  <2>2. CASE q # p
    <3>1. At(q, "record") \/ At(q, "commit")
      BY <2>2 DEF At
    <3>2. PICK l \in Files : /\ Begins(q, l) /\ l <= Len(schema) + 1
                             /\ At(q, "commit") => l = Len(schema) + 1
      BY <3>1 DEF Pending
    <3>3. QED
      BY <2>2, <3>2 DEF Begins, At
  <2>3. QED
    BY <2>1, <2>2
<1>7. OneCommits'
  BY <1>3 DEF OneCommits, At
<1>8. PastMigrate'
  BY DEF PastMigrate, Procs
<1>9. QED
  BY <1>4, <1>5, <1>6, <1>7, <1>8

\* The commit of p appends that file and records it.
LEMMA CommitStep ==
    ASSUME StartInv, NEW p \in Procs, CommitMigration(p)
    PROVE  StartInv'
<1> USE DEF StartInv, TypeOK, Go
<1> DEFINE n == Len(schema)
<1>1. /\ Begins(p, n + 1) /\ n + 1 \in Files /\ Current(p) = n + 1
      /\ todo[p] \ {Current(p)} = (n + 2) .. LastMigration
  <2>1. PICK m \in Files : Begins(p, m) /\ m = Len(schema) + 1
    BY DEF CommitMigration, Pending
  <2>2. n \in Nat /\ m + 1 = n + 2
    BY <2>1
  <2>3. QED
    BY <2>1, <2>2, CurrentIsFirst
<1>2. /\ schema' \in Seq(Files) /\ Len(schema') = n + 1
      /\ \A i \in 1 .. n : schema'[i] = schema[i]
      /\ schema'[n + 1] = n + 1
      /\ versions' = versions \cup {n + 1} /\ n \in Nat
  BY <1>1 DEF CommitMigration
<1>3. SchemaInOrder'
  BY <1>2 DEF SchemaInOrder
<1>4. ASSUME NEW s \in Stages, NEW rest \in SUBSET Files, Go(p, s),
             todo' = [todo EXCEPT ![p] = rest],
             lock' \in Procs \cup {NoSession, OrphanSession}, faults' \in Nat,
             UNCHANGED <<table, bucket>>,
             \/ s = "dial" /\ rest = {}
             \/ /\ rest = (n + 2) .. LastMigration
                /\ s = IF rest = {} THEN "unlock" ELSE "record"
      PROVE  StartInv'
  <2>1. TypeOK'
    <3>1. versions' \subseteq Files
      BY <1>1, <1>2
    <3>2. stage' \in [Procs -> Stages] /\ todo' \in [Procs -> SUBSET Files]
      BY <1>4
    <3>3. \A q \in Procs : (todo[q] # {} <=> stage[q] \in {"record", "commit"})'
      BY <1>4
    <3>4. QED
      BY <1>2, <1>4, <3>1, <3>2, <3>3
  <2>2. ASSUME NEW q \in Procs \ {p} PROVE ~At(q, "commit")
    BY <2>2 DEF OneCommits, CommitMigration
  <2>3. Pending'
    <3> SUFFICES ASSUME NEW q \in Procs, (At(q, "record") \/ At(q, "commit"))'
                 PROVE  \E l \in Files : /\ Begins(q, l)' /\ l <= n + 2
                                         /\ At(q, "commit")' => l = n + 2
      BY <1>2 DEF Pending
    <3>1. CASE q = p
      <4>1. s = "record" /\ todo'[p] = (n + 2) .. LastMigration /\ n + 2 \in Files
        BY <1>2, <1>4, <3>1, StartAssumption DEF At, Files
      <4>2. QED
        BY <1>2, <1>4, <3>1, <4>1 DEF Begins, At
    <3>2. CASE q # p
      <4>1. At(q, "record") /\ ~At(q, "commit")' /\ todo'[q] = todo[q]
        BY <1>4, <2>2, <3>2 DEF At
      <4>2. PICK l \in Files : Begins(q, l) /\ l <= n + 1
        BY <4>1 DEF Pending
      <4>3. QED
        BY <1>2, <4>1, <4>2, StartAssumption DEF Begins, Files
    <3>3. QED
      BY <3>1, <3>2
  <2>4. OneCommits'
    BY <1>4, <2>2 DEF OneCommits, At
  <2>5. PastMigrate'
    <3>1. \A q \in Apis : stage'[q] \in {"unlock", "bucket", "make", "serve"} =>
            \/ versions = Files
            \/ q = p /\ (n + 2) .. LastMigration = {}
      BY <1>4 DEF PastMigrate, Procs
    <3>2. versions = Files => versions' = Files
      BY <1>1, <1>2
    <3>3. (n + 2) .. LastMigration = {} => versions' = Files
      BY <1>1, <1>2, StartAssumption DEF SchemaInOrder, Files
    <3>4. QED
      BY <3>1, <3>2, <3>3 DEF PastMigrate
  <2>6. QED
    BY <1>3, <2>1, <2>3, <2>4, <2>5
<1>5. CASE NextFile(p, todo[p] \ {Current(p)}) /\ NoFault /\ UNCHANGED lock
  BY <1>1, <1>4, <1>5 DEF NextFile, NoFault, CommitMigration, Stages
<1>6. CASE Exit(p) /\ Fault("lost")
  <2>1. Go(p, "dial") /\ todo' = [todo EXCEPT ![p] = {}] /\ faults' \in Nat
        /\ UNCHANGED <<table, bucket>>
    BY <1>6 DEF Exit, Fault, CommitMigration
  <2>2. lock' \in Procs \cup {NoSession, OrphanSession}
    BY <1>6 DEF Exit, EndSession
  <2>3. QED
    BY <1>4, <2>1, <2>2 DEF Stages
<1>7. QED
  BY <1>5, <1>6 DEF CommitMigration

-------------------------------------------------------------------------------
\* Every step keeps the invariant.
LEMMA StartStep == StartInv /\ [Next]_vars => StartInv'
<1> SUFFICES ASSUME StartInv, [Next]_vars PROVE StartInv'
  OBVIOUS
<1> USE DEF StartInv, TypeOK
<1>1. ASSUME NEW p \in Procs, Exit(p), UNCHANGED <<schema, versions>>, faults' \in Nat,
             table' \in BOOLEAN, bucket' \in BOOLEAN
      PROVE  StartInv'
  <2>1. lock' \in Procs \cup {NoSession, OrphanSession}
    BY <1>1 DEF Exit, EndSession
  <2>2. QED
    BY <1>1, <2>1, OutsideTheLoop DEF Exit, Stages
<1>2. ASSUME NEW p \in Procs, NEW s \in Stages \ {"record", "commit"},
             stage[p] \notin {"record", "commit"}, Go(p, s),
             UNCHANGED <<faults, schema, versions, todo>>,
             table' \in BOOLEAN, bucket' \in BOOLEAN,
             lock' \in Procs \cup {NoSession, OrphanSession},
             p \in Apis /\ s \in {"unlock", "bucket", "make", "serve"} =>
                stage[p] \in {"unlock", "bucket", "make", "serve"}
      PROVE  StartInv'
  <2>1. todo' = [todo EXCEPT ![p] = {}]
    BY <1>2
  <2>2. p \in Apis /\ s \in {"unlock", "bucket", "make", "serve"} => versions = Files
    BY <1>2 DEF PastMigrate
  <2>3. faults' \in Nat
    BY <1>2
  <2>4. QED
    BY <1>2, <2>1, <2>2, <2>3, OutsideTheLoop
<1>3. ASSUME UNCHANGED <<schema, versions, stage, todo, table, bucket>>, faults' \in Nat,
             lock' \in Procs \cup {NoSession, OrphanSession}
      PROVE  StartInv'
  BY <1>3 DEF SchemaInOrder, Pending, OneCommits, PastMigrate, At, Begins
<1>4. ASSUME NEW p \in Procs, Step(p) PROVE StartInv'
  <2> USE DEF At, Stages, NoFault, database
  <2>1. CASE Dial(p)
    BY <1>2, <2>1 DEF Dial
  <2>2. CASE CheckTable(p)
    BY <1>2, <2>2 DEF CheckTable
  <2>3. CASE CreateTable(p)
    <3>1. CASE Exit(p)
      BY <1>1, <2>3, <3>1 DEF CreateTable
    <3>2. CASE Go(p, "lock") /\ UNCHANGED <<lock, todo>>
      BY <1>2, <2>3, <3>2 DEF CreateTable
    <3>3. QED
      BY <2>3, <3>1, <3>2 DEF CreateTable
  <2>4. CASE TakeLock(p)
    BY <1>2, <2>4 DEF TakeLock
  <2>5. CASE ReadVersions(p)
    <3>1. todo' = [todo EXCEPT ![p] = Files \ versions]
          /\ UNCHANGED <<faults, schema, versions, table, lock, bucket>>
          /\ Go(p, IF Files \ versions = {} THEN "unlock" ELSE "record")
      BY <2>5 DEF ReadVersions, NextFile
    <3>2. CASE Files \ versions = {}
      <4>1. Go(p, "unlock") /\ todo' = [todo EXCEPT ![p] = {}] /\ versions = Files
        BY <3>1, <3>2
      <4>2. /\ table' \in BOOLEAN /\ bucket' \in BOOLEAN /\ faults' \in Nat
            /\ lock' \in Procs \cup {NoSession, OrphanSession}
        BY <3>1
      <4>3. QED
        BY <3>1, <4>1, <4>2, OutsideTheLoop
    <3>3. CASE Files \ versions # {}
      <4>1. Len(schema) + 1 \in Files /\ Files \ versions = (Len(schema) + 1) .. LastMigration
        BY <3>3, SchemaIsBeginning, StartAssumption DEF SchemaInOrder, Files
      <4>2. TypeOK' /\ SchemaInOrder'
        BY <3>1, <3>3 DEF Go, SchemaInOrder
      <4>3. Pending'
        <5> SUFFICES ASSUME NEW q \in Procs, (At(q, "record") \/ At(q, "commit"))'
                     PROVE  \E l \in Files : /\ Begins(q, l)' /\ l <= Len(schema) + 1
                                             /\ At(q, "commit")' => l = Len(schema) + 1
          BY <3>1 DEF Pending
        <5>1. CASE q = p
          BY <3>1, <3>3, <4>1, <5>1 DEF Begins, Go
        <5>2. CASE q # p
          <6>1. (At(q, "record") \/ At(q, "commit")) /\ stage'[q] = stage[q] /\ todo'[q] = todo[q]
            BY <3>1, <5>2 DEF Go
          <6>2. QED
            BY <6>1 DEF Pending, Begins
        <5>3. QED
          BY <5>1, <5>2
      <4>4. OneCommits' /\ PastMigrate'
        BY <3>1, <3>3 DEF OneCommits, PastMigrate, Go, Procs
      <4>5. QED
        BY <4>2, <4>3, <4>4
    <3>4. QED
      BY <3>2, <3>3
  <2>6. CASE RecordMigration(p)
    <3>1. CASE Current(p) \in versions
      BY <1>1, <2>6, <3>1 DEF RecordMigration
    <3>2. CASE Current(p) \notin versions
      BY <2>6, <3>2, RecordStep DEF RecordMigration
    <3>3. QED
      BY <3>1, <3>2
  <2>7. CASE CommitMigration(p)
    BY <2>7, CommitStep
  <2>8. CASE Unlock(p)
    <3>1. faults' \in Nat /\ lock' \in Procs \cup {NoSession, OrphanSession}
      BY <2>8 DEF Unlock, Fault
    <3>2. todo' = [todo EXCEPT ![p] = {}]
      BY <2>8 DEF Unlock
    <3>3. p \in Apis => versions = Files
      BY <2>8 DEF Unlock, PastMigrate
    <3>4. QED
      BY <2>8, <3>1, <3>2, <3>3, OutsideTheLoop DEF Unlock
  <2>9. CASE CheckBucket(p)
    BY <1>2, <2>9 DEF CheckBucket
  <2>10. CASE MakeBucket(p)
    <3>1. CASE Exit(p)
      BY <1>1, <2>10, <3>1 DEF MakeBucket
    <3>2. CASE Go(p, "serve") /\ UNCHANGED <<lock, todo>>
      BY <1>2, <2>10, <3>2 DEF MakeBucket
    <3>3. QED
      BY <2>10, <3>1, <3>2 DEF MakeBucket
  <2>11. CASE Recycle(p)
    BY <1>3, <2>11 DEF Recycle
  <2>12. QED
    BY <1>4, <2>1, <2>2, <2>3, <2>4, <2>5, <2>6, <2>7, <2>8, <2>9, <2>10, <2>11 DEF Step
<1>5. ASSUME NEW p \in Procs, CallFails(p) \/ Crash(p) PROVE StartInv'
  BY <1>1, <1>5 DEF CallFails, Crash, Fault, database
<1>6. ASSUME NEW p \in Procs, LoseSession(p) PROVE StartInv'
  <2>1. CASE Exit(p)
    BY <1>1, <1>6, <2>1 DEF LoseSession, Fault, database
  <2>2. CASE EndSession(p) /\ UNCHANGED <<stage, todo>>
    BY <1>3, <1>6, <2>2 DEF LoseSession, EndSession, Fault, database
  <2>3. QED
    BY <1>6, <2>1, <2>2 DEF LoseSession
<1>7. CASE OrphanEnds
  BY <1>3, <1>7 DEF OrphanEnds, NoFault, database
<1>8. CASE UNCHANGED vars
  BY <1>3, <1>8 DEF vars
<1>9. QED
  BY <1>4, <1>5, <1>6, <1>7, <1>8 DEF Next

\* The invariant holds throughout.
THEOREM StartInvariant == Spec => []StartInv
BY StartInit, StartStep, PTL DEF Spec

\* Types; only a process in the loop of Migrate has files to apply.
THEOREM StartTypeCorrect == Spec => []TypeOK
BY StartInvariant, PTL DEF StartInv

\* Each migration is committed once, in the order of the files, and recorded
\* exactly if it was, with any number of instances and even if the advisory lock
\* is lost (migrate.go 103-133).
THEOREM MigrationsInOrder == Spec => []SchemaInOrder
BY StartInvariant, PTL DEF StartInv

\* An API instance serves only with every migration applied (main.go, Migrate).
THEOREM ServesWithSchema == Spec => []ServesComplete
<1>1. StartInv => ServesComplete
  BY DEF StartInv, PastMigrate, ServesComplete
<1>2. QED
  BY <1>1, StartInvariant, PTL

-------------------------------------------------------------------------------
(* The upgrade that a deployment sees. *)

Serving == {p \in Apis : stage[p] = "serve"}

\* A step that commits no migration leaves the schema, and at most one instance begins
\* or ceases to serve; it begins with every migration applied.
LEMMA ServingStep ==
    ASSUME StartInv, NEW p \in Procs, NEW s \in Stages, Go(p, s), UNCHANGED schema,
           p \in Apis /\ s = "serve" => stage[p] \in {"bucket", "make"}
    PROVE  [Deployment!Next]_(Deployment!vars)
<1> USE DEF Go, Procs
<1>1. Serving' = IF p \in Apis /\ s = "serve" THEN Serving \cup {p} ELSE Serving \ {p}
  BY DEF StartInv, TypeOK, Serving
<1>2. CASE p \notin Apis
  <2>1. Serving' = Serving
    BY <1>1, <1>2 DEF Serving
  <2>2. QED
    BY <2>1 DEF Deployment!vars, Serving
<1>3. CASE p \in Apis /\ s # "serve"
  BY <1>1, <1>3 DEF Deployment!Next, Deployment!Stop, Serving
<1>4. CASE p \in Apis /\ s = "serve"
  <2>1. versions = Files
    BY <1>4 DEF StartInv, PastMigrate
  <2>2. Len(schema) = LastMigration
    BY <2>1, SchemaIsBeginning, StartAssumption DEF StartInv, SchemaInOrder, Files
  <2>3. QED
    BY <1>1, <1>4, <2>2 DEF Deployment!Next, Deployment!Serve, Serving
<1>5. QED
  BY <1>2, <1>3, <1>4

\* A commit is one migration more, and its process does not serve.
LEMMA MigrationStep ==
    ASSUME StartInv, NEW p \in Procs, CommitMigration(p)
    PROVE  Deployment!Migrate
<1>1. PICK m \in Files : Begins(p, m) /\ m = Len(schema) + 1
  BY DEF StartInv, Pending, CommitMigration
<1>2. Len(schema) \in 0 .. LastMigration /\ Len(schema) < LastMigration
  BY <1>1, SchemaIsBeginning, StartAssumption DEF StartInv, Files
<1>3. Len(schema') = Len(schema) + 1
  BY <1>1, CurrentIsFirst DEF StartInv, TypeOK, CommitMigration
<1>4. PICK s \in Stages : Go(p, s) /\ s # "serve"
  BY DEF CommitMigration, NextFile, Exit, Stages
<1>5. Serving' = Serving
  BY <1>4 DEF StartInv, TypeOK, Serving, Go, CommitMigration, At
<1>6. QED
  BY <1>2, <1>3, <1>5 DEF Deployment!Migrate, Serving

\* Whatever runs at the same time, loses its lock, fails or dies, the instances
\* upgrade the schema one migration at a time and serve with all of them only.
THEOREM StartImplementsUpgrade == Spec => UpgradeSpec
<1>1. Init => Deployment!Init
  <2> SUFFICES ASSUME Init PROVE Deployment!Init
    OBVIOUS
  <2>1. PICK n \in 0 .. LastMigration : schema = [k \in 1 .. n |-> k]
    BY DEF Init
  <2>2. Len(schema) = n
    BY <2>1, StartAssumption
  <2>3. \A p \in Apis : stage[p] # "serve"
    BY DEF Init, Procs
  <2>4. QED
    BY <2>2, <2>3 DEF Deployment!Init
<1>2. StartInv /\ [Next]_vars => [Deployment!Next]_(Deployment!vars)
  <2> SUFFICES ASSUME StartInv, [Next]_vars PROVE [Deployment!Next]_(Deployment!vars)
    OBVIOUS
  <2>1. ASSUME UNCHANGED <<schema, stage>> PROVE [Deployment!Next]_(Deployment!vars)
    BY <2>1 DEF Deployment!vars
  <2>2. ASSUME NEW p \in Procs, Exit(p), UNCHANGED schema
        PROVE  [Deployment!Next]_(Deployment!vars)
    BY <2>2, ServingStep DEF Exit, Stages
  <2>3. ASSUME NEW p \in Procs, Step(p) PROVE [Deployment!Next]_(Deployment!vars)
    <3> USE DEF At, Stages, database
    <3>1. CASE Dial(p) \/ CheckTable(p) \/ TakeLock(p)
      BY <3>1, ServingStep DEF Dial, CheckTable, TakeLock
    <3>2. CASE CreateTable(p) \/ MakeBucket(p)
      BY <2>2, <3>2, ServingStep DEF CreateTable, MakeBucket
    <3>3. CASE ReadVersions(p)
      BY <3>3, ServingStep DEF ReadVersions, NextFile
    <3>4. CASE RecordMigration(p)
      BY <2>2, <3>4, ServingStep DEF RecordMigration
    <3>5. CASE CommitMigration(p)
      BY <3>5, MigrationStep DEF Deployment!Next
    <3>6. CASE Unlock(p) \/ CheckBucket(p)
      BY <3>6, ServingStep DEF Unlock, CheckBucket
    <3>7. CASE Recycle(p)
      BY <2>1, <3>7 DEF Recycle
    <3>8. QED
      BY <2>3, <3>1, <3>2, <3>3, <3>4, <3>5, <3>6, <3>7 DEF Step
  <2>4. CASE \E p \in Procs : CallFails(p) \/ Crash(p) \/ LoseSession(p)
    BY <2>1, <2>2, <2>4 DEF CallFails, Crash, LoseSession, database
  <2>5. CASE OrphanEnds
    BY <2>1, <2>5 DEF OrphanEnds, database
  <2>6. CASE UNCHANGED vars
    BY <2>1, <2>6 DEF vars
  <2>7. QED
    BY <2>3, <2>4, <2>5, <2>6 DEF Next
<1>3. QED
  BY <1>1, <1>2, StartInvariant, PTL DEF Spec, UpgradeSpec, Deployment!Spec

-------------------------------------------------------------------------------
(* One instance at a time, as long as the database ends no session. *)

\* Whoever is between the lock and its release holds it.
LockHeld == \A p \in Procs : stage[p] \in {"read", "record", "commit", "unlock"} => lock = p

\* "Several instances may start at once without applying a migration in
\* parallel" (migrate.go 13): true if no session is lost on the way.
THEOREM OneInstanceMigrates ==
    ASSUME "session" \notin FaultKinds PROVE Spec => []OneMigrates
<1>1. Init => LockHeld
  BY DEF Init, LockHeld
<1>2. ASSUME TypeOK, LockHeld, [Next]_vars PROVE LockHeld'
  <2> USE <1>2, StartAssumption DEF TypeOK, LockHeld, At, Go
  <2>1. ASSUME NEW p \in Procs, Exit(p) PROVE LockHeld'
    BY <2>1 DEF Exit, EndSession
  <2>2. ASSUME NEW p \in Procs, Step(p) PROVE LockHeld'
    <3>1. CASE Dial(p) \/ CheckTable(p) \/ CheckBucket(p)
      BY <3>1 DEF Dial, CheckTable, CheckBucket
    <3>2. CASE CreateTable(p) \/ MakeBucket(p)
      BY <2>1, <3>2 DEF CreateTable, MakeBucket
    <3>3. CASE TakeLock(p) \/ ReadVersions(p)
      BY <3>3 DEF TakeLock, ReadVersions, NextFile
    <3>4. CASE RecordMigration(p)
      BY <2>1, <3>4 DEF RecordMigration
    <3>5. CASE CommitMigration(p)
      BY <2>1, <3>5 DEF CommitMigration, NextFile
    <3>6. CASE Unlock(p) \/ Recycle(p)
      BY <3>6 DEF Unlock, Recycle
    <3>7. QED
      BY <2>2, <3>1, <3>2, <3>3, <3>4, <3>5, <3>6 DEF Step
  <2>3. CASE \E p \in Procs : CallFails(p) \/ Crash(p)
    BY <2>1, <2>3 DEF CallFails, Crash
  <2>4. CASE \E p \in Procs : LoseSession(p)
    BY <2>4 DEF LoseSession, Fault
  <2>5. CASE OrphanEnds
    BY <2>5 DEF OrphanEnds
  <2>6. CASE UNCHANGED vars
    BY <2>6 DEF vars
  <2>7. QED
    BY <2>2, <2>3, <2>4, <2>5, <2>6 DEF Next
<1>3. LockHeld => OneMigrates
  BY DEF LockHeld, OneMigrates, Procs
<1>4. QED
  BY <1>1, <1>2, <1>3, StartTypeCorrect, PTL DEF Spec
===============================================================================
