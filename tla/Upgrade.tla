-------------------------------- MODULE Upgrade --------------------------------
(***************************************************************************)
(* What a deployment relies on when it starts new instances of the API       *)
(* (migrate.go 17-21): the schema goes forward only, by one whole migration   *)
(* at a time, and an instance answers requests from the last one on.        *)
(***************************************************************************)
EXTENDS Naturals

CONSTANTS Apis, LastMigration

VARIABLES
    version,     \* the migrations that the database has
    serving      \* the instances that answer requests

vars == <<version, serving>>

Init == version \in 0 .. LastMigration /\ serving = {}

Migrate == /\ version < LastMigration /\ version' = version + 1
           /\ UNCHANGED serving

Serve(p) == /\ version = LastMigration /\ serving' = serving \cup {p}
            /\ UNCHANGED version

Stop(p) == serving' = serving \ {p} /\ UNCHANGED version

Next == Migrate \/ \E p \in Apis : Serve(p) \/ Stop(p)

Spec == Init /\ [][Next]_vars
===============================================================================
