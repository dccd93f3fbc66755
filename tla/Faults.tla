-------------------------------- MODULE Faults --------------------------------
(***************************************************************************)
(* What the environment may do to the processes.  Each kind of fault can   *)
(* be left out of an instance, and MaxFaults bounds how many happen in one  *)
(* behaviour (the bound exists for TLC; the theorems do not use it).        *)
(*                                                                          *)
(*   "crash"          a worker process dies and its container restarts      *)
(*   "connection"     a worker loses its RabbitMQ connection and goes on    *)
(*   "slow"           a lease expires while its worker is still working     *)
(*   "fetch"          the source document cannot be read from MinIO         *)
(*   "put" "delete"   MinIO refuses a write or a removal                    *)
(*   "db"             a PostgreSQL statement fails without effect           *)
(*   "apiDb"          a statement of an upload fails without effect         *)
(*   "lost"           a call takes effect but its answer is an error        *)
(*   "duplicate"      a message is published again by hand or by a replay   *)
(*   "apiCrash"       the API process dies                                  *)
(*   "apiConnection"  the API loses its RabbitMQ connection                 *)
(*   "network"        the browser gets no answer, or an error, from the API *)
(*   "session"        the database ends a session of its own accord         *)
(*   "call"           a call of a process that starts, or of a registration,*)
(*                    fails                                                 *)
(***************************************************************************)
EXTENDS Naturals

CONSTANTS FaultKinds, MaxFaults

ASSUME FaultsAssumption == MaxFaults \in Nat

VARIABLE faults   \* how many faults have happened

FaultsInit == faults = 0

\* A fault of the given kind happens, or the step is free of faults.
Fault(kind) == /\ kind \in FaultKinds
               /\ faults < MaxFaults
               /\ faults' = faults + 1

NoFault == UNCHANGED faults
==============================================================================
