------------------------------ MODULE MCPlatform ------------------------------
(* Small instances of the platform for TLC; the .cfg files give the sets. *)
EXTENDS PlatformInvariants, TLC

\* Workers are interchangeable, and so are jobs (not used with liveness).
Symmetry == Permutations(Workers) \cup Permutations(Jobs)
==============================================================================
