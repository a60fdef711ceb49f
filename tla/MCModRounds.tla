---- MODULE MCModRounds ----
\* An instance of ModRounds for TLC. No symmetry: the run checks liveness.
EXTENDS ModRounds
CONSTANTS p1, v1, v2
====
