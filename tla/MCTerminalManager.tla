---- MODULE MCTerminalManager ----
EXTENDS TerminalManager, TLC
CONSTANTS i1, g1, g2, l1, l2, c1, c2
Symmetric == Permutations({g1, g2}) \cup Permutations({l1, l2}) \cup Permutations({c1, c2})

\* Two spawns where the groups' ends matter, two leases where the leases do.
Instances ==
    {[ops |-> {"create", "close", "restart"}, spawns |-> 2, leases |-> 0],
     [ops |-> {"create", "close", "closeAll"}, spawns |-> 2, leases |-> 0],
     [ops |-> {"create", "open"}, spawns |-> 1, leases |-> 2],
     [ops |-> {"create", "close", "open"}, spawns |-> 1, leases |-> 1],
     [ops |-> {"create", "open", "reclaim", "prompt", "input"}, spawns |-> 1, leases |-> 1]}
====
