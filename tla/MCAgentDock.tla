---- MODULE MCAgentDock ----
EXTENDS AgentDock, TLC
CONSTANTS i1, i2, c1, c2
Symmetric == Permutations({i1, i2})

Instances ==
    {[creates |-> {c1, c2}, background |-> {c2}, commands |-> {c1}, kinds |-> {"pick"},
      sessions |-> 2, requests |-> 1, elsewhere |-> 0, lost |-> 1],
     [creates |-> {c1}, background |-> {}, commands |-> {}, kinds |-> {"close"},
      sessions |-> 2, requests |-> 2, elsewhere |-> 1, lost |-> 0],
     [creates |-> {c1}, background |-> {}, commands |-> {}, kinds |-> {"close", "stop"},
      sessions |-> 1, requests |-> 2, elsewhere |-> 1, lost |-> 1],
     [creates |-> {c1}, background |-> {}, commands |-> {},
      kinds |-> {"present", "rename", "stop"},
      sessions |-> 1, requests |-> 2, elsewhere |-> 2, lost |-> 1]}
====
