---- MODULE MCModEditor ----
EXTENDS ModEditor
CONSTANTS f1, f2

Instances ==
    {[host |-> "terminal", files |-> {f1}, texts |-> 2, writes |-> 1],
     [host |-> "desktop", files |-> {f1}, texts |-> 1, writes |-> 1],
     [host |-> "lines", files |-> {f1, f2}, texts |-> 1, writes |-> 1],
     [host |-> "lines", files |-> {f1}, texts |-> 1, writes |-> 2]}
====
