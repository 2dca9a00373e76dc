------------------------------ MODULE MCSystem ------------------------------
EXTENDS SystemDriver

Process(exe, line) == [exe |-> exe, line |-> line]
MCKinds == {Process("db", "db"), Process("py", "job"), Process("py", "other")}
MCWatched == <<"job", "db">>
=============================================================================
