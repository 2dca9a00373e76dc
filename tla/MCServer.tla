------------------------------ MODULE MCServer ------------------------------
(* Instance of LocalListener, and of Startup before it, for TLC. *)
EXTENDS LocalListener

E(l, kind) == [localid |-> l, kind |-> kind]
Setup(entries, rights, ctl, lst) ==
    [entries |-> entries, rights |-> rights, control |-> ctl, listener |-> lst]

\* One localid for two entries, with two command threads, or with that of a
\* third entry between them; a library that is missing or does not know its
\* model; workers that all wait for the rights to be lowered, or one of two;
\* more workers than semaphores; local clients.
MCSetups ==
    {Setup(<<E("a", "command"), E("a", "command")>>, "both", TRUE, FALSE),
     Setup(<<E("a", "nolibrary"), E("b", "nomodel"), E("a", "netlink")>>,
           "both", FALSE, FALSE),
     Setup(<<E("a", "netlink"), E("b", "netlink")>>, "one", TRUE, FALSE),
     Setup(<<E("a", "netlink"), E("b", "plain")>>, "one", TRUE, FALSE),
     Setup(<<E("a", "plain"), E("b", "command"), E("a", "plain")>>,
           "keep", TRUE, FALSE),
     Setup(<<E("a", "plain"), E("b", "plain"), E("a", "plain"), E("b", "plain"),
             E("a", "plain"), E("b", "plain")>>, "keep", FALSE, FALSE),
     Setup(<<E("a", "plain")>>, "keep", FALSE, TRUE)}

\* What a hurried start does shows with the other configurations.
MCMaxAccidents ==
    [s \in MCSetups |-> IF s.rights = "keep" /\ ~ s.listener THEN 0 ELSE 1]

Msg(type) == [type |-> type, text |-> 0]
Body(n) == [type |-> "body", text |-> n]
MCScripts ==
    {<<Msg("signon"), Msg("data"), Body(1), Msg("long"), Body(2), Msg("test"),
       Msg("data"), Body(3)>>,
     <<Msg("data"), Body(4), Msg("pass"), Msg("signonAck"), Msg("other"),
       Msg("data")>>}
=============================================================================
