---------------------------- MODULE SystemDriver ----------------------------
(* System::main runs one of the three system workers, the one the model of   *)
(* its localid names, and returns when the name is another. The workers      *)
(* share nothing but the server's add_client_data (see ClientData).          *)
EXTENDS AuditEvents, ProcessEvents, HostWatch

VARIABLE model      \* o.model

driverVars == <<model, auditVars, processVars, watchVars>>

Models == {"AUDITD", "NETLINK", "SYSHOST"}

\* A worker that does not run finds nothing running either.
DriverInit ==
    /\ model \in Models
    /\ AuditInit
    /\ ProcessInit
    /\ model # "NETLINK" => running = [p \in Pids |-> Gone]
    /\ WatchInit
    /\ model # "SYSHOST" => alive = [p \in Places |-> NoProcess]

DriverNext ==
    \/ /\ model = "AUDITD" /\ AuditNext
       /\ UNCHANGED <<model, processVars, watchVars>>
    \/ /\ model = "NETLINK" /\ ProcessNext
       /\ UNCHANGED <<model, auditVars, watchVars>>
    \/ /\ model = "SYSHOST" /\ WatchNext
       /\ UNCHANGED <<model, auditVars, processVars>>

Spec == DriverInit /\ [][DriverNext]_driverVars

-----------------------------------------------------------------------------
\* The variables of the worker that runs have their types.
TypeOK ==
    /\ model \in Models
    /\ model = "AUDITD" =>
        /\ \A p \in ToSet(wire \o out) :
            /\ p.number \in Numbers \cup {NoNumber}
            /\ p.line \in DOMAIN written
        /\ \A n \in DOMAIN datavals :
                datavals[n] \in [Types -> {NoLine} \cup DOMAIN written]
    /\ model = "NETLINK" =>
        /\ running \in [Pids -> Programs \cup {Gone}]
        /\ \A p \in DOMAIN procvals : procvals[p] \in Programs \cup {Nothing}
        /\ Len(queue) <= MaxQueue
    /\ model = "SYSHOST" =>
        /\ alive \in [Places -> Kinds \cup {NoProcess}]
        /\ procs \in [WatchedNames -> Places \cup {Unknown}]
        /\ cmdlines \in [WatchedNames -> Places \cup {Unknown}]
        /\ pc \in {"check", "scan", "found", "missing"} /\ scan \subseteq Places

=============================================================================
