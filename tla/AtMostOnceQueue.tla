-------------------------- MODULE AtMostOnceQueue ---------------------------
(***************************************************************************)
(* What the data path of the Mech server promises, with no threads, mutex, *)
(* semaphore or XML left in it: for each kind of record there is a queue   *)
(* whose oldest record is taken first and at most once; what is taken is   *)
(* carried in a packet, or dropped; a packet is received as a whole, or    *)
(* any part of it is lost.  A record is never received twice, and never    *)
(* taken before an older one of its kind.                                  *)
(***************************************************************************)
EXTENDS Naturals

CONSTANT Kinds   \* the kinds of record, each with a queue of its own

VARIABLES
  accepted,   \* [Kinds -> Nat]          how many records were submitted
  queued,     \* [Kinds -> SUBSET Nat]   the numbers of those still queued
  carried,    \* [Kinds -> SUBSET Nat]   the numbers of those in the packet
  received    \* [Kinds -> SUBSET Nat]   the numbers of those received

vars == <<accepted, queued, carried, received>>

Empty == [k \in Kinds |-> {}]

Init ==
  /\ accepted = [k \in Kinds |-> 0]
  /\ queued = Empty
  /\ carried = Empty
  /\ received = Empty

\* A producer submits the next record of kind k.
Submit(k) ==
  /\ accepted' = [accepted EXCEPT ![k] = @ + 1]
  /\ queued' = [queued EXCEPT ![k] = @ \cup {accepted[k]}]
  /\ UNCHANGED <<carried, received>>

\* The oldest queued record of kind k leaves the queue, for the packet or for good.
Take(k) ==
  \E i \in queued[k] :
    /\ \A j \in queued[k] : i <= j
    /\ queued' = [queued EXCEPT ![k] = @ \ {i}]
    /\ \/ carried' = [carried EXCEPT ![k] = @ \cup {i}]
       \/ UNCHANGED carried
    /\ UNCHANGED <<accepted, received>>

\* Some of what the packet carries is lost.
Lose ==
  /\ carried' \in [Kinds -> SUBSET UNION {carried[k] : k \in Kinds}]
  /\ \A k \in Kinds : carried'[k] \subseteq carried[k]
  /\ UNCHANGED <<accepted, queued, received>>

\* The packet reaches the host.
Receive ==
  /\ received' = [k \in Kinds |-> received[k] \cup carried[k]]
  /\ carried' = Empty
  /\ UNCHANGED <<accepted, queued>>

Next ==
  \/ \E k \in Kinds : Submit(k) \/ Take(k)
  \/ Lose
  \/ Receive

Spec == Init /\ [][Next]_vars
=============================================================================
