------------------------------ MODULE MCGateway ------------------------------
(* Instances of Gateway for TLC: one private node n1 that may reconnect, and *)
(* requests addressed to it.                                                 *)
EXTENDS Gateway, TLC

\* The connections and requests of each instance are numbered by the .cfg.
CONSTANTS n1

\* One node opens every connection and is the target of every request.
SingleOwner == [c \in Conns |-> n1]
SingleTarget == [r \in Requests |-> n1]

\* Every message has an id of its own, as AIMMessage makes them.
FreshIds == [r \in Requests |-> r]

\* A client that sends its message again sends the same id.
RepeatedId == [r \in Requests |-> CHOOSE i \in Ids : TRUE]
=============================================================================
