---------------------------- MODULE MCServiceCalls ----------------------------
(* Instances of ServiceCalls for TLC. *)
EXTENDS ServiceCalls

CONSTANTS i1, i2, p1, p2

First == [id |-> i1, payload |-> p1]
Second == [id |-> i2, payload |-> p1]
Conflicting == [id |-> i1, payload |-> p2]

MCRequests == {First, Second, Conflicting}

\* A runner's own input has one request per id; the second input has the requests of two
\* programs that use one id for two payloads.
MCInputs == {{First, Second}, {First, Conflicting}}
=============================================================================
