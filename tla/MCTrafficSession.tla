------------------------- MODULE MCTrafficSession -------------------------
(* TrafficSession on small instances.                                      *)
EXTENDS TrafficSessionInvariant

\* Everything but the commands that end a session may be refused.
Opening == Rpcs \ {"stop", "release"}
\* ... and forced acquisition too always succeeds.
AfterAcquire == Opening \ {"acquire"}
Acquisition == {"acquire"}
Tidy == {"IDLE", "STREAMS"}
Anything == {"IDLE", "STREAMS", "TX"}
=============================================================================
