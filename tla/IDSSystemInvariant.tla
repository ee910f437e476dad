------------------------- MODULE IDSSystemInvariant -------------------------
(* The inductive invariants behind TypeOK, QuietAtRest and CleanStart.     *)
EXTENDS IDSSystem

\* A process that waits waits for an instance, and an attempt to connect is
\* one that was left.
CountInv ==
  /\ menu \in {"front", "grace"} => front \in Instances
  /\ \A i \in Instances : pc[i] \in {"off", "idle", "connect"} => tries[i] # 0

\* Who holds the ports is at work on them and connected, and knows what it
\* holds.
HolderInv ==
  ~loose => \A i \in Instances : owner = i =>
              /\ pc[i] \in Working \cup {"capture", "detect", "stop", "release"}
              /\ conn[i] = "up"
              /\ handler[i] /\ UpToDate(i)

\* Nothing transmits when the holder gives the ports back, ...
ReleaseInv ==
  ~loose => \A i \in Instances : owner = i /\ pc[i] = "release" => traffic = None

\* ... when the holder starts a job, ...
StartInv == \A i \in Instances : owner = i /\ pc[i] = "start" => traffic = None

\* ... and when there is no holder.
FreeInv == ~loose /\ owner = None => traffic = None

QuietInv == CountInv /\ HolderInv /\ ReleaseInv /\ StartInv /\ FreeInv
=============================================================================
