---------------------------- MODULE TrafficJobs ----------------------------
(* What the IDS expects of a traffic session, with the client, its threads *)
(* and the server's protocol left out: jobs run one after the other, each  *)
(* on every port, and each gets a verdict.                                 *)
EXTENDS Naturals, Sequences

CONSTANTS Ports, Jobs

VARIABLES transmitting,  \* the ports that transmit
          launched,      \* the ports the current job was launched on
          verdict        \* how the jobs before it ended

vars == <<transmitting, launched, verdict>>

Init == transmitting \in SUBSET Ports /\ launched = {} /\ verdict = <<>>

\* A port is launched once per job, and never on top of other traffic.
Launch(p) ==
  /\ Len(verdict) < Jobs
  /\ p \notin launched \cup transmitting
  /\ launched' = launched \cup {p}
  /\ transmitting' = transmitting \cup {p}
  /\ UNCHANGED verdict

\* A transmission ends, by itself or because it is stopped.
End(p) ==
  /\ p \in transmitting
  /\ transmitting' = transmitting \ {p}
  /\ UNCHANGED <<launched, verdict>>

\* Done means: launched on all the ports, and ended on all of them.
Done ==
  /\ launched = Ports /\ transmitting = {}
  /\ verdict' = Append(verdict, "done")

GiveUp == verdict' = Append(verdict, "error")

Conclude ==
  /\ Len(verdict) < Jobs
  /\ Done \/ GiveUp
  /\ launched' = {}
  /\ UNCHANGED transmitting

Next == Conclude \/ \E p \in Ports : Launch(p) \/ End(p)

Spec == Init /\ [][Next]_vars
=============================================================================
