------------------------ MODULE TrexDaemonInvariant ------------------------
(* The inductive invariant behind the safety of the daemon: which session  *)
(* thread may still touch the status, and what main may be doing then.     *)
EXTENDS TrexDaemon

\* The holder of a reservation waits for his run to end, and a session thread
\* ends before join() gives up on it.
Calm == ~Hasty /\ "slowjoin" \notin Faults

\* Nothing left to do for it but to clear expect_trex, or less.
Over(r) == thread[r] \in {"clear", "done"}

\* Only the thread of the last run is at work, and only its process.
ThreadInv ==
  \A r \in Runs :
    /\ r > run => thread[r] = "none" /\ ~stopreq[r]
    /\ r < run => Over(r)
    /\ Alive(r) => thread[r] = "loop"
    /\ thread[r] = "killed" => stopreq[r]

\* Idle means that the last run is over, or was killed and will soon be.
IdleInv ==
  status = "Idle" /\ run # 0 =>
    Over(run) \/ (thread[run] = "finish" /\ stopreq[run])

\* main waits for a run it asked to stop, and starts one when none is left.
CallInv ==
  /\ run # 0 => /\ stopreq[run] => mpc = "join" \/ Ended(run)
                /\ mpc \in {"prepare", "launch"} => Over(run)
  /\ mpc = "launch" => status # "Idle"

\* The holder of the reservation started what is under way.
HolderInv ==
  reservation # NoUser =>
    /\ run # 0 /\ thread[run] \in {"spawn", "loop"} => issuer[run] = reservation
    /\ mpc \in {"prepare", "launch"} => caller = reservation

\* A run has no process before its thread has launched one.
ProcInv == \A r \in Runs : thread[r] \in {"none", "spawn"} => proc[r] = "none"

\* A run is somebody's, and so is a start in progress.
IssuerInv ==
  /\ \A r \in Runs : thread[r] # "none" => issuer[r] \in Users
  /\ mpc \in {"prepare", "launch"} => caller \in Users

DaemonInv == ThreadInv /\ IdleInv /\ CallInv /\ HolderInv
=============================================================================
