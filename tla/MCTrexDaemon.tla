---------------------------- MODULE MCTrexDaemon ----------------------------
(* TrexDaemon on small instances.                                          *)
EXTENDS TrexDaemonInvariant, TLC

UserSymmetry == Permutations(Users)
NoFaults == {}
AllButSlowJoin == FaultKinds \ {"slowjoin"}
ExportFaults == {"export"}
DeadThreads == {"export", "dump"}
OneToken == {1}
=============================================================================
