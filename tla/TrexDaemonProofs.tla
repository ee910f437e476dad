-------------------------- MODULE TrexDaemonProofs --------------------------
(***************************************************************************)
(* Theorems about TrexDaemon, for every set of users and tokens and every  *)
(* bound.  TypeCorrect needs no assumption; Safety holds of a daemon whose *)
(* users and threads are Calm (TrexDaemonInvariant).                       *)
(***************************************************************************)
EXTENDS TrexDaemonInvariant, TLAPS

-----------------------------------------------------------------------------
(* The type invariant in two parts: the Boolean variables, and the others. *)
TypeFlags == /\ expect \in BOOLEAN /\ firstdump \in BOOLEAN /\ zmqerr \in BOOLEAN
             /\ stopreq \in [Runs -> BOOLEAN]
TypeData ==
  /\ reservation \in Users \cup {NoUser} /\ seq \in Tokens \cup {0}
  /\ held \in [Users -> Tokens \cup {0}] /\ status \in Statuses
  /\ mpc \in {"serve", "prepare", "launch", "expect", "poll", "check", "join", "off"}
  /\ goal \in {"none", "block", "start", "kickoff", "stop", "kill", "abandon", "exit"}
  /\ caller \in Users \cup {NoUser} /\ left \in 0..MaxPolls
  /\ run \in 0..MaxRuns /\ issuer \in [Runs -> Users \cup {NoUser}]
  /\ thread \in [Runs -> {"none", "spawn", "loop", "killed", "finish", "clear",
                          "done", "crashed"}]
  /\ proc \in [Runs -> {"none", "alive", "killed", "exited"}]
  /\ mon \in {"none", "recv", "parse", "mark", "dead"} /\ pipe \in 0..MaxPipe

LEMMA TypeParts == TypeOK <=> TypeFlags /\ TypeData
  BY Zenon DEF TypeOK, TypeFlags, TypeData

(* Every step keeps the other variables in their types. *)
LEMMA DataStep ==
  ASSUME TypeData, [Next]_vars
  PROVE  TypeData'
<1> USE UsersAssumption, TokensAssumption, BoundsAssumption DEF TypeData,
     Statuses, Runs, rpcVars, serverVars, trexVars, runVars, monVars
<1>1. ASSUME NEW u \in Users, Reserve(u) PROVE TypeData'
  BY <1>1 DEF Reserve, Serving
<1>2. ASSUME NEW u \in Users, Cancel(u) PROVE TypeData'
  BY <1>2 DEF Cancel, Serving
<1>3. ASSUME NEW u \in Users, Stop(u) PROVE TypeData'
  BY <1>3 DEF Stop, Serving, JoinSession
<1>4. ASSUME NEW u \in Users, NEW block \in BOOLEAN, Start(u, block) PROVE TypeData'
  BY <1>4 DEF Start, Serving, Admitted
<1>5. CASE Query
  BY <1>5 DEF Query, Serving
<1>6. CASE Kickoff
  BY <1>6 DEF Kickoff, Serving
<1>7. CASE ForceKill
  BY <1>7 DEF ForceKill, Serving, JoinSession
<1>8. CASE Terminate
  BY <1>8 DEF Terminate, Serving, JoinSession, Return
<1>9. CASE Interrupt
  BY <1>9 DEF Interrupt, Serving, Return
<1>10. CASE Prepare
  BY <1>10 DEF Prepare
<1>11. CASE Launch
  BY <1>11 DEF Launch
<1>12. CASE Expect
  BY <1>12 DEF Expect, Grant, Return
<1>13. CASE PollStatus
  BY <1>13 DEF PollStatus, Grant, Return
<1>14. CASE CheckMonitor
  BY <1>14 DEF CheckMonitor, JoinSession, Return
<1>15. CASE JoinReturn
  BY <1>15 DEF JoinReturn, Return, Ended
<1>16. CASE Receive
  BY <1>16 DEF Receive
<1>17. CASE Parse
  BY <1>17 DEF Parse
<1>18. CASE MarkRunning
  BY <1>18 DEF MarkRunning
<1>19. ASSUME NEW r \in Runs, Publish(r) PROVE TypeData'
  BY <1>19 DEF Publish
<1>20. ASSUME NEW r \in Runs, Exit(r) PROVE TypeData'
  BY <1>20 DEF Exit
<1>21. ASSUME NEW r \in Runs, Spawn(r) PROVE TypeData'
  BY <1>21 DEF Spawn
<1>22. ASSUME NEW r \in Runs, Notice(r) PROVE TypeData'
  BY <1>22 DEF Notice
<1>23. ASSUME NEW r \in Runs, Kill(r) PROVE TypeData'
  BY <1>23 DEF Kill
<1>24. ASSUME NEW r \in Runs, SetIdle(r) PROVE TypeData'
  BY <1>24 DEF SetIdle
<1>25. ASSUME NEW r \in Runs, Clear(r) PROVE TypeData'
  BY <1>25 DEF Clear
<1>26. CASE UNCHANGED vars
  BY <1>26 DEF vars
<1>q. QED
  BY <1>1, <1>2, <1>3, <1>4, <1>5, <1>6, <1>7, <1>8, <1>9, <1>10, <1>11, <1>12,
     <1>13, <1>14, <1>15, <1>16, <1>17, <1>18, <1>19, <1>20, <1>21, <1>22, <1>23,
     <1>24, <1>25, <1>26
  DEF Next, Request, Signal, Progress, Thread, Monitor, World, Off

(* Every step keeps the Boolean variables Boolean. *)
LEMMA FlagStep ==
  ASSUME TypeFlags, [Next]_vars
  PROVE  TypeFlags'
<1> USE DEF TypeFlags, rpcVars, serverVars, trexVars, runVars, monVars
<1>1. ASSUME NEW u \in Users, Reserve(u) PROVE TypeFlags'
  BY <1>1, Zenon DEF Reserve, Serving
<1>2. ASSUME NEW u \in Users, Cancel(u) PROVE TypeFlags'
  BY <1>2, Zenon DEF Cancel, Serving
<1>3. ASSUME NEW u \in Users, Stop(u) PROVE TypeFlags'
  BY <1>3, Zenon DEF Stop, Serving, JoinSession
<1>4. ASSUME NEW u \in Users, NEW block \in BOOLEAN, Start(u, block) PROVE TypeFlags'
  BY <1>4, Zenon DEF Start, Serving, Admitted
<1>5. CASE Query
  BY <1>5, Zenon DEF Query, Serving
<1>6. CASE Kickoff
  BY <1>6, Zenon DEF Kickoff, Serving
<1>7. CASE ForceKill
  BY <1>7, Zenon DEF ForceKill, Serving, JoinSession
<1>8. CASE Terminate
  BY <1>8, Zenon DEF Terminate, Serving, JoinSession, Return
<1>9. CASE Interrupt
  BY <1>9, Zenon DEF Interrupt, Serving, Return
<1>10. CASE Prepare
  BY <1>10, Zenon DEF Prepare
<1>11. CASE Launch
  BY <1>11, Zenon DEF Launch
<1>12. CASE Expect
  BY <1>12, Zenon DEF Expect, Grant, Return
<1>13. CASE PollStatus
  BY <1>13, Zenon DEF PollStatus, Grant, Return
<1>14. CASE CheckMonitor
  BY <1>14, Zenon DEF CheckMonitor, JoinSession, Return
<1>15. CASE JoinReturn
  BY <1>15, Zenon DEF JoinReturn, Return, Ended
<1>16. CASE Receive
  BY <1>16, Zenon DEF Receive
<1>17. CASE Parse
  BY <1>17, Zenon DEF Parse
<1>18. CASE MarkRunning
  BY <1>18, Zenon DEF MarkRunning
<1>19. ASSUME NEW r \in Runs, Publish(r) PROVE TypeFlags'
  BY <1>19, Zenon DEF Publish
<1>20. ASSUME NEW r \in Runs, Exit(r) PROVE TypeFlags'
  BY <1>20, Zenon DEF Exit
<1>21. ASSUME NEW r \in Runs, Spawn(r) PROVE TypeFlags'
  BY <1>21, Zenon DEF Spawn
<1>22. ASSUME NEW r \in Runs, Notice(r) PROVE TypeFlags'
  BY <1>22, Zenon DEF Notice
<1>23. ASSUME NEW r \in Runs, Kill(r) PROVE TypeFlags'
  BY <1>23, Zenon DEF Kill
<1>24. ASSUME NEW r \in Runs, SetIdle(r) PROVE TypeFlags'
  BY <1>24, Zenon DEF SetIdle
<1>25. ASSUME NEW r \in Runs, Clear(r) PROVE TypeFlags'
  BY <1>25, Zenon DEF Clear
<1>26. CASE UNCHANGED vars
  BY <1>26 DEF vars
<1>q. QED
  BY <1>1, <1>2, <1>3, <1>4, <1>5, <1>6, <1>7, <1>8, <1>9, <1>10, <1>11, <1>12,
     <1>13, <1>14, <1>15, <1>16, <1>17, <1>18, <1>19, <1>20, <1>21, <1>22, <1>23,
     <1>24, <1>25, <1>26
  DEF Next, Request, Signal, Progress, Thread, Monitor, World, Off

LEMMA TypeInit == Init => TypeOK
<1>1. Init => TypeFlags
  BY Zenon DEF Init, TypeFlags
<1>2. Init => TypeData
  BY UsersAssumption, TokensAssumption, BoundsAssumption DEF Init, TypeData, Statuses,
     Runs
<1>3. QED  BY <1>1, <1>2, TypeParts

LEMMA TypeStep ==
  ASSUME TypeOK, [Next]_vars
  PROVE  TypeOK'
<1>1. TypeFlags' /\ TypeData'
  BY TypeParts, FlagStep, DataStep
<1>2. QED
  BY <1>1, Zenon DEF TypeOK, TypeFlags, TypeData

(* Every variable of the daemon keeps to its type. *)
THEOREM TypeCorrect == Spec => []TypeOK
<1>1. Init => TypeOK
  BY TypeInit
<1>2. TypeOK /\ [Next]_vars => TypeOK'
  BY TypeStep
<1>3. QED  BY <1>1, <1>2, PTL DEF Spec

-----------------------------------------------------------------------------
(* One thread at a time is at work on a run. *)
LEMMA ThreadStep ==
  ASSUME Calm, TypeOK, DaemonInv, [Next]_vars
  PROVE  ThreadInv'
<1> USE UsersAssumption, BoundsAssumption DEF Calm, DaemonInv, ThreadInv, IdleInv,
     CallInv, HolderInv, Over, Ended, Alive, TypeOK, Runs, rpcVars, serverVars,
     trexVars, runVars, monVars
<1>1. ASSUME NEW u \in Users, Reserve(u) PROVE ThreadInv'
  BY <1>1 DEF Reserve, Serving
<1>2. ASSUME NEW u \in Users, Cancel(u) PROVE ThreadInv'
  BY <1>2 DEF Cancel, Serving
<1>3. ASSUME NEW u \in Users, Stop(u) PROVE ThreadInv'
  BY <1>3 DEF Stop, Serving, JoinSession
<1>4. ASSUME NEW u \in Users, NEW block \in BOOLEAN, Start(u, block) PROVE ThreadInv'
  BY <1>4 DEF Start, Serving, Admitted
<1>5. CASE Query
  BY <1>5 DEF Query, Serving
<1>6. CASE Kickoff
  BY <1>6 DEF Kickoff, Serving
<1>7. CASE ForceKill
  BY <1>7 DEF ForceKill, Serving, JoinSession
<1>8. CASE Terminate
  BY <1>8 DEF Terminate, Serving, JoinSession, Return
<1>9. CASE Interrupt
  BY <1>9 DEF Interrupt, Serving, Return
<1>10. CASE Prepare
  BY <1>10 DEF Prepare
<1>11. CASE Launch
  BY <1>11 DEF Launch
<1>12. CASE Expect
  BY <1>12 DEF Expect, Grant, Return
<1>13. CASE PollStatus
  BY <1>13 DEF PollStatus, Grant, Return
<1>14. CASE CheckMonitor
  BY <1>14 DEF CheckMonitor, JoinSession, Return
<1>15. CASE JoinReturn
  BY <1>15 DEF JoinReturn, Return, Ended
<1>16. CASE Receive
  BY <1>16 DEF Receive
<1>17. CASE Parse
  BY <1>17 DEF Parse
<1>18. CASE MarkRunning
  BY <1>18 DEF MarkRunning
<1>19. ASSUME NEW r \in Runs, Publish(r) PROVE ThreadInv'
  BY <1>19 DEF Publish
<1>20. ASSUME NEW r \in Runs, Exit(r) PROVE ThreadInv'
  BY <1>20 DEF Exit
<1>21. ASSUME NEW r \in Runs, Spawn(r) PROVE ThreadInv'
  BY <1>21 DEF Spawn
<1>22. ASSUME NEW r \in Runs, Notice(r) PROVE ThreadInv'
  BY <1>22 DEF Notice
<1>23. ASSUME NEW r \in Runs, Kill(r) PROVE ThreadInv'
  BY <1>23 DEF Kill
<1>24. ASSUME NEW r \in Runs, SetIdle(r) PROVE ThreadInv'
  BY <1>24 DEF SetIdle
<1>25. ASSUME NEW r \in Runs, Clear(r) PROVE ThreadInv'
  BY <1>25 DEF Clear
<1>26. CASE UNCHANGED vars
  BY <1>26 DEF vars
<1>q. QED
  BY <1>1, <1>2, <1>3, <1>4, <1>5, <1>6, <1>7, <1>8, <1>9, <1>10, <1>11, <1>12,
     <1>13, <1>14, <1>15, <1>16, <1>17, <1>18, <1>19, <1>20, <1>21, <1>22, <1>23,
     <1>24, <1>25, <1>26
  DEF Next, Request, Signal, Progress, Thread, Monitor, World, Off

(* Idle is reported only at the end of the last run. *)
LEMMA IdleStep ==
  ASSUME Calm, TypeOK, DaemonInv, [Next]_vars
  PROVE  IdleInv'
<1> USE UsersAssumption, BoundsAssumption DEF Calm, DaemonInv, ThreadInv, IdleInv,
     CallInv, HolderInv, Over, Ended, Alive, TypeOK, Runs, rpcVars, serverVars,
     trexVars, runVars, monVars
<1>1. ASSUME NEW u \in Users, Reserve(u) PROVE IdleInv'
  BY <1>1 DEF Reserve, Serving
<1>2. ASSUME NEW u \in Users, Cancel(u) PROVE IdleInv'
  BY <1>2 DEF Cancel, Serving
<1>3. ASSUME NEW u \in Users, Stop(u) PROVE IdleInv'
  BY <1>3 DEF Stop, Serving, JoinSession
<1>4. ASSUME NEW u \in Users, NEW block \in BOOLEAN, Start(u, block) PROVE IdleInv'
  BY <1>4 DEF Start, Serving, Admitted
<1>5. CASE Query
  BY <1>5 DEF Query, Serving
<1>6. CASE Kickoff
  BY <1>6 DEF Kickoff, Serving
<1>7. CASE ForceKill
  BY <1>7 DEF ForceKill, Serving, JoinSession
<1>8. CASE Terminate
  BY <1>8 DEF Terminate, Serving, JoinSession, Return
<1>9. CASE Interrupt
  BY <1>9 DEF Interrupt, Serving, Return
<1>10. CASE Prepare
  BY <1>10 DEF Prepare
<1>11. CASE Launch
  BY <1>11 DEF Launch
<1>12. CASE Expect
  BY <1>12 DEF Expect, Grant, Return
<1>13. CASE PollStatus
  BY <1>13 DEF PollStatus, Grant, Return
<1>14. CASE CheckMonitor
  BY <1>14 DEF CheckMonitor, JoinSession, Return
<1>15. CASE JoinReturn
  BY <1>15 DEF JoinReturn, Return, Ended
<1>16. CASE Receive
  BY <1>16 DEF Receive
<1>17. CASE Parse
  BY <1>17 DEF Parse
<1>18. CASE MarkRunning
  BY <1>18 DEF MarkRunning
<1>19. ASSUME NEW r \in Runs, Publish(r) PROVE IdleInv'
  BY <1>19 DEF Publish
<1>20. ASSUME NEW r \in Runs, Exit(r) PROVE IdleInv'
  BY <1>20 DEF Exit
<1>21. ASSUME NEW r \in Runs, Spawn(r) PROVE IdleInv'
  BY <1>21 DEF Spawn
<1>22. ASSUME NEW r \in Runs, Notice(r) PROVE IdleInv'
  BY <1>22 DEF Notice
<1>23. ASSUME NEW r \in Runs, Kill(r) PROVE IdleInv'
  BY <1>23 DEF Kill
<1>24. ASSUME NEW r \in Runs, SetIdle(r) PROVE IdleInv'
  BY <1>24 DEF SetIdle
<1>25. ASSUME NEW r \in Runs, Clear(r) PROVE IdleInv'
  BY <1>25 DEF Clear
<1>26. CASE UNCHANGED vars
  BY <1>26 DEF vars
<1>q. QED
  BY <1>1, <1>2, <1>3, <1>4, <1>5, <1>6, <1>7, <1>8, <1>9, <1>10, <1>11, <1>12,
     <1>13, <1>14, <1>15, <1>16, <1>17, <1>18, <1>19, <1>20, <1>21, <1>22, <1>23,
     <1>24, <1>25, <1>26
  DEF Next, Request, Signal, Progress, Thread, Monitor, World, Off

(* main does not leave a run that it asked to stop. *)
LEMMA CallStep ==
  ASSUME Calm, TypeOK, DaemonInv, [Next]_vars
  PROVE  CallInv'
<1> USE UsersAssumption, BoundsAssumption DEF Calm, DaemonInv, ThreadInv, IdleInv,
     CallInv, HolderInv, Over, Ended, Alive, TypeOK, Runs, rpcVars, serverVars,
     trexVars, runVars, monVars
<1>1. ASSUME NEW u \in Users, Reserve(u) PROVE CallInv'
  BY <1>1 DEF Reserve, Serving
<1>2. ASSUME NEW u \in Users, Cancel(u) PROVE CallInv'
  BY <1>2 DEF Cancel, Serving
<1>3. ASSUME NEW u \in Users, Stop(u) PROVE CallInv'
  BY <1>3 DEF Stop, Serving, JoinSession
<1>4. ASSUME NEW u \in Users, NEW block \in BOOLEAN, Start(u, block) PROVE CallInv'
  BY <1>4 DEF Start, Serving, Admitted
<1>5. CASE Query
  BY <1>5 DEF Query, Serving
<1>6. CASE Kickoff
  BY <1>6 DEF Kickoff, Serving
<1>7. CASE ForceKill
  BY <1>7 DEF ForceKill, Serving, JoinSession
<1>8. CASE Terminate
  BY <1>8 DEF Terminate, Serving, JoinSession, Return
<1>9. CASE Interrupt
  BY <1>9 DEF Interrupt, Serving, Return
<1>10. CASE Prepare
  BY <1>10 DEF Prepare
<1>11. CASE Launch
  BY <1>11 DEF Launch
<1>12. CASE Expect
  BY <1>12 DEF Expect, Grant, Return
<1>13. CASE PollStatus
  BY <1>13 DEF PollStatus, Grant, Return
<1>14. CASE CheckMonitor
  BY <1>14 DEF CheckMonitor, JoinSession, Return
<1>15. CASE JoinReturn
  BY <1>15 DEF JoinReturn, Return, Ended
<1>16. CASE Receive
  BY <1>16 DEF Receive
<1>17. CASE Parse
  BY <1>17 DEF Parse
<1>18. CASE MarkRunning
  BY <1>18 DEF MarkRunning
<1>19. ASSUME NEW r \in Runs, Publish(r) PROVE CallInv'
  BY <1>19 DEF Publish
<1>20. ASSUME NEW r \in Runs, Exit(r) PROVE CallInv'
  BY <1>20 DEF Exit
<1>21. ASSUME NEW r \in Runs, Spawn(r) PROVE CallInv'
  BY <1>21 DEF Spawn
<1>22. ASSUME NEW r \in Runs, Notice(r) PROVE CallInv'
  BY <1>22 DEF Notice
<1>23. ASSUME NEW r \in Runs, Kill(r) PROVE CallInv'
  BY <1>23 DEF Kill
<1>24. ASSUME NEW r \in Runs, SetIdle(r) PROVE CallInv'
  BY <1>24 DEF SetIdle
<1>25. ASSUME NEW r \in Runs, Clear(r) PROVE CallInv'
  BY <1>25 DEF Clear
<1>26. CASE UNCHANGED vars
  BY <1>26 DEF vars
<1>q. QED
  BY <1>1, <1>2, <1>3, <1>4, <1>5, <1>6, <1>7, <1>8, <1>9, <1>10, <1>11, <1>12,
     <1>13, <1>14, <1>15, <1>16, <1>17, <1>18, <1>19, <1>20, <1>21, <1>22, <1>23,
     <1>24, <1>25, <1>26
  DEF Next, Request, Signal, Progress, Thread, Monitor, World, Off

(* No run of another user is under way while TRex is reserved. *)
LEMMA HolderStep ==
  ASSUME Calm, TypeOK, DaemonInv, [Next]_vars
  PROVE  HolderInv'
<1> USE UsersAssumption, BoundsAssumption DEF Calm, DaemonInv, ThreadInv, IdleInv,
     CallInv, HolderInv, Over, Ended, Alive, TypeOK, Runs, rpcVars, serverVars,
     trexVars, runVars, monVars
<1>1. ASSUME NEW u \in Users, Reserve(u) PROVE HolderInv'
  BY <1>1 DEF Reserve, Serving
<1>2. ASSUME NEW u \in Users, Cancel(u) PROVE HolderInv'
  BY <1>2 DEF Cancel, Serving
<1>3. ASSUME NEW u \in Users, Stop(u) PROVE HolderInv'
  BY <1>3 DEF Stop, Serving, JoinSession
<1>4. ASSUME NEW u \in Users, NEW block \in BOOLEAN, Start(u, block) PROVE HolderInv'
  BY <1>4 DEF Start, Serving, Admitted
<1>5. CASE Query
  BY <1>5 DEF Query, Serving
<1>6. CASE Kickoff
  BY <1>6 DEF Kickoff, Serving
<1>7. CASE ForceKill
  BY <1>7 DEF ForceKill, Serving, JoinSession
<1>8. CASE Terminate
  BY <1>8 DEF Terminate, Serving, JoinSession, Return
<1>9. CASE Interrupt
  BY <1>9 DEF Interrupt, Serving, Return
<1>10. CASE Prepare
  BY <1>10 DEF Prepare
<1>11. CASE Launch
  BY <1>11 DEF Launch
<1>12. CASE Expect
  BY <1>12 DEF Expect, Grant, Return
<1>13. CASE PollStatus
  BY <1>13 DEF PollStatus, Grant, Return
<1>14. CASE CheckMonitor
  BY <1>14 DEF CheckMonitor, JoinSession, Return
<1>15. CASE JoinReturn
  BY <1>15 DEF JoinReturn, Return, Ended
<1>16. CASE Receive
  BY <1>16 DEF Receive
<1>17. CASE Parse
  BY <1>17 DEF Parse
<1>18. CASE MarkRunning
  BY <1>18 DEF MarkRunning
<1>19. ASSUME NEW r \in Runs, Publish(r) PROVE HolderInv'
  BY <1>19 DEF Publish
<1>20. ASSUME NEW r \in Runs, Exit(r) PROVE HolderInv'
  BY <1>20 DEF Exit
<1>21. ASSUME NEW r \in Runs, Spawn(r) PROVE HolderInv'
  BY <1>21 DEF Spawn
<1>22. ASSUME NEW r \in Runs, Notice(r) PROVE HolderInv'
  BY <1>22 DEF Notice
<1>23. ASSUME NEW r \in Runs, Kill(r) PROVE HolderInv'
  BY <1>23 DEF Kill
<1>24. ASSUME NEW r \in Runs, SetIdle(r) PROVE HolderInv'
  BY <1>24 DEF SetIdle
<1>25. ASSUME NEW r \in Runs, Clear(r) PROVE HolderInv'
  BY <1>25 DEF Clear
<1>26. CASE UNCHANGED vars
  BY <1>26 DEF vars
<1>q. QED
  BY <1>1, <1>2, <1>3, <1>4, <1>5, <1>6, <1>7, <1>8, <1>9, <1>10, <1>11, <1>12,
     <1>13, <1>14, <1>15, <1>16, <1>17, <1>18, <1>19, <1>20, <1>21, <1>22, <1>23,
     <1>24, <1>25, <1>26
  DEF Next, Request, Signal, Progress, Thread, Monitor, World, Off

(* The invariant is what the safety properties say, and more. *)
LEMMA InvImplies ==
  ASSUME TypeOK, DaemonInv
  PROVE  NoOrphan /\ OneRun /\ HolderRuns
<1>1. \A r \in Runs : Alive(r) => r = run /\ thread[run] = "loop" /\ run # 0
  BY BoundsAssumption DEF DaemonInv, ThreadInv, Over, TypeOK, Runs
<1>2. NoOrphan
  BY <1>1 DEF NoOrphan, DaemonInv, IdleInv, Over
<1>3. OneRun
  BY <1>1 DEF OneRun
<1>4. HolderRuns
  BY <1>1 DEF HolderRuns, DaemonInv, HolderInv
<1>5. QED  BY <1>2, <1>3, <1>4

(* A process comes from a thread that has begun its work. *)
LEMMA ProcStep ==
  ASSUME TypeOK, DaemonInv, ProcInv, [Next]_vars
  PROVE  ProcInv'
<1> USE BoundsAssumption DEF ProcInv, TypeOK, Runs, rpcVars, serverVars, trexVars, runVars, monVars
<1>1. ASSUME UNCHANGED runVars \/ UNCHANGED <<thread, proc>> PROVE ProcInv'
  BY <1>1
<1>2. CASE Request
  <2>1. UNCHANGED <<thread, proc>>
    BY <1>2 DEF Request, Reserve, Cancel, Stop, Start, Query, Kickoff, ForceKill,
       JoinSession
  <2> QED
    BY <1>1, <2>1
<1>3. CASE Signal
  <2>1. UNCHANGED <<thread, proc>>
    BY <1>3 DEF Signal, Terminate, Interrupt, JoinSession
  <2> QED
    BY <1>1, <2>1
<1>4. CASE Progress
  <2>1. CASE Launch
    <3>1. thread[run + 1] = "none" /\ run + 1 \in Runs
      BY <2>1 DEF Launch, DaemonInv, ThreadInv
    <3> QED
      BY <2>1, <3>1 DEF Launch
  <2>2. CASE ~Launch
    <3>1. UNCHANGED <<thread, proc>>
      BY <1>4, <2>2 DEF Progress, Prepare, Expect, PollStatus, CheckMonitor,
         JoinReturn, JoinSession
    <3> QED
      BY <1>1, <3>1
  <2> QED
    BY <2>1, <2>2
<1>5. CASE Monitor
  BY <1>1, <1>5 DEF Monitor, Receive, Parse, MarkRunning
<1>6. CASE World
  BY <1>6 DEF World, Publish, Exit
<1>7. ASSUME NEW r \in Runs, Thread(r) PROVE ProcInv'
  BY <1>7 DEF Thread, Spawn, Notice, Kill, SetIdle, Clear
<1>8. CASE UNCHANGED vars
  BY <1>1, <1>8 DEF vars
<1> QED
  BY <1>2, <1>3, <1>4, <1>5, <1>6, <1>7, <1>8 DEF Next, Off

(* A run is somebody's, and so is a start in progress. *)
LEMMA IssuerStep ==
  ASSUME TypeOK, IssuerInv, [Next]_vars
  PROVE  IssuerInv'
<1> USE BoundsAssumption DEF IssuerInv, TypeOK, Runs, rpcVars, serverVars, trexVars, runVars, monVars
<1>2. CASE Request
  BY <1>2 DEF Request, Reserve, Cancel, Stop, Start, Query, Kickoff, ForceKill,
     JoinSession, Serving
<1>3. CASE Signal
  BY <1>3 DEF Signal, Terminate, Interrupt, JoinSession, Return
<1>4. CASE Prepare \/ Expect \/ PollStatus \/ CheckMonitor \/ JoinReturn
  BY <1>4 DEF Prepare, Expect, PollStatus, CheckMonitor, JoinReturn, JoinSession,
     Grant, Return
<1>5. CASE Launch
  BY <1>5 DEF Launch
<1>6. CASE Monitor \/ World
  BY <1>6 DEF Monitor, Receive, Parse, MarkRunning, World, Publish, Exit
<1>7. ASSUME NEW r \in Runs, Thread(r) PROVE IssuerInv'
  BY <1>7 DEF Thread, Spawn, Notice, Kill, SetIdle, Clear
<1>8. CASE UNCHANGED vars
  BY <1>8 DEF vars
<1> QED
  BY <1>2, <1>3, <1>4, <1>5, <1>6, <1>7, <1>8 DEF Next, Off, Progress

LEMMA InitInv == Init => DaemonInv /\ ProcInv /\ IssuerInv
  BY BoundsAssumption
  DEF Init, Runs, DaemonInv, ThreadInv, IdleInv, CallInv, HolderInv, ProcInv,
     IssuerInv, Over,
      Alive, Ended

(* The inductive invariant: one thread at a time, whose status is its own.   *)
THEOREM Invariant == Calm => (Spec => []DaemonInv)
<1> SUFFICES ASSUME Calm PROVE Spec => []DaemonInv
  OBVIOUS
<1>1. TypeOK /\ DaemonInv /\ [Next]_vars => DaemonInv'
  BY ThreadStep, IdleStep, CallStep, HolderStep DEF DaemonInv
<1>2. QED  BY <1>1, InitInv, TypeCorrect, PTL DEF Spec

(* A daemon that reports Idle has left no process running.                   *)
THEOREM NothingOrphaned == Calm => (Spec => []NoOrphan)
<1> SUFFICES ASSUME Calm PROVE Spec => []NoOrphan
  OBVIOUS
<1>1. TypeOK /\ DaemonInv => NoOrphan
  BY InvImplies
<1>2. QED  BY <1>1, Invariant, TypeCorrect, PTL

(* It launches no process on top of another.                                 *)
THEOREM OneAtATime == Calm => (Spec => []OneRun)
<1> SUFFICES ASSUME Calm PROVE Spec => []OneRun
  OBVIOUS
<1>1. TypeOK /\ DaemonInv => OneRun
  BY InvImplies
<1>2. QED  BY <1>1, Invariant, TypeCorrect, PTL

(* While TRex is reserved it runs only what the holder started.              *)
THEOREM OnlyTheHolders == Calm => (Spec => []HolderRuns)
<1> SUFFICES ASSUME Calm PROVE Spec => []HolderRuns
  OBVIOUS
<1>1. TypeOK /\ DaemonInv => HolderRuns
  BY InvImplies
<1>2. QED  BY <1>1, Invariant, TypeCorrect, PTL

-----------------------------------------------------------------------------
(* The daemon implements TrexTurns.                                         *)

live == {<<r, issuer[r]>> : r \in {q \in Runs : Alive(q)}}
past == {r \in Runs : proc[r] \in {"killed", "exited"}}

LEMMA TurnsInit == Init => Turns!Init
  BY DEF Init, Turns!Init, Alive

LEMMA Invisible ==
  ASSUME UNCHANGED <<reservation, issuer, proc>>
  PROVE  UNCHANGED Turns!vars
  BY DEF Turns!vars, Alive

LEMMA TurnsStep ==
  ASSUME Calm, TypeOK, DaemonInv, ProcInv, IssuerInv, [Next]_vars
  PROVE  [Turns!Next]_(Turns!vars)
<1> USE BoundsAssumption DEF rpcVars, serverVars, trexVars, runVars, monVars
<1>0. \A r \in Runs : Alive(r) => r = run /\ thread[run] = "loop" /\ run # 0
  BY DEF DaemonInv, ThreadInv, Over, TypeOK, Runs
<1>1. ASSUME NEW u \in Users, Reserve(u) PROVE [Turns!Next]_(Turns!vars)
  <2>1. \A r \in Runs : ~Alive(r)
    BY <1>1, InvImplies DEF Reserve, NoOrphan
  <2>2. Turns!Take(u)
    BY <1>1, <2>1 DEF Reserve, Turns!Take, Alive
  <2> QED
    BY <2>2 DEF Turns!Next
<1>2. ASSUME NEW u \in Users, Cancel(u) PROVE [Turns!Next]_(Turns!vars)
  BY <1>2 DEF Cancel, Turns!Next, Turns!GiveBack, Alive
<1>3. ASSUME NEW u \in Users, Stop(u) \/ \E block \in BOOLEAN : Start(u, block)
      PROVE  [Turns!Next]_(Turns!vars)
  BY <1>3, Invisible DEF Stop, Start, JoinSession
<1>4. CASE Query \/ Kickoff \/ ForceKill \/ Signal \/ Monitor
  <2>1. UNCHANGED <<reservation, issuer, proc>>
    BY <1>4 DEF Query, Kickoff, ForceKill, Signal, Terminate, Interrupt, Monitor,
                Receive, Parse, MarkRunning, JoinSession
  <2> QED
    BY <2>1, Invisible
<1>5. CASE Launch
  <2>1. run + 1 \in Runs /\ proc[run + 1] = "none"
    BY <1>5 DEF Launch, DaemonInv, ThreadInv, ProcInv, TypeOK, Runs
  <2>2. /\ \A r \in Runs : r # run + 1 => issuer'[r] = issuer[r]
        /\ UNCHANGED <<reservation, proc>>
    BY <1>5 DEF Launch, TypeOK
  <2>3. \A r \in Runs : Alive(r) <=> Alive(r)'
    BY <2>2 DEF Alive
  <2>4. \A r \in Runs : Alive(r) => issuer'[r] = issuer[r]
    BY <2>1, <2>2 DEF Alive
  <2>5. live' = live /\ past' = past
    BY <2>2, <2>3, <2>4 DEF live, past
  <2> QED
    BY <2>2, <2>5 DEF Turns!vars, live, past
<1>6. CASE Prepare \/ Expect \/ PollStatus \/ CheckMonitor \/ JoinReturn
  <2>1. UNCHANGED <<reservation, issuer, proc>>
    BY <1>6 DEF Prepare, Expect, Grant, PollStatus, CheckMonitor, JoinReturn,
       JoinSession
  <2> QED
    BY <2>1, Invisible
<1>7. ASSUME NEW r \in Runs, Publish(r) PROVE [Turns!Next]_(Turns!vars)
  BY <1>7, Invisible DEF Publish
<1>8. ASSUME NEW r \in Runs, Exit(r) \/ Kill(r) PROVE [Turns!Next]_(Turns!vars)
  <2>1. UNCHANGED <<reservation, issuer>>
    BY <1>8 DEF Exit, Kill
  <2>2. CASE Alive(r)
    <3>1. /\ proc'[r] \in {"killed", "exited"}
          /\ \A s \in Runs : s # r => proc'[s] = proc[s]
      BY <1>8, <2>2 DEF Exit, Kill, TypeOK, Alive
    <3>2. \A s \in Runs : Alive(s) <=> s = r
      BY <1>0, <2>2
    <3>3. live = {<<r, issuer[r]>>}
      BY <3>2 DEF live
    <3>4. \A s \in Runs : ~Alive(s)'
      BY <3>1, <3>2 DEF Alive
    <3>5. live' = {}
      BY <3>4 DEF live
    <3>6. past' = past \cup {r}
      BY <3>1 DEF past
    <3>7. issuer[r] \in Users
      BY <1>0, <2>2 DEF IssuerInv
    <3>8. Turns!End
      BY <2>1, <3>3, <3>5, <3>6, <3>7 DEF Turns!End, live, past
    <3>9. Turns!Next
      BY <3>8, Zenon DEF Turns!Next
    <3> QED
      BY <3>9
  <2>3. CASE ~Alive(r)
    <3>1. \A s \in Runs : Alive(s)' <=> Alive(s)
      BY <1>8, <2>3 DEF Exit, Kill, TypeOK, Alive
    <3>2. live' = live
      BY <2>1, <3>1 DEF live
    <3>3. past' = past
      BY <1>8, <2>3 DEF Exit, Kill, TypeOK, Alive, past
    <3> QED
      BY <2>1, <3>2, <3>3 DEF Turns!vars, live, past
  <2> QED
    BY <2>2, <2>3
<1>9. ASSUME NEW r \in Runs, Spawn(r) PROVE [Turns!Next]_(Turns!vars)
  <2>1. thread[r] = "spawn" /\ proc[r] = "none" /\ UNCHANGED <<reservation, issuer>>
    BY <1>9 DEF Spawn, ProcInv
  <2>2. CASE proc' = proc
    BY <2>1, <2>2, Invisible
  <2>3. CASE proc' = [proc EXCEPT ![r] = "alive"]
    <3>1. r = run /\ \A s \in Runs : ~Alive(s)
      BY <1>0, <2>1 DEF DaemonInv, ThreadInv, Over, TypeOK, Runs
    <3>2. \A s \in Runs : Alive(s)' <=> s = r
      BY <2>3, <3>1 DEF Alive, TypeOK
    <3>3. live = {} /\ live' = {<<r, issuer[r]>>}
      BY <2>1, <3>1, <3>2 DEF live
    <3>4. past' = past /\ r \notin past
      BY <2>1, <2>3 DEF past, TypeOK
    <3>5. issuer[r] \in Users /\ reservation \in {NoUser, issuer[r]}
      BY <2>1, <3>1 DEF IssuerInv, DaemonInv, HolderInv, Runs
    <3>6. PICK u \in Users : u = issuer[r]
      BY <3>5
    <3>7. Turns!Begin(u)
      BY <2>1, <3>3, <3>4, <3>5, <3>6 DEF Turns!Begin, live, past
    <3> QED
      BY <3>7 DEF Turns!Next
  <2> QED
    BY <1>9, <2>2, <2>3 DEF Spawn
<1>10. ASSUME NEW r \in Runs, Notice(r) \/ SetIdle(r) \/ Clear(r)
       PROVE  [Turns!Next]_(Turns!vars)
  BY <1>10, Invisible DEF Notice, SetIdle, Clear
<1>11. CASE UNCHANGED vars
  BY <1>11, Invisible DEF vars
<1> QED
  BY <1>1, <1>2, <1>3, <1>4, <1>5, <1>6, <1>7, <1>8, <1>9, <1>10, <1>11
     DEF Next, Request, Progress, World, Thread, Off

(* Users who wait for their runs to end, and threads that end when they are  *)
(* told to: then the daemon is the device used in turns that TrexTurns       *)
(* describes.                                                                *)
THEOREM TurnsTaken == Calm => (Spec => TakesTurns)
<1> SUFFICES ASSUME Calm PROVE Spec => TakesTurns
  OBVIOUS
<1>1. Init => ProcInv /\ IssuerInv
  BY InitInv
<1>2. TypeOK /\ DaemonInv /\ ProcInv /\ IssuerInv /\ [Next]_vars => ProcInv' /\ IssuerInv'
  BY ProcStep, IssuerStep
<1>3. TypeOK /\ DaemonInv /\ ProcInv /\ IssuerInv /\ [Next]_vars => [Turns!Next]_(Turns!vars)
  BY TurnsStep
<1> QED
  BY <1>1, <1>2, <1>3, TurnsInit, Invariant, TypeCorrect, PTL DEF Spec, TakesTurns,
     Turns!Spec
=============================================================================
