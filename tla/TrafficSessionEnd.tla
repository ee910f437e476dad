------------------------- MODULE TrafficSessionEnd -------------------------
(* The end of an undisturbed session, for every set of ports and number of *)
(* jobs: disconnect() leaves nothing behind, and with a server that        *)
(* refuses nothing every job is done.                                      *)
EXTENDS TrafficSessionSafety

-----------------------------------------------------------------------------
\* HandlerInv holds: a handler is kept as long as the port.
LEMMA HandlerStep ==
  ASSUME TypeOK, Undisturbed, Dismissed, HandlerInv, LoopInv, OwnInv, NoTheftInv, StepKinds
  PROVE  HandlerInv'
  <1> USE PortsAssumption DEF TypeOK, Undisturbed, Dismissed, HandlerInv, LoopInv, Rest,
      OwnInv, Granted, NoTheftInv, TX, vars, clientVars,
      callVars, mainVars, subVars, serverVars
  <1>1. ASSUME NEW p \in Ports, Query(p) PROVE HandlerInv'
    BY <1>1 DEF SyncCall, Visits, Answered, AttrCall, Query, Answers
  <1>2. ASSUME NEW p \in Ports, AcquireCall(p) PROVE HandlerInv'
    BY <1>2 DEF AcquireCall, Visits, Answered, Answers
  <1>3. ASSUME NEW p \in Ports, ReleaseCall(p) PROVE HandlerInv'
    <2>1. phase = "release" /\ pc = "loop" /\ p \in todo /\ cur = NoPort
      BY <1>3 DEF ReleaseCall, Visits
    <2>2. handler[p] /\ owner[p] = "me"
      BY <2>1
    <2>3. "release" \notin Refusable
      OBVIOUS
    <2>4. /\ Answered(p, TRUE, "IDLE", "IDLE") /\ owner' = [owner EXCEPT ![p] = "none"]
          /\ UNCHANGED <<handler, phase, todo>>
      BY <1>3, <2>2, <2>3 DEF ReleaseCall, Answers, Answered
    <2> QED
      BY <2>1, <2>4 DEF Answered
  <1>4. ASSUME NEW p \in Ports, Edit(p) PROVE HandlerInv'
    BY <1>4 DEF RemoveCall, Visits, Answered, Skip, AddCall, Edit, Answers
  <1>5. ASSUME NEW p \in Ports, StopCall(p) PROVE HandlerInv'
    BY <1>5 DEF StopCall, Visits, Answered, Skip, Active, Publish, Answers
  <1>6. ASSUME NEW p \in Ports, StartCall(p) PROVE HandlerInv'
    BY <1>6 DEF StartCall, Visits, Answered, Skip, Publish, Answers
  <1>7. ASSUME NEW p \in Ports, Finish(p) PROVE HandlerInv'
    BY <1>7 DEF Finish, Publish
  <1>8. CASE Learn
    <2> USE DEF Replied, NextPort, OnReturn
    <2>1. CASE SyncReturn \/ AttrReturn
      BY <2>1 DEF SyncReturn, AttrReturn, ApplySync
    <2>2. CASE AcquireReturn
      <3>1. /\ phase = "acquire" /\ phase' = phase /\ ok /\ cur' = NoPort /\ owner' = owner
            /\ cur \in Ports /\ handler' = [handler EXCEPT ![cur] = TRUE]
        BY <2>2 DEF AcquireReturn
      <3> QED
        BY <3>1
    <2>3. CASE ReleaseReturn
      <3>1. /\ phase = "release" /\ phase' = phase /\ ok /\ cur' = NoPort /\ owner' = owner
            /\ cur \in Ports /\ handler' = [handler EXCEPT ![cur] = FALSE]
            /\ todo' = todo \ {cur}
        BY <2>3 DEF ReleaseReturn
      <3> QED
        BY <3>1
    <2> QED
      BY <1>8, <2>1, <2>2, <2>3 DEF Learn
  <1>9. CASE Adopt
    BY <1>9 DEF StopReturn, Replied, NextPort, OnReturn, RemoveReturn,
        AddReturn, Adopt
  <1>10. CASE Settle
    BY <1>10 DEF StartReturn, Replied, NextPort, OnReturn, StartApply, Settle
  <1>11. CASE Open
    BY <1>11 DEF ConnectDone, LoopOver, Enter, Between, Reconnect, Everywhere,
        BeginJob, AcquireDone, RaiseOr, Conclude, Known, Acquired, Open
  <1>12. CASE Prepare
    BY <1>12 DEF StopDone, LoopOver, Enter, Between, RaiseOr, Conclude, Known,
        Acquired, ActiveProfiles, Active, RemoveDone, ResetDone, BeginAdd,
        AddDone, Prepare, Answers
  <1>13. CASE Watch
    BY <1>13 DEF StartDone, LoopOver, Enter, Between, RaiseOr, Conclude,
        Acquired, WaitDone, Active, Watch
  <1>14. CASE Close
    BY <1>14 DEF BeginCapture, Enter, Between, BeginHalt, ActiveProfiles,
        Acquired, HaltDone, LoopOver, CleanupDone, Conclude, ReleaseDone, Close, Active
  <1>15. CASE Fetch
    BY <1>15 DEF Fetch
  <1>16. CASE Handle
    <2>1. Head(inbox).type # "acquired"
      BY <1>16, HeadEvent DEF Handle
    <2>2. UNCHANGED <<handler, owner, phase, todo, cur, ok>>
      BY <1>16, <2>1 DEF Handle
    <2> QED
      BY <2>2
  <1>17. CASE ReadProfile
    BY <1>17 DEF ReadProfile
  <1>18. CASE WriteState
    BY <1>18 DEF WriteState
  <1>19. CASE TimePasses
    BY <1>19 DEF TimePasses
  <1>20. CASE UNCHANGED vars
    BY <1>20
  <1> QED
    BY <1>1, <1>2, <1>3, <1>4, <1>5, <1>6, <1>7, <1>8, <1>9, <1>10, <1>11,
       <1>12, <1>13, <1>14, <1>15, <1>16, <1>17, <1>18, <1>19, <1>20 DEF StepKinds

-----------------------------------------------------------------------------
\* EndInv holds: what transmits is still to be stopped.
LEMMA EndStep ==
  ASSUME TypeOK, Undisturbed, Dismissed, EndInv, HandlerInv, LoopInv, OwnInv,
         NoTheftInv, AgreeInv, StepKinds
  PROVE  EndInv'
  <1> USE PortsAssumption DEF TypeOK, Undisturbed, Dismissed, EndInv, HandlerInv, LoopInv,
      Rest, OwnInv, Granted, NoTheftInv, AgreeInv, Preparing, FinishPending, Handling,
      TX, vars, clientVars,
      callVars, mainVars, subVars, serverVars
  <1>1. ASSUME NEW p \in Ports, Query(p) PROVE EndInv'
    BY <1>1 DEF SyncCall, Visits, Answered, AttrCall, Query, Answers
  <1>2. ASSUME NEW p \in Ports, AcquireCall(p) PROVE EndInv'
    BY <1>2 DEF AcquireCall, Visits, Answered, Answers
  <1>3. ASSUME NEW p \in Ports, ReleaseCall(p) PROVE EndInv'
    BY <1>3 DEF ReleaseCall, Visits, Answered, Answers
  <1>4. ASSUME NEW p \in Ports, Edit(p) PROVE EndInv'
    BY <1>4 DEF RemoveCall, Visits, Answered, Skip, AddCall, Edit, Answers
  <1>5. ASSUME NEW p \in Ports, StopCall(p) PROVE EndInv'
    <2>1. \A q : Has(events', Finished(q)) <=> Has(events, Finished(q))
      <3>1. events' = events \/ events' = Publish("stopped", p)
        BY <1>5 DEF StopCall, Skip
      <3> QED
        BY <3>1, PublishHas
    <2>2. /\ UNCHANGED <<phase, subpc, subport, inbox, state, prof>>
          /\ phase \in {"stop", "halt"} /\ pc = "loop" /\ p \in todo
          /\ \A q \in Ports : TX(q)' => TX(q)
      BY <1>5 DEF StopCall, Skip, Visits, Answered
    <2>3. phase = "halt" /\ TX(p) => ~TX(p)' /\ todo' = todo /\ cur' = p
      BY <1>5, <2>2 DEF StopCall, Answered, Answers, Active
    <2>4. phase = "halt" /\ ~TX(p) => todo \ {p} \subseteq todo' \ {cur'}
      BY <1>5, <2>2 DEF StopCall, Skip, Answered
    <2> QED
      BY <2>1, <2>2, <2>3, <2>4
  <1>6. ASSUME NEW p \in Ports, StartCall(p) PROVE EndInv'
    <2>1. phase = "start" /\ phase' = "start"
      BY <1>6 DEF StartCall, Skip, Visits, Answered
    <2> QED
      BY <2>1
  <1>7. ASSUME NEW p \in Ports, Finish(p) PROVE EndInv'
    <2>1. /\ traf' = [traf EXCEPT ![p] = "STREAMS"]
          /\ events' = events \/ events' = Publish("finished", p)
          /\ UNCHANGED <<phase, todo, cur, state, prof, inbox, subpc, subport>>
      BY <1>7 DEF Finish
    <2>2. \A q : q # p => (Has(events', Finished(q)) <=> Has(events, Finished(q)))
      BY <2>1, PublishHas
    <2> QED
      BY <2>1, <2>2
  <1>8. CASE Learn
    BY <1>8 DEF SyncReturn, Replied, NextPort, OnReturn, ApplySync,
        AcquireReturn, AttrReturn, ReleaseReturn, Learn
  <1>9. CASE Adopt
    BY <1>9 DEF StopReturn, Replied, NextPort, OnReturn, RemoveReturn,
        AddReturn, Adopt
  <1>10. CASE Settle
    BY <1>10 DEF StartReturn, Replied, NextPort, OnReturn, StartApply, Settle
  <1>11. CASE Open
    BY <1>11 DEF ConnectDone, LoopOver, Enter, Between, Reconnect, Everywhere,
        BeginJob, AcquireDone, RaiseOr, Conclude, Known, Acquired, Open
  <1>12. CASE Prepare
    BY <1>12 DEF StopDone, LoopOver, Enter, Between, RaiseOr, Conclude, Known,
        Acquired, ActiveProfiles, Active, RemoveDone, ResetDone, BeginAdd,
        AddDone, Prepare, Answers
  <1>13. CASE Watch
    BY <1>13 DEF StartDone, LoopOver, Enter, Between, RaiseOr, Conclude,
        Acquired, WaitDone, Active, Watch
  <1>14. CASE Close
    BY <1>14 DEF BeginCapture, Enter, Between, BeginHalt, ActiveProfiles,
        Acquired, HaltDone, LoopOver, CleanupDone, Conclude, ReleaseDone, Close, Active
  <1>15. CASE Fetch
    BY <1>15 DEF Fetch
  <1>16. CASE Handle
    <2>1. /\ inbox # <<>> /\ inbox' = Tail(inbox) /\ inbox \in Seq(Event) /\ subpc = "idle"
          /\ UNCHANGED <<phase, todo, cur, events, traf, state>>
      BY <1>16 DEF Handle
    <2>2. \A q : Has(inbox, Finished(q)) <=> Head(inbox) = Finished(q) \/ Has(inbox', Finished(q))
      BY <2>1, HasHeadTail
    <2>3. \A q : Head(inbox) = Finished(q)
                 <=> Head(inbox).type = "finished" /\ Head(inbox).port = q
      BY <2>1, HeadEvent
    <2> SUFFICES ASSUME NEW q \in Ports, TX(q), phase \in {"capture", "halt"}
                 PROVE  prof'[q] = prof[q] /\ ~FinishPending(q)'
      BY <2>1
    <2>4. \A r \in Ports : handler[r]
      OBVIOUS
    <2>5. \/ UNCHANGED <<prof, subpc, subport>>
          \/ /\ Head(inbox).type = "finished" /\ subport' = Head(inbox).port
             /\ prof' = [prof EXCEPT ![Head(inbox).port] = "STREAMS"]
      BY <1>16, <2>1, <2>4, HeadEvent DEF Handle, Applies
    <2>6. Head(inbox) # Finished(q) /\ ~FinishPending(q)
      BY <2>2
    <2>7. Head(inbox).port \in Ports
      BY <2>1, HeadEvent
    <2> QED
      BY <2>1, <2>2, <2>3, <2>5, <2>6, <2>7
  <1>17. CASE ReadProfile
    BY <1>17 DEF ReadProfile
  <1>18. CASE WriteState
    BY <1>18 DEF WriteState
  <1>19. CASE TimePasses
    BY <1>19 DEF TimePasses
  <1>20. CASE UNCHANGED vars
    BY <1>20
  <1> QED
    BY <1>1, <1>2, <1>3, <1>4, <1>5, <1>6, <1>7, <1>8, <1>9, <1>10, <1>11,
       <1>12, <1>13, <1>14, <1>15, <1>16, <1>17, <1>18, <1>19, <1>20 DEF StepKinds

-----------------------------------------------------------------------------
\* disconnect() leaves the server silent and free, whatever was refused before.
THEOREM EndsQuietly == Undisturbed /\ Dismissed => (Spec => []QuietAtEnd)
  <1> SUFFICES ASSUME Undisturbed, Dismissed PROVE Spec => []QuietAtEnd
    OBVIOUS
  <1>1. Init => HandlerInv /\ EndInv
    BY DEF Init, Everywhere, HandlerInv, EndInv, Undisturbed, TX
  <1>2. TypeOK /\ SafetyInv /\ HandlerInv /\ EndInv /\ [Next]_vars => HandlerInv' /\ EndInv'
    BY UndisturbedSteps, HandlerStep, EndStep DEF SafetyInv
  <1>3. HandlerInv /\ EndInv /\ OwnInv => QuietAtEnd
    BY DEF QuietAtEnd, EndInv, HandlerInv, TX
  <1> QED
    BY <1>1, <1>2, <1>3, TypeCorrect, Safety, PTL DEF Spec, SafetyInv

-----------------------------------------------------------------------------
\* FlawlessInv holds: nothing fails.
LEMMA FlawlessStep ==
  ASSUME TypeOK, Undisturbed, Willing, FlawlessInv, ReadyInv, SafetyInv, HandlerInv,
         StepKinds
  PROVE  FlawlessInv'
  <1> USE PortsAssumption DEF TypeOK, Undisturbed, Willing, FlawlessInv, ReadyInv, SafetyInv,
      HandlerInv, LoopInv, Rest, OwnInv, Granted, NoTheftInv, ClearInv, Preparing, TX, vars, clientVars,
      callVars, mainVars, subVars, serverVars
  <1>1. ASSUME NEW p \in Ports, Query(p) PROVE FlawlessInv'
    <2>1. CASE SyncCall(p)
      <3>1. phase = "connect" /\ ~handler[p] /\ traf[p] # "TX"
        BY <2>1 DEF SyncCall, Visits
      <3> QED
        BY <2>1, <3>1 DEF SyncCall, Answered, Answers
    <2>2. CASE AttrCall(p)
      <3>1. /\ phase = "attr" /\ pc = "loop" /\ cur = NoPort
            /\ handler[p] /\ owner[p] = "me" /\ traf[p] # "TX"
        BY <2>2 DEF AttrCall, Visits
      <3> QED
        BY <2>2, <3>1 DEF AttrCall, Answered, Answers
    <2> QED
      BY <1>1, <2>1, <2>2 DEF Query
  <1>2. ASSUME NEW p \in Ports, AcquireCall(p) PROVE FlawlessInv'
    BY <1>2 DEF AcquireCall, Visits, Answered, Answers
  <1>3. ASSUME NEW p \in Ports, ReleaseCall(p) PROVE FlawlessInv'
    BY <1>3 DEF ReleaseCall, Visits, Answered, Answers
  <1>4. ASSUME NEW p \in Ports, Edit(p) PROVE FlawlessInv'
    BY <1>4 DEF RemoveCall, Visits, Answered, Skip, AddCall, Edit, Answers
  <1>5. ASSUME NEW p \in Ports, StopCall(p) PROVE FlawlessInv'
    BY <1>5 DEF StopCall, Visits, Answered, Skip, Active, Publish, Answers
  <1>6. ASSUME NEW p \in Ports, StartCall(p) PROVE FlawlessInv'
    <2>1. phase = "start" /\ handler[p] /\ owner[p] = "me"
          /\ traf[p] = "STREAMS" /\ prof[p] # "NONE"
      BY <1>6 DEF StartCall, Visits
    <2>2. Answered(p, TRUE, "IDLE", state[p])
      BY <1>6, <2>1 DEF StartCall, Answers
    <2>3. /\ phase' = "start" /\ failed' = failed /\ verdict' = verdict
          /\ pc' = "reply" /\ ok'
      BY <2>1, <2>2 DEF Answered
    <2> QED
      BY <2>1, <2>3
  <1>7. ASSUME NEW p \in Ports, Finish(p) PROVE FlawlessInv'
    BY <1>7 DEF Finish, Publish
  <1>8. CASE Learn
    BY <1>8 DEF SyncReturn, Replied, NextPort, OnReturn, ApplySync,
        AcquireReturn, AttrReturn, ReleaseReturn, Learn
  <1>9. CASE Adopt
    BY <1>9 DEF StopReturn, Replied, NextPort, OnReturn, RemoveReturn,
        AddReturn, Adopt
  <1>10. CASE Settle
    BY <1>10 DEF StartReturn, Replied, NextPort, OnReturn, StartApply, Settle
  <1>11. CASE Open
    BY <1>11 DEF ConnectDone, LoopOver, Enter, Between, Reconnect, Everywhere,
        BeginJob, AcquireDone, RaiseOr, Conclude, Known, Acquired, Open
  <1>12. CASE Prepare
    <2>1. ~failed /\ Acquired = Ports /\ ActiveProfiles \in {{}, ActiveProfiles}
      BY <1>12 DEF Prepare, StopDone, RemoveDone, ResetDone, BeginAdd, AddDone,
         LoopOver, Acquired
    <2>2. phase # "start" => ActiveProfiles = {}
      BY <1>12 DEF Prepare, StopDone, RemoveDone, ResetDone, BeginAdd, AddDone,
         LoopOver,
                   ActiveProfiles, Active, Acquired
    <2>3. CASE StopDone
      <3>1. RaiseOr(FALSE, "remove", Known)
        BY <2>1, <2>2, <2>3 DEF StopDone, LoopOver, Known
      <3> QED
        <4>1. /\ phase' = "remove" /\ failed' = FALSE /\ verdict' = verdict
              /\ pc' = "loop" /\ ok' = ok
          BY <2>3, <3>1 DEF StopDone, LoopOver, RaiseOr, Enter, Between
        <4> QED
          BY <4>1
    <2>4. CASE RemoveDone
      BY <2>1, <2>4 DEF RemoveDone, LoopOver, RaiseOr, Enter, Between
    <2>5. CASE ResetDone
      BY <2>1, <2>5 DEF ResetDone, LoopOver, Answers, RaiseOr, Enter, Between
    <2>6. CASE BeginAdd
      BY <2>1, <2>6 DEF BeginAdd, Active, RaiseOr, Enter, Between
    <2>7. CASE AddDone
      BY <2>1, <2>2, <2>7 DEF AddDone, LoopOver, RaiseOr, Enter, Between
    <2> QED
      BY <1>12, <2>3, <2>4, <2>5, <2>6, <2>7 DEF Prepare
  <1>13. CASE Watch
    <2>1. CASE StartDone
      <3>1. ~failed /\ Acquired = Ports
        BY <2>1 DEF StartDone, LoopOver, Acquired
      <3> QED
        <4>1. /\ phase' = "wait" /\ failed' = FALSE /\ verdict' = verdict
              /\ pc' = "loop" /\ ok' = ok
          BY <2>1, <3>1, PortsAssumption DEF StartDone, LoopOver, RaiseOr, Enter,
             Between
        <4> QED
          BY <4>1
    <2>2. CASE WaitDone
      <3>1. phase' = "idle" /\ failed' = FALSE /\ pc' = pc /\ phase = "wait"
            /\ verdict' = Append(verdict, "done") /\ ok' = ok
        BY <2>2 DEF WaitDone, Conclude, Between
      <3>2. \A i \in DOMAIN verdict' : verdict'[i] = "done"
        BY <3>1
      <3> QED
        BY <3>1, <3>2
    <2> QED
      BY <1>13, <2>1, <2>2 DEF Watch
  <1>14. CASE Close
    BY <1>14 DEF BeginCapture, Enter, Between, BeginHalt, ActiveProfiles,
        Acquired, HaltDone, LoopOver, CleanupDone, Conclude, ReleaseDone, Close, Active
  <1>15. CASE Fetch
    BY <1>15 DEF Fetch
  <1>16. CASE Handle
    BY <1>16 DEF Handle, Applies
  <1>17. CASE ReadProfile
    BY <1>17 DEF ReadProfile
  <1>18. CASE WriteState
    BY <1>18 DEF WriteState
  <1>19. CASE TimePasses
    BY <1>19 DEF TimePasses
  <1>20. CASE UNCHANGED vars
    BY <1>20
  <1> QED
    BY <1>1, <1>2, <1>3, <1>4, <1>5, <1>6, <1>7, <1>8, <1>9, <1>10, <1>11,
       <1>12, <1>13, <1>14, <1>15, <1>16, <1>17, <1>18, <1>19, <1>20 DEF StepKinds

-----------------------------------------------------------------------------
\* ReadyInv holds: the ports are ready for every command.
LEMMA ReadyStep ==
  ASSUME TypeOK, Undisturbed, Willing, ReadyInv, FlawlessInv, SafetyInv, HandlerInv,
         StepKinds
  PROVE  ReadyInv'
  <1> USE PortsAssumption DEF TypeOK, Undisturbed, Willing, ReadyInv, FlawlessInv, SafetyInv,
      HandlerInv, LoopInv, Rest, OwnInv, Granted, NoTheftInv, ClearInv, LaunchInv, WaitInv,
      AgreeInv, Preparing, FinishPending, Handling, TX, vars, clientVars,
      callVars, mainVars, subVars, serverVars
  <1>1. ASSUME NEW p \in Ports, Query(p) PROVE ReadyInv'
    BY <1>1 DEF SyncCall, Visits, Answered, AttrCall, Query, Answers
  <1>2. ASSUME NEW p \in Ports, AcquireCall(p) PROVE ReadyInv'
    BY <1>2 DEF AcquireCall, Visits, Answered, Answers
  <1>3. ASSUME NEW p \in Ports, ReleaseCall(p) PROVE ReadyInv'
    BY <1>3 DEF ReleaseCall, Visits, Answered, Answers
  <1>4. ASSUME NEW p \in Ports, Edit(p) PROVE ReadyInv'
    <2>1. pc = "loop" /\ cur = NoPort /\ p \in todo /\ phase \in {"remove", "add"}
      BY <1>4 DEF Edit, RemoveCall, AddCall, Visits
    <2>2. handler[p] /\ owner[p] = "me" /\ traf[p] # "TX"
      BY <2>1
    <2>3. CASE RemoveCall(p)
      <3>1. phase = "remove" /\ phase' = phase /\ state' = state /\ prof' = prof
        BY <2>2, <2>3 DEF RemoveCall, Visits, Answered
      <3> QED
        BY <3>1
    <2>4. CASE AddCall(p)
      <3>1. /\ Answered(p, TRUE, "IDLE", "IDLE") /\ traf' = [traf EXCEPT ![p] = "STREAMS"]
            /\ phase = "add" /\ UNCHANGED <<clientVars, subVars, owner, events, aged>>
        BY <2>1, <2>2, <2>4 DEF AddCall, Visits, Answers
      <3> QED
        BY <2>1, <3>1 DEF Answered
    <2> QED
      BY <1>4, <2>3, <2>4 DEF Edit
  <1>5. ASSUME NEW p \in Ports, StopCall(p) PROVE ReadyInv'
    BY <1>5 DEF StopCall, Visits, Answered, Skip, Active, Publish, Answers
  <1>6. ASSUME NEW p \in Ports, StartCall(p) PROVE ReadyInv'
    <2>1. phase = "start" /\ pc = "loop" /\ cur = NoPort /\ p \in todo
      BY <1>6 DEF StartCall, Visits
    <2>2. handler[p] /\ owner[p] = "me" /\ traf[p] = "STREAMS" /\ prof[p] # "NONE"
      BY <2>1
    <2>3. /\ Answered(p, TRUE, "IDLE", state[p]) /\ traf' = [traf EXCEPT ![p] = "TX"]
          /\ prof' = prof
      BY <1>6, <2>2 DEF StartCall, Answers
    <2> QED
      BY <2>1, <2>3 DEF Answered
  <1>7. ASSUME NEW p \in Ports, Finish(p) PROVE ReadyInv'
    <2>1. /\ TX(p) /\ traf' = [traf EXCEPT ![p] = "STREAMS"]
          /\ phase # "off" => events' = Publish("finished", p)
          /\ UNCHANGED <<phase, todo, cur, state, prof, inbox, subpc, subport>>
      BY <1>7 DEF Finish, Online
    <2>2. phase # "off" => \A q : Has(events', Finished(q)) <=> Has(events, Finished(q)) \/ q = p
      BY <2>1, PublishHas
    <2> QED
      BY <2>1, <2>2
  <1>8. CASE Learn
    BY <1>8 DEF SyncReturn, Replied, NextPort, OnReturn, ApplySync,
        AcquireReturn, AttrReturn, ReleaseReturn, Learn
  <1>9. CASE Adopt
    BY <1>9 DEF StopReturn, Replied, NextPort, OnReturn, RemoveReturn,
        AddReturn, Adopt
  <1>10. CASE Settle
    BY <1>10 DEF StartReturn, Replied, NextPort, OnReturn, StartApply, Settle
  <1>11. CASE Open
    BY <1>11 DEF ConnectDone, LoopOver, Enter, Between, Reconnect, Everywhere,
        BeginJob, AcquireDone, RaiseOr, Conclude, Known, Acquired, Open
  <1>12. CASE Prepare
    <2>1. ~failed /\ Acquired = Ports
      BY <1>12 DEF Prepare, StopDone, RemoveDone, ResetDone, BeginAdd, AddDone,
         LoopOver, Acquired
    <2>2. UNCHANGED <<state, prof, traf, cur>> /\ \A p \in Ports : prof[p] # "TX"
      BY <1>12 DEF Prepare, StopDone, RemoveDone, ResetDone, BeginAdd, AddDone,
         LoopOver, Between
    <2>3. phase' \notin {"add", "start", "wait"} \/ todo' = Ports
      BY <1>12, <2>1 DEF Prepare, StopDone, RemoveDone, ResetDone, BeginAdd, AddDone,
         LoopOver,
                         RaiseOr, Conclude, Enter
    <2>4. phase' \in Phases \ {"start", "wait"} \/ (phase' = "start" /\ AddDone)
      BY <1>12 DEF Prepare, StopDone, RemoveDone, ResetDone, BeginAdd, AddDone,
         LoopOver,
                   RaiseOr, Conclude, Enter, Phases
    <2>5. cur = NoPort
      BY <1>12 DEF Prepare, StopDone, RemoveDone, ResetDone, BeginAdd, AddDone, LoopOver
    <2>6. AddDone => phase = "add" /\ todo = {}
      BY DEF AddDone, LoopOver
    <2>7. \A p \in Ports : state[p] # "TX"
      BY <1>12 DEF Prepare, StopDone, RemoveDone, ResetDone, BeginAdd, AddDone, LoopOver
    <2> QED
      BY <2>2, <2>3, <2>4, <2>5, <2>6, <2>7
  <1>13. CASE Watch
    BY <1>13 DEF StartDone, LoopOver, Enter, Between, RaiseOr, Conclude,
        Acquired, WaitDone, Active, Watch
  <1>14. CASE Close
    BY <1>14 DEF BeginCapture, Enter, Between, BeginHalt, ActiveProfiles,
        Acquired, HaltDone, LoopOver, CleanupDone, Conclude, ReleaseDone, Close, Active
  <1>15. CASE Fetch
    BY <1>15 DEF Fetch
  <1>16. CASE Handle
    <2>1. /\ inbox # <<>> /\ inbox' = Tail(inbox) /\ inbox \in Seq(Event) /\ subpc = "idle"
          /\ UNCHANGED <<phase, todo, cur, events, traf, state>>
      BY <1>16 DEF Handle
    <2>2. \A q : Has(inbox, Finished(q)) <=> Head(inbox) = Finished(q) \/ Has(inbox', Finished(q))
      BY <2>1, HasHeadTail
    <2>3. /\ Head(inbox).port \in Ports
          /\ \A q : Head(inbox) = Finished(q)
                      <=> Head(inbox).type = "finished" /\ Head(inbox).port = q
      BY <2>1, HeadEvent
    <2> SUFFICES ASSUME phase \in Preparing \cup {"wait"} PROVE ReadyInv'
      BY <2>1
    <2>4. \A r \in Ports : handler[r]
      BY <2>1
    <2>5. \/ Head(inbox).type # "finished" /\ UNCHANGED <<prof, subpc, subport>>
          \/ /\ Head(inbox).type = "finished"
             /\ prof' = [prof EXCEPT ![Head(inbox).port] = "STREAMS"]
      BY <1>16, <2>1, <2>3, <2>4, HeadEvent DEF Handle, Applies
    <2>6. Head(inbox).type = "finished" => phase = "wait"
      BY <2>2, <2>3
    <2> QED
      BY <2>1, <2>2, <2>3, <2>5, <2>6
  <1>17. CASE ReadProfile
    BY <1>17 DEF ReadProfile
  <1>18. CASE WriteState
    BY <1>18 DEF WriteState
  <1>19. CASE TimePasses
    BY <1>19 DEF TimePasses
  <1>20. CASE UNCHANGED vars
    BY <1>20
  <1> QED
    BY <1>1, <1>2, <1>3, <1>4, <1>5, <1>6, <1>7, <1>8, <1>9, <1>10, <1>11,
       <1>12, <1>13, <1>14, <1>15, <1>16, <1>17, <1>18, <1>19, <1>20 DEF StepKinds

-----------------------------------------------------------------------------
\* With a server that refuses nothing every job is done.
THEOREM JobsAreDone == Undisturbed /\ Willing => (Spec => []EveryJobDone)
  <1> SUFFICES ASSUME Undisturbed, Willing PROVE Spec => []EveryJobDone
    OBVIOUS
  <1>1. Dismissed
    BY DEF Willing, Dismissed
  <1>2. Init => HandlerInv /\ FlawlessInv /\ ReadyInv
    BY DEF Init, Everywhere, HandlerInv, FlawlessInv, ReadyInv, Preparing
  <1>3. /\ TypeOK /\ SafetyInv /\ HandlerInv /\ FlawlessInv /\ ReadyInv /\ [Next]_vars
        => HandlerInv' /\ FlawlessInv' /\ ReadyInv'
    BY <1>1, UndisturbedSteps, HandlerStep, FlawlessStep, ReadyStep DEF SafetyInv
  <1>4. FlawlessInv => EveryJobDone
    BY DEF FlawlessInv, EveryJobDone
  <1> QED
    BY <1>2, <1>3, <1>4, TypeCorrect, Safety, PTL DEF Spec
=============================================================================
