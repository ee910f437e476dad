----------------------- MODULE TrafficSessionSafety -----------------------
(* The safety of an undisturbed session, for every set of ports and number *)
(* of jobs: SafetyInv is inductive, and the client sees the end of each    *)
(* job neither too early nor too late.                                     *)
EXTENDS TrafficSessionProofs, TrafficSessionInvariant

-----------------------------------------------------------------------------
(* Queues of events.                                                        *)

\* An appended event is in the queue, and nothing else is new.
LEMMA HasAppend ==
  ASSUME NEW q \in Seq(Event), NEW x \in Event, NEW ev
  PROVE  Has(Append(q, x), ev) <=> Has(q, ev) \/ x = ev
  <1>1. /\ Append(q, x) \in Seq(Event) /\ DOMAIN Append(q, x) = 1..(Len(q) + 1)
        /\ DOMAIN q = 1..Len(q) /\ Len(q) \in Nat
        /\ Append(q, x)[Len(q) + 1] = x
        /\ \A i \in DOMAIN q : Append(q, x)[i] = q[i]
    OBVIOUS
  <1>2. Has(Append(q, x), ev) => Has(q, ev) \/ x = ev
    BY <1>1 DEF Has
  <1>3. Has(q, ev) => Has(Append(q, x), ev)
    BY <1>1 DEF Has
  <1>4. x = ev => Has(Append(q, x), ev)
    BY <1>1 DEF Has
  <1> QED
    BY <1>2, <1>3, <1>4

\* A queue holds its head and what its tail holds.
LEMMA HasHeadTail ==
  ASSUME NEW q \in Seq(Event), q # <<>>, NEW ev
  PROVE  Has(q, ev) <=> Head(q) = ev \/ Has(Tail(q), ev)
  <1>1. /\ Head(q) = q[1] /\ 1 \in DOMAIN q /\ DOMAIN q = 1..Len(q) /\ Len(q) \in Nat
        /\ DOMAIN Tail(q) = 1..(Len(q) - 1)
        /\ \A i \in DOMAIN Tail(q) : Tail(q)[i] = q[i + 1]
    OBVIOUS
  <1>2. ASSUME Has(q, ev), Head(q) # ev PROVE Has(Tail(q), ev)
    <2>1. PICK i \in DOMAIN q : q[i] = ev
      BY <1>2 DEF Has
    <2>2. i # 1 /\ i - 1 \in DOMAIN Tail(q) /\ Tail(q)[i - 1] = q[i]
      BY <2>1, <1>1, <1>2
    <2> QED
      BY <2>1, <2>2 DEF Has
  <1>3. Head(q) = ev => Has(q, ev)
    BY <1>1 DEF Has
  <1>4. ASSUME Has(Tail(q), ev) PROVE Has(q, ev)
    <2>1. PICK i \in DOMAIN Tail(q) : Tail(q)[i] = ev
      BY <1>4 DEF Has
    <2>2. i + 1 \in DOMAIN q /\ q[i + 1] = ev
      BY <2>1, <1>1
    <2> QED
      BY <2>2 DEF Has
  <1> QED
    BY <1>2, <1>3, <1>4

\* An event appended for the first time is in the queue once.
LEMMA OnceAppend ==
  ASSUME NEW q \in Seq(Event), NEW x \in Event, NEW ev, Once(q, ev),
         x # ev \/ ~Has(q, ev)
  PROVE  Once(Append(q, x), ev)
  <1>1. /\ DOMAIN Append(q, x) = 1..(Len(q) + 1)
        /\ DOMAIN q = 1..Len(q) /\ Len(q) \in Nat
        /\ Append(q, x)[Len(q) + 1] = x
        /\ \A i \in DOMAIN q : Append(q, x)[i] = q[i]
    OBVIOUS
  <1> QED
    BY <1>1 DEF Once, Has

\* An event that is in a queue once is gone when it has been taken.
LEMMA OnceTail ==
  ASSUME NEW q \in Seq(Event), q # <<>>, NEW ev, Once(q, ev)
  PROVE  Once(Tail(q), ev) /\ (Head(q) = ev => ~Has(Tail(q), ev))
  <1>1. /\ Head(q) = q[1] /\ 1 \in DOMAIN q /\ DOMAIN q = 1..Len(q) /\ Len(q) \in Nat
        /\ DOMAIN Tail(q) = 1..(Len(q) - 1)
        /\ \A i \in DOMAIN Tail(q) : Tail(q)[i] = q[i + 1] /\ i + 1 \in DOMAIN q
    OBVIOUS
  <1>2. Once(Tail(q), ev)
    BY <1>1 DEF Once
  <1>3. ASSUME Head(q) = ev, Has(Tail(q), ev) PROVE FALSE
    <2>1. PICK i \in DOMAIN Tail(q) : Tail(q)[i] = ev
      BY <1>3 DEF Has
    <2>2. i + 1 \in DOMAIN q /\ q[i + 1] = ev /\ q[1] = ev /\ i + 1 # 1
      BY <2>1, <1>1, <1>3
    <2> QED
      BY <2>2, <1>1 DEF Once
  <1> QED
    BY <1>2, <1>3

\* The empty queue holds nothing.
LEMMA EmptyQueue == ASSUME NEW ev PROVE ~Has(<<>>, ev) /\ Once(<<>>, ev)
  BY DEF Has, Once
\* Publishing the start or the stop of a port announces the end of no job, and
\* publishing its end announces that alone.
LEMMA PublishHas ==
  ASSUME TypeOK, NEW p \in Ports, NEW q,
         NEW type \in {"started", "stopped", "finished"}
  PROVE  Has(Publish(type, p), Finished(q))
           <=> Has(events, Finished(q)) \/ (type = "finished" /\ q = p)
  <1>1. events \in Seq(Event) /\ [type |-> type, port |-> p] \in Event
    BY DEF TypeOK, Event
  <1>2. [type |-> type, port |-> p] = Finished(q) <=> type = "finished" /\ q = p
    <2>1. ASSUME [type |-> type, port |-> p] = Finished(q)
          PROVE  type = "finished" /\ q = p
      <3>1. /\ [type |-> type, port |-> p].type = Finished(q).type
            /\ [type |-> type, port |-> p].port = Finished(q).port
        BY <2>1
      <3> QED
        BY <3>1 DEF Finished
    <2> QED
      BY <2>1 DEF Finished
  <1> QED
    BY <1>1, <1>2, HasAppend DEF Publish

\* None of these is a takeover.
LEMMA PublishNoTheft ==
  ASSUME TypeOK, NEW p \in Ports, NEW type \in {"started", "stopped", "finished"},
         \A i \in DOMAIN events : events[i].type # "acquired"
  PROVE  \A i \in DOMAIN Publish(type, p) : Publish(type, p)[i].type # "acquired"
  <1>1. events \in Seq(Event)
    BY DEF TypeOK
  <1>2. /\ DOMAIN Publish(type, p) = 1..(Len(events) + 1)
        /\ DOMAIN events = 1..Len(events) /\ Len(events) \in Nat
        /\ Publish(type, p)[Len(events) + 1] = [type |-> type, port |-> p]
        /\ \A i \in DOMAIN events : Publish(type, p)[i] = events[i]
    BY <1>1 DEF Publish
  <1> QED
    BY <1>2

\* The event the subscriber takes next, when nobody takes ports over.
LEMMA HeadEvent ==
  ASSUME TypeOK, NoTheftInv, inbox # <<>>
  PROVE  /\ Head(inbox).port \in Ports
         /\ Head(inbox).type \in {"started", "stopped", "finished"}
         /\ \A q : Head(inbox) = Finished(q)
                     <=> Head(inbox).type = "finished" /\ Head(inbox).port = q
  <1>1. inbox \in Seq(Event)
    BY DEF TypeOK
  <1>2. Head(inbox) = inbox[1] /\ 1 \in DOMAIN inbox /\ Head(inbox) \in Event
    BY <1>1
  <1>3. Head(inbox).type # "acquired"
    BY <1>2 DEF NoTheftInv
  <1>4. ASSUME NEW q, Head(inbox) = Finished(q)
        PROVE  Head(inbox).type = "finished" /\ Head(inbox).port = q
    BY <1>4 DEF Finished
  <1>5. ASSUME NEW q, Head(inbox).type = "finished", Head(inbox).port = q
        PROVE  Head(inbox) = Finished(q)
    BY <1>2, <1>5 DEF Finished, Event
  <1> QED
    BY <1>2, <1>3, <1>4, <1>5 DEF Event


-----------------------------------------------------------------------------
(* The steps of a session, in groups that the conjuncts of SafetyInv treat  *)
(* alike.                                                                   *)

Query(p) == SyncCall(p) \/ AttrCall(p)
Edit(p) == RemoveCall(p) \/ AddCall(p)
Learn == SyncReturn \/ AcquireReturn \/ AttrReturn \/ ReleaseReturn
Adopt == StopReturn \/ RemoveReturn \/ AddReturn
Settle == StartReturn \/ StartApply
Open == ConnectDone \/ Reconnect \/ BeginJob \/ AcquireDone
Prepare == StopDone \/ RemoveDone \/ ResetDone \/ BeginAdd \/ AddDone
Watch == StartDone \/ WaitDone
Close == BeginCapture \/ BeginHalt \/ HaltDone \/ CleanupDone \/ ReleaseDone

\* What a step of an undisturbed session can be: no other session takes part.
StepKinds ==
  \/ \E p \in Ports : \/ Query(p) \/ AcquireCall(p) \/ ReleaseCall(p) \/ Edit(p)
                      \/ StopCall(p) \/ StartCall(p) \/ Finish(p)
  \/ Learn \/ Adopt \/ Settle \/ Open \/ Prepare \/ Watch \/ Close
  \/ Fetch \/ Handle \/ ReadProfile \/ WriteState \/ TimePasses
  \/ UNCHANGED vars

LEMMA UndisturbedSteps ==
  ASSUME TypeOK, Undisturbed, [Next]_vars
  PROVE  StepKinds
  <1>1. ~Meddle
    BY DEF TypeOK, Undisturbed, Meddle
  <1>2. ~\E p \in Ports : Steal(p) \/ OtherStop(p) \/ OtherStart(p)
    BY <1>1 DEF Steal, OtherStop, OtherStart
  <1> QED
    BY <1>2 DEF StepKinds, Query, Edit, Learn, Adopt, Settle, Open, Prepare, Watch,
                Close, Next, Main, Call, Return, Advance, Subscriber, Server,
                Terminated

-----------------------------------------------------------------------------
\* LoopInv holds: cur names a port exactly while one is visited.
LEMMA LoopStep ==
  ASSUME TypeOK, Undisturbed, LoopInv, StepKinds
  PROVE  LoopInv'
  <1> USE PortsAssumption DEF TypeOK, Undisturbed, LoopInv, Rest, vars,
      clientVars, callVars, mainVars, subVars, serverVars
  <1>1. ASSUME NEW p \in Ports, Query(p) PROVE LoopInv'
    BY <1>1 DEF SyncCall, Visits, Answered, AttrCall, Query
  <1>2. ASSUME NEW p \in Ports, AcquireCall(p) PROVE LoopInv'
    BY <1>2 DEF AcquireCall, Visits, Answered, Answers
  <1>3. ASSUME NEW p \in Ports, ReleaseCall(p) PROVE LoopInv'
    BY <1>3 DEF ReleaseCall, Visits, Answered
  <1>4. ASSUME NEW p \in Ports, Edit(p) PROVE LoopInv'
    BY <1>4 DEF RemoveCall, Visits, Answered, Skip, AddCall, Edit
  <1>5. ASSUME NEW p \in Ports, StopCall(p) PROVE LoopInv'
    BY <1>5 DEF StopCall, Visits, Answered, Skip, Active, Publish
  <1>6. ASSUME NEW p \in Ports, StartCall(p) PROVE LoopInv'
    BY <1>6 DEF StartCall, Visits, Answered, Skip, Publish
  <1>7. ASSUME NEW p \in Ports, Finish(p) PROVE LoopInv'
    BY <1>7 DEF Finish, Publish
  <1>8. CASE Learn
    BY <1>8 DEF SyncReturn, Replied, NextPort, OnReturn, ApplySync,
        AcquireReturn, AttrReturn, ReleaseReturn, Learn
  <1>9. CASE Adopt
    BY <1>9 DEF StopReturn, Replied, NextPort, OnReturn, RemoveReturn,
        AddReturn, Adopt
  <1>10. CASE Settle
    BY <1>10 DEF StartReturn, Replied, NextPort, OnReturn, StartApply, Settle
  <1>11. CASE Open
    BY <1>11 DEF ConnectDone, LoopOver, Enter, Between, Reconnect, Everywhere,
        BeginJob, AcquireDone, RaiseOr, Conclude, Known, Acquired, Open
  <1>12. CASE Prepare
    BY <1>12 DEF StopDone, LoopOver, Enter, Between, RaiseOr, Conclude, Known,
        Acquired, ActiveProfiles, Active, RemoveDone, ResetDone, BeginAdd,
        AddDone, Prepare
  <1>13. CASE Watch
    BY <1>13 DEF StartDone, LoopOver, Enter, Between, RaiseOr, Conclude,
        Acquired, WaitDone, Active, Watch
  <1>14. CASE Close
    BY <1>14 DEF BeginCapture, Enter, Between, BeginHalt, ActiveProfiles,
        Acquired, HaltDone, LoopOver, CleanupDone, Conclude, ReleaseDone, Close
  <1>15. CASE Fetch
    BY <1>15 DEF Fetch
  <1>16. CASE Handle
    BY <1>16 DEF Handle, Applies
  <1>17. CASE ReadProfile
    BY <1>17 DEF ReadProfile
  <1>18. CASE WriteState
    BY <1>18 DEF WriteState
  <1>19. CASE TimePasses
    BY <1>19 DEF TimePasses
  <1>20. CASE UNCHANGED vars
    BY <1>20
  <1> QED
    BY <1>1, <1>2, <1>3, <1>4, <1>5, <1>6, <1>7, <1>8, <1>9, <1>10, <1>11,
       <1>12, <1>13, <1>14, <1>15, <1>16, <1>17, <1>18, <1>19, <1>20 DEF StepKinds

-----------------------------------------------------------------------------
\* OwnInv holds: a session owns all its ports before it launches anything.
LEMMA OwnStep ==
  ASSUME TypeOK, Undisturbed, OwnInv, NoTheftInv, LoopInv, StepKinds
  PROVE  OwnInv'
  <1> USE PortsAssumption DEF TypeOK, Undisturbed, OwnInv, Granted, TX,
      NoTheftInv, LoopInv, Rest, vars, clientVars, callVars, mainVars, subVars,
      serverVars
  <1>1. ASSUME NEW p \in Ports, Query(p) PROVE OwnInv'
    BY <1>1 DEF SyncCall, Visits, Answered, AttrCall, Query
  <1>2. ASSUME NEW p \in Ports, AcquireCall(p) PROVE OwnInv'
    BY <1>2 DEF AcquireCall, Visits, Answered, Answers
  <1>3. ASSUME NEW p \in Ports, ReleaseCall(p) PROVE OwnInv'
    BY <1>3 DEF ReleaseCall, Visits, Answered
  <1>4. ASSUME NEW p \in Ports, Edit(p) PROVE OwnInv'
    BY <1>4 DEF RemoveCall, Visits, Answered, Skip, AddCall, Edit
  <1>5. ASSUME NEW p \in Ports, StopCall(p) PROVE OwnInv'
    BY <1>5 DEF StopCall, Visits, Answered, Skip, Active, Publish
  <1>6. ASSUME NEW p \in Ports, StartCall(p) PROVE OwnInv'
    BY <1>6 DEF StartCall, Visits, Answered, Skip, Publish
  <1>7. ASSUME NEW p \in Ports, Finish(p) PROVE OwnInv'
    BY <1>7 DEF Finish, Publish
  <1>8. CASE Learn
    BY <1>8 DEF SyncReturn, Replied, NextPort, OnReturn, ApplySync,
        AcquireReturn, AttrReturn, ReleaseReturn, Learn
  <1>9. CASE Adopt
    BY <1>9 DEF StopReturn, Replied, NextPort, OnReturn, RemoveReturn,
        AddReturn, Adopt
  <1>10. CASE Settle
    BY <1>10 DEF StartReturn, Replied, NextPort, OnReturn, StartApply, Settle
  <1>11. CASE Open
    BY <1>11 DEF ConnectDone, LoopOver, Enter, Between, Reconnect, Everywhere,
        BeginJob, AcquireDone, RaiseOr, Conclude, Known, Acquired, Open
  <1>12. CASE Prepare
    BY <1>12 DEF StopDone, LoopOver, Enter, Between, RaiseOr, Conclude, Known,
        Acquired, ActiveProfiles, Active, RemoveDone, ResetDone, BeginAdd,
        AddDone, Prepare
  <1>13. CASE Watch
    BY <1>13 DEF StartDone, LoopOver, Enter, Between, RaiseOr, Conclude,
        Acquired, WaitDone, Active, Watch
  <1>14. CASE Close
    BY <1>14 DEF BeginCapture, Enter, Between, BeginHalt, ActiveProfiles,
        Acquired, HaltDone, LoopOver, CleanupDone, Conclude, ReleaseDone, Close
  <1>15. CASE Fetch
    BY <1>15 DEF Fetch
  <1>16. CASE Handle
    <2>1. Head(inbox).type # "acquired"
      BY <1>16, HeadEvent DEF Handle
    <2>2. handler' = handler
      BY <1>16, <2>1 DEF Handle
    <2> QED
      BY <1>16, <2>2 DEF Handle
  <1>17. CASE ReadProfile
    BY <1>17 DEF ReadProfile
  <1>18. CASE WriteState
    BY <1>18 DEF WriteState
  <1>19. CASE TimePasses
    BY <1>19 DEF TimePasses
  <1>20. CASE UNCHANGED vars
    BY <1>20
  <1> QED
    BY <1>1, <1>2, <1>3, <1>4, <1>5, <1>6, <1>7, <1>8, <1>9, <1>10, <1>11,
       <1>12, <1>13, <1>14, <1>15, <1>16, <1>17, <1>18, <1>19, <1>20 DEF StepKinds

-----------------------------------------------------------------------------
\* NoTheftInv holds: nobody announces a takeover.
LEMMA NoTheftStep ==
  ASSUME TypeOK, Undisturbed, NoTheftInv, StepKinds
  PROVE  NoTheftInv'
  <1> USE PortsAssumption DEF TypeOK, Undisturbed, NoTheftInv, vars, clientVars,
      callVars, mainVars, subVars, serverVars
  <1>1. ASSUME NEW p \in Ports, Query(p) PROVE NoTheftInv'
    BY <1>1 DEF SyncCall, Visits, Answered, AttrCall, Query
  <1>2. ASSUME NEW p \in Ports, AcquireCall(p) PROVE NoTheftInv'
    BY <1>2 DEF AcquireCall, Visits, Answered, Answers
  <1>3. ASSUME NEW p \in Ports, ReleaseCall(p) PROVE NoTheftInv'
    BY <1>3 DEF ReleaseCall, Visits, Answered
  <1>4. ASSUME NEW p \in Ports, Edit(p) PROVE NoTheftInv'
    BY <1>4 DEF RemoveCall, Visits, Answered, Skip, AddCall, Edit
  <1>5. ASSUME NEW p \in Ports, StopCall(p) PROVE NoTheftInv'
    <2>1. inbox' = inbox /\ (events' = events \/ events' = Publish("stopped", p))
      BY <1>5 DEF StopCall, Skip
    <2> QED
      BY <2>1, PublishNoTheft
  <1>6. ASSUME NEW p \in Ports, StartCall(p) PROVE NoTheftInv'
    <2>1. inbox' = inbox /\ (events' = events \/ events' = Publish("started", p))
      BY <1>6 DEF StartCall, Skip
    <2> QED
      BY <2>1, PublishNoTheft
  <1>7. ASSUME NEW p \in Ports, Finish(p) PROVE NoTheftInv'
    <2>1. inbox' = inbox /\ (events' = events \/ events' = Publish("finished", p))
      BY <1>7 DEF Finish
    <2> QED
      BY <2>1, PublishNoTheft
  <1>8. CASE Learn
    BY <1>8 DEF SyncReturn, Replied, NextPort, OnReturn, ApplySync,
        AcquireReturn, AttrReturn, ReleaseReturn, Learn
  <1>9. CASE Adopt
    BY <1>9 DEF StopReturn, Replied, NextPort, OnReturn, RemoveReturn,
        AddReturn, Adopt
  <1>10. CASE Settle
    BY <1>10 DEF StartReturn, Replied, NextPort, OnReturn, StartApply, Settle
  <1>11. CASE Open
    BY <1>11 DEF ConnectDone, LoopOver, Enter, Between, Reconnect, Everywhere,
        BeginJob, AcquireDone, RaiseOr, Conclude, Known, Acquired, Open
  <1>12. CASE Prepare
    BY <1>12 DEF StopDone, LoopOver, Enter, Between, RaiseOr, Conclude, Known,
        Acquired, ActiveProfiles, Active, RemoveDone, ResetDone, BeginAdd,
        AddDone, Prepare
  <1>13. CASE Watch
    BY <1>13 DEF StartDone, LoopOver, Enter, Between, RaiseOr, Conclude,
        Acquired, WaitDone, Active, Watch
  <1>14. CASE Close
    BY <1>14 DEF BeginCapture, Enter, Between, BeginHalt, ActiveProfiles,
        Acquired, HaltDone, LoopOver, CleanupDone, Conclude, ReleaseDone, Close
  <1>15. CASE Fetch
    BY <1>15 DEF Fetch
  <1>16. CASE Handle
    BY <1>16 DEF Handle, Applies
  <1>17. CASE ReadProfile
    BY <1>17 DEF ReadProfile
  <1>18. CASE WriteState
    BY <1>18 DEF WriteState
  <1>19. CASE TimePasses
    BY <1>19 DEF TimePasses
  <1>20. CASE UNCHANGED vars
    BY <1>20
  <1> QED
    BY <1>1, <1>2, <1>3, <1>4, <1>5, <1>6, <1>7, <1>8, <1>9, <1>10, <1>11,
       <1>12, <1>13, <1>14, <1>15, <1>16, <1>17, <1>18, <1>19, <1>20 DEF StepKinds

-----------------------------------------------------------------------------
\* BudgetInv holds: no job beyond the last.
LEMMA BudgetStep ==
  ASSUME TypeOK, Undisturbed, BudgetInv, StepKinds
  PROVE  BudgetInv'
  <1> USE PortsAssumption DEF TypeOK, Undisturbed, BudgetInv, OfAJob, Granted,
      vars, clientVars, callVars, mainVars, subVars, serverVars
  <1>1. ASSUME NEW p \in Ports, Query(p) PROVE BudgetInv'
    BY <1>1 DEF SyncCall, Visits, Answered, AttrCall, Query
  <1>2. ASSUME NEW p \in Ports, AcquireCall(p) PROVE BudgetInv'
    BY <1>2 DEF AcquireCall, Visits, Answered, Answers
  <1>3. ASSUME NEW p \in Ports, ReleaseCall(p) PROVE BudgetInv'
    BY <1>3 DEF ReleaseCall, Visits, Answered
  <1>4. ASSUME NEW p \in Ports, Edit(p) PROVE BudgetInv'
    BY <1>4 DEF RemoveCall, Visits, Answered, Skip, AddCall, Edit
  <1>5. ASSUME NEW p \in Ports, StopCall(p) PROVE BudgetInv'
    BY <1>5 DEF StopCall, Visits, Answered, Skip, Active, Publish
  <1>6. ASSUME NEW p \in Ports, StartCall(p) PROVE BudgetInv'
    BY <1>6 DEF StartCall, Visits, Answered, Skip, Publish
  <1>7. ASSUME NEW p \in Ports, Finish(p) PROVE BudgetInv'
    BY <1>7 DEF Finish, Publish
  <1>8. CASE Learn
    BY <1>8 DEF SyncReturn, Replied, NextPort, OnReturn, ApplySync,
        AcquireReturn, AttrReturn, ReleaseReturn, Learn
  <1>9. CASE Adopt
    BY <1>9 DEF StopReturn, Replied, NextPort, OnReturn, RemoveReturn,
        AddReturn, Adopt
  <1>10. CASE Settle
    BY <1>10 DEF StartReturn, Replied, NextPort, OnReturn, StartApply, Settle
  <1>11. CASE Open
    BY <1>11 DEF ConnectDone, LoopOver, Enter, Between, Reconnect, Everywhere,
        BeginJob, AcquireDone, RaiseOr, Conclude, Known, Acquired, Open
  <1>12. CASE Prepare
    BY <1>12 DEF StopDone, LoopOver, Enter, Between, RaiseOr, Conclude, Known,
        Acquired, ActiveProfiles, Active, RemoveDone, ResetDone, BeginAdd,
        AddDone, Prepare
  <1>13. CASE Watch
    BY <1>13 DEF StartDone, LoopOver, Enter, Between, RaiseOr, Conclude,
        Acquired, WaitDone, Active, Watch
  <1>14. CASE Close
    BY <1>14 DEF BeginCapture, Enter, Between, BeginHalt, ActiveProfiles,
        Acquired, HaltDone, LoopOver, CleanupDone, Conclude, ReleaseDone, Close
  <1>15. CASE Fetch
    BY <1>15 DEF Fetch
  <1>16. CASE Handle
    BY <1>16 DEF Handle, Applies
  <1>17. CASE ReadProfile
    BY <1>17 DEF ReadProfile
  <1>18. CASE WriteState
    BY <1>18 DEF WriteState
  <1>19. CASE TimePasses
    BY <1>19 DEF TimePasses
  <1>20. CASE UNCHANGED vars
    BY <1>20
  <1> QED
    BY <1>1, <1>2, <1>3, <1>4, <1>5, <1>6, <1>7, <1>8, <1>9, <1>10, <1>11,
       <1>12, <1>13, <1>14, <1>15, <1>16, <1>17, <1>18, <1>19, <1>20 DEF StepKinds

-----------------------------------------------------------------------------
\* ClearInv holds: reset() clears the ports.
LEMMA ClearStep ==
  ASSUME TypeOK, Undisturbed, ClearInv, LoopInv, OwnInv, AgreeInv, LaunchInv, StepKinds
  PROVE  ClearInv'
  <1> USE PortsAssumption DEF TypeOK, Undisturbed, ClearInv, TX, LoopInv, Rest,
      OwnInv, Granted, AgreeInv, Preparing, FinishPending, Handling, LaunchInv,
      vars, clientVars, callVars, mainVars, subVars, serverVars
  <1>1. ASSUME NEW p \in Ports, Query(p) PROVE ClearInv'
    BY <1>1 DEF SyncCall, Visits, Answered, AttrCall, Query
  <1>2. ASSUME NEW p \in Ports, AcquireCall(p) PROVE ClearInv'
    BY <1>2 DEF AcquireCall, Visits, Answered, Answers
  <1>3. ASSUME NEW p \in Ports, ReleaseCall(p) PROVE ClearInv'
    BY <1>3 DEF ReleaseCall, Visits, Answered
  <1>4. ASSUME NEW p \in Ports, Edit(p) PROVE ClearInv'
    BY <1>4 DEF RemoveCall, Visits, Answered, Skip, AddCall, Edit
  <1>5. ASSUME NEW p \in Ports, StopCall(p) PROVE ClearInv'
    BY <1>5 DEF StopCall, Visits, Answered, Skip, Active, Publish
  <1>6. ASSUME NEW p \in Ports, StartCall(p) PROVE ClearInv'
    BY <1>6 DEF StartCall, Visits, Answered, Skip, Publish
  <1>7. ASSUME NEW p \in Ports, Finish(p) PROVE ClearInv'
    BY <1>7 DEF Finish, Publish
  <1>8. CASE Learn
    BY <1>8 DEF SyncReturn, Replied, NextPort, OnReturn, ApplySync,
        AcquireReturn, AttrReturn, ReleaseReturn, Learn
  <1>9. CASE Adopt
    BY <1>9 DEF StopReturn, Replied, NextPort, OnReturn, RemoveReturn,
        AddReturn, Adopt
  <1>10. CASE Settle
    BY <1>10 DEF StartReturn, Replied, NextPort, OnReturn, StartApply, Settle
  <1>11. CASE Open
    BY <1>11 DEF ConnectDone, LoopOver, Enter, Between, Reconnect, Everywhere,
        BeginJob, AcquireDone, RaiseOr, Conclude, Known, Acquired, Open
  <1>12. CASE Prepare
    BY <1>12 DEF StopDone, LoopOver, Enter, Between, RaiseOr, Conclude, Known,
        Acquired, ActiveProfiles, Active, RemoveDone, ResetDone, BeginAdd,
        AddDone, Prepare
  <1>13. CASE Watch
    BY <1>13 DEF StartDone, LoopOver, Enter, Between, RaiseOr, Conclude,
        Acquired, WaitDone, Active, Watch
  <1>14. CASE Close
    BY <1>14 DEF BeginCapture, Enter, Between, BeginHalt, ActiveProfiles,
        Acquired, HaltDone, LoopOver, CleanupDone, Conclude, ReleaseDone, Close
  <1>15. CASE Fetch
    BY <1>15 DEF Fetch
  <1>16. CASE Handle
    BY <1>16 DEF Handle, Applies
  <1>17. CASE ReadProfile
    BY <1>17 DEF ReadProfile
  <1>18. CASE WriteState
    BY <1>18 DEF WriteState
  <1>19. CASE TimePasses
    BY <1>19 DEF TimePasses
  <1>20. CASE UNCHANGED vars
    BY <1>20
  <1> QED
    BY <1>1, <1>2, <1>3, <1>4, <1>5, <1>6, <1>7, <1>8, <1>9, <1>10, <1>11,
       <1>12, <1>13, <1>14, <1>15, <1>16, <1>17, <1>18, <1>19, <1>20 DEF StepKinds

-----------------------------------------------------------------------------
\* LaunchInv holds: start() knows what it launched.
LEMMA LaunchStep ==
  ASSUME TypeOK, Undisturbed, LaunchInv, LoopInv, OwnInv, ClearInv, AgreeInv, StepKinds
  PROVE  LaunchInv'
  <1> USE PortsAssumption DEF TypeOK, Undisturbed, LaunchInv, TX, LoopInv, Rest,
      OwnInv, Granted, ClearInv, AgreeInv, Preparing, FinishPending, Handling,
      vars, clientVars, callVars, mainVars, subVars, serverVars
  <1>1. ASSUME NEW p \in Ports, Query(p) PROVE LaunchInv'
    BY <1>1 DEF SyncCall, Visits, Answered, AttrCall, Query
  <1>2. ASSUME NEW p \in Ports, AcquireCall(p) PROVE LaunchInv'
    BY <1>2 DEF AcquireCall, Visits, Answered, Answers
  <1>3. ASSUME NEW p \in Ports, ReleaseCall(p) PROVE LaunchInv'
    BY <1>3 DEF ReleaseCall, Visits, Answered
  <1>4. ASSUME NEW p \in Ports, Edit(p) PROVE LaunchInv'
    BY <1>4 DEF RemoveCall, Visits, Answered, Skip, AddCall, Edit
  <1>5. ASSUME NEW p \in Ports, StopCall(p) PROVE LaunchInv'
    BY <1>5 DEF StopCall, Visits, Answered, Skip, Active, Publish
  <1>6. ASSUME NEW p \in Ports, StartCall(p) PROVE LaunchInv'
    <2>1. phase = "start" /\ pc = "loop" /\ p \in todo /\ ~TX(p) /\ state[p] # "TX"
      BY <1>6 DEF StartCall, Visits
    <2>2. CASE Skip(p, TRUE)
      BY <2>1, <2>2 DEF Skip
    <2>3. CASE ~Skip(p, TRUE)
      <3>1. PICK served \in BOOLEAN :
              /\ Answered(p, served, "IDLE", state[p])
              /\ traf' = IF served THEN [traf EXCEPT ![p] = "TX"] ELSE traf
              /\ state' = [state EXCEPT ![p] = "TX"]
        BY <1>6, <2>3, Zenon DEF StartCall
      <3> QED
        BY <2>1, <3>1 DEF Answered
    <2> QED
      BY <2>2, <2>3
  <1>7. ASSUME NEW p \in Ports, Finish(p) PROVE LaunchInv'
    BY <1>7 DEF Finish, Publish
  <1>8. CASE Learn
    BY <1>8 DEF SyncReturn, Replied, NextPort, OnReturn, ApplySync,
        AcquireReturn, AttrReturn, ReleaseReturn, Learn
  <1>9. CASE Adopt
    BY <1>9 DEF StopReturn, Replied, NextPort, OnReturn, RemoveReturn,
        AddReturn, Adopt
  <1>10. CASE Settle
    BY <1>10 DEF StartReturn, Replied, NextPort, OnReturn, StartApply, Settle
  <1>11. CASE Open
    BY <1>11 DEF ConnectDone, LoopOver, Enter, Between, Reconnect, Everywhere,
        BeginJob, AcquireDone, RaiseOr, Conclude, Known, Acquired, Open
  <1>12. CASE Prepare
    BY <1>12 DEF StopDone, LoopOver, Enter, Between, RaiseOr, Conclude, Known,
        Acquired, ActiveProfiles, Active, RemoveDone, ResetDone, BeginAdd,
        AddDone, Prepare
  <1>13. CASE Watch
    BY <1>13 DEF StartDone, LoopOver, Enter, Between, RaiseOr, Conclude,
        Acquired, WaitDone, Active, Watch
  <1>14. CASE Close
    BY <1>14 DEF BeginCapture, Enter, Between, BeginHalt, ActiveProfiles,
        Acquired, HaltDone, LoopOver, CleanupDone, Conclude, ReleaseDone, Close
  <1>15. CASE Fetch
    BY <1>15 DEF Fetch
  <1>16. CASE Handle
    BY <1>16 DEF Handle, Applies
  <1>17. CASE ReadProfile
    BY <1>17 DEF ReadProfile
  <1>18. CASE WriteState
    BY <1>18 DEF WriteState
  <1>19. CASE TimePasses
    BY <1>19 DEF TimePasses
  <1>20. CASE UNCHANGED vars
    BY <1>20
  <1> QED
    BY <1>1, <1>2, <1>3, <1>4, <1>5, <1>6, <1>7, <1>8, <1>9, <1>10, <1>11,
       <1>12, <1>13, <1>14, <1>15, <1>16, <1>17, <1>18, <1>19, <1>20 DEF StepKinds

-----------------------------------------------------------------------------
\* AgreeInv holds: client and server agree on what transmits.
LEMMA AgreeStep ==
  ASSUME TypeOK, Undisturbed, AgreeInv, LoopInv, OwnInv, NoTheftInv, ClearInv, LaunchInv, WaitInv, StepKinds
  PROVE  AgreeInv'
  <1> USE PortsAssumption DEF TypeOK, Undisturbed, AgreeInv, Preparing,
      FinishPending, Handling, TX, LoopInv, Rest, OwnInv, Granted, NoTheftInv,
      ClearInv, LaunchInv, WaitInv, Announced, vars, clientVars, callVars,
      mainVars, subVars, serverVars
  <1>1. ASSUME NEW p \in Ports, Query(p) PROVE AgreeInv'
    BY <1>1 DEF SyncCall, Visits, Answered, AttrCall, Query
  <1>2. ASSUME NEW p \in Ports, AcquireCall(p) PROVE AgreeInv'
    BY <1>2 DEF AcquireCall, Visits, Answered, Answers
  <1>3. ASSUME NEW p \in Ports, ReleaseCall(p) PROVE AgreeInv'
    BY <1>3 DEF ReleaseCall, Visits, Answered
  <1>4. ASSUME NEW p \in Ports, Edit(p) PROVE AgreeInv'
    BY <1>4 DEF RemoveCall, Visits, Answered, Skip, AddCall, Edit
  <1>5. ASSUME NEW p \in Ports, StopCall(p) PROVE AgreeInv'
    <2>1. \A q : Has(events', Finished(q)) <=> Has(events, Finished(q))
      <3>1. events' = events \/ events' = Publish("stopped", p)
        BY <1>5 DEF StopCall, Skip
      <3> QED
        BY <3>1, PublishHas
    <2>2. UNCHANGED <<phase, cur, subpc, subport, inbox, aged, state, prof>>
          \/ (UNCHANGED <<phase, subpc, subport, inbox, aged, state, prof>> /\ cur' = p)
      BY <1>5 DEF StopCall, Skip, Answered
    <2>3. phase \in {"stop", "halt"} /\ \A q \in Ports : TX(q)' => TX(q)
      BY <1>5 DEF StopCall, Skip, Visits
    <2> QED
      BY <2>1, <2>2, <2>3
  <1>6. ASSUME NEW p \in Ports, StartCall(p) PROVE AgreeInv'
    <2>1. \A q : Has(events', Finished(q)) <=> Has(events, Finished(q))
      <3>1. events' = events \/ events' = Publish("started", p)
        BY <1>6 DEF StartCall, Skip
      <3> QED
        BY <3>1, PublishHas
    <2>2. phase = "start" /\ pc = "loop" /\ p \in todo /\ UNCHANGED <<phase, subpc, subport, inbox, prof>>
      BY <1>6 DEF StartCall, Skip, Visits, Answered
    <2>3. CASE Skip(p, TRUE)
      BY <2>1, <2>2, <2>3 DEF Skip
    <2>4. CASE ~Skip(p, TRUE)
      <3>1. PICK served \in BOOLEAN :
              /\ Answered(p, served, "IDLE", state[p])
              /\ traf' = IF served THEN [traf EXCEPT ![p] = "TX"] ELSE traf
              /\ aged' = IF served THEN aged \ {p} ELSE aged
              /\ state' = [state EXCEPT ![p] = "TX"]
        BY <1>6, <2>4, Zenon DEF StartCall
      <3> QED
        BY <2>1, <2>2, <3>1 DEF Answered
    <2> QED
      BY <2>3, <2>4
  <1>7. ASSUME NEW p \in Ports, Finish(p) PROVE AgreeInv'
    BY <1>7 DEF Finish, Publish
  <1>8. CASE Learn
    BY <1>8 DEF SyncReturn, Replied, NextPort, OnReturn, ApplySync,
        AcquireReturn, AttrReturn, ReleaseReturn, Learn
  <1>9. CASE Adopt
    BY <1>9 DEF StopReturn, Replied, NextPort, OnReturn, RemoveReturn,
        AddReturn, Adopt
  <1>10. CASE Settle
    BY <1>10 DEF StartReturn, Replied, NextPort, OnReturn, StartApply, Settle
  <1>11. CASE Open
    BY <1>11 DEF ConnectDone, LoopOver, Enter, Between, Reconnect, Everywhere,
        BeginJob, AcquireDone, RaiseOr, Conclude, Known, Acquired, Open
  <1>12. CASE Prepare
    BY <1>12 DEF StopDone, LoopOver, Enter, Between, RaiseOr, Conclude, Known,
        Acquired, ActiveProfiles, Active, RemoveDone, ResetDone, BeginAdd,
        AddDone, Prepare
  <1>13. CASE Watch
    BY <1>13 DEF StartDone, LoopOver, Enter, Between, RaiseOr, Conclude,
        Acquired, WaitDone, Active, Watch
  <1>14. CASE Close
    BY <1>14 DEF BeginCapture, Enter, Between, BeginHalt, ActiveProfiles,
        Acquired, HaltDone, LoopOver, CleanupDone, Conclude, ReleaseDone, Close
  <1>15. CASE Fetch
    BY <1>15 DEF Fetch
  <1>16. CASE Handle
    <2> SUFFICES ASSUME phase \in Preparing PROVE AgreeInv'
      BY <1>16 DEF Handle
    <2>1. /\ inbox # <<>> /\ inbox' = Tail(inbox) /\ inbox \in Seq(Event)
          /\ UNCHANGED <<phase, cur, events, aged, traf, state>>
      BY <1>16 DEF Handle
    <2>2. handler[Head(inbox).port] /\ Head(inbox).type # "finished"
      BY <2>1, HeadEvent, HasHeadTail
    <2>3. UNCHANGED <<prof, subpc, subport>>
      BY <1>16, <2>2 DEF Handle, Applies
    <2>4. \A q : Has(inbox', Finished(q)) => Has(inbox, Finished(q))
      BY <2>1, HasHeadTail
    <2> QED
      BY <2>1, <2>3, <2>4
  <1>17. CASE ReadProfile
    BY <1>17 DEF ReadProfile
  <1>18. CASE WriteState
    BY <1>18 DEF WriteState
  <1>19. CASE TimePasses
    BY <1>19 DEF TimePasses
  <1>20. CASE UNCHANGED vars
    BY <1>20
  <1> QED
    BY <1>1, <1>2, <1>3, <1>4, <1>5, <1>6, <1>7, <1>8, <1>9, <1>10, <1>11,
       <1>12, <1>13, <1>14, <1>15, <1>16, <1>17, <1>18, <1>19, <1>20 DEF StepKinds

-----------------------------------------------------------------------------
\* WaitInv holds: the news of the end of a job is neither lost nor early.
LEMMA WaitStep ==
  ASSUME TypeOK, Undisturbed, WaitInv, LoopInv, OwnInv, NoTheftInv, AgreeInv, LaunchInv, StepKinds
  PROVE  WaitInv'
  <1> USE PortsAssumption DEF TypeOK, Undisturbed, WaitInv, FinishPending,
      Handling, TX, Announced, LoopInv, Rest, OwnInv, Granted, NoTheftInv,
      AgreeInv, Preparing, LaunchInv, vars, clientVars, callVars, mainVars,
      subVars, serverVars
  <1>1. ASSUME NEW p \in Ports, Query(p) PROVE WaitInv'
    BY <1>1 DEF SyncCall, Visits, Answered, AttrCall, Query
  <1>2. ASSUME NEW p \in Ports, AcquireCall(p) PROVE WaitInv'
    BY <1>2 DEF AcquireCall, Visits, Answered, Answers
  <1>3. ASSUME NEW p \in Ports, ReleaseCall(p) PROVE WaitInv'
    BY <1>3 DEF ReleaseCall, Visits, Answered
  <1>4. ASSUME NEW p \in Ports, Edit(p) PROVE WaitInv'
    BY <1>4 DEF RemoveCall, Visits, Answered, Skip, AddCall, Edit
  <1>5. ASSUME NEW p \in Ports, StopCall(p) PROVE WaitInv'
    BY <1>5 DEF StopCall, Visits, Answered, Skip, Active, Publish
  <1>6. ASSUME NEW p \in Ports, StartCall(p) PROVE WaitInv'
    BY <1>6 DEF StartCall, Visits, Answered, Skip, Publish
  <1>7. ASSUME NEW p \in Ports, Finish(p) PROVE WaitInv'
    <2> SUFFICES ASSUME phase = "wait" PROVE WaitInv'
      BY <1>7 DEF Finish
    <2>1. /\ TX(p) /\ traf' = [traf EXCEPT ![p] = "STREAMS"]
          /\ events' = Publish("finished", p)
          /\ UNCHANGED <<phase, todo, state, prof, agg, inbox, subpc, subport>>
      BY <1>7 DEF Finish, Online
    <2>2. \A q : Has(events', Finished(q)) <=> Has(events, Finished(q)) \/ q = p
      BY <2>1, PublishHas
    <2>3. ASSUME NEW q \in Ports PROVE Once(events', Finished(q))
      <3>1. events \in Seq(Event) /\ Finished(p) \in Event
        BY DEF Event, Finished
      <3>2. Finished(p) # Finished(q) \/ ~Has(events, Finished(q))
        <4>1. CASE q = p
          BY <2>1, <4>1
        <4>2. CASE q # p
          BY <4>2 DEF Finished
        <4> QED
          BY <4>1, <4>2
      <3>3. events' = Append(events, Finished(p))
        BY <2>1 DEF Publish, Finished
      <3> QED
        BY <3>1, <3>2, <3>3, OnceAppend
    <2> QED
      BY <2>1, <2>2, <2>3
  <1>8. CASE Learn
    BY <1>8 DEF SyncReturn, Replied, NextPort, OnReturn, ApplySync,
        AcquireReturn, AttrReturn, ReleaseReturn, Learn
  <1>9. CASE Adopt
    BY <1>9 DEF StopReturn, Replied, NextPort, OnReturn, RemoveReturn,
        AddReturn, Adopt
  <1>10. CASE Settle
    BY <1>10 DEF StartReturn, Replied, NextPort, OnReturn, StartApply, Settle
  <1>11. CASE Open
    BY <1>11 DEF ConnectDone, LoopOver, Enter, Between, Reconnect, Everywhere,
        BeginJob, AcquireDone, RaiseOr, Conclude, Known, Acquired, Open
  <1>12. CASE Prepare
    BY <1>12 DEF StopDone, LoopOver, Enter, Between, RaiseOr, Conclude, Known,
        Acquired, ActiveProfiles, Active, RemoveDone, ResetDone, BeginAdd,
        AddDone, Prepare
  <1>13. CASE Watch
    <2>1. CASE WaitDone
      BY <2>1 DEF WaitDone, Conclude
    <2>2. CASE StartDone
      <3> SUFFICES ASSUME phase' = "wait" PROVE WaitInv'
        OBVIOUS
      <3>1. /\ phase = "start" /\ todo = {} /\ cur = NoPort /\ ~failed
            /\ todo' = Acquired
            /\ UNCHANGED <<clientVars, subVars, serverVars>>
        BY <2>2 DEF StartDone, LoopOver, RaiseOr, Conclude, Enter, Between
      <3>2. Acquired = Ports
        BY <3>1 DEF Acquired
      <3>3. \A p \in Ports : ~FinishPending(p) /\ TX(p) /\ state[p] = "TX"
        BY <3>1
      <3>4. \A p \in Ports : Announced(p)
        BY <3>3 DEF Once, Has
      <3>5. subpc = "idle"
        BY <3>3
      <3> QED
        BY <3>1, <3>2, <3>3, <3>4, <3>5
    <2> QED
      BY <1>13, <2>1, <2>2 DEF Watch
  <1>14. CASE Close
    BY <1>14 DEF BeginCapture, Enter, Between, BeginHalt, ActiveProfiles,
        Acquired, HaltDone, LoopOver, CleanupDone, Conclude, ReleaseDone, Close
  <1>15. CASE Fetch
    BY <1>15 DEF Fetch
  <1>16. CASE Handle
    <2> SUFFICES ASSUME phase = "wait" PROVE WaitInv'
      BY <1>16 DEF Handle
    <2> DEFINE p == Head(inbox).port
    <2>1. /\ inbox # <<>> /\ inbox' = Tail(inbox) /\ inbox \in Seq(Event)
          /\ subpc = "idle"
          /\ UNCHANGED <<phase, todo, events, traf, state, agg>>
      BY <1>16 DEF Handle
    <2>2. p \in Ports /\ handler[p]
      BY <2>1, HeadEvent
    <2>3. \A q \in Ports : /\ Once(Tail(inbox), Finished(q))
                           /\ Head(inbox) = Finished(q) => ~Has(Tail(inbox), Finished(q))
                           /\ Has(inbox, Finished(q)) <=> \/ Head(inbox) = Finished(q)
                                                          \/ Has(Tail(inbox), Finished(q))
      BY <2>1, HasHeadTail, OnceTail
    <2>4. CASE Head(inbox).type = "finished"
      <3>1. subpc' = "agg" /\ subport' = p /\ prof' = [prof EXCEPT ![p] = "STREAMS"]
        BY <1>16, <2>4 DEF Handle, Applies
      <3>2. \A q \in Ports : Head(inbox) = Finished(q) <=> q = p
        BY <2>1, <2>4, HeadEvent
      <3>3. \A q \in Ports : Handling(q)' <=> q = p
        BY <3>1
      <3>4. \A q \in Ports : Has(inbox', Finished(q)) <=> Has(inbox, Finished(q)) /\ q # p
        BY <2>1, <2>3, <3>2
      <3>5. Has(inbox, Finished(p)) /\ prof'[subport'] # "TX" /\ subpc' # "write"
        BY <2>1, <2>2, <2>3, <3>1, <3>2
      <3> QED
        BY <2>1, <2>2, <2>3, <3>3, <3>4, <3>5
    <2>5. CASE Head(inbox).type # "finished"
      <3>1. UNCHANGED <<prof, subpc, subport>>
        BY <1>16, <2>2, <2>5, HeadEvent, <2>1 DEF Handle, Applies
      <3>2. \A q \in Ports : Has(inbox', Finished(q)) <=> Has(inbox, Finished(q))
        BY <2>1, <2>3, <2>5, HeadEvent
      <3> QED
        BY <2>1, <2>3, <3>1, <3>2
    <2> QED
      BY <2>4, <2>5
  <1>17. CASE ReadProfile
    BY <1>17 DEF ReadProfile
  <1>18. CASE WriteState
    BY <1>18 DEF WriteState
  <1>19. CASE TimePasses
    BY <1>19 DEF TimePasses
  <1>20. CASE UNCHANGED vars
    BY <1>20
  <1> QED
    BY <1>1, <1>2, <1>3, <1>4, <1>5, <1>6, <1>7, <1>8, <1>9, <1>10, <1>11,
       <1>12, <1>13, <1>14, <1>15, <1>16, <1>17, <1>18, <1>19, <1>20 DEF StepKinds

-----------------------------------------------------------------------------
(* The theorems.                                                            *)

LEMMA SafetyInit == Undisturbed /\ Init => SafetyInv
  <1> SUFFICES ASSUME Undisturbed, Init PROVE SafetyInv
    OBVIOUS
  <1> USE DEF Init, Everywhere
  <1>1. LoopInv
    BY DEF LoopInv
  <1>2. \A p \in Ports : ~TX(p)
    BY DEF Undisturbed, TX
  <1>3. OwnInv
    BY <1>2 DEF OwnInv, Granted
  <1>4. NoTheftInv
    BY DEF NoTheftInv
  <1>5. AgreeInv
    BY <1>2, EmptyQueue DEF AgreeInv, FinishPending, Handling
  <1>6. ClearInv /\ LaunchInv /\ WaitInv
    BY DEF ClearInv, LaunchInv, WaitInv
  <1>7. BudgetInv
    BY DEF BudgetInv, OfAJob, Granted
  <1> QED
    BY <1>1, <1>3, <1>4, <1>5, <1>6, <1>7 DEF SafetyInv

LEMMA SafetyStep == Undisturbed /\ TypeOK /\ SafetyInv /\ [Next]_vars => SafetyInv'
  <1> SUFFICES ASSUME Undisturbed, TypeOK, SafetyInv, [Next]_vars PROVE SafetyInv'
    OBVIOUS
  <1>1. StepKinds
    BY UndisturbedSteps
  <1>2. /\ LoopInv /\ OwnInv /\ NoTheftInv /\ AgreeInv /\ ClearInv /\ LaunchInv
        /\ WaitInv /\ BudgetInv
    BY DEF SafetyInv
  <1>3. LoopInv' /\ OwnInv' /\ NoTheftInv' /\ BudgetInv'
    BY <1>1, <1>2, LoopStep, OwnStep, NoTheftStep, BudgetStep
  <1>4. AgreeInv' /\ ClearInv' /\ LaunchInv' /\ WaitInv'
    BY <1>1, <1>2, AgreeStep, ClearStep, LaunchStep, WaitStep
  <1> QED
    BY <1>3, <1>4 DEF SafetyInv

\* In an undisturbed session the client's view of every port agrees with the
\* server up to the events under way: the inductive invariant.
THEOREM Safety == Undisturbed => (Spec => []SafetyInv)
  <1> SUFFICES ASSUME Undisturbed PROVE Spec => []SafetyInv
    OBVIOUS
  <1>1. Init => SafetyInv
    BY SafetyInit
  <1>2. TypeOK /\ SafetyInv /\ [Next]_vars => SafetyInv'
    BY SafetyStep
  <1> QED
    BY <1>1, <1>2, TypeCorrect, PTL DEF Spec

\* wait_on_traffic never lets go of a port that still transmits.
THEOREM WaitsLongEnough == Undisturbed => (Spec => []NoEarlyReturn)
  <1> SUFFICES ASSUME Undisturbed PROVE Spec => []NoEarlyReturn
    OBVIOUS
  <1>1. SafetyInv => NoEarlyReturn
    BY DEF SafetyInv, WaitInv, NoEarlyReturn, TX, Active
  <1> QED
    BY <1>1, Safety, PTL

\* It never waits for an end that no event will announce.
THEOREM WaitsNoLonger == Undisturbed => (Spec => []NoLostFinish)
  <1> SUFFICES ASSUME Undisturbed PROVE Spec => []NoLostFinish
    OBVIOUS
  <1>1. SafetyInv => NoLostFinish
    BY DEF SafetyInv, WaitInv, NoLostFinish, TX, Active
  <1> QED
    BY <1>1, Safety, PTL

\* No job is launched on top of another, nor before the news of the end of an
\* earlier one has been used up.
THEOREM LaunchesAfresh == Undisturbed => (Spec => []FreshLaunch)
  <1> SUFFICES ASSUME Undisturbed PROVE Spec => []FreshLaunch
    OBVIOUS
  <1>1. TypeOK /\ SafetyInv => FreshLaunch
    BY DEF TypeOK, SafetyInv, ClearInv, AgreeInv, Preparing, FreshLaunch, TX
  <1> QED
    BY <1>1, TypeCorrect, Safety, PTL

-----------------------------------------------------------------------------
(* The session implements TrafficJobs.                                      *)

LEMMA PromiseInit == Undisturbed /\ Init => Promise!Init
  BY DEF Init, Promise!Init, launched

\* A step that leaves the traffic and the verdicts alone, and does not begin or
\* end the launching of a job, is invisible.
LEMMA Invisible ==
  ASSUME UNCHANGED <<traf, verdict>>, launched' = launched
  PROVE  UNCHANGED Promise!vars
  BY DEF Promise!vars

\* Concluding a job is a step of the abstract session.
LEMMA Concludes ==
  ASSUME BudgetInv, phase \in OfAJob, Conclude("error"), UNCHANGED traf
  PROVE  Promise!Next
  <1>1. launched' = {}
    BY DEF Conclude, launched
  <1>2. Len(verdict) < Jobs /\ verdict' = Append(verdict, "error")
    BY DEF BudgetInv, Conclude
  <1> QED
    BY <1>1, <1>2 DEF Promise!Next, Promise!Conclude, Promise!GiveUp

\* Every step of the session is a step of the abstract one, or invisible to it.
LEMMA PromiseStep ==
  ASSUME TypeOK, Undisturbed, SafetyInv, StepKinds
  PROVE  [Promise!Next]_(Promise!vars)
  <1> USE DEF SafetyInv
  <1>1. ASSUME NEW p \in Ports, Query(p) \/ AcquireCall(p) \/ ReleaseCall(p)
        PROVE  UNCHANGED Promise!vars
    <2>1. UNCHANGED <<traf, verdict, phase>> /\ phase \notin {"start", "wait"}
      BY <1>1 DEF Query, SyncCall, AttrCall, AcquireCall, ReleaseCall, Visits,
                  Answered, serverVars
    <2> QED
      BY <2>1, Invisible DEF launched
  <1>2. ASSUME NEW p \in Ports, Edit(p) PROVE UNCHANGED Promise!vars
    <2>1. UNCHANGED <<verdict, phase>> /\ phase \in {"remove", "add"}
      BY <1>2 DEF Edit, RemoveCall, AddCall, Visits, Answered, Skip
    <2>2. \A q \in Ports : ~TX(q)
      BY <2>1 DEF ClearInv
    <2>3. \A q \in Ports : traf'[q] # "TX"
      BY <1>2, <2>2 DEF Edit, RemoveCall, AddCall, Skip, serverVars, TypeOK, TX
    <2>4. launched' = launched
      BY <2>1 DEF launched
    <2> QED
      BY <2>1, <2>2, <2>3, <2>4 DEF Promise!vars, TX
  <1>3. ASSUME NEW p \in Ports, StopCall(p) PROVE [Promise!Next]_(Promise!vars)
    <2>1. UNCHANGED <<verdict, phase>> /\ phase \in {"stop", "halt"}
      BY <1>3 DEF StopCall, Visits, Answered, Skip
    <2>2. launched' = launched
      BY <2>1 DEF launched
    <2>3. CASE traf' = traf
      BY <2>1, <2>2, <2>3, Invisible
    <2>4. CASE traf' # traf
      <3>1. TX(p) /\ traf' = [traf EXCEPT ![p] = "STREAMS"]
        BY <1>3, <2>4 DEF StopCall, Skip, serverVars, TX
      <3>2. Promise!End(p)
        BY <2>1, <2>2, <3>1 DEF Promise!End, TX, TypeOK
      <3> QED
        BY <3>2 DEF Promise!Next
    <2> QED
      BY <2>3, <2>4
  <1>4. ASSUME NEW p \in Ports, StartCall(p) PROVE [Promise!Next]_(Promise!vars)
    <2>1. /\ phase = "start" /\ pc = "loop" /\ cur = NoPort /\ p \in todo
          /\ ~TX(p) /\ state[p] # "TX" /\ Len(verdict) < Jobs
          /\ UNCHANGED <<phase, verdict>>
      BY <1>4, PortsAssumption DEF StartCall, Skip, Answered, Visits, LoopInv,
                                   ClearInv, BudgetInv, OfAJob, Granted, TypeOK
    <2>2. launched = {q \in Ports : q \notin todo /\ state[q] = "TX"}
      BY <2>1, PortsAssumption DEF launched, Active
    <2>3. CASE Skip(p, TRUE)
      <3>1. UNCHANGED <<state, cur, ok, traf>> /\ todo' = todo \ {p}
        BY <2>3 DEF Skip, clientVars, callVars, serverVars
      <3>2. launched' = {q \in Ports : q \notin todo' /\ state[q] = "TX"}
        BY <2>1, <3>1, PortsAssumption DEF launched, Active
      <3>3. launched' = launched
        BY <2>1, <2>2, <3>1, <3>2
      <3> QED
        BY <2>1, <3>1, <3>3, Invisible
    <2>4. CASE ~Skip(p, TRUE)
      <3>1. PICK served \in BOOLEAN :
              /\ Answered(p, served, "IDLE", state[p])
              /\ traf' = IF served THEN [traf EXCEPT ![p] = "TX"] ELSE traf
              /\ state' = [state EXCEPT ![p] = "TX"]
        BY <1>4, <2>4, Zenon DEF StartCall
      <3>2. launched' = {q \in Ports : IF q = p THEN served
                                       ELSE q \notin todo /\ state[q] = "TX"}
        BY <2>1, <3>1 DEF launched, Active, Answered, TypeOK
      <3>3. CASE served
        <4>1. launched' = launched \cup {p} /\ p \notin launched
          BY <2>1, <2>2, <3>2, <3>3
        <4>2. {q \in Ports : traf'[q] = "TX"} = {q \in Ports : traf[q] = "TX"} \cup {p}
          BY <3>1, <3>3 DEF TypeOK
        <4>3. Promise!Launch(p)
          BY <2>1, <4>1, <4>2 DEF Promise!Launch, TX
        <4> QED
          BY <4>3 DEF Promise!Next
      <3>4. CASE ~served
        <4>1. launched' = launched
          BY <2>1, <2>2, <3>2, <3>4
        <4> QED
          BY <2>1, <3>1, <3>4, <4>1, Invisible
      <3> QED
        BY <3>3, <3>4
    <2> QED
      BY <2>3, <2>4
  <1>5. ASSUME NEW p \in Ports, Finish(p) PROVE Promise!Next
    <2>1. TX(p) /\ traf' = [traf EXCEPT ![p] = "STREAMS"] /\ verdict' = verdict
      BY <1>5 DEF Finish, TX, mainVars
    <2>2. launched' = launched
      BY <1>5 DEF Finish, mainVars, callVars, clientVars, launched
    <2>3. Promise!End(p)
      BY <2>1, <2>2 DEF Promise!End, TX, TypeOK
    <2> QED
      BY <2>3 DEF Promise!Next
  <1>6. CASE Learn \/ Adopt
    <2>1. UNCHANGED <<traf, verdict, phase>> /\ phase \notin {"start", "wait"}
      BY <1>6 DEF Learn, Adopt, SyncReturn, AcquireReturn, AttrReturn, ReleaseReturn,
                  StopReturn, RemoveReturn, AddReturn, Replied, OnReturn, serverVars
    <2> QED
      BY <2>1, Invisible DEF launched
  <1>7. CASE Settle
    <2>1. UNCHANGED <<traf, verdict, phase>> /\ phase = "start" /\ pc # "loop"
      BY <1>7 DEF Settle, StartReturn, StartApply, Replied, OnReturn, serverVars
    <2>2. launched = {q \in Ports : IF q = cur THEN ok ELSE q \notin todo /\ Active(state[q])}
      BY <2>1 DEF launched
    <2>3. CASE StartReturn /\ ok
      <3>1. UNCHANGED <<cur, ok, todo, state>>
        BY <2>3 DEF StartReturn
      <3> QED
        BY <2>1, <3>1, Invisible DEF launched
    <2>4. CASE StartReturn /\ ~ok
      <3>1. /\ cur' = NoPort /\ todo' = todo \ {cur} /\ cur \in Ports /\ saved # "TX"
            /\ state' = [state EXCEPT ![cur] = saved]
        BY <2>1, <2>4 DEF StartReturn, NextPort, TypeOK, LaunchInv
      <3>2. launched' = {q \in Ports : q \notin todo' /\ Active(state'[q])}
        BY <2>1, <3>1, PortsAssumption DEF launched
      <3>3. launched' = launched
        BY <2>2, <2>4, <3>1, <3>2 DEF Active, TypeOK
      <3> QED
        BY <2>1, <3>3, Invisible
    <2>5. CASE StartApply
      <3>1. /\ cur' = NoPort /\ todo' = todo \ {cur} /\ state' = state
            /\ ok /\ state[cur] = "TX"
        BY <2>1, <2>5 DEF StartApply, NextPort, LaunchInv
      <3>2. launched' = {q \in Ports : q \notin todo' /\ Active(state'[q])}
        BY <2>1, <3>1, PortsAssumption DEF launched
      <3>3. launched' = launched
        BY <2>2, <3>1, <3>2 DEF Active
      <3> QED
        BY <2>1, <3>3, Invisible
    <2> QED
      BY <1>7, <2>3, <2>4, <2>5 DEF Settle
  <1>8. CASE Open \/ Prepare
    <2>1. UNCHANGED traf /\ phase \notin {"start", "wait"}
      BY <1>8 DEF Open, Prepare, ConnectDone, Reconnect, BeginJob, AcquireDone,
                  StopDone, RemoveDone, ResetDone, BeginAdd, AddDone, LoopOver,
                  Between, serverVars
    <2>2. CASE phase \in OfAJob /\ Conclude("error")
      BY <2>1, <2>2, Concludes
    <2>3. CASE /\ UNCHANGED verdict
               /\ phase' = "start" => todo' = Ports /\ cur' = NoPort
               /\ phase' # "wait"
      <3>1. launched' = {} /\ launched = {}
        BY <2>1, <2>3, PortsAssumption DEF launched
      <3> QED
        BY <2>1, <2>3, <3>1, Invisible
    <2>4. CASE Open
      <3>1. CASE ConnectDone \/ Reconnect \/ BeginJob
        <4>1. UNCHANGED verdict /\ phase' \in {"off", "idle", "connect", "acquire"}
          BY <3>1 DEF ConnectDone, Reconnect, BeginJob, Enter
        <4> QED
          BY <2>3, <4>1
      <3>2. CASE AcquireDone
        <4>1. \/ UNCHANGED verdict /\ phase' \in {"cleanup", "stop"}
              \/ phase = "acquire" /\ Conclude("error")
          BY <3>2 DEF AcquireDone, Enter, RaiseOr, LoopOver
        <4> QED
          BY <2>2, <2>3, <4>1 DEF OfAJob
      <3> QED
        BY <2>4, <3>1, <3>2 DEF Open
    <2>5. CASE Prepare
      <3>1. \/ UNCHANGED verdict /\ phase' \in {"remove", "attr", "ready", "add"}
            \/ phase \in OfAJob /\ Conclude("error")
            \/ AddDone /\ Enter("start", Acquired)
        BY <2>5 DEF Prepare, StopDone, RemoveDone, ResetDone, BeginAdd, AddDone,
                    Enter, RaiseOr, LoopOver, OfAJob, Granted
      <3>2. ASSUME AddDone, Enter("start", Acquired)
            PROVE  UNCHANGED verdict /\ todo' = Ports /\ cur' = NoPort /\ phase' = "start"
        BY <3>2 DEF AddDone, Enter, LoopOver, Between, callVars, Acquired, OwnInv,
                    Granted, LoopInv
      <3> QED
        BY <2>2, <2>3, <3>1, <3>2
    <2> QED
      BY <1>8, <2>4, <2>5
  <1>9. CASE StartDone
    <2>1. phase = "start" /\ todo = {} /\ pc = "loop" /\ cur = NoPort /\ UNCHANGED traf
      BY <1>9 DEF StartDone, LoopOver, Between, serverVars, LoopInv
    <2>2. CASE Conclude("error")
      BY <2>1, <2>2, Concludes DEF OfAJob, Granted
    <2>3. CASE ~Conclude("error")
      <3>1. phase' = "wait" /\ UNCHANGED verdict /\ ~failed
        BY <1>9, <2>3 DEF StartDone, RaiseOr, Enter
      <3>2. \A p \in Ports : state[p] = "TX" /\ p # cur
        BY <2>1, <3>1, PortsAssumption DEF LaunchInv, AgreeInv, Preparing
      <3>3. launched = Ports /\ launched' = Ports
        BY <2>1, <3>1, <3>2 DEF launched, Active
      <3> QED
        BY <2>1, <3>1, <3>3, Invisible
    <2> QED
      BY <2>2, <2>3
  <1>10. CASE WaitDone
    <2>1. /\ phase = "wait" /\ phase' = "idle" /\ UNCHANGED traf
          /\ verdict' = Append(verdict, "done")
          /\ \A p \in Ports : ~TX(p) /\ Len(verdict) < Jobs
      BY <1>10 DEF WaitDone, Conclude, Between, serverVars, WaitInv, OwnInv, Granted,
                   Active, BudgetInv, OfAJob
    <2>2. Len(verdict) < Jobs
      BY <2>1 DEF BudgetInv, OfAJob, Granted
    <2>3. launched = Ports /\ launched' = {}
      BY <2>1 DEF launched
    <2> QED
      BY <2>1, <2>2, <2>3 DEF Promise!Next, Promise!Conclude, Promise!Done, TX
  <1>11. CASE Close
    <2>1. /\ UNCHANGED <<traf, verdict>> /\ phase \notin {"start", "wait"}
          /\ phase' \notin {"start", "wait"}
      BY <1>11 DEF Close, BeginCapture, BeginHalt, HaltDone, CleanupDone, ReleaseDone,
                   LoopOver, Enter, Between, serverVars, OwnInv
    <2> QED
      BY <2>1, Invisible DEF launched
  <1>12. CASE WriteState
    <2>1. UNCHANGED <<traf, verdict, phase, todo, cur, ok>> /\ phase # "start"
      BY <1>12 DEF WriteState, serverVars, mainVars, callVars, AgreeInv, Preparing,
                   FinishPending, Handling, TypeOK
    <2> QED
      BY <2>1, Invisible DEF launched
  <1>13. CASE Fetch \/ Handle \/ ReadProfile \/ TimePasses \/ UNCHANGED vars
    <2>1. UNCHANGED <<traf, verdict, phase, todo, cur, ok, state>>
      BY <1>13 DEF Fetch, Handle, ReadProfile, TimePasses, vars, clientVars,
                   serverVars, mainVars, callVars
    <2> QED
      BY <2>1, Invisible DEF launched
  <1> QED
    BY <1>1, <1>2, <1>3, <1>4, <1>5, <1>6, <1>7, <1>8, <1>9, <1>10, <1>11, <1>12,
       <1>13 DEF StepKinds, Watch

\* The session implements TrafficJobs: a job is reported done only when it has
\* been launched on every port and has ended on every port, whichever RPCs fail
\* and in whatever order the events of the server arrive.
THEOREM PromiseKept == Undisturbed => (Spec => KeepsPromise)
  <1> SUFFICES ASSUME Undisturbed PROVE Spec => KeepsPromise
    OBVIOUS
  <1>1. Init => Promise!Init
    BY PromiseInit
  <1>2. TypeOK /\ SafetyInv /\ [Next]_vars => [Promise!Next]_(Promise!vars)
    BY UndisturbedSteps, PromiseStep
  <1> QED
    BY <1>1, <1>2, TypeCorrect, Safety, PTL DEF Spec, KeepsPromise, Promise!Spec


=============================================================================
