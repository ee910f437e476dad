-------------------------- MODULE IDSSystemProofs ---------------------------
(***************************************************************************)
(* Type correctness and safety of IDSSystem, for any number of instances   *)
(* and any faults.                                                         *)
(***************************************************************************)
EXTENDS IDSSystemInvariant, TLAPS

(* The news on their way.                                                  *)

\* A mail that is left alone holds what it held, ...
LEMMA SameMail ==
  ASSUME NEW i, mail'[i] = mail[i], NEW e
  PROVE  Pending(i, e)' <=> Pending(i, e)
  BY DEF Pending

\* ... an empty one nothing.
LEMMA NoMail ==
  ASSUME NEW i, mail'[i] = <<>>, NEW e
  PROVE  ~Pending(i, e)'
  BY DEF Pending

LEMMA NoMailType ==
  ASSUME TypeOK, NEW i \in Instances, mail' = [mail EXCEPT ![i] = <<>>]
  PROVE  /\ mail' \in [Instances -> Seq(News)]
         /\ \A j \in Instances : Len(mail'[j]) <= MaxMail
  <1>1. <<>> \in Seq(News) /\ Len(<<>>) <= MaxMail
    BY MailAssumption
  <1> QED
    BY <1>1 DEF TypeOK

\* A client that is gone leaves no trace.
LEMMA ForgetType ==
  ASSUME TypeOK, NEW i \in Instances, Forget(i)
  PROVE  /\ dying' \in [Instances -> BOOLEAN] /\ handler' \in [Instances -> BOOLEAN]
         /\ view' \in [Instances -> BOOLEAN] /\ job' \in [Instances -> {1, 2}]
         /\ conn' \in [Instances -> {"down", "up", "lost"}]
         /\ sub' \in [Instances -> {"off", "run", "mark", "shoot"}]
         /\ tries' \in [Instances -> 0..Attempts]
         /\ \A j \in Instances : tries[j] # 0 => tries'[j] # 0
         /\ tries'[i] # 0
         /\ mail' \in [Instances -> Seq(News)]
         /\ \A j \in Instances : Len(mail'[j]) <= MaxMail
  <1>1. Attempts \in 0..Attempts /\ Attempts # 0
    BY AttemptsAssumption
  <1>2. mail' \in [Instances -> Seq(News)] /\ \A j \in Instances : Len(mail'[j]) <= MaxMail
    BY NoMailType DEF Forget
  <1>3. tries' = [tries EXCEPT ![i] = Attempts] /\ tries \in [Instances -> 0..Attempts]
    BY DEF TypeOK, Forget
  <1>4. /\ tries' \in [Instances -> 0..Attempts] /\ tries'[i] # 0
        /\ \A j \in Instances : tries[j] # 0 => tries'[j] # 0
    BY <1>1, <1>3
  <1> QED
    BY <1>2, <1>4 DEF TypeOK, Forget

\* What is published comes to what was there, ...
LEMMA PublishType ==
  ASSUME TypeOK, NEW e \in News, NEW to, Publish(e, to)
  PROVE  /\ mail' \in [Instances -> Seq(News)]
         /\ \A i \in Instances : Len(mail'[i]) <= MaxMail
  <1>1. \A i \in Instances : mail[i] \in Seq(News) /\ Len(mail[i]) <= MaxMail
    BY DEF TypeOK
  <1>2. ASSUME NEW i \in Instances
        PROVE  /\ Append(mail[i], e) \in Seq(News)
               /\ Len(Append(mail[i], e)) = Len(mail[i]) + 1
    <2>1. mail[i] \in Seq(News)
      BY <1>1
    <2> QED
      BY <2>1
  <1>3. mail' = [i \in Instances |-> mail'[i]]
    BY DEF Publish
  <1>4. ASSUME NEW i \in Instances
        PROVE  mail'[i] \in Seq(News) /\ Len(mail'[i]) <= MaxMail
    <2>1. CASE mail'[i] = mail[i]
      BY <1>1, <2>1
    <2>2. CASE mail'[i] = Append(mail[i], e) /\ Len(mail[i]) < MaxMail
      BY <1>1, <1>2, <2>2, MailAssumption
    <2> QED
      BY <2>1, <2>2 DEF Publish
  <1> QED
    BY <1>3, <1>4

LEMMA PublishPending ==
  ASSUME TypeOK, NEW e \in News, NEW to, Publish(e, to), NEW i \in Instances, NEW f
  PROVE  Pending(i, f)' => Pending(i, f) \/ (f = e /\ i \in to)
  <1>1. mail[i] \in Seq(News)
    BY DEF TypeOK
  <1>2. CASE mail'[i] = mail[i]
    BY <1>2, SameMail
  <1>3. CASE mail'[i] = Append(mail[i], e) /\ i \in to
    BY <1>1, <1>3 DEF Pending
  <1> QED
    BY <1>2, <1>3 DEF Publish

\* ... and what is handled was there.
LEMMA HandleType ==
  ASSUME TypeOK, NEW i \in Instances, Handle(i)
  PROVE  /\ mail' \in [Instances -> Seq(News)]
         /\ \A j \in Instances : Len(mail'[j]) <= MaxMail
         /\ Head(mail[i]) \in News /\ Pending(i, Head(mail[i]))
  <1>1. mail[i] \in Seq(News) /\ mail[i] # <<>> /\ Len(mail[i]) <= MaxMail
    BY DEF TypeOK, Handle
  <1>2. /\ Tail(mail[i]) \in Seq(News) /\ Len(Tail(mail[i])) = Len(mail[i]) - 1
        /\ Head(mail[i]) \in News
    BY <1>1
  <1>3. Pending(i, Head(mail[i]))
    BY <1>1 DEF Pending
  <1> QED
    BY <1>1, <1>2, <1>3, MailAssumption DEF Handle, TypeOK

LEMMA HandlePending ==
  ASSUME TypeOK, NEW i \in Instances, Handle(i), NEW j \in Instances, NEW e
  PROVE  Pending(j, e)' => Pending(j, e)
  <1>1. mail[i] \in Seq(News) /\ mail[i] # <<>>
    BY DEF TypeOK, Handle
  <1>2. CASE j # i
    BY <1>2, SameMail DEF Handle, TypeOK
  <1>3. CASE j = i
    <2>1. mail'[i] = Tail(mail[i])
      BY DEF Handle, TypeOK
    <2> QED
      BY <1>1, <1>3, <2>1 DEF Pending
  <1> QED
    BY <1>2, <1>3

\* Stopping the ports is publishing, or nothing.
LEMMA SilenceFacts ==
  ASSUME TypeOK, Silence, NEW i \in Instances
  PROVE  /\ mail' \in [Instances -> Seq(News)]
         /\ \A j \in Instances : Len(mail'[j]) <= MaxMail
         /\ traffic' = None
         /\ \A e \in News \ {"stopped"} : Pending(i, e)' => Pending(i, e)
  <1>1. CASE Publish("stopped", Instances)
    BY <1>1, PublishType, PublishPending DEF Silence, News
  <1>2. CASE UNCHANGED mail
    BY <1>2, SameMail DEF Silence, TypeOK
  <1> QED
    BY <1>1, <1>2 DEF Silence

-----------------------------------------------------------------------------
(* Type correctness.                                                       *)

LEMMA TypeInit == Init => TypeOK /\ CountInv
  <1> SUFFICES ASSUME Init PROVE TypeOK /\ CountInv
    OBVIOUS
  <1>1. "off" \in Places
    BY DEF Places, Rest
  <1>2. Attempts \in 0..Attempts /\ Attempts # 0
    BY AttemptsAssumption
  <1>3. <<>> \in Seq(News) /\ Len(<<>>) <= MaxMail
    BY MailAssumption
  <1>4. TypeOK
    BY <1>1, <1>2, <1>3 DEF Init, TypeOK
  <1>5. CountInv
    BY <1>2 DEF Init, CountInv
  <1> QED
    BY <1>4, <1>5

LEMMA TypeStep == TypeOK /\ CountInv /\ [Next]_vars => TypeOK' /\ CountInv'
  <1> SUFFICES ASSUME TypeOK, CountInv, [Next]_vars PROVE TypeOK' /\ CountInv'
    OBVIOUS
  <1> USE AttemptsAssumption DEF TypeOK, CountInv, Places, Rest, Opening, Working, Closing
  <1>1. ASSUME NEW b \in Instances, NEW f \in Instances, ChooseStart(b, f)
       PROVE  TypeOK' /\ CountInv'
    BY <1>1 DEF ChooseStart, menuVars, mainVars, portVars, clientVars,
       serverVars
  <1>2. ASSUME NEW f \in Instances, ChooseOther(f)
       PROVE  TypeOK' /\ CountInv'
    BY <1>2 DEF ChooseOther, Goto, menuVars, mainVars, portVars, clientVars,
       serverVars
  <1>3. CASE FrontEnded
    BY <1>3 DEF FrontEnded, menuVars, mainVars, portVars, clientVars, serverVars
  <1>4. CASE Interrupt
    BY <1>4 DEF Interrupt, menuVars, mainVars, portVars, clientVars, serverVars
  <1>5. CASE GraceOver
    BY <1>5, ForgetType DEF GraceOver, Ends, Goto, menuVars, mainVars, portVars,
       clientVars, serverVars
  <1>6. CASE Exit
    BY <1>6 DEF Exit, menuVars, mainVars, portVars, clientVars, serverVars
  <1>7. CASE Relaunch
    BY <1>7 DEF Relaunch, menuVars, mainVars, portVars, clientVars, serverVars
  <1>8. ASSUME NEW i \in Instances, BeginCycle(i)
       PROVE  TypeOK' /\ CountInv'
    BY <1>8 DEF BeginCycle, At, Goto, menuVars, mainVars, portVars, clientVars,
       serverVars
  <1>9. ASSUME NEW i \in Instances, BuildFails(i)
       PROVE  TypeOK' /\ CountInv'
    BY <1>9, ForgetType DEF BuildFails, At, Ends, Goto, menuVars, mainVars,
       portVars, clientVars, serverVars
  <1>10. ASSUME NEW i \in Instances, Connect(i)
       PROVE  TypeOK' /\ CountInv'
    BY <1>10 DEF Connect, At, Goto, menuVars, mainVars, portVars, clientVars,
       serverVars
  <1>11. ASSUME NEW i \in Instances, ConnectFails(i)
       PROVE  TypeOK' /\ CountInv'
    BY <1>11 DEF ConnectFails, Goto, menuVars, mainVars, portVars, clientVars,
       serverVars
  <1>12. ASSUME NEW i \in Instances, NapOver(i)
       PROVE  TypeOK' /\ CountInv'
    BY <1>12 DEF NapOver, At, Goto, menuVars, mainVars, portVars, clientVars,
       serverVars
  <1>13. ASSUME NEW i \in Instances, Acquire(i)
       PROVE  TypeOK' /\ CountInv'
    BY <1>13, PublishType DEF Acquire, At, Goto, Up, menuVars, mainVars,
       portVars, clientVars, serverVars, News
  <1>14. ASSUME NEW i \in Instances, Clear(i)
       PROVE  TypeOK' /\ CountInv'
    BY <1>14, SilenceFacts DEF Clear, At, Goto, Up, menuVars, mainVars,
       portVars, clientVars, serverVars, CanClear,
       Pending
  <1>15. ASSUME NEW i \in Instances, Start(i)
       PROVE  TypeOK' /\ CountInv'
    BY <1>15, PublishType DEF Start, At, Goto, Up, menuVars, mainVars, portVars,
       clientVars, serverVars, News, CanStart
  <1>16. ASSUME NEW i \in Instances, WaitDone(i)
       PROVE  TypeOK' /\ CountInv'
    BY <1>16 DEF WaitDone, At, Up, JobOver, Goto, menuVars, mainVars, portVars,
       clientVars, serverVars
  <1>17. ASSUME NEW i \in Instances, Refused(i)
       PROVE  TypeOK' /\ CountInv'
    BY <1>17 DEF Refused, At, Up, JobOver, Goto, menuVars, mainVars, portVars,
       clientVars, serverVars, CanClear, CanStart
  <1>18. ASSUME NEW i \in Instances, Capture(i)
       PROVE  TypeOK' /\ CountInv'
    BY <1>18 DEF Capture, At, Goto, menuVars, mainVars, portVars, clientVars,
       serverVars
  <1>19. ASSUME NEW i \in Instances, Detect(i)
       PROVE  TypeOK' /\ CountInv'
    BY <1>19 DEF Detect, At, Goto, menuVars, mainVars, portVars, clientVars,
       serverVars
  <1>20. ASSUME NEW i \in Instances, Stop(i)
       PROVE  TypeOK' /\ CountInv'
    BY <1>20, SilenceFacts DEF Stop, At, Goto, Up, menuVars, mainVars, portVars,
       clientVars, serverVars
  <1>21. ASSUME NEW i \in Instances, Release(i)
       PROVE  TypeOK' /\ CountInv'
    BY <1>21 DEF Release, At, Goto, Up, menuVars, mainVars, portVars,
       clientVars, serverVars
  <1>22. ASSUME NEW i \in Instances, Drop(i)
       PROVE  TypeOK' /\ CountInv'
    BY <1>22, ForgetType DEF Drop, At, Goto, menuVars, mainVars, portVars,
       clientVars, serverVars
  <1>23. ASSUME NEW i \in Instances, Swallow(i)
       PROVE  TypeOK' /\ CountInv'
    BY <1>23 DEF Swallow, JobOver, Goto, menuVars, mainVars, portVars,
       clientVars, serverVars
  <1>24. ASSUME NEW i \in Instances, Unwind(i)
       PROVE  TypeOK' /\ CountInv'
    BY <1>24 DEF Unwind, Goto, menuVars, mainVars, portVars, clientVars,
       serverVars
  <1>25. ASSUME NEW i \in Instances, Succumb(i)
       PROVE  TypeOK' /\ CountInv'
    BY <1>25, ForgetType DEF Succumb, Ends, Goto, menuVars, mainVars, portVars,
       clientVars, serverVars
  <1>26. ASSUME NEW i \in Instances, Handle(i)
       PROVE  TypeOK' /\ CountInv'
    BY <1>26, HandleType DEF Handle, Up, menuVars, mainVars, portVars,
       clientVars, serverVars
  <1>27. ASSUME NEW i \in Instances, TestFlag(i)
       PROVE  TypeOK' /\ CountInv'
    BY <1>27 DEF TestFlag, menuVars, mainVars, portVars, clientVars, serverVars
  <1>28. ASSUME NEW i \in Instances, Shoot(i)
       PROVE  TypeOK' /\ CountInv'
    BY <1>28 DEF Shoot, menuVars, mainVars, portVars, clientVars, serverVars
  <1>29. ASSUME NEW i \in Instances, Lose(i)
       PROVE  TypeOK' /\ CountInv'
    BY <1>29, NoMailType DEF Lose, Up, menuVars, mainVars, portVars, clientVars, serverVars
  <1>30. ASSUME NEW i \in Instances, SubscriberCrash(i)
       PROVE  TypeOK' /\ CountInv'
    BY <1>30, ForgetType DEF SubscriberCrash, Ends, Goto, menuVars, mainVars,
       portVars, clientVars, serverVars
  <1>31. CASE Finish
    BY <1>31, PublishType DEF Finish, menuVars, mainVars, portVars, clientVars,
       serverVars, News
  <1>32. CASE UNCHANGED vars
    BY <1>32 DEF vars, menuVars, mainVars, portVars, clientVars, serverVars
  <1> QED
    BY <1>1, <1>2, <1>3, <1>4, <1>5, <1>6, <1>7, <1>8, <1>9, <1>10, <1>11, <1>12,
       <1>13, <1>14, <1>15, <1>16, <1>17, <1>18, <1>19, <1>20, <1>21, <1>22, <1>23,
       <1>24, <1>25, <1>26, <1>27, <1>28, <1>29, <1>30, <1>31, <1>32 DEF Next, Menu,
       Main, Subscriber

\* The variables stay in their types: no place is left out of the cycle and
\* the attempts to connect do not run below zero.
THEOREM TypeCorrect == Spec => []TypeOK
  BY TypeInit, TypeStep, PTL DEF Spec

-----------------------------------------------------------------------------
(* The server between the cycles.                                          *)

LEMMA QuietInit == Init => QuietInv
  BY InstancesAssumption, TypeInit
  DEF Init, QuietInv, HolderInv, ReleaseInv, StartInv, FreeInv

LEMMA QuietStep == TypeOK /\ QuietInv /\ [Next]_vars => QuietInv'
  <1> SUFFICES ASSUME TypeOK, QuietInv, [Next]_vars
               PROVE  HolderInv' /\ ReleaseInv' /\ StartInv' /\ FreeInv'
    BY TypeStep DEF QuietInv
  <1> USE InstancesAssumption
      DEF QuietInv, HolderInv, UpToDate, ReleaseInv, StartInv, FreeInv, TypeOK
  <1>1. ASSUME NEW b \in Instances, NEW f \in Instances, ChooseStart(b, f)
       PROVE  HolderInv' /\ ReleaseInv' /\ StartInv' /\ FreeInv'
    BY <1>1, SameMail DEF ChooseStart, menuVars, mainVars, portVars, clientVars,
       serverVars, Working, Closing
  <1>2. ASSUME NEW f \in Instances, ChooseOther(f)
       PROVE  HolderInv' /\ ReleaseInv' /\ StartInv' /\ FreeInv'
    BY <1>2, SameMail DEF ChooseOther, Goto, menuVars, mainVars, portVars,
       clientVars, serverVars, Working, Closing
  <1>3. CASE FrontEnded
    BY <1>3, SameMail DEF FrontEnded, menuVars, mainVars, portVars, clientVars,
       serverVars, Working, Closing
  <1>4. CASE Interrupt
    BY <1>4, SameMail DEF Interrupt, menuVars, mainVars, portVars, clientVars,
       serverVars, Working, Closing
  <1>5. CASE GraceOver
    BY <1>5, SameMail DEF GraceOver, Ends, Forget, Goto, menuVars, mainVars,
       portVars, clientVars, serverVars, Working, Closing
  <1>6. CASE Exit
    BY <1>6, SameMail DEF Exit, menuVars, mainVars, portVars, clientVars,
       serverVars, Working, Closing
  <1>7. CASE Relaunch
    BY <1>7, SameMail DEF Relaunch, menuVars, mainVars, portVars, clientVars,
       serverVars, Working, Closing
  <1>8. ASSUME NEW i \in Instances, BeginCycle(i)
       PROVE  HolderInv' /\ ReleaseInv' /\ StartInv' /\ FreeInv'
    BY <1>8, SameMail DEF BeginCycle, At, Goto, menuVars, mainVars, portVars,
       clientVars, serverVars, Working, Closing
  <1>9. ASSUME NEW i \in Instances, BuildFails(i)
       PROVE  HolderInv' /\ ReleaseInv' /\ StartInv' /\ FreeInv'
    BY <1>9, SameMail DEF BuildFails, At, Ends, Forget, Goto, menuVars,
       mainVars, portVars, clientVars, serverVars, Working, Closing
  <1>10. ASSUME NEW i \in Instances, Connect(i)
       PROVE  HolderInv' /\ ReleaseInv' /\ StartInv' /\ FreeInv'
    BY <1>10, SameMail DEF Connect, At, Goto, menuVars, mainVars, portVars,
       clientVars, serverVars, Working, Closing
  <1>11. ASSUME NEW i \in Instances, ConnectFails(i)
       PROVE  HolderInv' /\ ReleaseInv' /\ StartInv' /\ FreeInv'
    BY <1>11, SameMail DEF ConnectFails, Goto, menuVars, mainVars, portVars,
       clientVars, serverVars, Working, Closing
  <1>12. ASSUME NEW i \in Instances, NapOver(i)
       PROVE  HolderInv' /\ ReleaseInv' /\ StartInv' /\ FreeInv'
    BY <1>12, SameMail DEF NapOver, At, Goto, menuVars, mainVars, portVars,
       clientVars, serverVars, Working, Closing
  <1>13. ASSUME NEW i \in Instances, Acquire(i)
       PROVE  HolderInv' /\ ReleaseInv' /\ StartInv' /\ FreeInv'
    <2>1. /\ owner' = i /\ handler'[i] /\ pc'[i] = "clear" /\ conn'[i] = "up"
          /\ view' = view /\ traffic' = traffic
          /\ loose' = (loose \/ ~UpToDate(i))
      BY <1>13 DEF Acquire, At, Goto, Up
    <2>2. Publish("taken", Instances \ {i}) /\ "taken" \in News
      BY <1>13 DEF Acquire, News
    <2>3. ASSUME NEW f PROVE Pending(i, f)' => Pending(i, f)
      BY <2>2, PublishPending
    <2>4. HolderInv'
      <3>1. ASSUME ~loose'
            PROVE  ~Pending(i, "taken")' /\ (traffic' # None => view'[i] /\ ~Pending(i, "ended")')
        BY <2>1, <2>3, <3>1
      <3>2. ASSUME NEW j \in Instances, owner' = j PROVE j = i
        BY <2>1, <3>2
      <3> QED
        BY <2>1, <3>1, <3>2 DEF Working
    <2> QED
      BY <2>1, <2>4
  <1>14. ASSUME NEW i \in Instances, Clear(i)
       PROVE  HolderInv' /\ ReleaseInv' /\ StartInv' /\ FreeInv'
    BY <1>14, SilenceFacts DEF Clear, At, Goto, Up, menuVars, mainVars,
       portVars, clientVars, serverVars, Working, Closing, News, CanClear
  <1>15. ASSUME NEW i \in Instances, Start(i)
       PROVE  HolderInv' /\ ReleaseInv' /\ StartInv' /\ FreeInv'
    BY <1>15, PublishPending DEF Start, At, Goto, Up, menuVars, mainVars,
       portVars, clientVars, serverVars, Working, Closing, News, CanStart
  <1>16. ASSUME NEW i \in Instances, WaitDone(i)
       PROVE  HolderInv' /\ ReleaseInv' /\ StartInv' /\ FreeInv'
    BY <1>16, SameMail DEF WaitDone, At, Up, JobOver, Goto, menuVars, mainVars,
       portVars, clientVars, serverVars, Working, Closing
  <1>17. ASSUME NEW i \in Instances, Refused(i)
       PROVE  HolderInv' /\ ReleaseInv' /\ StartInv' /\ FreeInv'
    BY <1>17, SameMail DEF Refused, At, Up, JobOver, Goto, menuVars, mainVars,
       portVars, clientVars, serverVars, Working, Closing, CanClear, CanStart
  <1>18. ASSUME NEW i \in Instances, Capture(i)
       PROVE  HolderInv' /\ ReleaseInv' /\ StartInv' /\ FreeInv'
    BY <1>18, SameMail DEF Capture, At, Goto, menuVars, mainVars, portVars,
       clientVars, serverVars, Working, Closing
  <1>19. ASSUME NEW i \in Instances, Detect(i)
       PROVE  HolderInv' /\ ReleaseInv' /\ StartInv' /\ FreeInv'
    BY <1>19, SameMail DEF Detect, At, Goto, menuVars, mainVars, portVars,
       clientVars, serverVars, Working, Closing
  <1>20. ASSUME NEW i \in Instances, Stop(i)
       PROVE  HolderInv' /\ ReleaseInv' /\ StartInv' /\ FreeInv'
    <2>1. /\ pc[i] = "stop" /\ pc' = [pc EXCEPT ![i] = "release"]
          /\ owner' = owner /\ conn' = conn /\ handler' = handler /\ loose' = loose
      BY <1>20 DEF Stop, At, Goto
    <2>2. CASE Up(i) /\ handler[i] /\ view[i] /\ owner = i
      <3>1. Silence
        BY <1>20, <2>2 DEF Stop
      <3>2. traffic' = None /\ (Pending(i, "taken")' => Pending(i, "taken"))
        BY <3>1, SilenceFacts DEF News
      <3>3. HolderInv'
        BY <2>1, <2>2, <3>2
      <3> QED
        BY <2>1, <3>2, <3>3
    <2>3. CASE ~(Up(i) /\ handler[i] /\ view[i] /\ owner = i)
      <3>1. traffic' = traffic /\ view' = view /\ mail' = mail
        BY <1>20, <2>3 DEF Stop
      <3>2. ASSUME NEW j \in Instances, NEW f PROVE Pending(j, f)' = Pending(j, f)
        BY <3>1 DEF Pending
      <3>3. HolderInv'
        BY <2>1, <3>1, <3>2
      <3>4. ReleaseInv'
        BY <2>1, <2>3, <3>1 DEF Up
      <3> QED
        BY <2>1, <3>1, <3>3, <3>4
    <2> QED
      BY <2>2, <2>3
  <1>21. ASSUME NEW i \in Instances, Release(i)
       PROVE  HolderInv' /\ ReleaseInv' /\ StartInv' /\ FreeInv'
    BY <1>21, SameMail DEF Release, At, Goto, Up, menuVars, mainVars, portVars,
       clientVars, serverVars, Working, Closing
  <1>22. ASSUME NEW i \in Instances, Drop(i)
       PROVE  HolderInv' /\ ReleaseInv' /\ StartInv' /\ FreeInv'
    BY <1>22, SameMail DEF Drop, At, Forget, Goto, menuVars, mainVars, portVars,
       clientVars, serverVars, Working, Closing
  <1>23. ASSUME NEW i \in Instances, Swallow(i)
       PROVE  HolderInv' /\ ReleaseInv' /\ StartInv' /\ FreeInv'
    BY <1>23, SameMail DEF Swallow, JobOver, Goto, menuVars, mainVars, portVars,
       clientVars, serverVars, Working, Closing
  <1>24. ASSUME NEW i \in Instances, Unwind(i)
       PROVE  HolderInv' /\ ReleaseInv' /\ StartInv' /\ FreeInv'
    BY <1>24, SameMail DEF Unwind, Goto, menuVars, mainVars, portVars,
       clientVars, serverVars, Working, Closing
  <1>25. ASSUME NEW i \in Instances, Succumb(i)
       PROVE  HolderInv' /\ ReleaseInv' /\ StartInv' /\ FreeInv'
    BY <1>25, SameMail DEF Succumb, Ends, Forget, Goto, menuVars, mainVars,
       portVars, clientVars, serverVars, Working, Closing
  <1>26. ASSUME NEW i \in Instances, Handle(i)
       PROVE  HolderInv' /\ ReleaseInv' /\ StartInv' /\ FreeInv'
    <2>1. UNCHANGED <<pc, conn, owner, traffic, loose>>
      BY <1>26 DEF Handle, mainVars, serverVars
    <2>2. ASSUME NEW j \in Instances, NEW f PROVE Pending(j, f)' => Pending(j, f)
      BY <1>26, HandlePending
    <2>3. ASSUME ~loose, owner = i, traffic # None \/ Head(mail[i]) # "ended"
          PROVE  handler'[i] /\ view'[i] = view[i]
      <3>1. Pending(i, Head(mail[i]))
        BY <1>26, HandleType
      <3>2. Head(mail[i]) # "taken" /\ Head(mail[i]) # "ended" /\ handler[i]
        BY <2>3, <3>1
      <3> QED
        BY <1>26, <3>2 DEF Handle
    <2>4. ASSUME ~loose, owner = i PROVE handler'[i]
      <3>1. Pending(i, Head(mail[i]))
        BY <1>26, HandleType
      <3>2. Head(mail[i]) # "taken" /\ handler[i]
        BY <2>4, <3>1
      <3> QED
        BY <1>26, <3>2 DEF Handle
    <2>5. ASSUME NEW j \in Instances, j # i
          PROVE  handler'[j] = handler[j] /\ view'[j] = view[j]
      BY <1>26, <2>5 DEF Handle
    <2>6. HolderInv'
      BY <2>1, <2>2, <2>3, <2>4, <2>5
    <2> QED
      BY <2>1, <2>6
  <1>27. ASSUME NEW i \in Instances, TestFlag(i)
       PROVE  HolderInv' /\ ReleaseInv' /\ StartInv' /\ FreeInv'
    BY <1>27, SameMail DEF TestFlag, menuVars, mainVars, portVars, clientVars,
       serverVars, Working, Closing
  <1>28. ASSUME NEW i \in Instances, Shoot(i)
       PROVE  HolderInv' /\ ReleaseInv' /\ StartInv' /\ FreeInv'
    BY <1>28, SameMail DEF Shoot, menuVars, mainVars, portVars, clientVars,
       serverVars, Working, Closing
  <1>29. ASSUME NEW i \in Instances, Lose(i)
       PROVE  HolderInv' /\ ReleaseInv' /\ StartInv' /\ FreeInv'
    BY <1>29, SameMail DEF Lose, Up, menuVars, mainVars, portVars, clientVars,
       serverVars, Working, Closing
  <1>30. ASSUME NEW i \in Instances, SubscriberCrash(i)
       PROVE  HolderInv' /\ ReleaseInv' /\ StartInv' /\ FreeInv'
    BY <1>30, SameMail DEF SubscriberCrash, Ends, Forget, Goto, menuVars,
       mainVars, portVars, clientVars, serverVars, Working, Closing
  <1>31. CASE Finish
    BY <1>31, PublishPending DEF Finish, menuVars, mainVars, portVars,
       clientVars, serverVars, Working, Closing, News
  <1>32. CASE UNCHANGED vars
    BY <1>32, SameMail DEF vars, menuVars, mainVars, portVars, clientVars,
       serverVars, Working, Closing
  <1> QED
    BY <1>1, <1>2, <1>3, <1>4, <1>5, <1>6, <1>7, <1>8, <1>9, <1>10, <1>11, <1>12,
       <1>13, <1>14, <1>15, <1>16, <1>17, <1>18, <1>19, <1>20, <1>21, <1>22, <1>23,
       <1>24, <1>25, <1>26, <1>27, <1>28, <1>29, <1>30, <1>31, <1>32 DEF Next, Menu,
       Main, Subscriber

LEMMA QuietAlways == Spec => [](TypeOK /\ QuietInv)
  BY TypeInit, TypeStep, QuietInit, QuietStep, PTL DEF Spec

\* Nothing transmits when an instance that owns the ports starts a job.  Unless
\* the last holder was cut off, or took the ports or started a job before it had
\* the news that concerned it, the holder is connected and at work on the ports,
\* believes of them what is true, and gives them back silent.
THEOREM QuietInvariant == Spec => []QuietInv
  BY QuietAlways, PTL

\* With all instances at rest the server is free and silent, unless the last
\* holder was cut off, or took the ports or started a job before it had the
\* news that concerned it, and no reset() has put that right.
THEOREM QuietServer == Spec => []QuietAtRest
  <1>1. TypeOK /\ QuietInv => QuietAtRest
    BY DEF TypeOK, QuietInv, HolderInv, FreeInv, QuietAtRest, Rest, Working
  <1> QED
    BY <1>1, QuietAlways, PTL

\* No job is started on top of another, whichever instances fight for the
\* ports and however late they hear of it.
THEOREM CleanStarts == Spec => CleanStart
  <1>1. QuietInv /\ [Next]_vars => [\A i \in Instances : Start(i) => traffic = None]_vars
    BY DEF QuietInv, StartInv, Start, At, CanStart
  <1> QED
    BY <1>1, QuietAlways, PTL DEF Spec, CleanStart

-----------------------------------------------------------------------------
(* The schedule.                                                           *)

\* What SchedulerSurvives says of one step and one instance.
Survives(i) ==
  /\ dying'[i] => dying[i] \/ sig[i]
  /\ pc[i] \notin Rest /\ pc'[i] = "off"
       => dying[i] \/ sig[i] \/ GraceOver \/ SubscriberCrash(i)

LEMMA SurvivesStep ==
  ASSUME TypeOK, [Next]_vars, NEW j \in Instances
  PROVE  Survives(j)
  <1> USE DEF TypeOK, Survives, Rest, Opening, Working, Closing
  <1>1. ASSUME NEW b \in Instances, NEW f \in Instances, ChooseStart(b, f)
       PROVE  Survives(j)
    BY <1>1 DEF ChooseStart
  <1>2. ASSUME NEW f \in Instances, ChooseOther(f)
       PROVE  Survives(j)
    BY <1>2 DEF ChooseOther, Goto
  <1>3. CASE FrontEnded
    BY <1>3 DEF FrontEnded, mainVars
  <1>4. CASE Interrupt
    BY <1>4 DEF Interrupt, mainVars
  <1>5. CASE Exit
    BY <1>5 DEF Exit, mainVars
  <1>6. CASE Relaunch
    BY <1>6 DEF Relaunch, mainVars
  <1>7. CASE Finish
    BY <1>7 DEF Finish, mainVars
  <1>8. CASE GraceOver
    BY <1>8 DEF GraceOver, Ends, Forget, Goto
  <1>9. ASSUME NEW i \in Instances, BeginCycle(i)
       PROVE  Survives(j)
    BY <1>9 DEF BeginCycle, At, Goto, mainVars
  <1>10. ASSUME NEW i \in Instances, BuildFails(i)
       PROVE  Survives(j)
    BY <1>10 DEF BuildFails, At, Ends, Forget, Goto, mainVars
  <1>11. ASSUME NEW i \in Instances, Connect(i)
       PROVE  Survives(j)
    BY <1>11 DEF Connect, At, Goto, mainVars
  <1>12. ASSUME NEW i \in Instances, ConnectFails(i)
       PROVE  Survives(j)
    BY <1>12 DEF ConnectFails, Goto, mainVars
  <1>13. ASSUME NEW i \in Instances, NapOver(i)
       PROVE  Survives(j)
    BY <1>13 DEF NapOver, At, Goto, mainVars
  <1>14. ASSUME NEW i \in Instances, Acquire(i)
       PROVE  Survives(j)
    BY <1>14 DEF Acquire, At, Goto, mainVars
  <1>15. ASSUME NEW i \in Instances, Clear(i)
       PROVE  Survives(j)
    BY <1>15 DEF Clear, At, Goto, mainVars
  <1>16. ASSUME NEW i \in Instances, Start(i)
       PROVE  Survives(j)
    BY <1>16 DEF Start, At, Goto, mainVars
  <1>17. ASSUME NEW i \in Instances, WaitDone(i)
       PROVE  Survives(j)
    BY <1>17 DEF WaitDone, At, JobOver, Goto, mainVars
  <1>18. ASSUME NEW i \in Instances, Refused(i)
       PROVE  Survives(j)
    BY <1>18 DEF Refused, At, JobOver, Goto, mainVars
  <1>19. ASSUME NEW i \in Instances, Capture(i)
       PROVE  Survives(j)
    BY <1>19 DEF Capture, At, Goto, mainVars
  <1>20. ASSUME NEW i \in Instances, Detect(i)
       PROVE  Survives(j)
    BY <1>20 DEF Detect, At, Goto, mainVars
  <1>21. ASSUME NEW i \in Instances, Stop(i)
       PROVE  Survives(j)
    BY <1>21 DEF Stop, At, Goto, mainVars
  <1>22. ASSUME NEW i \in Instances, Release(i)
       PROVE  Survives(j)
    BY <1>22 DEF Release, At, Goto, mainVars
  <1>23. ASSUME NEW i \in Instances, Drop(i)
       PROVE  Survives(j)
    BY <1>23 DEF Drop, At, Forget, Goto, mainVars
  <1>24. ASSUME NEW i \in Instances, Swallow(i)
       PROVE  Survives(j)
    BY <1>24 DEF Swallow, JobOver, Goto, mainVars
  <1>25. ASSUME NEW i \in Instances, Unwind(i)
       PROVE  Survives(j)
    BY <1>25 DEF Unwind, Goto, mainVars
  <1>26. ASSUME NEW i \in Instances, Succumb(i)
       PROVE  Survives(j)
    BY <1>26 DEF Succumb, Ends, Forget, Goto, mainVars
  <1>27. ASSUME NEW i \in Instances, Handle(i)
       PROVE  Survives(j)
    BY <1>27 DEF Handle, mainVars
  <1>28. ASSUME NEW i \in Instances, TestFlag(i)
       PROVE  Survives(j)
    BY <1>28 DEF TestFlag, mainVars
  <1>29. ASSUME NEW i \in Instances, Shoot(i)
       PROVE  Survives(j)
    BY <1>29 DEF Shoot, mainVars
  <1>30. ASSUME NEW i \in Instances, Lose(i)
       PROVE  Survives(j)
    BY <1>30 DEF Lose, mainVars
  <1>31. ASSUME NEW i \in Instances, SubscriberCrash(i)
       PROVE  Survives(j)
    BY <1>31 DEF SubscriberCrash, Ends, Forget, Goto
  <1>32. CASE UNCHANGED vars
    BY <1>32 DEF vars, mainVars
  <1> QED
    BY <1>1, <1>2, <1>3, <1>4, <1>5, <1>6, <1>7, <1>8, <1>9, <1>10, <1>11, <1>12,
       <1>13, <1>14, <1>15, <1>16, <1>17, <1>18, <1>19, <1>20, <1>21, <1>22, <1>23,
       <1>24, <1>25, <1>26, <1>27, <1>28, <1>29, <1>30, <1>31, <1>32 DEF Next, Menu,
       Main, Subscriber

\* No failure of a cycle ends the schedule of an instance.
THEOREM ScheduleGoesOn == Spec => SchedulerSurvives
  <1>1. TypeOK /\ [Next]_vars
          => [\A i \in Instances :
                /\ dying'[i] => dying[i] \/ sig[i]
                /\ pc[i] \notin Rest /\ pc'[i] = "off"
                     => dying[i] \/ sig[i] \/ GraceOver \/ SubscriberCrash(i)]_vars
    BY SurvivesStep DEF Survives
  <1>2. Spec => []TypeOK
    BY TypeCorrect
  <1> QED
    BY <1>1, <1>2, PTL DEF Spec, SchedulerSurvives
=============================================================================
