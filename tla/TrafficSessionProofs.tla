----------------------- MODULE TrafficSessionProofs -----------------------
(* Theorems about TrafficSession, for every set of ports, number of jobs,  *)
(* set of refusable RPCs and amount of meddling.                           *)
EXTENDS TrafficSession, TLAPS

\* The parts of TypeOK, as the threads and the server own them.
ClientType == /\ handler \in [Ports -> BOOLEAN] /\ state \in [Ports -> PortStates]
              /\ prof \in [Ports -> ProfStates] /\ streams \in [Ports -> BOOLEAN]
CallType == /\ cur \in Ports \cup {NoPort} /\ (pc # "loop" => cur \in Ports)
            /\ ok \in BOOLEAN /\ val \in PortStates /\ saved \in PortStates
MainType == /\ attempt \in 1..Attempts /\ phase \in Phases /\ todo \subseteq Ports
            /\ pc \in {"loop", "reply", "apply"}
            /\ failed \in BOOLEAN /\ verdict \in Seq({"done", "error"})
SubType == /\ inbox \in Seq(Event)
           /\ subpc \in {"idle", "agg", "write"}
           /\ subport \in Ports \cup {NoPort} /\ (subpc # "idle" => subport \in Ports)
           /\ agg \in PortStates
ServerType == /\ owner \in [Ports -> {"none", "me", "other"}]
              /\ traf \in [Ports -> PortStates]
              /\ events \in Seq(Event) /\ aged \subseteq Ports

LEMMA TypeParts ==
  TypeOK <=> /\ ClientType /\ CallType /\ MainType /\ SubType /\ ServerType
             /\ meddling \in 0..MaxMeddling
  BY DEF TypeOK, ClientType, CallType, MainType, SubType, ServerType

LEMMA TypePartsNext ==
  TypeOK' <=> /\ ClientType' /\ CallType' /\ MainType' /\ SubType' /\ ServerType'
              /\ meddling' \in 0..MaxMeddling
  BY DEF TypeOK, ClientType, CallType, MainType, SubType, ServerType

\* What an RPC answers is a Boolean, whichever RPCs may be refused.
LEMMA AnswersAreBoolean == ASSUME NEW rpc PROVE Answers(rpc) \subseteq BOOLEAN
  BY DEF Answers

\* Publishing an event keeps the queue a queue of events.
LEMMA PublishType ==
  ASSUME events \in Seq(Event), NEW p \in Ports,
         NEW type \in {"started", "stopped", "finished", "acquired"}
  PROVE  Publish(type, p) \in Seq(Event)
  <1>1. [type |-> type, port |-> p] \in Event
    BY DEF Event
  <1> QED
    BY <1>1 DEF Publish

\* Between two calls only what main decides changes.
LEMMA BetweenKeeps ==
  ASSUME TypeOK, Between
  PROVE  /\ ClientType' /\ CallType' /\ SubType' /\ ServerType'
         /\ meddling' \in 0..MaxMeddling
         /\ pc' = pc /\ attempt' = attempt
  <1>1. ClientType'
    BY DEF TypeOK, Between, ClientType, clientVars
  <1>2. CallType'
    BY DEF TypeOK, Between, CallType, callVars
  <1>3. SubType'
    BY DEF TypeOK, Between, SubType, subVars
  <1>4. ServerType'
    BY DEF TypeOK, Between, ServerType, serverVars
  <1>5. meddling' \in 0..MaxMeddling /\ pc' = pc /\ attempt' = attempt
    BY DEF TypeOK, Between
  <1> QED
    BY <1>1, <1>2, <1>3, <1>4, <1>5

LEMMA EnterType ==
  ASSUME MainType, pc' = pc, attempt' = attempt, NEW ph \in Phases,
         NEW ports \in SUBSET Ports, Enter(ph, ports)
  PROVE  MainType'
  BY DEF MainType, Enter

LEMMA ConcludeType ==
  ASSUME MainType, pc' = pc, attempt' = attempt, NEW v \in {"done", "error"},
         Conclude(v)
  PROVE  MainType'
  <1>1. verdict \in Seq({"done", "error"})
    BY DEF MainType
  <1>2. Append(verdict, v) \in Seq({"done", "error"})
    BY <1>1
  <1>3. verdict' = Append(verdict, v) /\ phase' = "idle" /\ todo' = {} /\ failed' = FALSE
    BY DEF Conclude
  <1> QED
    BY <1>2, <1>3 DEF MainType, Phases

LEMMA RaiseOrType ==
  ASSUME MainType, pc' = pc, attempt' = attempt, NEW raises, NEW ph \in Phases,
         NEW ports \in SUBSET Ports, RaiseOr(raises, ph, ports)
  PROVE  MainType'
  <1>1. CASE raises
    <2>1. Conclude("error")
      BY <1>1 DEF RaiseOr
    <2> QED
      BY <2>1, ConcludeType
  <1>2. CASE ~raises
    <2>1. Enter(ph, ports)
      BY <1>2 DEF RaiseOr
    <2> QED
      BY <2>1, EnterType
  <1> QED
    BY <1>1, <1>2

\* The sets of ports main walks through.
LEMMA PortSets ==
  /\ Acquired \in SUBSET Ports /\ Known \in SUBSET Ports
  /\ ActiveProfiles \in SUBSET Ports /\ Ports \in SUBSET Ports /\ {} \in SUBSET Ports
  BY DEF Acquired, Known, ActiveProfiles

\* The steps main takes between two RPCs keep the types.
LEMMA AdvanceType ==
  ASSUME TypeOK, Advance
  PROVE  TypeOK'
  <1>a. MainType
    BY TypeParts
  <1>b. ASSUME Between, MainType' PROVE TypeOK'
    BY <1>b, BetweenKeeps, TypePartsNext
  <1>c. ASSUME Between PROVE pc' = pc /\ attempt' = attempt
    BY <1>c DEF Between
  <1>d. {"off", "idle", "acquire", "cleanup", "stop", "remove", "attr", "ready",
         "add", "start", "wait", "capture", "halt", "release"} \subseteq Phases
    BY DEF Phases
  <1>1. CASE ConnectDone
    BY <1>1, <1>a, <1>b, <1>c, <1>d, EnterType, PortSets DEF ConnectDone
  <1>2. CASE Reconnect
    <2>1. ClientType'
      <3>1. /\ handler' = Everywhere(FALSE) /\ state' = Everywhere("IDLE")
            /\ prof' = Everywhere("NONE") /\ streams' = Everywhere(FALSE)
        BY <1>2 DEF Reconnect
      <3>2. Everywhere(FALSE) \in [Ports -> BOOLEAN]
        BY DEF Everywhere
      <3>3. /\ Everywhere("IDLE") \in [Ports -> PortStates]
            /\ Everywhere("NONE") \in [Ports -> ProfStates]
        BY DEF Everywhere, PortStates, ProfStates
      <3> QED
        BY <3>1, <3>2, <3>3 DEF ClientType
    <2>2. CallType'
      BY <1>2 DEF Reconnect, TypeOK, CallType, callVars
    <2>3. MainType'
      <3>1. attempt' \in 1..Attempts
        BY <1>2, JobsAssumption DEF Reconnect, TypeOK
      <3>2. pc' = pc /\ Enter("connect", Ports)
        BY <1>2 DEF Reconnect
      <3> QED
        BY <3>1, <3>2, <1>a DEF Enter, MainType, Phases
    <2>4. SubType'
      BY <1>2 DEF Reconnect, SubType, PortStates
    <2>5. ServerType' /\ meddling' \in 0..MaxMeddling
      BY <1>2 DEF Reconnect, TypeOK, ServerType
    <2> QED
      BY <2>1, <2>2, <2>3, <2>4, <2>5, TypePartsNext
  <1>3. CASE BeginJob
    BY <1>3, <1>a, <1>b, <1>c, <1>d, EnterType, PortSets DEF BeginJob
  <1>4. CASE AcquireDone
    BY <1>4, <1>a, <1>b, <1>c, <1>d, EnterType, RaiseOrType, PortSets DEF AcquireDone
  <1>5. CASE StopDone
    BY <1>5, <1>a, <1>b, <1>c, <1>d, RaiseOrType, PortSets DEF StopDone
  <1>6. CASE RemoveDone
    BY <1>6, <1>a, <1>b, <1>c, <1>d, RaiseOrType, PortSets DEF RemoveDone
  <1>7. CASE ResetDone
    BY <1>7, <1>a, <1>b, <1>c, <1>d, RaiseOrType, PortSets DEF ResetDone
  <1>8. CASE BeginAdd
    BY <1>8, <1>a, <1>b, <1>c, <1>d, RaiseOrType, PortSets DEF BeginAdd
  <1>9. CASE AddDone
    BY <1>9, <1>a, <1>b, <1>c, <1>d, RaiseOrType, PortSets DEF AddDone
  <1>10. CASE StartDone
    BY <1>10, <1>a, <1>b, <1>c, <1>d, RaiseOrType, PortSets DEF StartDone
  <1>11. CASE WaitDone
    BY <1>11, <1>a, <1>b, <1>c, ConcludeType DEF WaitDone
  <1>12. CASE BeginCapture
    BY <1>12, <1>a, <1>b, <1>c, <1>d, EnterType, PortSets DEF BeginCapture
  <1>13. CASE BeginHalt
    BY <1>13, <1>a, <1>b, <1>c, <1>d, EnterType, PortSets DEF BeginHalt
  <1>14. CASE HaltDone
    BY <1>14, <1>a, <1>b, <1>c, <1>d, EnterType, PortSets DEF HaltDone
  <1>15. CASE CleanupDone
    BY <1>15, <1>a, <1>b, <1>c, ConcludeType DEF CleanupDone
  <1>16. CASE ReleaseDone
    BY <1>16, <1>a, <1>b, <1>c, <1>d, EnterType, PortSets DEF ReleaseDone
  <1> QED
    BY <1>1, <1>2, <1>3, <1>4, <1>5, <1>6, <1>7, <1>8, <1>9, <1>10, <1>11,
       <1>12, <1>13, <1>14, <1>15, <1>16 DEF Advance

\* An RPC that has been answered leaves main waiting to use the answer.
LEMMA AnsweredType ==
  ASSUME TypeOK, NEW p \in Ports, NEW granted \in BOOLEAN,
         NEW snapshot \in PortStates, NEW last \in PortStates,
         Answered(p, granted, snapshot, last)
  PROVE  CallType' /\ MainType'
  <1>1. CallType'
    BY DEF Answered, CallType
  <1>2. MainType'
    BY DEF Answered, TypeOK, MainType
  <1> QED
    BY <1>1, <1>2

\* A port that is skipped leaves everything but the loop alone.
LEMMA SkipType ==
  ASSUME TypeOK, NEW p \in Ports, NEW error \in BOOLEAN, Skip(p, error)
  PROVE  /\ CallType' /\ MainType' /\ ClientType' /\ ServerType'
  <1>1. CallType'
    BY DEF Skip, CallType, TypeOK, callVars
  <1>2. MainType'
    BY DEF Skip, TypeOK, MainType
  <1>3. ClientType'
    BY DEF Skip, TypeOK, ClientType, clientVars
  <1>4. ServerType'
    BY DEF Skip, TypeOK, ServerType, serverVars
  <1> QED
    BY <1>1, <1>2, <1>3, <1>4

LEMMA UnchangedTypes ==
  ASSUME TypeOK
  PROVE  /\ UNCHANGED subVars => SubType'
         /\ UNCHANGED clientVars => ClientType'
         /\ UNCHANGED serverVars => ServerType'
         /\ UNCHANGED meddling => meddling' \in 0..MaxMeddling
  <1>1. UNCHANGED subVars => SubType'
    BY DEF TypeOK, SubType, subVars
  <1>2. UNCHANGED clientVars => ClientType'
    BY DEF TypeOK, ClientType, clientVars
  <1>3. UNCHANGED serverVars => ServerType'
    BY DEF TypeOK, ServerType, serverVars
  <1>4. UNCHANGED meddling => meddling' \in 0..MaxMeddling
    BY DEF TypeOK
  <1> QED
    BY <1>1, <1>2, <1>3, <1>4

\* Sending an RPC keeps the types.
LEMMA CallsType ==
  ASSUME TypeOK, NEW p \in Ports,
         \/ SyncCall(p) \/ AcquireCall(p) \/ StopCall(p) \/ RemoveCall(p)
         \/ AttrCall(p) \/ AddCall(p) \/ StartCall(p) \/ ReleaseCall(p)
  PROVE  TypeOK'
  <1>a. /\ traf[p] \in PortStates /\ state[p] \in PortStates
        /\ "IDLE" \in PortStates /\ "STREAMS" \in PortStates /\ "TX" \in PortStates
        /\ handler[p] \in BOOLEAN
    BY DEF TypeOK, PortStates
  <1>b. \A rpc : \A g \in Answers(rpc) : g \in BOOLEAN
    BY AnswersAreBoolean
  <1>c. events \in Seq(Event)
    BY DEF TypeOK
  <1>1. CASE SyncCall(p)
    <2>1. CallType' /\ MainType'
      BY <1>1, <1>a, <1>b, AnsweredType DEF SyncCall
    <2> QED
      BY <1>1, <2>1, UnchangedTypes, TypePartsNext DEF SyncCall
  <1>2. CASE AcquireCall(p)
    <2>1. CallType' /\ MainType'
      BY <1>2, <1>a, <1>b, AnsweredType DEF AcquireCall
    <2>2. ServerType'
      BY <1>2 DEF AcquireCall, TypeOK, ServerType
    <2> QED
      BY <1>2, <2>1, <2>2, UnchangedTypes, TypePartsNext DEF AcquireCall
  <1>3. CASE StopCall(p)
    <2>0. SubType' /\ meddling' \in 0..MaxMeddling
      BY <1>3, UnchangedTypes DEF StopCall
    <2>1. CASE Skip(p, TRUE) \/ Skip(p, FALSE)
      BY <2>0, <2>1, SkipType, TypePartsNext
    <2>2. CASE handler[p] /\ Active(state[p])
      <3>1. PICK granted \in Answers("stop"), served \in BOOLEAN, halts \in BOOLEAN :
               /\ Answered(p, served, "IDLE", "IDLE")
               /\ traf' = IF halts THEN [traf EXCEPT ![p] = "STREAMS"] ELSE traf
               /\ events' = IF halts THEN Publish("stopped", p) ELSE events
               /\ UNCHANGED <<clientVars, owner, aged>>
        BY <1>3, <1>b, <2>2 DEF StopCall
      <3>2. CallType' /\ MainType'
        BY <3>1, <1>a, AnsweredType
      <3>3. ClientType'
        BY <3>1, UnchangedTypes
      <3>4. events' \in Seq(Event)
        BY <3>1, <1>c, PublishType
      <3>5. ServerType'
        BY <3>1, <3>4, <1>a DEF TypeOK, ServerType
      <3> QED
        BY <2>0, <3>2, <3>3, <3>5, TypePartsNext
    <2> QED
      BY <1>3, <2>1, <2>2 DEF StopCall
  <1>4. CASE RemoveCall(p)
    <2>0. SubType' /\ meddling' \in 0..MaxMeddling
      BY <1>4, UnchangedTypes DEF RemoveCall
    <2>1. CASE Skip(p, TRUE)
      BY <2>0, <2>1, SkipType, TypePartsNext
    <2>2. CASE handler[p]
      <3>1. PICK granted \in Answers("remove"), served \in BOOLEAN :
               /\ Answered(p, served, "IDLE", "IDLE")
               /\ traf' = IF served THEN [traf EXCEPT ![p] = "IDLE"] ELSE traf
               /\ UNCHANGED <<clientVars, owner, events, aged>>
        BY <1>4, <1>b, <2>2 DEF RemoveCall
      <3>2. CallType' /\ MainType' /\ ClientType'
        BY <3>1, <1>a, AnsweredType, UnchangedTypes
      <3>3. ServerType'
        BY <3>1, <1>a DEF TypeOK, ServerType
      <3> QED
        BY <2>0, <3>2, <3>3, TypePartsNext
    <2> QED
      BY <1>4, <2>1, <2>2 DEF RemoveCall
  <1>5. CASE AttrCall(p)
    <2>1. PICK granted \in Answers("attr") :
             Answered(p, granted /\ owner[p] = "me" /\ handler[p], traf[p], "IDLE")
      BY <1>5 DEF AttrCall
    <2>2. (granted /\ owner[p] = "me" /\ handler[p]) \in BOOLEAN
      OBVIOUS
    <2>3. CallType' /\ MainType'
      BY <2>1, <2>2, <1>a, AnsweredType
    <2> QED
      BY <1>5, <2>3, UnchangedTypes, TypePartsNext DEF AttrCall
  <1>6. CASE AddCall(p)
    <2>0. SubType' /\ meddling' \in 0..MaxMeddling
      BY <1>6, UnchangedTypes DEF AddCall
    <2>1. CASE Skip(p, TRUE)
      BY <2>0, <2>1, SkipType, TypePartsNext
    <2>2. CASE handler[p]
      <3>1. PICK granted \in Answers("add"), served \in BOOLEAN :
               /\ Answered(p, served, "IDLE", "IDLE")
               /\ traf' = IF served THEN [traf EXCEPT ![p] = "STREAMS"] ELSE traf
               /\ UNCHANGED <<clientVars, owner, events, aged>>
        BY <1>6, <1>b, <2>2 DEF AddCall
      <3>2. CallType' /\ MainType' /\ ClientType'
        BY <3>1, <1>a, AnsweredType, UnchangedTypes
      <3>3. ServerType'
        BY <3>1, <1>a DEF TypeOK, ServerType
      <3> QED
        BY <2>0, <3>2, <3>3, TypePartsNext
    <2> QED
      BY <1>6, <2>1, <2>2 DEF AddCall
  <1>7. CASE StartCall(p)
    <2>0. SubType' /\ meddling' \in 0..MaxMeddling
      BY <1>7, UnchangedTypes DEF StartCall
    <2>1. CASE Skip(p, TRUE)
      BY <2>0, <2>1, SkipType, TypePartsNext
    <2>2. CASE ~(~handler[p] \/ prof[p] = "NONE")
      <3>1. PICK granted \in Answers("start"), served \in BOOLEAN :
               /\ Answered(p, served, "IDLE", state[p])
               /\ traf' = IF served THEN [traf EXCEPT ![p] = "TX"] ELSE traf
               /\ events' = IF served THEN Publish("started", p) ELSE events
               /\ aged' = IF served THEN aged \ {p} ELSE aged
               /\ state' = [state EXCEPT ![p] = "TX"]
               /\ UNCHANGED <<handler, prof, streams, owner>>
        BY <1>7, <1>b, <2>2 DEF StartCall
      <3>2. CallType' /\ MainType'
        BY <3>1, <1>a, AnsweredType
      <3>3. ClientType'
        BY <3>1, <1>a DEF TypeOK, ClientType
      <3>4. events' \in Seq(Event)
        BY <3>1, <1>c, PublishType
      <3>5. ServerType'
        BY <3>1, <3>4, <1>a DEF TypeOK, ServerType
      <3> QED
        BY <2>0, <3>2, <3>3, <3>5, TypePartsNext
    <2> QED
      BY <1>7, <2>1, <2>2 DEF StartCall
  <1>8. CASE ReleaseCall(p)
    <2>1. PICK granted \in Answers("release"), served \in BOOLEAN :
             /\ Answered(p, served, "IDLE", "IDLE")
             /\ owner' = IF served THEN [owner EXCEPT ![p] = "none"] ELSE owner
      BY <1>8, <1>a, <1>b DEF ReleaseCall
    <2>2. CallType' /\ MainType'
      BY <2>1, <1>a, AnsweredType
    <2>3. ServerType'
      BY <1>8, <2>1 DEF ReleaseCall, TypeOK, ServerType
    <2> QED
      BY <1>8, <2>2, <2>3, UnchangedTypes, TypePartsNext DEF ReleaseCall
  <1> QED
    BY <1>1, <1>2, <1>3, <1>4, <1>5, <1>6, <1>7, <1>8

\* Leaving an RPC: cur and its answer go back to what they were.
LEMMA NextPortType ==
  ASSUME TypeOK, NextPort, UNCHANGED <<attempt, phase, verdict>>,
         failed' \in BOOLEAN
  PROVE  CallType' /\ MainType'
  <1>1. CallType'
    BY DEF NextPort, CallType, PortStates
  <1>2. MainType'
    BY DEF NextPort, TypeOK, MainType
  <1> QED
    BY <1>1, <1>2

\* What a Return action leaves to the other threads keeps its type.
LEMMA OnReturnKeeps ==
  ASSUME TypeOK, OnReturn
  PROVE  /\ SubType' /\ ServerType' /\ meddling' \in 0..MaxMeddling
         /\ UNCHANGED <<attempt, phase, verdict>>
  BY UnchangedTypes DEF OnReturn

LEMMA ApplySyncType ==
  ASSUME TypeOK, cur \in Ports, ApplySync
  PROVE  ClientType'
  <1>1. val # "IDLE" => val \in ProfStates
    BY DEF TypeOK, PortStates, ProfStates
  <1>2. prof' \in [Ports -> ProfStates]
    BY <1>1 DEF ApplySync, TypeOK
  <1>3. state' \in [Ports -> PortStates]
    BY DEF ApplySync, TypeOK
  <1> QED
    BY <1>2, <1>3 DEF ApplySync, TypeOK, ClientType

\* Using the answer of an RPC keeps the types.
LEMMA ReturnType ==
  ASSUME TypeOK, Return
  PROVE  TypeOK'
  <1>a. /\ failed \in BOOLEAN /\ ok \in BOOLEAN
        /\ pc # "loop" => cur \in Ports
        /\ handler \in [Ports -> BOOLEAN] /\ streams \in [Ports -> BOOLEAN]
        /\ state \in [Ports -> PortStates] /\ prof \in [Ports -> ProfStates]
        /\ val \in PortStates /\ saved \in PortStates
        /\ "IDLE" \in PortStates /\ "STREAMS" \in PortStates
        /\ "NONE" \in ProfStates /\ "STREAMS" \in ProfStates
    BY DEF TypeOK, PortStates, ProfStates
  <1>b. (failed \/ ~ok) \in BOOLEAN /\ TRUE \in BOOLEAN
    BY <1>a
  <1>c. ASSUME NextPort, OnReturn, failed' = (failed \/ ~ok) \/ failed' = failed, ClientType'
        PROVE  TypeOK'
    <2>1. failed' \in BOOLEAN
      BY <1>a, <1>c
    <2> QED
      BY <1>c, <2>1, OnReturnKeeps, NextPortType, TypePartsNext
  <1>1. CASE SyncReturn
    <2>1. ClientType'
      BY <1>1, <1>a, ApplySyncType, UnchangedTypes DEF SyncReturn, Replied
    <2> QED
      BY <1>1, <1>c, <2>1 DEF SyncReturn
  <1>2. CASE AcquireReturn
    <2>1. ClientType'
      BY <1>2, <1>a DEF AcquireReturn, ClientType
    <2> QED
      BY <1>2, <1>c, <2>1 DEF AcquireReturn
  <1>3. CASE StopReturn
    <2>1. ClientType'
      BY <1>3, <1>a DEF StopReturn, ClientType
    <2> QED
      BY <1>3, <1>c, <2>1 DEF StopReturn
  <1>4. CASE RemoveReturn
    <2>1. ClientType'
      BY <1>4, <1>a DEF RemoveReturn, ClientType
    <2> QED
      BY <1>4, <1>c, <2>1 DEF RemoveReturn
  <1>5. CASE AttrReturn
    <2>1. ClientType'
      BY <1>5, <1>a, ApplySyncType, UnchangedTypes DEF AttrReturn, Replied
    <2> QED
      BY <1>5, <1>c, <2>1 DEF AttrReturn
  <1>6. CASE AddReturn
    <2>1. ClientType'
      BY <1>6, <1>a DEF AddReturn, ClientType
    <2> QED
      BY <1>6, <1>c, <2>1 DEF AddReturn
  <1>7. CASE StartReturn
    <2>1. cur \in Ports
      BY <1>7, <1>a DEF StartReturn, Replied
    <2>2. CASE ok
      <3>1. CallType'
        BY <1>7, <2>1, <2>2, <1>a DEF StartReturn, CallType
      <3>2. MainType'
        BY <1>7, <2>2, OnReturnKeeps DEF StartReturn, TypeOK, MainType
      <3>3. ClientType'
        BY <1>7, <2>2, <1>a DEF StartReturn, ClientType
      <3> QED
        BY <1>7, <3>1, <3>2, <3>3, OnReturnKeeps, TypePartsNext DEF StartReturn
    <2>3. CASE ~ok
      <3>1. NextPort /\ failed' = TRUE /\ state' = [state EXCEPT ![cur] = saved]
        BY <1>7, <2>3 DEF StartReturn
      <3>2. ClientType'
        BY <1>7, <3>1, <1>a DEF StartReturn, ClientType
      <3> QED
        BY <1>7, <1>b, <3>1, <3>2, OnReturnKeeps, NextPortType, TypePartsNext DEF
           StartReturn
    <2> QED
      BY <2>2, <2>3
  <1>8. CASE StartApply
    <2>1. val # "IDLE" => val \in ProfStates
      BY DEF TypeOK, PortStates, ProfStates
    <2>2. ClientType'
      BY <1>8, <2>1, <1>a DEF StartApply, ClientType
    <2> QED
      BY <1>8, <1>c, <2>2 DEF StartApply
  <1>9. CASE ReleaseReturn
    <2>1. ClientType'
      BY <1>9, <1>a DEF ReleaseReturn, ClientType
    <2> QED
      BY <1>9, <1>c, <2>1 DEF ReleaseReturn
  <1> QED
    BY <1>1, <1>2, <1>3, <1>4, <1>5, <1>6, <1>7, <1>8, <1>9 DEF Return

LEMMA MainUnchangedTypes ==
  ASSUME TypeOK, UNCHANGED <<callVars, mainVars>>
  PROVE  CallType' /\ MainType'
  <1>1. CallType'
    BY DEF TypeOK, CallType, callVars, mainVars
  <1>2. MainType'
    BY DEF TypeOK, MainType, mainVars
  <1> QED
    BY <1>1, <1>2

\* The subscriber keeps the types.
LEMMA SubscriberType ==
  ASSUME TypeOK, Subscriber
  PROVE  TypeOK'
  <1>a. /\ inbox \in Seq(Event) /\ events \in Seq(Event)
        /\ subpc \in {"idle", "agg", "write"}
        /\ subport \in Ports \cup {NoPort} /\ agg \in PortStates
        /\ subpc # "idle" => subport \in Ports
        /\ handler \in [Ports -> BOOLEAN] /\ streams \in [Ports -> BOOLEAN]
        /\ state \in [Ports -> PortStates] /\ prof \in [Ports -> ProfStates]
    BY DEF TypeOK
  <1>1. CASE Fetch
    <2>1. ClientType' /\ CallType' /\ MainType' /\ meddling' \in 0..MaxMeddling
      BY <1>1, UnchangedTypes, MainUnchangedTypes DEF Fetch
    <2>2. SubType'
      BY <1>1, <1>a DEF Fetch, SubType
    <2>3. ServerType'
      BY <1>1 DEF Fetch, TypeOK, ServerType
    <2> QED
      BY <2>1, <2>2, <2>3, TypePartsNext
  <1>2. CASE Handle
    <2>1. CallType' /\ MainType' /\ ServerType' /\ meddling' \in 0..MaxMeddling
      BY <1>2, UnchangedTypes, MainUnchangedTypes DEF Handle
    <2>2. Head(inbox) \in Event /\ Tail(inbox) \in Seq(Event)
      BY <1>2, <1>a DEF Handle
    <2>3. Head(inbox).port \in Ports
      BY <2>2 DEF Event
    <2>4. SubType'
      BY <1>2, <1>a, <2>2, <2>3 DEF Handle, SubType
    <2>5. "TX" \in ProfStates /\ "STREAMS" \in ProfStates
      BY DEF ProfStates
    <2>6. prof' \in [Ports -> ProfStates]
      BY <1>2, <1>a, <2>3, <2>5 DEF Handle
    <2>7. ClientType'
      BY <1>2, <1>a, <2>3, <2>6 DEF Handle, ClientType
    <2> QED
      BY <2>1, <2>4, <2>7, TypePartsNext
  <1>3. CASE ReadProfile
    <2>1. /\ ClientType' /\ CallType' /\ MainType' /\ ServerType'
          /\ meddling' \in 0..MaxMeddling
      BY <1>3, UnchangedTypes, MainUnchangedTypes DEF ReadProfile
    <2>2. prof[subport] # "NONE" => prof[subport] \in PortStates
      BY <1>3, <1>a DEF ReadProfile, ProfStates, PortStates
    <2>3. SubType'
      BY <1>3, <1>a, <2>2 DEF ReadProfile, SubType, PortStates
    <2> QED
      BY <2>1, <2>3, TypePartsNext
  <1>4. CASE WriteState
    <2>1. CallType' /\ MainType' /\ ServerType' /\ meddling' \in 0..MaxMeddling
      BY <1>4, UnchangedTypes, MainUnchangedTypes DEF WriteState
    <2>2. SubType'
      BY <1>4, <1>a DEF WriteState, SubType, PortStates
    <2>3. ClientType'
      BY <1>4, <1>a DEF WriteState, ClientType
    <2> QED
      BY <2>1, <2>2, <2>3, TypePartsNext
  <1> QED
    BY <1>1, <1>2, <1>3, <1>4 DEF Subscriber

\* So do the server and the other sessions.
LEMMA ServerTypes ==
  ASSUME TypeOK, Server
  PROVE  TypeOK'
  <1>a. \A p \in Ports, type \in {"started", "stopped", "finished", "acquired"} :
          Publish(type, p) \in Seq(Event)
    BY PublishType DEF TypeOK
  <1>b. ASSUME UNCHANGED <<clientVars, callVars, mainVars, subVars>>, ServerType',
               meddling' \in 0..MaxMeddling
        PROVE  TypeOK'
    BY <1>b, UnchangedTypes, MainUnchangedTypes, TypePartsNext
  <1>c. ASSUME Meddle PROVE meddling' \in 0..MaxMeddling
    BY <1>c, MeddlingAssumption DEF Meddle, TypeOK
  <1>1. CASE TimePasses
    <2>1. ServerType' /\ meddling' \in 0..MaxMeddling
      BY <1>1 DEF TimePasses, TypeOK, ServerType
    <2> QED
      BY <1>1, <1>b, <2>1 DEF TimePasses
  <1>2. ASSUME NEW p \in Ports, Finish(p) PROVE TypeOK'
    <2>1. ServerType' /\ meddling' \in 0..MaxMeddling
      BY <1>2, <1>a DEF Finish, TypeOK, ServerType, PortStates
    <2> QED
      BY <1>2, <1>b, <2>1 DEF Finish
  <1>3. ASSUME NEW p \in Ports, Steal(p) PROVE TypeOK'
    <2>1. ServerType'
      BY <1>3, <1>a DEF Steal, TypeOK, ServerType
    <2> QED
      BY <1>3, <1>b, <1>c, <2>1 DEF Steal
  <1>4. ASSUME NEW p \in Ports, OtherStop(p) PROVE TypeOK'
    <2>1. ServerType'
      BY <1>4, <1>a DEF OtherStop, TypeOK, ServerType, PortStates
    <2> QED
      BY <1>4, <1>b, <1>c, <2>1 DEF OtherStop
  <1>5. ASSUME NEW p \in Ports, OtherStart(p) PROVE TypeOK'
    <2>1. ServerType'
      BY <1>5, <1>a DEF OtherStart, TypeOK, ServerType, PortStates
    <2> QED
      BY <1>5, <1>b, <1>c, <2>1 DEF OtherStart
  <1> QED
    BY <1>1, <1>2, <1>3, <1>4, <1>5 DEF Server

LEMMA InitType == Init => TypeOK
  <1> SUFFICES ASSUME Init PROVE TypeOK
    OBVIOUS
  <1>1. /\ Everywhere(FALSE) \in [Ports -> BOOLEAN]
        /\ Everywhere("IDLE") \in [Ports -> PortStates]
        /\ Everywhere("NONE") \in [Ports -> ProfStates]
        /\ Everywhere("none") \in [Ports -> {"none", "me", "other"}]
    BY DEF Everywhere, PortStates, ProfStates
  <1>2. ClientType
    BY <1>1 DEF Init, ClientType
  <1>3. CallType
    BY DEF Init, CallType, PortStates
  <1>4. MainType
    <2>1. <<>> \in Seq({"done", "error"}) /\ 1 \in 1..Attempts
      BY JobsAssumption
    <2>2. "connect" \in Phases
      BY DEF Phases
    <2> QED
      BY <2>1, <2>2 DEF Init, MainType
  <1>5. SubType
    BY DEF Init, SubType, PortStates
  <1>6. ServerType
    <2>1. LeftOver \subseteq PortStates
      BY LeftOverAssumption DEF PortStates
    <2>2. traf \in [Ports -> PortStates]
      BY <2>1 DEF Init
    <2>3. owner \in [Ports -> {"none", "me", "other"}] /\ aged \subseteq Ports
      BY <1>1 DEF Init
    <2>4. events \in Seq(Event)
      BY DEF Init
    <2> QED
      BY <2>2, <2>3, <2>4 DEF ServerType
  <1>7. meddling \in 0..MaxMeddling
    BY MeddlingAssumption DEF Init
  <1> QED
    BY <1>2, <1>3, <1>4, <1>5, <1>6, <1>7, TypeParts

\* A step that changes nothing keeps the types.
LEMMA StutterType ==
  ASSUME TypeOK, UNCHANGED vars
  PROVE  TypeOK'
  <1>1. UNCHANGED <<clientVars, callVars, mainVars, subVars, serverVars, meddling>>
    BY DEF vars
  <1>2. /\ UNCHANGED <<callVars, mainVars>>
        /\ UNCHANGED clientVars /\ UNCHANGED subVars
        /\ UNCHANGED serverVars /\ UNCHANGED meddling
    BY <1>1
  <1> QED
    BY <1>2, UnchangedTypes, MainUnchangedTypes, TypePartsNext

LEMMA NextType == TypeOK /\ [Next]_vars => TypeOK'
  <1> SUFFICES ASSUME TypeOK, [Next]_vars PROVE TypeOK'
    OBVIOUS
  <1>1. CASE Main
    BY <1>1, CallsType, ReturnType, AdvanceType DEF Main, Call
  <1>2. CASE Subscriber
    BY <1>2, SubscriberType
  <1>3. CASE Server
    BY <1>3, ServerTypes
  <1>4. CASE Terminated \/ UNCHANGED vars
    BY <1>4, StutterType DEF Terminated
  <1> QED
    BY <1>1, <1>2, <1>3, <1>4 DEF Next

\* TypeOK is an invariant: whatever the three actors do, in whatever order, each
\* port of the client keeps a state of the port life cycle, every event names a
\* port, and main and the subscriber hold a port whenever they work on one.
THEOREM TypeCorrect == Spec => []TypeOK
  <1>1. Init => TypeOK
    BY InitType
  <1>2. TypeOK /\ [Next]_vars => TypeOK'
    BY NextType
  <1> QED
    BY <1>1, <1>2, PTL DEF Spec

=============================================================================
