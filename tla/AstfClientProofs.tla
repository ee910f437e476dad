-------------------------- MODULE AstfClientProofs --------------------------
(* What holds of AstfClient for any number of commands.                    *)
EXTENDS AstfClient, TLAPS

Message == [state : States, error : BOOLEAN, cleared : BOOLEAN]

\* What is sent stays well-formed.
LEMMA SentFacts ==
  ASSUME TypeOK, WireInv, NEW e \in Message, e.state = "IDLE" => e.cleared,
         wire' = wire \/ wire' = Append(wire, e)
  PROVE  wire' \in Seq(Message) /\ WireInv'
<1>1. wire \in Seq(Message)
  BY DEF TypeOK, Message
<1>2. CASE wire' = wire
  BY <1>1, <1>2 DEF WireInv
<1>3. CASE wire' = Append(wire, e)
  <2>1. wire' \in Seq(Message)
    BY <1>1, <1>3
  <2>2. \A i \in DOMAIN wire' : wire'[i] = e \/ (i \in DOMAIN wire /\ wire'[i] = wire[i])
    BY <1>1, <1>3
  <2> QED
    BY <2>1, <2>2 DEF WireInv
<1> QED
  BY <1>2, <1>3

LEMMA AcceptFacts ==
  ASSUME TypeOK, SendInv, WireInv, pc = "send", Accept
  PROVE  srv' \in States /\ wire' \in Seq(Message) /\ reached' \in BOOLEAN /\ WireInv'
<1>1. srv' \in States \ {"IDLE"}
  BY DEF SendInv, Accept, Effect, States, Transient, Steady
<1>2. PICK e \in Message : e.state # "IDLE" /\ (wire' = wire \/ wire' = Append(wire, e))
  <2>1. [state |-> srv', error |-> FALSE, cleared |-> FALSE] \in Message
    BY <1>1 DEF Message
  <2> QED
    BY <1>1, <2>1 DEF Accept, Event
<1>3. wire' \in Seq(Message) /\ WireInv'
  BY <1>2, SentFacts
<1> QED
  BY <1>1, <1>3 DEF Accept, TypeOK

LEMMA JudgeFacts ==
  ASSUME TypeOK, SendInv, pc \in {"pop", "cur"}, NEW s \in States, Judge(s), op' = op
  PROVE  /\ pc' \in {"idle", "get", "send"} /\ answer' \in {"none", "ok", "error"}
         /\ goal' \in {"none", "steady", "ready", "transient", "end", "TX", "LOADED"}
         /\ err' \in BOOLEAN /\ SendInv'
  BY DEF Judge, Poll, Send, Return, TypeOK, SendInv

LEMMA ReplaceFacts ==
  ASSUME TypeOK, PopInv, queue # <<>>, Replace
  PROVE  /\ queue' = <<>> /\ mine' \in States \cup {None}
         /\ pc = "pop" => mine' # None
         /\ mine' # None => pc \in {"pop", "off"}
<1>1. Head(queue) \in States
  BY DEF TypeOK
<1> QED
  BY <1>1, NoneAssumption DEF TypeOK, PopInv, Replace

\* What the actions of the other threads leave of the calls, and conversely.
CallType ==
  /\ op \in {"none", "load", "start", "stop", "wait", "clear"}
  /\ block \in BOOLEAN /\ answer \in {"none", "ok", "error"}
  /\ pc \in {"idle", "get", "pop", "cur", "send", "off"}
  /\ goal \in {"none", "steady", "ready", "transient", "end", "TX", "LOADED"}
  /\ calls \in 0..MaxCalls /\ fresh \in BOOLEAN /\ stale \in BOOLEAN

ShareType ==
  /\ cur \in States \cup {None} /\ queue \in Seq(States)
  /\ mine \in States \cup {None} /\ err \in BOOLEAN
  /\ spc \in {"idle", "test", "last", "append"} /\ seen \in States

ServerType == wire \in Seq(Message) /\ srv \in States /\ reached \in BOOLEAN

LEMMA TypeParts == TypeOK <=> CallType /\ ShareType /\ ServerType
  BY DEF TypeOK, CallType, ShareType, ServerType, Message

LEMMA TypePartsPrimed == TypeOK' <=> CallType' /\ ShareType' /\ ServerType'
  BY DEF TypeOK, CallType, ShareType, ServerType, Message

LEMMA CallFacts ==
  ASSUME TypeOK, AstfInv, Load \/ Start \/ Stop \/ Clear \/ Wait
  PROVE  TypeOK' /\ AstfInv'
<1>1. UNCHANGED <<queue, mine, err, subVars, serverVars>>
  BY DEF Load, Start, Stop, Clear, Wait, Call
<1>2. cur' \in States \cup {None}
  BY DEF Load, Start, Stop, Clear, Wait, TypeOK, Known, States, Transient, Steady
<1>3. CallType' /\ SendInv' /\ pc = "idle" /\ pc' # "pop"
  <2>1. PICK cmd \in {"load", "start", "stop", "clear", "wait"} : Call(cmd) /\ op' = cmd
    BY DEF Load, Start, Stop, Clear, Wait, Call
  <2>2. fresh' \in BOOLEAN /\ stale' \in BOOLEAN /\ block' \in BOOLEAN
    BY <2>1, BlocksAssumption DEF Call, TypeOK
  <2>3. calls' \in 0..MaxCalls
    BY <2>1, BoundsAssumption DEF Call, TypeOK
  <2>4. \/ Poll("steady") /\ op' \in {"start", "stop", "clear"}
        \/ Poll("TX") /\ op' = "stop"
        \/ Poll("LOADED")
        \/ Send /\ op' \in {"load", "start", "stop", "clear"}
        \/ Return("ok")
        \/ Return("error")
    BY DEF Load, Start, Stop, Clear, Wait, Call
  <2>5. pc = "idle" /\ pc' \in {"idle", "get", "send"}
    BY <2>1, <2>4 DEF Call, Poll, Send, Return
  <2>6. SendInv'
    BY <2>4 DEF SendInv, Poll, Send, Return
  <2>7. /\ answer' \in {"none", "ok", "error"}
        /\ goal' \in {"none", "steady", "ready", "transient", "end", "TX", "LOADED"}
    BY <2>4 DEF Poll, Send, Return
  <2> QED
    BY <2>1, <2>2, <2>3, <2>5, <2>6, <2>7 DEF CallType
<1>4. TypeOK'
  BY <1>1, <1>2, <1>3, TypeParts, TypePartsPrimed
     DEF ShareType, ServerType, subVars, serverVars
<1>5. AstfInv'
  BY <1>1, <1>3 DEF AstfInv, QueueInv, AppendInv, PopInv, SendInv, WireInv, HasLoaded,
     subVars, serverVars
<1> QED
  BY <1>4, <1>5

LEMMA EventFacts ==
  ASSUME TypeOK, WireInv, wire # <<>>, wire' = Tail(wire)
  PROVE  /\ Head(wire) \in Message /\ wire' \in Seq(Message) /\ WireInv'
         /\ Head(wire).state = "IDLE" => Head(wire).cleared
<1>1. wire \in Seq(Message)
  BY DEF TypeOK, Message
<1>2. wire' \in Seq(Message) /\ \A i \in DOMAIN wire' : i + 1 \in DOMAIN wire /\ wire'[i] = wire[i + 1]
  BY <1>1
<1>3. WireInv'
  BY <1>2 DEF WireInv
<1>4. Head(wire) \in Message /\ Head(wire) = wire[1] /\ 1 \in DOMAIN wire
  BY <1>1
<1> QED
  BY <1>2, <1>3, <1>4 DEF WireInv

LEMMA SubscriberFacts ==
  ASSUME TypeOK, AstfInv, Subscriber
  PROVE  TypeOK' /\ AstfInv'
<1> USE DEF AstfInv
<1>1. CASE Take
  <2>1. wire' \in Seq(Message) /\ Head(wire) \in Message /\ seen' \in States
    BY <1>1, EventFacts DEF Take, Message
  <2>2. cur' \in States \cup {None} /\ err' \in BOOLEAN
    BY <1>1, <2>1 DEF Take, TypeOK, Message
  <2>3. spc' \in {"append", "test"} /\ (spc' = "append" => seen' = "LOADED")
    <3>1. seen' # "IDLE" /\ WireInv'
      BY <1>1, EventFacts DEF Take
    <3> QED
      BY <1>1, <3>1 DEF Take
  <2>4. TypeOK'
    BY <1>1, <2>1, <2>2, <2>3, TypeParts, TypePartsPrimed
       DEF Take, callVars, CallType, ShareType, ServerType
  <2>5. UNCHANGED <<op, goal, pc, queue, mine>>
    BY <1>1 DEF Take, callVars
  <2>6. AppendInv'
    <3>1. spc' = "test" => seen' # "LOADED"
      BY <1>1 DEF Take
    <3>2. spc' = "append" /\ seen' # "LOADED" => ~HasLoaded'
      BY <2>3
    <3> QED
      BY <3>1, <3>2 DEF AppendInv
  <2> QED
    BY <1>1, <2>4, <2>5, <2>6, EventFacts DEF Take, QueueInv, PopInv, SendInv
<1>2. CASE Test
  <2>1. TypeOK'
    BY <1>2, TypeParts, TypePartsPrimed
       DEF Test, callVars, sharedVars, serverVars, CallType, ShareType, ServerType
  <2> QED
    BY <1>2, <2>1
       DEF Test, callVars, sharedVars, serverVars, QueueInv, AppendInv, PopInv,
          SendInv, WireInv, HasLoaded
<1>3. CASE DropOld
  <2>1. TypeOK'
    BY <1>3, ReplaceFacts, TypeParts, TypePartsPrimed
       DEF DropOld, callVars, serverVars, CallType, ShareType, ServerType
  <2> QED
    BY <1>3, <2>1, ReplaceFacts
       DEF DropOld, callVars, serverVars, QueueInv, AppendInv, PopInv, SendInv,
          WireInv, HasLoaded
<1>4. CASE SubscriberCrash
  <2>1. TypeOK'
    BY <1>4, TypeParts, TypePartsPrimed
       DEF SubscriberCrash, callVars, sharedVars, serverVars, CallType, ShareType,
          ServerType
  <2> QED
    BY <1>4, <2>1
       DEF SubscriberCrash, callVars, sharedVars, serverVars, QueueInv, AppendInv,
          PopInv, SendInv, WireInv, HasLoaded
<1>5. CASE Enqueue
  <2>1. queue \in Seq(States) /\ seen \in States /\ queue' = Append(queue, seen)
    BY <1>5 DEF Enqueue, TypeOK
  <2>2. queue' \in Seq(States) /\ queue' # <<>>
    BY <2>1
  <2>3. TypeOK'
    BY <1>5, <2>2, TypeParts, TypePartsPrimed
       DEF Enqueue, callVars, serverVars, CallType, ShareType, ServerType
  <2>4. QueueInv'
    BY <1>5, <2>1 DEF Enqueue, QueueInv, AppendInv, HasLoaded
  <2>5. AppendInv' /\ PopInv' /\ SendInv' /\ WireInv'
    BY <1>5, <2>2 DEF Enqueue, callVars, serverVars, AppendInv, PopInv, SendInv, WireInv
  <2> QED
    BY <2>3, <2>4, <2>5
<1>6. CASE Cleared
  <2>1. wire' \in Seq(Message) /\ WireInv'
    BY <1>6, EventFacts DEF Cleared
  <2>2. queue' = <<>> /\ mine' \in States \cup {None} /\ PopInv'
    BY <1>6, ReplaceFacts DEF Cleared, TypeOK, PopInv
  <2>3. TypeOK'
    BY <1>6, <2>1, <2>2, TypeParts, TypePartsPrimed
       DEF Cleared, callVars, subVars, CallType, ShareType, ServerType
  <2> QED
    BY <1>6, <2>1, <2>2, <2>3
       DEF Cleared, callVars, subVars, QueueInv, AppendInv, SendInv, HasLoaded
<1> QED
  BY <1>1, <1>2, <1>3, <1>4, <1>5, <1>6 DEF Subscriber

LEMMA MainFacts ==
  ASSUME TypeOK, AstfInv, Main \/ TimeOut
  PROVE  TypeOK' /\ AstfInv'
<1> USE DEF AstfInv
<1>1. CASE Get
  <2>1. TypeOK'
    BY <1>1, TypeParts, TypePartsPrimed
       DEF Get, callVars, sharedVars, subVars, serverVars, CallType, ShareType,
          ServerType
  <2> QED
    BY <1>1, <2>1
       DEF Get, callVars, sharedVars, subVars, serverVars, QueueInv, AppendInv,
          PopInv, SendInv, WireInv, HasLoaded
<1>2. CASE Pop
  <2>1. queue # <<>> \/ mine # None
    BY <1>2 DEF Pop, PopInv
  <2>2. (IF mine # None THEN mine ELSE Head(queue)) \in States
    BY <2>1 DEF TypeOK
  <2>3. /\ pc' \in {"idle", "get", "send"} /\ answer' \in {"none", "ok", "error"}
        /\ goal' \in {"none", "steady", "ready", "transient", "end", "TX", "LOADED"}
        /\ err' \in BOOLEAN /\ SendInv'
    BY <1>2, <2>2, JudgeFacts DEF Pop, LookOnly
  <2>4. mine' = None /\ queue' \in Seq(States)
        /\ (queue' = queue \/ (queue # <<>> /\ queue' = Tail(queue)))
    <3>1. mine' = None /\ (queue' = queue \/ (queue # <<>> /\ queue' = Tail(queue)))
      BY <1>2, <2>1 DEF Pop
    <3>2. queue \in Seq(States)
      BY DEF TypeOK
    <3> QED
      BY <3>1, <3>2
  <2>5. TypeOK'
    BY <1>2, <2>3, <2>4, TypeParts, TypePartsPrimed
       DEF Pop, LookOnly, subVars, serverVars, CallType, ShareType, ServerType
  <2>6. QueueInv' /\ (HasLoaded' => HasLoaded)
    <3>1. CASE queue' = queue
      BY <3>1 DEF QueueInv, HasLoaded
    <3>2. CASE queue # <<>> /\ queue' = Tail(queue)
      <4>1. queue \in Seq(States) /\ Len(queue') = Len(queue) - 1
            /\ \A i \in 1..Len(queue') : queue'[i] = queue[i + 1]
        BY <3>2 DEF TypeOK
      <4>2. queue' \in Seq(States) /\ DOMAIN queue' = 1..Len(queue') /\ DOMAIN queue = 1..Len(queue)
            /\ Len(queue) \in Nat
        BY <4>1, <2>4
      <4>3. \A i \in DOMAIN queue' : i + 1 \in DOMAIN queue /\ queue'[i] = queue[i + 1]
        BY <4>1, <4>2
      <4>4. HasLoaded' => HasLoaded
        BY <4>3 DEF HasLoaded
      <4>5. ASSUME NEW i \in DOMAIN queue', queue'[i] = "LOADED", i # Len(queue')
            PROVE  queue'[i + 1] = "LOADED"
        <5>1. queue[i + 1] = "LOADED" /\ i + 1 # Len(queue) /\ i + 1 \in DOMAIN queue
          BY <4>1, <4>2, <4>3, <4>5
        <5>2. queue[(i + 1) + 1] = "LOADED"
          BY <5>1 DEF QueueInv
        <5>3. i + 1 \in DOMAIN queue'
          BY <4>2, <4>5
        <5> QED
          BY <4>3, <5>2, <5>3
      <4> QED
        BY <4>4, <4>5 DEF QueueInv
    <3> QED
      BY <2>4, <3>1, <3>2
  <2>7. AppendInv' /\ PopInv' /\ WireInv'
    BY <1>2, <2>3, <2>4, <2>6
       DEF Pop, LookOnly, subVars, serverVars, AppendInv, PopInv, WireInv
  <2> QED
    BY <2>3, <2>5, <2>6, <2>7
<1>3. CASE Current
  <2>1. Known \in States
    BY DEF Known, TypeOK, States, Transient, Steady
  <2>2. /\ pc' \in {"idle", "get", "send"} /\ answer' \in {"none", "ok", "error"}
        /\ goal' \in {"none", "steady", "ready", "transient", "end", "TX", "LOADED"}
        /\ err' \in BOOLEAN /\ SendInv'
    BY <1>3, <2>1, JudgeFacts DEF Current, LookOnly
  <2>3. TypeOK'
    BY <1>3, <2>2, TypeParts, TypePartsPrimed
       DEF Current, LookOnly, subVars, serverVars, CallType, ShareType, ServerType
  <2> QED
    BY <1>3, <2>2, <2>3
       DEF Current, LookOnly, subVars, serverVars, QueueInv, AppendInv, PopInv,
          WireInv, HasLoaded
<1>4. CASE TimeOut
  <2>1. TypeOK'
    BY <1>4, TypeParts, TypePartsPrimed
       DEF TimeOut, Return, sharedVars, subVars, serverVars, CallType, ShareType,
          ServerType
  <2> QED
    BY <1>4, <2>1
       DEF TimeOut, Return, sharedVars, subVars, serverVars, QueueInv, AppendInv,
          PopInv, SendInv, WireInv, HasLoaded
<1>5. CASE Transmit
  <2>1. ServerType' /\ WireInv'
    BY <1>5, AcceptFacts, TypeParts DEF Transmit, Refuse, serverVars, ServerType,
       WireInv
  <2>2. /\ pc' \in {"idle", "get"} /\ answer' \in {"none", "ok", "error"}
        /\ goal' \in {"none", "transient"}
    BY <1>5 DEF Transmit, Poll, Return
  <2>3. TypeOK'
    BY <1>5, <2>1, <2>2, TypeParts, TypePartsPrimed
       DEF Transmit, sharedVars, subVars, CallType, ShareType
  <2> QED
    BY <1>5, <2>1, <2>2, <2>3
       DEF Transmit, sharedVars, subVars, QueueInv, AppendInv, PopInv, SendInv,
          WireInv, HasLoaded
<1> QED
  BY <1>1, <1>2, <1>3, <1>4, <1>5 DEF Main

LEMMA ServerFacts ==
  ASSUME TypeOK, AstfInv, GoesOn \/ StartFails
  PROVE  TypeOK' /\ AstfInv'
<1>1. srv' \in States /\ reached' \in BOOLEAN
  <2>1. Goes \in [DOMAIN Goes -> States]
    BY DEF Goes, States, Transient, Steady
  <2>2. (srv' = Goes[srv] /\ srv \in DOMAIN Goes) \/ srv' = "LOADED"
    BY DEF GoesOn, StartFails
  <2>3. srv' \in States
    BY <2>1, <2>2 DEF States, Steady
  <2>4. reached' \in BOOLEAN
    BY DEF GoesOn, StartFails, TypeOK
  <2> QED
    BY <2>3, <2>4
<1>2. wire' \in Seq(Message) /\ WireInv'
  <2>1. CASE GoesOn /\ srv = "DELETE"
    <3>1. Removal \in Message /\ Removal.cleared
      BY DEF Removal, Message, States, Steady
    <3> QED
      BY <2>1, <3>1, SentFacts DEF GoesOn, AstfInv
  <2>2. CASE GoesOn /\ srv # "DELETE"
    <3>1. srv' # "IDLE" /\ wire' = Append(wire, Event(srv', FALSE))
      <4>1. \A x \in DOMAIN Goes \ {"DELETE"} : Goes[x] # "IDLE"
        BY DEF Goes
      <4>2. srv' = Goes[srv] /\ srv \in DOMAIN Goes \ {"DELETE"}
            /\ wire' = Append(wire, Event(srv', FALSE))
        BY <2>2 DEF GoesOn
      <4> QED
        BY <4>1, <4>2
    <3>2. PICK e \in Message : e.state # "IDLE" /\ wire' = Append(wire, e)
      BY <1>1, <3>1 DEF Event, Message
    <3> QED
      BY <3>2, SentFacts DEF AstfInv
  <2>3. CASE StartFails
    <3>1. PICK e \in Message : e.state # "IDLE" /\ wire' = Append(wire, e)
      <4>1. [state |-> "LOADED", error |-> TRUE, cleared |-> FALSE] \in Message
        BY DEF Message, States, Steady
      <4> QED
        BY <2>3, <4>1 DEF StartFails, Event
    <3> QED
      BY <3>1, SentFacts DEF AstfInv
  <2> QED
    BY <2>1, <2>2, <2>3
<1>3. UNCHANGED <<callVars, pc, sharedVars, subVars>>
  BY DEF GoesOn, StartFails
<1>4. TypeOK'
  BY <1>1, <1>2, <1>3, TypeParts, TypePartsPrimed
     DEF callVars, sharedVars, subVars, CallType, ShareType, ServerType
<1> QED
  BY <1>2, <1>3, <1>4 DEF callVars, sharedVars, subVars, AstfInv, QueueInv, AppendInv,
     PopInv,
                          SendInv, HasLoaded

LEMMA Inductive ==
  ASSUME TypeOK, AstfInv, [Next]_vars
  PROVE  TypeOK' /\ AstfInv'
<1>1. CASE Next
  BY <1>1, CallFacts, SubscriberFacts, MainFacts, ServerFacts DEF Next
<1>2. CASE UNCHANGED vars
  <2>1. TypeOK'
    BY <1>2, TypeParts, TypePartsPrimed
       DEF vars, callVars, sharedVars, subVars, serverVars, CallType, ShareType,
          ServerType
  <2> QED
    BY <1>2, <2>1 DEF vars, callVars, sharedVars, subVars, serverVars, AstfInv,
       QueueInv,
                      AppendInv, PopInv, SendInv, WireInv, HasLoaded
<1> QED
  BY <1>1, <1>2

LEMMA Initial == Init => TypeOK /\ AstfInv
<1> SUFFICES ASSUME Init PROVE TypeOK /\ AstfInv
  OBVIOUS
<1>1. "IDLE" \in States /\ 0 \in 0..MaxCalls
  BY BoundsAssumption DEF States, Steady
<1>2. <<>> \in Seq(States) /\ <<>> \in Seq(Message) /\ DOMAIN <<>> = {}
  OBVIOUS
<1>3. CallType
  BY <1>1 DEF Init, CallType
<1>4. ShareType /\ ServerType
  BY <1>1, <1>2 DEF Init, ShareType, ServerType
<1>5. QueueInv /\ WireInv
  BY <1>2 DEF Init, QueueInv, WireInv
<1>6. AppendInv /\ PopInv /\ SendInv
  BY DEF Init, AppendInv, PopInv, SendInv
<1> QED
  BY <1>3, <1>4, <1>5, <1>6, TypeParts DEF AstfInv

\* The client's state stays within its type, for any number of commands.
THEOREM TypeCorrect == Spec => []TypeOK
<1>1. TypeOK /\ AstfInv /\ [Next]_vars => (TypeOK /\ AstfInv)'
  BY Inductive
<1> QED
  BY Initial, <1>1, PTL DEF Spec

\* The queue of states keeps its order and is never popped when it is empty by
\* main, for any number of commands.
THEOREM QueueOrder == Spec => []AstfInv
<1>1. TypeOK /\ AstfInv /\ [Next]_vars => (TypeOK /\ AstfInv)'
  BY Inductive
<1> QED
  BY Initial, <1>1, PTL DEF Spec
=============================================================================
