-------------------------- MODULE AstfClientAnswers -------------------------
(* The answers of AstfClient are true, for any number of commands.         *)
EXTENDS AstfClientInvariant, AstfClientProofs

-----------------------------------------------------------------------------
(* Sequences, states and their order.                                       *)

LEMMA AppendFacts ==
  ASSUME NEW S, NEW q \in Seq(S), NEW e \in S
  PROVE  /\ Append(q, e) \in Seq(S) /\ Append(q, e) # <<>> /\ Len(q) \in Nat
         /\ Len(Append(q, e)) = Len(q) + 1
         /\ DOMAIN q = 1..Len(q) /\ DOMAIN Append(q, e) = 1..(Len(q) + 1)
         /\ \A i \in DOMAIN q : Append(q, e)[i] = q[i]
         /\ Append(q, e)[Len(q) + 1] = e
  OBVIOUS

LEMMA TailFacts ==
  ASSUME NEW S, NEW q \in Seq(S), q # <<>>
  PROVE  /\ Tail(q) \in Seq(S) /\ Head(q) = q[1] /\ Head(q) \in S
         /\ Len(q) \in Nat \ {0} /\ Len(Tail(q)) = Len(q) - 1
         /\ DOMAIN q = 1..Len(q) /\ DOMAIN Tail(q) = 1..(Len(q) - 1)
         /\ \A i \in DOMAIN Tail(q) : i + 1 \in DOMAIN q /\ Tail(q)[i] = q[i + 1]
         /\ Len(q) = 1 => Tail(q) = <<>>
         /\ Tail(q) = <<>> => Len(q) = 1
<1>1. /\ Tail(q) \in Seq(S) /\ Head(q) = q[1] /\ Head(q) \in S
      /\ Len(q) \in Nat \ {0} /\ Len(Tail(q)) = Len(q) - 1
      /\ DOMAIN q = 1..Len(q) /\ DOMAIN Tail(q) = 1..(Len(q) - 1)
      /\ \A i \in DOMAIN Tail(q) : i + 1 \in DOMAIN q /\ Tail(q)[i] = q[i + 1]
  OBVIOUS
<1>2. \A r \in Seq(S) : Len(r) = 0 <=> r = <<>>
  OBVIOUS
<1>3. Len(Tail(q)) = 0 <=> Len(q) = 1
  BY <1>1
<1>4. Len(q) = 1 <=> Tail(q) = <<>>
  BY <1>1, <1>2, <1>3
<1> QED
  BY <1>1, <1>4

LEMMA AfterFacts ==
  /\ After["IDLE"] = {"LOADED"} /\ After["LOADED"] = {"PARSE", "DELETE"}
  /\ After["PARSE"] = {"BUILD", "LOADED"} /\ After["BUILD"] = {"TX", "LOADED"}
  /\ After["TX"] = {"CLEANUP"} /\ After["CLEANUP"] = {"LOADED"} /\ After["DELETE"] = {"IDLE"}
  BY DEF After

LEMMA RankFacts ==
  /\ Rank["IDLE"] = 0 /\ Rank["DELETE"] = 0 /\ Rank["PARSE"] = 1 /\ Rank["BUILD"] = 2
  /\ Rank["TX"] = 3 /\ Rank["CLEANUP"] = 4 /\ Rank["LOADED"] = 5
  BY DEF Rank

LEMMA GoesFacts ==
  /\ DOMAIN Goes = {"PARSE", "BUILD", "TX", "CLEANUP", "DELETE"}
  /\ Goes["PARSE"] = "BUILD" /\ Goes["BUILD"] = "TX" /\ Goes["TX"] = "CLEANUP"
  /\ Goes["CLEANUP"] = "LOADED" /\ Goes["DELETE"] = "IDLE"
  BY DEF Goes

\* Up to the end of a run its states grow.
LEMMA RankGrows ==
  ASSUME NEW s \in States, s \notin {"IDLE", "LOADED"},
         NEW t \in After[s], t # "IDLE"
  PROVE  Rank[s] < Rank[t]
  BY AfterFacts, RankFacts DEF States, Transient, Steady

\* A LOADED in the queue is its last entry.
LEMMA LoadedLast ==
  ASSUME TypeOK, OrderInv, HasLoaded
  PROVE  queue # <<>> /\ LastQueued = "LOADED"
<1>1. queue \in Seq(States)
  BY DEF TypeOK
<1>2. PICK i \in DOMAIN queue : queue[i] = "LOADED"
  BY DEF HasLoaded
<1>3. DOMAIN queue = 1..Len(queue) /\ Len(queue) \in Nat /\ Len(queue) \in DOMAIN queue
  BY <1>1, <1>2
<1>4. \A s \in States : ~(5 < Rank[s])
  BY RankFacts DEF States, Transient, Steady
<1>5. ~(i < Len(queue))
  BY <1>1, <1>2, <1>3, <1>4, RankFacts DEF OrderInv
<1> QED
  BY <1>2, <1>3, <1>5 DEF LastQueued

-----------------------------------------------------------------------------
(* The server.                                                              *)

\* What is published continues the story.
LEMMA PublishKeeps ==
  ASSUME TypeOK, NewsInv, NEW e \in Message, e.state \in After[srv],
         e.cleared => e.state = "IDLE",
         wire' = Append(wire, e), srv' = e.state, UNCHANGED <<cur, spc, seen>>
  PROVE  /\ NewsInv' /\ wire' # <<>> /\ Len(wire) \in Nat /\ Len(wire') = Len(wire) + 1
         /\ DOMAIN wire = 1..Len(wire) /\ DOMAIN wire' = 1..(Len(wire) + 1)
         /\ \A i \in DOMAIN wire : wire'[i] = wire[i]
         /\ wire'[Len(wire) + 1] = e
<1>1. wire \in Seq(Message)
  BY DEF TypeOK, Message
<1>2. /\ wire' # <<>> /\ Len(wire) \in Nat /\ Len(wire') = Len(wire) + 1
      /\ DOMAIN wire = 1..Len(wire) /\ DOMAIN wire' = 1..(Len(wire) + 1)
      /\ \A i \in DOMAIN wire : wire'[i] = wire[i]
      /\ wire'[Len(wire) + 1] = e
  BY <1>1, AppendFacts
<1>3. wire'[1].state \in After[Known'] /\ wire'[Len(wire')].state = srv'
  <2>1. CASE wire = <<>>
    BY <1>2, <2>1 DEF NewsInv, Known
  <2>2. CASE wire # <<>>
    <3>1. 1 \in DOMAIN wire
      BY <1>1, <1>2, <2>2
    <3> QED
      BY <1>2, <2>2, <3>1 DEF NewsInv, Known
  <2> QED
    BY <2>1, <2>2
<1>4. ASSUME NEW i \in DOMAIN wire', i # Len(wire')
      PROVE  wire'[i + 1].state \in After[wire'[i].state]
  <2>1. i \in DOMAIN wire /\ wire'[i] = wire[i]
    BY <1>2, <1>4
  <2>2. CASE i = Len(wire)
    <3>1. wire # <<>>
      BY <1>1, <2>1
    <3> QED
      BY <1>2, <2>1, <2>2, <3>1 DEF NewsInv
  <2>3. CASE i # Len(wire)
    <3>1. i + 1 \in DOMAIN wire
      BY <1>2, <2>1, <2>3
    <3> QED
      BY <1>2, <2>1, <2>3, <3>1 DEF NewsInv
  <2> QED
    BY <2>2, <2>3
<1>5. \A i \in DOMAIN wire' : wire'[i].cleared => wire'[i].state = "IDLE"
  BY <1>2 DEF NewsInv
<1> QED
  BY <1>2, <1>3, <1>4, <1>5 DEF NewsInv

\* What the client believes to be over is over, and the server is at rest.
LEMMA AtRest ==
  ASSUME TypeOK, NewsInv, OrderInv
  PROVE  /\ wire = <<>> => srv = Known
         /\ wire = <<>> /\ spc # "idle" /\ seen = "LOADED" => srv = "LOADED"
         /\ wire = <<>> /\ spc = "idle" /\ HasLoaded => srv = "LOADED"
         /\ \A i \in DOMAIN wire : i = Len(wire) => wire[i].state = srv
<1>1. wire = <<>> /\ spc = "idle" /\ HasLoaded => srv = "LOADED"
  BY LoadedLast, NoneAssumption DEF OrderInv, NewsInv, Known, States, Steady
<1>2. \A i \in DOMAIN wire : i = Len(wire) => wire[i].state = srv
  BY DEF NewsInv
<1> QED
  BY <1>1, <1>2, NoneAssumption DEF NewsInv, Known, States, Steady

LEMMA ServerKeeps ==
  ASSUME TypeOK, AnswerInv, GoesOn \/ StartFails
  PROVE  AnswerInv'
<1> USE DEF AnswerInv, callVars, sharedVars, subVars
<1>0. UNCHANGED <<callVars, pc, sharedVars, subVars>>
  BY DEF GoesOn, StartFails
<1>1. srv \in {"PARSE", "BUILD", "TX", "CLEANUP", "DELETE"}
      /\ (srv' = "IDLE" <=> srv = "DELETE") /\ srv' \in After[srv]
      /\ (srv' \in Active => srv \in {"PARSE", "BUILD"})
      /\ (srv' # "LOADED" => srv # "CLEANUP")
      /\ (reached' <=> reached \/ srv' = "TX")
  <2>1. CASE GoesOn
    BY <2>1, GoesFacts, AfterFacts DEF GoesOn, Active
  <2>2. CASE StartFails
    <3>1. srv \in {"PARSE", "BUILD"} /\ srv' = "LOADED" /\ reached' = reached
      BY <2>2 DEF StartFails
    <3> QED
      BY <3>1, AfterFacts DEF Active
  <2> QED
    BY <2>1, <2>2
<1>2. PICK e \in Message : /\ wire' = Append(wire, e) /\ e.state = srv'
                           /\ e.cleared => srv' = "IDLE"
                           /\ e.error => srv' = "LOADED"
  <2>1. srv' \in States
    BY <1>1, AfterFacts DEF States, Transient, Steady
  <2>2. CASE GoesOn /\ srv = "DELETE"
    <3>1. Removal \in Message /\ Removal.state = "IDLE" /\ ~Removal.error
      BY DEF Removal, Message, States, Steady
    <3> QED
      BY <1>1, <2>2, <3>1 DEF GoesOn
  <2>3. CASE GoesOn /\ srv # "DELETE"
    <3>1. /\ Event(srv', FALSE) \in Message /\ Event(srv', FALSE).state = srv'
          /\ ~Event(srv', FALSE).error /\ ~Event(srv', FALSE).cleared
      BY <2>1 DEF Event, Message
    <3> QED
      BY <2>3, <3>1 DEF GoesOn
  <2>4. CASE StartFails
    <3>1. /\ Event("LOADED", TRUE) \in Message /\ Event("LOADED", TRUE).state = "LOADED"
          /\ ~Event("LOADED", TRUE).cleared
      BY DEF Event, Message, States, Steady
    <3> QED
      BY <2>4, <3>1 DEF StartFails
  <2> QED
    BY <2>2, <2>3, <2>4
<1>3. /\ NewsInv' /\ wire' # <<>> /\ Len(wire) \in Nat /\ Len(wire') = Len(wire) + 1
      /\ DOMAIN wire = 1..Len(wire) /\ DOMAIN wire' = 1..(Len(wire) + 1)
      /\ \A i \in DOMAIN wire : wire'[i] = wire[i]
      /\ wire'[Len(wire) + 1] = e
  BY <1>0, <1>1, <1>2, PublishKeeps
<1>4. /\ wire = <<>> => srv = Known
      /\ wire = <<>> /\ spc # "idle" /\ seen = "LOADED" => FALSE
      /\ wire = <<>> /\ spc = "idle" /\ HasLoaded => FALSE
      /\ \A i \in DOMAIN wire : wire[i].state \in {"IDLE", "LOADED"} => i # Len(wire)
  BY <1>1, AtRest
<1>5. OrderInv' /\ GoalInv' /\ IndexInv' /\ SubscriberSurvives'
  BY <1>0 DEF OrderInv, InQueue, LastQueued, GoalInv, Polling, IndexInv, SubscriberSurvives
<1>6. RestInv'
  BY <1>0, <1>1 DEF RestInv, Asked
<1>7. RunInv'
  <2> SUFFICES ASSUME Asked("start")', goal' \in {"transient", "end"} PROVE RunInv!2'
    BY DEF RunInv
  <2>0. Asked("start") /\ goal \in {"transient", "end"}
    BY <1>0 DEF Asked
  <2>1. /\ Asked("start") /\ goal \in {"transient", "end"}
        /\ srv \in {"PARSE", "BUILD", "TX", "CLEANUP"}
    BY <1>1, <2>0 DEF RunInv, Active
  <2>2. mine' = None /\ srv' \in Active \cup {"CLEANUP", "LOADED"}
    BY <1>0, <1>1, <2>1, AfterFacts DEF RunInv, Active
  <2>3. srv' # "LOADED" /\ cur' = "LOADED" => goal' = "transient" /\ queue' = <<>>
    BY <1>0, <2>1 DEF RunInv
  <2>4. ~reached' => cur' # "TX" /\ ~InQueue("TX")' /\ ~OnWire("TX")'
    BY <1>0, <1>1, <1>2, <1>3, <2>1 DEF RunInv, OnWire, InQueue
  <2>5. ~stale' /\ (err' \/ \E i \in DOMAIN wire' : wire'[i].error) => srv' = "LOADED"
    BY <1>0, <1>2, <1>3, <2>1 DEF RunInv
  <2> QED
    BY <2>2, <2>3, <2>4, <2>5
<1>8. HaltInv'
  BY <1>0, <1>1, <1>3, <1>4 DEF HaltInv, Asked, Known, Active
<1>9. LastInv'
  <2>1. Asked("stop")' \/ Asked("wait")' \/ (Asked("start")' /\ block')
        => Asked("stop") \/ Asked("wait") \/ (Asked("start") /\ block)
    BY <1>0 DEF Asked
  <2> SUFFICES ASSUME Asked("stop") \/ Asked("wait") \/ (Asked("start") /\ block)
               PROVE  LastInv!2'
    BY <2>1 DEF LastInv
  <2>2. ~HasLoaded /\ ~(spc # "idle" /\ seen = "LOADED") /\ spc # "last"
        /\ \A i \in DOMAIN wire : wire[i].state \notin {"IDLE", "LOADED"}
    BY <1>4 DEF LastInv
  <2>3. \A i \in DOMAIN wire' : wire'[i].state \in {"IDLE", "LOADED"} => i = Len(wire')
    BY <1>3, <2>2
  <2> QED
    BY <1>0, <2>2, <2>3 DEF HasLoaded
<1>10. GoneInv'
  BY <1>0, <1>1, <1>3, <1>4 DEF GoneInv, Asked, Known
<1> QED
  BY <1>3, <1>5, <1>6, <1>7, <1>8, <1>9, <1>10

-----------------------------------------------------------------------------
(* The subscriber.                                                          *)

\* What is handled is no longer on its way.
LEMMA NextNews ==
  ASSUME TypeOK, NewsInv, wire # <<>>, wire' = Tail(wire), srv' = srv,
         Known' = Head(wire).state, spc' # "idle" => cur' = seen' /\ seen' # "IDLE"
  PROVE  /\ NewsInv' /\ 1 \in DOMAIN wire /\ Head(wire) = wire[1] /\ Head(wire) \in Message
         /\ Head(wire).state \in After[Known]
         /\ Len(wire) \in Nat /\ Len(wire') = Len(wire) - 1
         /\ \A i \in DOMAIN wire' : i + 1 \in DOMAIN wire /\ wire'[i] = wire[i + 1]
         /\ 1 = Len(wire) => wire' = <<>> /\ Head(wire).state = srv
<1>1. wire \in Seq(Message)
  BY DEF TypeOK, Message
<1>2. /\ wire' \in Seq(Message) /\ Head(wire) = wire[1] /\ Head(wire) \in Message
      /\ Len(wire) \in Nat \ {0} /\ Len(wire') = Len(wire) - 1
      /\ DOMAIN wire = 1..Len(wire) /\ DOMAIN wire' = 1..(Len(wire) - 1)
      /\ \A i \in DOMAIN wire' : i + 1 \in DOMAIN wire /\ wire'[i] = wire[i + 1]
      /\ Len(wire) = 1 => wire' = <<>>
      /\ wire' = <<>> => Len(wire) = 1
  BY <1>1, TailFacts
<1>3. 1 \in DOMAIN wire /\ wire[1].state \in After[Known] /\ wire[Len(wire)].state = srv
  BY <1>2 DEF NewsInv
<1>4. wire' = <<>> => srv' = Known'
  BY <1>2, <1>3
<1>5. ASSUME wire' # <<>>
      PROVE  wire'[1].state \in After[Known'] /\ wire'[Len(wire')].state = srv'
  <2>1. Len(wire) # 1 /\ 1 \in DOMAIN wire' /\ Len(wire') \in DOMAIN wire'
    BY <1>2, <1>5
  <2>2. wire'[1] = wire[1 + 1] /\ wire'[Len(wire')] = wire[Len(wire)]
    BY <1>2, <2>1
  <2> QED
    BY <1>2, <1>3, <2>1, <2>2 DEF NewsInv
<1>6. ASSUME NEW i \in DOMAIN wire', i # Len(wire')
      PROVE  wire'[i + 1].state \in After[wire'[i].state]
  <2>1. i + 1 \in DOMAIN wire /\ i + 1 # Len(wire) /\ i + 1 \in DOMAIN wire'
    BY <1>2, <1>6
  <2>2. wire'[i] = wire[i + 1] /\ wire'[i + 1] = wire[(i + 1) + 1]
    BY <1>2, <2>1
  <2> QED
    BY <2>1, <2>2 DEF NewsInv
<1>7. \A i \in DOMAIN wire' : wire'[i].cleared => wire'[i].state = "IDLE"
  BY <1>2 DEF NewsInv
<1> QED
  BY <1>2, <1>3, <1>4, <1>5, <1>6, <1>7 DEF NewsInv

\* Main keeps the head of a list that is replaced.
LEMMA ReplacedFacts ==
  ASSUME TypeOK, OrderInv, queue # <<>>, Replace
  PROVE  mine' # "IDLE"
<1>1. Head(queue) = queue[1] /\ 1 \in DOMAIN queue
  BY TailFacts DEF TypeOK
<1> QED
  BY <1>1 DEF OrderInv, InQueue, Replace

LEMMA TakeKeeps ==
  ASSUME TypeOK, AstfInv, AnswerInv, Take
  PROVE  AnswerInv'
<1> USE DEF AnswerInv
<1>1. /\ wire # <<>> /\ wire' = Tail(wire) /\ spc = "idle" /\ spc' \in {"append", "test"}
      /\ seen' = Head(wire).state /\ cur' = seen' /\ ~Head(wire).cleared
      /\ err' = (err \/ Head(wire).error)
      /\ UNCHANGED <<op, block, goal, fresh, stale, pc, queue, mine, srv, reached>>
  BY DEF Take, callVars
<1>2. seen' \in States \ {"IDLE"} /\ Known' = seen'
  <2>1. Head(wire) \in Message /\ (Head(wire).state = "IDLE" => Head(wire).cleared)
    BY <1>1, EventFacts DEF AstfInv
  <2> QED
    BY <1>1, <2>1, NoneAssumption DEF Message, Known
<1>3. /\ NewsInv' /\ 1 \in DOMAIN wire /\ Head(wire) = wire[1] /\ seen' \in After[Known]
      /\ Len(wire) \in Nat /\ Len(wire') = Len(wire) - 1
      /\ \A i \in DOMAIN wire' : i + 1 \in DOMAIN wire /\ wire'[i] = wire[i + 1]
      /\ 1 = Len(wire) => wire' = <<>> /\ seen' = srv
  BY <1>1, <1>2, NextNews
<1>4. OrderInv'
  <2>1. queue # <<>> => LastQueued = cur /\ LastQueued \in States
    BY <1>1 DEF OrderInv, LastQueued, TypeOK
  <2>2. queue # <<>> => seen' \in After[LastQueued]
    BY <1>3, <2>1, NoneAssumption DEF Known
  <2> QED
    BY <1>1, <2>2 DEF OrderInv, InQueue, LastQueued
<1>5. GoalInv' /\ IndexInv' /\ SubscriberSurvives'
  BY <1>1 DEF GoalInv, Polling, IndexInv, SubscriberSurvives
<1>6. RestInv'
  BY <1>1 DEF RestInv, Asked
<1>7. RunInv'
  <2> SUFFICES ASSUME Asked("start")', goal' \in {"transient", "end"} PROVE RunInv!2'
    BY DEF RunInv
  <2>1. Asked("start") /\ goal \in {"transient", "end"} /\ block
    BY <1>1 DEF Asked, GoalInv
  <2>2. srv' # "LOADED" => cur' # "LOADED"
    BY <1>1, <1>3, <2>1 DEF LastInv
  <2>3. ~reached' => cur' # "TX" /\ ~InQueue("TX")' /\ ~OnWire("TX")'
    BY <1>1, <1>3, <2>1 DEF RunInv, OnWire, InQueue
  <2>4. ~stale' /\ (err' \/ \E i \in DOMAIN wire' : wire'[i].error) => srv' = "LOADED"
    BY <1>1, <1>3, <2>1 DEF RunInv
  <2> QED
    BY <1>1, <2>1, <2>2, <2>3, <2>4 DEF RunInv
<1>8. HaltInv'
  BY <1>1, <1>2, <1>3 DEF HaltInv, LastInv, Asked
<1>9. LastInv'
  BY <1>1, <1>3 DEF LastInv, Asked, HasLoaded
<1>10. GoneInv'
  BY <1>1, <1>2, <1>3 DEF GoneInv, Asked
<1> QED
  BY <1>3, <1>4, <1>5, <1>6, <1>7, <1>8, <1>9, <1>10

LEMMA ClearedKeeps ==
  ASSUME TypeOK, AstfInv, AnswerInv, Cleared
  PROVE  AnswerInv'
<1> USE DEF AnswerInv
<1>1. /\ wire # <<>> /\ wire' = Tail(wire) /\ spc = "idle" /\ spc' = "idle"
      /\ Head(wire).cleared /\ cur' = None /\ Known' = "IDLE" /\ queue' = <<>>
      /\ UNCHANGED <<op, block, goal, fresh, stale, pc, err, srv, reached>>
  BY DEF Cleared, Replace, callVars, subVars, Known
<1>2. Head(wire).state = "IDLE"
  BY <1>1, TailFacts DEF TypeOK, NewsInv
<1>3. /\ NewsInv' /\ 1 \in DOMAIN wire /\ Head(wire) = wire[1]
      /\ Len(wire) \in Nat /\ Len(wire') = Len(wire) - 1
      /\ \A i \in DOMAIN wire' : i + 1 \in DOMAIN wire /\ wire'[i] = wire[i + 1]
      /\ 1 = Len(wire) => wire' = <<>> /\ srv = "IDLE"
  BY <1>1, <1>2, NextNews
<1>4. OrderInv' /\ ~HasLoaded'
  <2>1. mine' # "IDLE"
    BY ReplacedFacts DEF Cleared, OrderInv
  <2> QED
    BY <1>1, <2>1 DEF OrderInv, InQueue, HasLoaded
<1>5. GoalInv' /\ IndexInv' /\ SubscriberSurvives'
  BY <1>1 DEF GoalInv, Polling, IndexInv, SubscriberSurvives
<1>6. RestInv'
  BY <1>1 DEF RestInv, Asked
<1>7. Asked("stop") \/ Asked("wait") \/ (Asked("start") /\ block) \/ Asked("clear")
      => wire' = <<>> /\ srv = "IDLE"
  BY <1>2, <1>3 DEF LastInv, GoneInv
<1>8. RunInv'
  <2> SUFFICES ASSUME Asked("start")', goal' \in {"transient", "end"} PROVE FALSE
    BY DEF RunInv
  <2>1. Asked("start") /\ goal \in {"transient", "end"} /\ block
    BY <1>1 DEF Asked, GoalInv
  <2> QED
    BY <1>7, <2>1 DEF RunInv, Active
<1>9. HaltInv'
  BY <1>1, <1>7 DEF HaltInv, Asked, Active
<1>10. LastInv'
  BY <1>1, <1>3, <1>4 DEF LastInv, Asked
<1>11. GoneInv'
  BY <1>1, <1>3, <1>7 DEF GoneInv, Asked
<1> QED
  BY <1>3, <1>4, <1>5, <1>6, <1>8, <1>9, <1>10, <1>11

LEMMA TestKeeps ==
  ASSUME TypeOK, AnswerInv, Test
  PROVE  AnswerInv'
<1> USE DEF AnswerInv
<1>1. /\ spc = "test" /\ spc' \in {"last", "append"} /\ (spc' = "last" => HasLoaded)
      /\ UNCHANGED <<op, block, goal, fresh, stale, pc, cur, queue, mine, err, seen>>
      /\ UNCHANGED <<wire, srv, reached>>
  BY DEF Test, callVars, sharedVars, serverVars, HasLoaded
<1>2. NewsInv' /\ OrderInv' /\ HaltInv' /\ GoneInv' /\ RestInv' /\ RunInv'
  BY <1>1 DEF NewsInv, OrderInv, HaltInv, GoneInv, RestInv, RunInv, Asked, Known, InQueue,
     OnWire, LastQueued
<1>3. GoalInv' /\ SubscriberSurvives'
  BY <1>1 DEF GoalInv, Polling, SubscriberSurvives
<1>4. IndexInv'
  <2>1. queue \in Seq(States)
    BY DEF TypeOK
  <2>2. HasLoaded => queue # <<>>
    BY <2>1 DEF HasLoaded
  <2> QED
    BY <1>1, <2>2 DEF IndexInv
<1>5. LastInv'
  BY <1>1 DEF LastInv, Asked, HasLoaded
<1> QED
  BY <1>2, <1>3, <1>4, <1>5

LEMMA DropKeeps ==
  ASSUME TypeOK, AnswerInv, DropOld
  PROVE  AnswerInv'
<1> USE DEF AnswerInv
<1>1. /\ spc = "last" /\ spc' = "append" /\ queue' = <<>>
      /\ UNCHANGED <<op, block, goal, fresh, stale, pc, cur, err, seen, wire, srv, reached>>
  BY DEF DropOld, Replace, callVars, serverVars
<1>2. ~(Asked("stop") \/ Asked("wait") \/ (Asked("start") /\ block))
  BY <1>1 DEF LastInv
<1>3. NewsInv' /\ GoneInv' /\ RestInv'
  BY <1>1 DEF NewsInv, GoneInv, RestInv, Asked, Known
<1>4. OrderInv' /\ IndexInv'
  <2>1. mine' # "IDLE"
    BY ReplacedFacts DEF DropOld
  <2> QED
    BY <1>1, <2>1 DEF OrderInv, InQueue, IndexInv
<1>5. GoalInv' /\ SubscriberSurvives'
  BY <1>1 DEF GoalInv, Polling, SubscriberSurvives
<1>6. RunInv' /\ HaltInv' /\ LastInv'
  BY <1>1, <1>2 DEF RunInv, HaltInv, LastInv, Asked, GoalInv
<1> QED
  BY <1>3, <1>4, <1>5, <1>6

LEMMA CrashKeeps ==
  ASSUME TypeOK, AnswerInv, SubscriberCrash
  PROVE  AnswerInv'
<1> USE DEF AnswerInv
<1>1. /\ spc = "last" /\ spc' = "idle" /\ queue = <<>> /\ pc' = "off"
      /\ UNCHANGED <<op, block, goal, fresh, stale, cur, queue, mine, err, seen>>
      /\ UNCHANGED <<wire, srv, reached>>
  BY DEF SubscriberCrash, callVars, sharedVars, serverVars
<1>2. NewsInv' /\ OrderInv'
  BY <1>1 DEF NewsInv, OrderInv, InQueue, Known
<1>3. GoalInv'
  BY <1>1 DEF GoalInv, Polling
<1>4. SubscriberSurvives' /\ IndexInv'
  BY <1>1 DEF SubscriberSurvives, IndexInv
<1>5. RestInv' /\ RunInv' /\ HaltInv' /\ LastInv' /\ GoneInv'
  BY <1>1 DEF RestInv, RunInv, HaltInv, LastInv, GoneInv, Asked
<1> QED
  BY <1>2, <1>3, <1>4, <1>5

\* A state that is queued comes later in the run than those before it.
LEMMA EnqueueKeeps ==
  ASSUME TypeOK, AstfInv, AnswerInv, Enqueue
  PROVE  AnswerInv'
<1> USE DEF AnswerInv
<1>1. /\ spc = "append" /\ spc' = "idle" /\ queue' = Append(queue, seen)
      /\ UNCHANGED <<op, block, goal, fresh, stale, pc, cur, mine, err, seen>>
      /\ UNCHANGED <<wire, srv, reached>>
  BY DEF Enqueue, callVars, serverVars
<1>2. /\ queue' # <<>> /\ Len(queue) \in Nat /\ Len(queue') = Len(queue) + 1
      /\ DOMAIN queue = 1..Len(queue) /\ DOMAIN queue' = 1..(Len(queue) + 1)
      /\ \A i \in DOMAIN queue : queue'[i] = queue[i] /\ queue[i] \in States
      /\ queue'[Len(queue) + 1] = seen
      /\ seen \in States \ {"IDLE"} /\ cur = seen
  <2>1. queue \in Seq(States) /\ seen \in States
    BY DEF TypeOK
  <2>2. \A i \in DOMAIN queue : queue[i] \in States
    BY <2>1
  <2> QED
    BY <1>1, <2>1, <2>2, AppendFacts DEF NewsInv
<1>3. \A s \in States : InQueue(s)' => InQueue(s) \/ s = seen
  BY <1>2 DEF InQueue
<1>4. OrderInv'
  <2>1. ASSUME NEW i \in DOMAIN queue
        PROVE  Rank[queue[i]] < Rank[seen]
    <3>1. LastQueued \in States /\ LastQueued # "IDLE" /\ seen \in After[LastQueued]
      BY <1>1, <1>2 DEF OrderInv, InQueue, LastQueued
    <3>2. LastQueued # "LOADED"
      <4>1. seen # "LOADED" => ~HasLoaded
        BY <1>1 DEF AstfInv, AppendInv
      <4> QED
        BY <1>2, <3>1, <4>1, AfterFacts DEF HasLoaded, LastQueued
    <3>3. Rank[LastQueued] < Rank[seen]
      BY <1>2, <3>1, <3>2, RankGrows
    <3>4. CASE i = Len(queue)
      BY <3>3, <3>4 DEF LastQueued
    <3>5. CASE i # Len(queue)
      <4>1. Rank[queue[i]] < Rank[LastQueued]
        BY <1>2, <3>5 DEF OrderInv, LastQueued
      <4>2. \A s \in States : Rank[s] \in Nat
        BY RankFacts DEF States, Transient, Steady
      <4> QED
        BY <1>2, <3>1, <3>3, <4>1, <4>2
    <3> QED
      BY <3>4, <3>5
  <2>2. \A i, j \in DOMAIN queue' : i < j => Rank[queue'[i]] < Rank[queue'[j]]
    BY <1>2, <2>1 DEF OrderInv
  <2>3. LastQueued' = cur'
    BY <1>1, <1>2 DEF LastQueued
  <2>4. ~InQueue("IDLE")'
    BY <1>2, <1>3 DEF OrderInv, States, Steady
  <2> QED
    BY <1>1, <2>2, <2>3, <2>4 DEF OrderInv
<1>5. NewsInv' /\ GoneInv' /\ HaltInv'
  BY <1>1 DEF NewsInv, GoneInv, HaltInv, Asked, Known
<1>6. GoalInv' /\ SubscriberSurvives' /\ IndexInv'
  BY <1>1 DEF GoalInv, Polling, SubscriberSurvives, IndexInv
<1>7. RestInv'
  BY <1>1 DEF RestInv, Asked
<1>8. RunInv'
  <2> SUFFICES ASSUME Asked("start")', goal' \in {"transient", "end"} PROVE RunInv!2'
    BY DEF RunInv
  <2>1. Asked("start") /\ goal \in {"transient", "end"} /\ block
    BY <1>1 DEF Asked, GoalInv
  <2>2. srv # "LOADED" => cur # "LOADED"
    BY <1>1, <1>2, <2>1, AtRest DEF LastInv
  <2>3. ~reached => cur # "TX" /\ ~InQueue("TX")'
    BY <1>2, <1>3, <2>1 DEF RunInv, States, Steady
  <2> QED
    BY <1>1, <2>1, <2>2, <2>3 DEF RunInv, OnWire
<1>9. LastInv'
  <2>1. HasLoaded' => HasLoaded \/ seen = "LOADED"
    BY <1>2 DEF HasLoaded
  <2> QED
    BY <1>1, <2>1 DEF LastInv, Asked
<1> QED
  BY <1>4, <1>5, <1>6, <1>7, <1>8, <1>9

LEMMA SubscriberKeeps ==
  ASSUME TypeOK, AstfInv, AnswerInv, Subscriber
  PROVE  AnswerInv'
  BY TakeKeeps, TestKeeps, DropKeeps, CrashKeeps, EnqueueKeeps, ClearedKeeps DEF Subscriber

-----------------------------------------------------------------------------
(* Main.                                                                    *)

LEMMA GetKeeps ==
  ASSUME TypeOK, AnswerInv, Get
  PROVE  AnswerInv'
<1> USE DEF AnswerInv
<1>1. /\ pc = "get" /\ pc' \in {"pop", "cur"} /\ (pc' = "cur" => queue = <<>>)
      /\ UNCHANGED <<op, block, goal, fresh, stale, cur, queue, mine, err, spc, seen>>
      /\ UNCHANGED <<wire, srv, reached>>
  BY DEF Get, callVars, sharedVars, subVars, serverVars
<1>2. NewsInv' /\ OrderInv' /\ GoalInv' /\ SubscriberSurvives' /\ IndexInv'
  BY <1>1 DEF NewsInv, OrderInv, InQueue, LastQueued, GoalInv, Polling, SubscriberSurvives,
     IndexInv, Known
<1>3. RestInv' /\ RunInv'
  BY <1>1 DEF RestInv, RunInv, Asked, InQueue, OnWire
<1>4. HaltInv' /\ LastInv' /\ GoneInv'
  BY <1>1 DEF HaltInv, LastInv, GoneInv, Asked, Known, HasLoaded
<1> QED
  BY <1>2, <1>3, <1>4

LEMMA TimeOutKeeps ==
  ASSUME TypeOK, AnswerInv, TimeOut
  PROVE  AnswerInv'
<1> USE DEF AnswerInv
<1>1. /\ pc = "get" /\ pc' = "idle" /\ goal' = "none"
      /\ UNCHANGED <<op, block, fresh, stale, cur, queue, mine, err, spc, seen>>
      /\ UNCHANGED <<wire, srv, reached>>
  BY DEF TimeOut, Return, sharedVars, subVars, serverVars
<1>2. NewsInv' /\ OrderInv' /\ GoalInv' /\ SubscriberSurvives' /\ IndexInv'
  BY <1>1 DEF NewsInv, OrderInv, InQueue, LastQueued, GoalInv, Polling, SubscriberSurvives,
     IndexInv, Known
<1>3. RestInv' /\ RunInv' /\ HaltInv' /\ LastInv' /\ GoneInv'
  BY <1>1 DEF RestInv, RunInv, HaltInv, LastInv, GoneInv, Asked, Known, HasLoaded
<1> QED
  BY <1>2, <1>3

\* What main looks at: the head of its own list or of the shared one, or the
\* last known state.
LEMMA LookFacts ==
  ASSUME TypeOK, AstfInv, Pop \/ Current
  PROVE  \E s \in States :
           /\ Judge(s) /\ mine' = None
           /\ \/ pc = "pop" /\ mine # None /\ s = mine /\ queue' = queue
              \/ /\ pc = "pop" /\ mine = None /\ queue # <<>>
                 /\ s = queue[1] /\ queue' = Tail(queue)
              \/ pc = "cur" /\ mine = None /\ s = Known /\ queue' = queue
           /\ UNCHANGED <<op, block, fresh, stale, cur, spc, seen, wire, srv, reached>>
<1> USE DEF AstfInv
<1>1. UNCHANGED <<op, block, fresh, stale, cur, spc, seen, wire, srv, reached>>
  BY DEF Pop, Current, LookOnly, subVars, serverVars
<1>2. CASE Pop /\ mine # None
  <2>1. mine \in States
    BY <1>2 DEF TypeOK
  <2> QED
    BY <1>1, <1>2, <2>1 DEF Pop
<1>3. CASE Pop /\ mine = None
  <2>1. queue # <<>>
    BY <1>3 DEF Pop, PopInv
  <2>2. Head(queue) \in States /\ Head(queue) = queue[1]
    BY <2>1, TailFacts DEF TypeOK
  <2> QED
    BY <1>1, <1>3, <2>1, <2>2 DEF Pop
<1>4. CASE Current
  <2>1. Known \in States /\ mine = None
    BY <1>4 DEF Current, PopInv, Known, TypeOK, States, Steady
  <2> QED
    BY <1>1, <1>4, <2>1 DEF Current
<1> QED
  BY <1>2, <1>3, <1>4

\* The head of the queue, when it is the end of a run, is all of it.
LEMMA HeadFacts ==
  ASSUME TypeOK, OrderInv, queue # <<>>
  PROVE  /\ queue[1] \in States \ {"IDLE"} /\ InQueue(queue[1])
         /\ queue[1] = "LOADED" => HasLoaded /\ Tail(queue) = <<>>
<1>1. /\ queue \in Seq(States) /\ Len(queue) \in Nat \ {0} /\ DOMAIN queue = 1..Len(queue)
      /\ (Len(queue) = 1 => Tail(queue) = <<>>) /\ queue[1] \in States
  BY TailFacts DEF TypeOK
<1>2. 1 \in DOMAIN queue
  BY <1>1
<1>3. ASSUME queue[1] = "LOADED", Len(queue) # 1
      PROVE  FALSE
  <2>1. 2 \in DOMAIN queue
    BY <1>1, <1>3
  <2>2. queue[2] \in States /\ Rank[queue[1]] < Rank[queue[2]]
    BY <1>1, <1>2, <2>1 DEF OrderInv
  <2> QED
    BY <1>3, <2>2, RankFacts DEF States, Transient, Steady
<1> QED
  BY <1>1, <1>2, <1>3 DEF OrderInv, InQueue, HasLoaded

\* What a loop can lead to.
LEMMA JudgeGoals ==
  ASSUME GoalInv, pc \in {"pop", "cur"}, UNCHANGED <<op, block>>, NEW s \in States, Judge(s)
  PROVE  /\ GoalInv' /\ pc' \in {"get", "send", "idle"} /\ goal # "none"
         /\ goal' \in {"transient", "end"} =>
              /\ goal \in {"transient", "end"} /\ UNCHANGED err
              /\ goal = "transient" /\ s \notin Transient => goal' = "transient"
         /\ op = "start" /\ (pc' = "send" \/ goal' \in {"steady", "ready"}) =>
              /\ goal \in {"steady", "ready"} /\ UNCHANGED err
              /\ pc' = "send" => s = "LOADED"
         /\ answer' = "ok" /\ pc' = "idle" =>
              \/ goal = "end" /\ s \in EndOf[op]
              \/ goal = "LOADED" /\ s = "LOADED"
              \/ goal = "TX" /\ s = "TX" /\ Known # "TX"
         /\ answer' = "error" /\ pc' = "idle" =>
              goal = "end" /\ (err \/ (op = "start" /\ s = "LOADED"))
<1>1. Polling /\ goal # "none"
  BY DEF GoalInv, Polling
<1>2. CASE goal = "steady"
  <2>1. \/ Poll("steady") /\ UNCHANGED err
        \/ Poll("ready") /\ op = "start" /\ UNCHANGED err
        \/ Send /\ (op = "start" => s = "LOADED") /\ UNCHANGED err
    BY <1>2 DEF Judge
  <2> QED
    BY <1>2, <2>1 DEF Poll, Send, GoalInv, Polling
<1>3. CASE goal = "ready"
  <2>1. UNCHANGED err /\ (Poll("ready") \/ (Send /\ s = "LOADED"))
    BY <1>3 DEF Judge
  <2> QED
    BY <1>3, <2>1 DEF Poll, Send, GoalInv, Polling
<1>4. CASE goal = "transient"
  <2>1. UNCHANGED err /\ ((Poll("end") /\ s \in Transient) \/ Poll("transient"))
    BY <1>4 DEF Judge
  <2> QED
    BY <1>4, <2>1 DEF Poll, GoalInv, Polling
<1>5. CASE goal = "end"
  <2>1. \/ Return("ok") /\ s \in EndOf[op]
        \/ Return("error") /\ (err \/ (op = "start" /\ s = "LOADED"))
        \/ Poll("end") /\ UNCHANGED err
    BY <1>5 DEF Judge
  <2> QED
    BY <1>5, <2>1 DEF Poll, Return, GoalInv, Polling
<1>6. CASE goal = "LOADED"
  <2>1. UNCHANGED err /\ ((Return("ok") /\ s = "LOADED") \/ Poll("LOADED"))
    BY <1>6 DEF Judge
  <2> QED
    BY <1>6, <2>1 DEF Poll, Return, GoalInv, Polling
<1>7. CASE goal = "TX"
  <2>1. /\ UNCHANGED err
        /\ \/ Poll("TX")
           \/ Return("ok") /\ s = "TX" /\ Known # "TX"
           \/ Poll("steady") /\ block
           \/ Send
    BY <1>7 DEF Judge
  <2> QED
    BY <1>7, <2>1 DEF Poll, Send, Return, GoalInv, Polling
<1> QED
  BY <1>1, <1>2, <1>3, <1>4, <1>5, <1>6, <1>7 DEF Judge

\* Nothing that main takes from the queue is put back.
LEMMA LookKeeps ==
  ASSUME TypeOK, AstfInv, AnswerInv, Pop \/ Current
  PROVE  AnswerInv'
<1> USE DEF AnswerInv
<1>1. PICK s \in States :
           /\ Judge(s) /\ mine' = None
           /\ \/ pc = "pop" /\ mine # None /\ s = mine /\ queue' = queue
              \/ /\ pc = "pop" /\ mine = None /\ queue # <<>>
                 /\ s = queue[1] /\ queue' = Tail(queue)
              \/ pc = "cur" /\ mine = None /\ s = Known /\ queue' = queue
           /\ UNCHANGED <<op, block, fresh, stale, cur, spc, seen, wire, srv, reached>>
  BY LookFacts
<1>2. GoalInv' /\ pc' \in {"get", "send", "idle"} /\ goal # "none"
  BY <1>1, JudgeGoals
<1>3. /\ \A x : InQueue(x)' => InQueue(x)
      /\ HasLoaded' => HasLoaded
      /\ queue' = queue \/ (queue # <<>> /\ queue' = Tail(queue))
  <2>1. CASE queue' = queue
    BY <2>1 DEF InQueue, HasLoaded
  <2>2. CASE queue # <<>> /\ queue' = Tail(queue)
    <3>1. \A i \in DOMAIN queue' : i + 1 \in DOMAIN queue /\ queue'[i] = queue[i + 1]
      BY <2>2, TailFacts DEF TypeOK
    <3> QED
      BY <2>2, <3>1 DEF InQueue, HasLoaded
  <2> QED
    BY <1>1, <2>1, <2>2
<1>4. OrderInv'
  <2>1. mine' # "IDLE" /\ ~InQueue("IDLE")'
    BY <1>1, <1>3, NoneAssumption DEF OrderInv, States, Steady
  <2>2. CASE queue' = queue
    BY <1>1, <2>1, <2>2 DEF OrderInv, LastQueued
  <2>3. CASE queue # <<>> /\ queue' = Tail(queue)
    <3>1. /\ Len(queue) \in Nat \ {0} /\ Len(queue') = Len(queue) - 1
          /\ DOMAIN queue = 1..Len(queue) /\ DOMAIN queue' = 1..(Len(queue) - 1)
          /\ \A i \in DOMAIN queue' : i + 1 \in DOMAIN queue /\ queue'[i] = queue[i + 1]
          /\ Len(queue) = 1 => queue' = <<>>
      BY <2>3, TailFacts DEF TypeOK
    <3>2. \A i, j \in DOMAIN queue' : i < j => Rank[queue'[i]] < Rank[queue'[j]]
      BY <3>1 DEF OrderInv
    <3>3. queue' # <<>> => LastQueued' = LastQueued
      <4>1. queue' # <<>> => Len(queue') \in DOMAIN queue'
        BY <3>1
      <4>2. queue' # <<>> => queue'[Len(queue')] = queue[Len(queue)]
        BY <3>1, <4>1
      <4> QED
        BY <4>2 DEF LastQueued
    <3> QED
      BY <1>1, <2>1, <2>3, <3>2, <3>3 DEF OrderInv
  <2> QED
    BY <1>3, <2>2, <2>3
<1>5. NewsInv' /\ GoneInv' /\ HaltInv'
  BY <1>1, <1>2 DEF NewsInv, GoneInv, HaltInv, Asked, Known
<1>6. pc # "off" /\ pc' # "off"
  BY <1>1, <1>2
<1>7. RestInv'
  <2> SUFFICES ASSUME Asked("start")', pc' = "send" \/ goal' \in {"steady", "ready"}
               PROVE  RestInv!2'
    BY DEF RestInv
  <2>1. op = "start" /\ Asked("start")
    BY <1>1, <1>6 DEF Asked
  <2>2. goal \in {"steady", "ready"} /\ UNCHANGED err /\ (pc' = "send" => s = "LOADED")
    BY <1>1, <2>1, JudgeGoals
  <2>3. /\ wire = <<>> /\ spc = "idle" /\ mine = None /\ srv \in {"IDLE", "LOADED"}
        /\ (pc = "cur" => queue = <<>>) /\ (~stale => ~err)
    BY <2>1, <2>2 DEF RestInv
  <2>4. pc' = "send" => queue' = <<>> /\ srv = "LOADED"
    <3>1. CASE pc = "cur"
      BY <1>1, <2>2, <2>3, <3>1, AtRest
    <3>2. CASE pc = "pop"
      BY <1>1, <2>2, <2>3, <3>2, HeadFacts, AtRest
    <3> QED
      BY <1>1, <3>1, <3>2
  <2> QED
    BY <1>1, <1>2, <2>2, <2>3, <2>4
<1>8. RunInv'
  <2> SUFFICES ASSUME Asked("start")', goal' \in {"transient", "end"} PROVE RunInv!2'
    BY DEF RunInv
  <2>1. Asked("start")
    BY <1>1, <1>6 DEF Asked
  <2>2. /\ goal \in {"transient", "end"} /\ UNCHANGED err
        /\ (goal = "transient" /\ s \notin Transient => goal' = "transient")
    BY <1>1, JudgeGoals
  <2>3. ASSUME srv # "LOADED", cur = "LOADED"
        PROVE  goal' = "transient" /\ queue' = <<>>
    <3>1. goal = "transient" /\ queue = <<>> /\ mine = None
      BY <2>1, <2>2, <2>3 DEF RunInv
    <3>2. s = "LOADED" /\ queue' = <<>>
      BY <1>1, <2>3, <3>1, NoneAssumption DEF Known, States, Steady
    <3> QED
      BY <2>2, <3>1, <3>2 DEF Transient
  <2>4. ~reached => cur # "TX" /\ ~InQueue("TX")' /\ ~OnWire("TX")
    BY <1>3, <2>1, <2>2 DEF RunInv
  <2> QED
    BY <1>1, <2>1, <2>2, <2>3, <2>4 DEF RunInv, OnWire
<1>9. LastInv'
  BY <1>1, <1>3, <1>6 DEF LastInv, Asked
<1>10. IndexInv'
  <2>1. Asked("stop") \/ Asked("wait") \/ (Asked("start") /\ block) \/ op = "clear" \/ ~fresh
    BY <1>2, <1>6 DEF GoalInv, Asked, TypeOK
  <2> QED
    BY <1>1, <2>1 DEF IndexInv, LastInv
<1> QED
  BY <1>2, <1>4, <1>5, <1>6, <1>7, <1>8, <1>9, <1>10 DEF SubscriberSurvives

\* What a command sets off on the server.
LEMMA EffectFacts ==
  ASSUME Accept, op \in {"load", "start", "stop", "clear"}
  PROVE  /\ srv' # srv => srv' \in After[srv] /\ srv' \in States /\ srv' # "IDLE"
         /\ op = "start" => srv = "LOADED" /\ srv' = "PARSE" /\ ~reached'
         /\ op = "stop" => srv \in Active /\ srv' # "LOADED"
                          /\ (srv' # srv => srv = "TX" /\ srv' = "CLEANUP")
         /\ op = "clear" => srv = "LOADED" /\ srv' = "DELETE"
         /\ op # "start" => (reached' <=> reached)
<1>1. /\ srv \in DOMAIN Effect[op] /\ srv' = Effect[op][srv]
      /\ reached' = (reached /\ op # "start")
  BY DEF Accept
<1>2. /\ op = "load" => srv \in {"IDLE", "LOADED"} /\ srv' = "LOADED"
      /\ op = "start" => srv = "LOADED" /\ srv' = "PARSE"
      /\ op = "stop" => \/ srv = "TX" /\ srv' = "CLEANUP"
                        \/ srv \in {"PARSE", "BUILD"} /\ srv' = srv
      /\ op = "clear" => srv = "LOADED" /\ srv' = "DELETE"
  <2>1. CASE op = "load"
    BY <1>1, <2>1 DEF Effect
  <2>2. CASE op = "start"
    BY <1>1, <2>2 DEF Effect
  <2>3. CASE op = "stop"
    BY <1>1, <2>3 DEF Effect
  <2>4. CASE op = "clear"
    BY <1>1, <2>4 DEF Effect
  <2> QED
    BY <2>1, <2>2, <2>3, <2>4
<1>3. srv' # srv => srv' \in After[srv] /\ srv' \in States /\ srv' # "IDLE"
  BY <1>2, AfterFacts DEF States, Transient, Steady
<1>4. /\ op = "start" => ~reached'
      /\ op # "start" => (reached' <=> reached)
  BY <1>1, Zenon
<1> QED
  BY <1>2, <1>3, <1>4 DEF Active

LEMMA TransmitKeeps ==
  ASSUME TypeOK, AstfInv, AnswerInv, Transmit
  PROVE  AnswerInv'
<1> USE DEF AnswerInv
<1>1. /\ pc = "send" /\ pc' \in {"get", "idle"}
      /\ UNCHANGED <<op, block, fresh, stale, cur, queue, mine, err, spc, seen>>
      /\ (pc' = "get" /\ goal' = "transient" /\ block /\ op # "load")
         \/ (pc' = "idle" /\ goal' = "none")
  BY DEF Transmit, Poll, Return, sharedVars, subVars
<1>2. op \in {"load", "start", "stop", "clear"} /\ mine = None
  BY <1>1 DEF AstfInv, SendInv, PopInv
<1>3. OrderInv' /\ GoalInv' /\ IndexInv' /\ SubscriberSurvives'
  BY <1>1, <1>2 DEF OrderInv, InQueue, LastQueued, GoalInv, Polling, IndexInv,
     SubscriberSurvives
<1>4. RestInv'
  BY <1>1 DEF RestInv
<1>5. CASE UNCHANGED serverVars /\ (pc' = "idle" \/ op # "start")
  <2>1. UNCHANGED <<wire, srv, reached>>
    BY <1>5 DEF serverVars
  <2>2. NewsInv' /\ HaltInv' /\ GoneInv' /\ LastInv'
    BY <1>1, <2>1 DEF NewsInv, HaltInv, GoneInv, LastInv, Asked, Known, HasLoaded
  <2>3. RunInv'
    BY <1>1, <1>5 DEF RunInv, Asked
  <2> QED
    BY <1>3, <1>4, <2>2, <2>3
<1>6. CASE Accept /\ srv' # srv
  <2>1. /\ srv' \in After[srv] /\ srv' \in States /\ srv' # "IDLE"
        /\ op = "start" => srv = "LOADED" /\ srv' = "PARSE" /\ ~reached'
        /\ op = "stop" => srv = "TX" /\ srv' = "CLEANUP"
        /\ op = "clear" => srv = "LOADED" /\ srv' = "DELETE"
    BY <1>2, <1>6, EffectFacts
  <2>2. PICK e \in Message : /\ wire' = Append(wire, e) /\ e.state = srv'
                             /\ ~e.cleared /\ ~e.error
    <3>1. /\ Event(srv', FALSE) \in Message /\ Event(srv', FALSE).state = srv'
          /\ ~Event(srv', FALSE).error /\ ~Event(srv', FALSE).cleared
      BY <2>1 DEF Event, Message
    <3> QED
      BY <1>6, <3>1 DEF Accept
  <2>3. /\ NewsInv' /\ wire' # <<>> /\ Len(wire) \in Nat /\ Len(wire') = Len(wire) + 1
        /\ DOMAIN wire = 1..Len(wire) /\ DOMAIN wire' = 1..(Len(wire) + 1)
        /\ \A i \in DOMAIN wire : wire'[i] = wire[i]
        /\ wire'[Len(wire) + 1] = e
    BY <1>1, <2>1, <2>2, PublishKeeps
  <2>4. Asked("stop")' \/ Asked("wait")' \/ Asked("start")' \/ Asked("clear")'
        => Asked(op)
    BY <1>1 DEF Asked
  <2>5. RunInv'
    <3> SUFFICES ASSUME Asked("start")', goal' \in {"transient", "end"} PROVE RunInv!2'
      BY DEF RunInv
    <3>1. Asked("start") /\ goal' = "transient" /\ block /\ op = "start"
      BY <1>1 DEF Asked
    <3>2. wire = <<>> /\ queue = <<>> /\ (~stale => ~err)
      BY <1>1, <3>1 DEF RestInv
    <3>3. cur = "LOADED"
      BY <2>1, <3>1, <3>2, AtRest DEF Known
    <3>4. DOMAIN wire' = {1} /\ wire'[1] = e
      BY <2>3, <3>2
    <3> QED
      BY <1>1, <1>2, <2>1, <2>2, <3>1, <3>2, <3>3, <3>4 DEF OnWire, InQueue, Active
  <2>6. HaltInv'
    <3>1. Asked("stop")' \/ Asked("wait")' => Asked("stop") /\ op = "stop"
      BY <1>1, <1>2 DEF Asked
    <3> QED
      BY <1>1, <1>2, <2>1, <3>1, AtRest DEF HaltInv, Known
  <2>7. LastInv'
    <3>1. CASE Asked("stop")' \/ Asked("wait")'
      <4>1. Asked("stop") /\ srv = "TX" /\ srv' = "CLEANUP"
        BY <1>1, <1>2, <2>1, <3>1 DEF Asked
      <4>2. ~HasLoaded /\ ~(spc # "idle" /\ seen = "LOADED") /\ spc # "last"
            /\ \A i \in DOMAIN wire : wire[i].state \notin {"IDLE", "LOADED"}
        BY <4>1, AtRest DEF LastInv
      <4>3. \A i \in DOMAIN wire' : wire'[i].state \notin {"IDLE", "LOADED"}
        BY <2>2, <2>3, <4>1, <4>2
      <4> QED
        BY <1>1, <4>2, <4>3 DEF LastInv, HasLoaded
    <3>2. CASE Asked("start")' /\ block'
      <4>1. Asked("start") /\ block /\ srv' = "PARSE"
        BY <1>1, <2>1, <3>2 DEF Asked
      <4>2. wire = <<>> /\ queue = <<>> /\ spc = "idle"
        BY <1>1, <4>1 DEF RestInv
      <4>3. DOMAIN wire' = {1} /\ wire'[1] = e
        BY <2>3, <4>2
      <4> QED
        BY <1>1, <2>2, <4>1, <4>2, <4>3 DEF LastInv, HasLoaded
    <3> QED
      BY <3>1, <3>2 DEF LastInv
  <2>8. GoneInv'
    <3>1. ASSUME Asked("clear")'
          PROVE  GoneInv!2'
      <4>1. Asked("clear") /\ srv = "LOADED" /\ srv' = "DELETE"
        BY <1>1, <2>1, <3>1 DEF Asked
      <4>2. Known # "IDLE" /\ \A i \in DOMAIN wire : wire[i].state # "IDLE"
        BY <4>1, AtRest DEF GoneInv
      <4>3. \A i \in DOMAIN wire' : wire'[i].state # "IDLE"
        BY <2>2, <2>3, <4>1, <4>2
      <4> QED
        BY <1>1, <4>2, <4>3 DEF Known
    <3> QED
      BY <3>1 DEF GoneInv
  <2> QED
    BY <1>3, <1>4, <2>3, <2>5, <2>6, <2>7, <2>8
<1>7. Refuse => UNCHANGED serverVars /\ pc' = "idle"
  <2>1. Refuse => ~Accept
    BY DEF Refuse, Accept
  <2> QED
    BY <2>1 DEF Refuse, Transmit, Return
<1>8. Accept /\ srv' = srv => UNCHANGED serverVars /\ op # "start"
  BY <1>2, EffectFacts DEF Accept, serverVars, TypeOK
<1> QED
  BY <1>5, <1>6, <1>7, <1>8 DEF Transmit

\* A command is told apart by what was on its way when it was given.
LEMMA CallKeeps ==
  ASSUME TypeOK, AstfInv, AnswerInv, Load \/ Start \/ Stop \/ Clear \/ Wait
  PROVE  AnswerInv'
<1> USE DEF AnswerInv
<1>1. PICK cmd \in {"load", "start", "stop", "clear", "wait"} : Call(cmd) /\ op' = cmd
  BY DEF Load, Start, Stop, Clear, Wait, Call
<1>2. /\ pc = "idle" /\ (fresh' <=> wire = <<>> /\ spc = "idle") /\ (stale' <=> err)
      /\ UNCHANGED <<queue, mine, err, spc, seen, wire, srv, reached>>
  BY <1>1 DEF Call, subVars, serverVars
<1>3. mine = None
  BY <1>2 DEF AstfInv, PopInv
<1>4. cur' = cur \/ (op' = "start" /\ cur = None /\ cur' = "IDLE")
  BY DEF Load, Start, Stop, Clear, Wait, Call, Known
<1>5. /\ (pc' = "get" /\ goal' \in {"steady", "TX", "LOADED"})
         \/ (pc' \in {"send", "idle"} /\ goal' = "none")
      /\ goal' = "steady" => block' /\ op' \in {"start", "stop", "clear"}
      /\ goal' = "TX" <=> op' = "stop" /\ goal' = "TX"
      /\ op' = "wait" <=> goal' = "LOADED"
      /\ op' = "start" /\ pc' # "idle" => Known \in {"IDLE", "LOADED"}
      /\ op' = "start" /\ pc' = "send" => ~block'
  BY DEF Load, Start, Stop, Clear, Wait, Call, Poll, Send, Return
<1>6. GoalInv' /\ SubscriberSurvives'
  BY <1>5 DEF GoalInv, Polling, SubscriberSurvives
<1>7. Known' = Known
  BY <1>4, NoneAssumption DEF Known, States, Steady
<1>8. NewsInv'
  BY <1>2, <1>4, <1>7, NoneAssumption DEF NewsInv, TypeOK
<1>9. OrderInv'
  <2>1. queue # <<>> /\ spc = "idle" => cur # None
    <3>1. queue # <<>> => LastQueued \in States
      BY DEF LastQueued, TypeOK
    <3> QED
      BY <3>1, NoneAssumption DEF OrderInv
  <2> QED
    BY <1>2, <1>4, <2>1 DEF OrderInv, InQueue, LastQueued
<1>10. IndexInv' /\ GoneInv' /\ HaltInv'
  BY <1>2, <1>3 DEF IndexInv, GoneInv, HaltInv, Asked
<1>11. LastInv'
  BY <1>2 DEF LastInv, Asked
<1>12. RestInv'
  <2> SUFFICES ASSUME Asked("start")', pc' = "send" \/ goal' \in {"steady", "ready"}
               PROVE  RestInv!2'
    BY DEF RestInv
  <2>1. wire = <<>> /\ spc = "idle" /\ op' = "start"
    BY <1>2 DEF Asked
  <2>2. srv \in {"IDLE", "LOADED"}
    BY <1>5, <2>1 DEF NewsInv
  <2> QED
    BY <1>2, <1>3, <1>5, <2>1, <2>2
<1>13. RunInv'
  BY <1>5 DEF RunInv
<1> QED
  BY <1>6, <1>8, <1>9, <1>10, <1>11, <1>12, <1>13

-----------------------------------------------------------------------------
LEMMA AnswersInductive ==
  ASSUME TypeOK, AstfInv, AnswerInv, [Next]_vars
  PROVE  AnswerInv'
<1>1. CASE Next
  BY <1>1, CallKeeps, GetKeeps, LookKeeps, TransmitKeeps, TimeOutKeeps, SubscriberKeeps,
     ServerKeeps DEF Next, Main
<1>2. CASE UNCHANGED vars
  <2>1. /\ UNCHANGED <<op, block, goal, fresh, stale, pc, cur, queue, mine, err, spc, seen>>
        /\ UNCHANGED <<wire, srv, reached>>
    BY <1>2 DEF vars, callVars, sharedVars, subVars, serverVars
  <2>2. (NewsInv /\ OrderInv /\ GoalInv => NewsInv' /\ OrderInv' /\ GoalInv')
    BY <2>1 DEF NewsInv, OrderInv, GoalInv, InQueue, LastQueued, Polling, Known
  <2>3. (RestInv /\ RunInv /\ HaltInv => RestInv' /\ RunInv' /\ HaltInv')
    BY <2>1 DEF RestInv, RunInv, HaltInv, Asked, InQueue, OnWire, Known
  <2>4. (LastInv /\ GoneInv /\ IndexInv => LastInv' /\ GoneInv' /\ IndexInv')
    BY <2>1 DEF LastInv, GoneInv, IndexInv, Asked, HasLoaded, Known
  <2> QED
    BY <2>1, <2>2, <2>3, <2>4 DEF AnswerInv, SubscriberSurvives
<1> QED
  BY <1>1, <1>2

LEMMA AnswersInitial == Init => AnswerInv
<1> SUFFICES ASSUME Init PROVE AnswerInv
  OBVIOUS
<1>1. /\ op = "none" /\ pc = "idle" /\ goal = "none" /\ cur = "IDLE" /\ queue = <<>>
      /\ mine = None /\ spc = "idle" /\ wire = <<>> /\ srv = "IDLE"
  BY DEF Init
<1>2. NewsInv /\ OrderInv /\ GoalInv
  BY <1>1, NoneAssumption DEF NewsInv, OrderInv, GoalInv, InQueue, Polling, Known, States, Steady
<1>3. RestInv /\ RunInv /\ HaltInv /\ LastInv /\ GoneInv /\ IndexInv
  BY <1>1 DEF RestInv, RunInv, HaltInv, LastInv, GoneInv, IndexInv, Asked
<1> QED
  BY <1>1, <1>2, <1>3 DEF AnswerInv, SubscriberSurvives

\* What main can still see of a profile, in the queue, among the events under
\* way and in the last known state, is the run its command is about.
THEOREM AnswersInvariant == Spec => []AnswerInv
<1>1. TypeOK /\ AstfInv /\ AnswerInv /\ [Next]_vars => (TypeOK /\ AstfInv /\ AnswerInv)'
  BY Inductive, AnswersInductive
<1> QED
  BY Initial, AnswersInitial, <1>1, PTL DEF Spec

\* The subscriber does not index an empty list, unless the client is told to
\* clear a profile or has events on its way when a command is given.
THEOREM SubscriberGoesOn == Spec => []SubscriberSurvives
<1>1. AnswerInv => SubscriberSurvives
  BY DEF AnswerInv
<1> QED
  BY AnswersInvariant, <1>1, PTL

\* Where a command can return from.
LEMMA ReturnFacts ==
  ASSUME TypeOK, AstfInv, AnswerInv, [Next]_vars, pc # "idle", pc' = "idle", answer' \in {"ok", "error"}
  PROVE  \/ Pop \/ Current
         \/ TimeOut /\ goal = "ready" /\ answer' = "error"
         \/ pc = "send" /\ Refuse /\ answer' = "error"
         \/ pc = "send" /\ answer' = "ok" /\ (op = "load" \/ ~block)
<1>1. Next
  BY DEF vars
<1>2. ~(Load \/ Start \/ Stop \/ Clear \/ Wait)
  BY DEF Load, Start, Stop, Clear, Wait, Call
<1>3. ~(Take \/ Test \/ DropOld \/ Enqueue \/ Cleared \/ GoesOn \/ StartFails)
  BY DEF Take, Test, DropOld, Enqueue, Cleared, GoesOn, StartFails
<1>4. ~SubscriberCrash /\ ~Get
  BY DEF SubscriberCrash, Get
<1>5. TimeOut => goal = "ready" /\ answer' = "error"
  BY DEF TimeOut, Return
<1>6. Transmit => /\ pc = "send"
                  /\ \/ Refuse /\ answer' = "error"
                     \/ answer' = "ok" /\ (op = "load" \/ ~block)
  BY DEF Transmit, Poll, Return
<1> QED
  BY <1>1, <1>2, <1>3, <1>4, <1>5, <1>6 DEF Next, Main, Subscriber

\* What main looks at when it is the end of a run.
LEMMA EndFacts ==
  ASSUME TypeOK, AstfInv, AnswerInv, Pop \/ Current, NEW s \in {"IDLE", "LOADED"},
         \/ pc = "pop" /\ mine # None /\ s = mine
         \/ pc = "pop" /\ mine = None /\ queue # <<>> /\ s = queue[1]
         \/ pc = "cur" /\ mine = None /\ s = Known
  PROVE  /\ Asked("stop") \/ Asked("wait") => srv \notin Active
         /\ Asked("start") /\ goal = "end" /\ s = "LOADED" => srv \notin Active
         /\ Asked("clear") /\ s = "IDLE" => srv = "IDLE"
<1> USE DEF AnswerInv
<1>1. CASE mine # None
  BY <1>1, NoneAssumption DEF HaltInv, RunInv, Asked, OrderInv
<1>2. CASE pc = "pop" /\ mine = None
  <2>1. s = "LOADED" /\ HasLoaded /\ queue # <<>>
    BY <1>2, HeadFacts
  <2>2. Asked("stop") \/ Asked("wait") \/ (Asked("start") /\ goal = "end") => srv = "LOADED"
    BY <2>1, AtRest DEF LastInv, GoalInv
  <2> QED
    BY <2>1, <2>2 DEF Active
<1>3. CASE pc = "cur" /\ mine = None
  <2>1. s = Known
    BY <1>3
  <2>2. Asked("stop") \/ Asked("wait") => srv = Known
    BY <2>1, AtRest DEF HaltInv
  <2>3. Asked("start") /\ goal = "end" /\ s = "LOADED" => srv = "LOADED"
    BY <2>1 DEF RunInv, Known
  <2>4. Asked("clear") /\ s = "IDLE" => srv = "IDLE"
    BY <2>1, AtRest DEF GoneInv
  <2> QED
    BY <2>1, <2>2, <2>3, <2>4 DEF Active
<1> QED
  BY <1>1, <1>2, <1>3

\* A TX that main finds after the client knows of a later state: the run is over.
LEMMA PastFacts ==
  ASSUME TypeOK, AstfInv, AnswerInv, Asked("stop"), mine = None, queue # <<>>,
         queue[1] = "TX", Known # "TX"
  PROVE  srv \notin Active
<1> USE DEF AnswerInv
<1>1. /\ queue \in Seq(States) /\ Len(queue) \in Nat \ {0} /\ DOMAIN queue = 1..Len(queue)
      /\ LastQueued \in States
  BY TailFacts DEF TypeOK, LastQueued
<1>2. LastQueued \in {"TX", "CLEANUP", "LOADED"}
  <2>1. CASE Len(queue) = 1
    BY <2>1 DEF LastQueued
  <2>2. CASE Len(queue) # 1
    <3>1. Rank["TX"] < Rank[LastQueued]
      BY <1>1, <2>2 DEF OrderInv, LastQueued
    <3> QED
      BY <1>1, <3>1, RankFacts DEF States, Transient, Steady
  <2> QED
    BY <2>1, <2>2
<1>3. Known \in {"CLEANUP", "LOADED"}
  <2>1. CASE spc = "idle"
    <3>1. Known = LastQueued
      BY <1>1, <2>1, NoneAssumption DEF OrderInv, Known
    <3> QED
      BY <1>2, <3>1
  <2>2. CASE spc # "idle"
    <3>1. ~HasLoaded
      BY <2>2 DEF LastInv
    <3>2. LastQueued # "LOADED"
      BY <1>1, <3>1 DEF HasLoaded, LastQueued
    <3>3. cur \in {"CLEANUP", "LOADED"}
      BY <1>2, <2>2, <3>2, AfterFacts DEF OrderInv, NewsInv
    <3> QED
      BY <3>3, NoneAssumption DEF Known, States, Transient, Steady
  <2> QED
    BY <2>1, <2>2
<1>4. CASE wire = <<>>
  BY <1>3, <1>4, AtRest DEF Active
<1>5. CASE wire # <<>>
  <2>1. Known = "CLEANUP"
    BY <1>3, <1>5 DEF HaltInv
  <2>2. 1 \in DOMAIN wire /\ wire[1].state = "LOADED"
    BY <1>5, <2>1, TailFacts, AfterFacts DEF NewsInv, TypeOK
  <2>3. srv = "LOADED"
    BY <2>2, AtRest DEF LastInv
  <2> QED
    BY <2>3 DEF Active
<1> QED
  BY <1>4, <1>5

-----------------------------------------------------------------------------
(* The answers.                                                             *)

LEMMA TrueAnswer ==
  ASSUME TypeOK, AstfInv, AnswerInv, [Next]_vars, fresh, pc # "idle", pc' = "idle",
         NEW a \in {"ok", "error"}, answer' = a
  PROVE  /\ op = "start" /\ block /\ a = "ok" => reached
         /\ op = "start" /\ block /\ a = "error" /\ ~stale => srv \notin Active
         /\ op = "stop" /\ block /\ a = "ok" => srv \notin Active
         /\ op = "clear" /\ block /\ a = "ok" => srv = "IDLE"
         /\ op = "wait" /\ a = "ok" => srv \notin Active
<1> USE DEF AnswerInv
<1>1. CASE Pop \/ Current
  <2>1. PICK s \in States :
           /\ Judge(s) /\ mine' = None
           /\ \/ pc = "pop" /\ mine # None /\ s = mine /\ queue' = queue
              \/ /\ pc = "pop" /\ mine = None /\ queue # <<>>
                 /\ s = queue[1] /\ queue' = Tail(queue)
              \/ pc = "cur" /\ mine = None /\ s = Known /\ queue' = queue
           /\ UNCHANGED <<op, block, fresh, stale, cur, spc, seen, wire, srv, reached>>
    BY <1>1, LookFacts
  <2>2. /\ a = "ok" => \/ goal = "end" /\ s \in EndOf[op]
                       \/ goal = "LOADED" /\ s = "LOADED"
                       \/ goal = "TX" /\ s = "TX" /\ Known # "TX"
        /\ a = "error" => goal = "end" /\ (err \/ (op = "start" /\ s = "LOADED"))
    BY <2>1, JudgeGoals
  <2>3. pc # "off"
    BY <2>1
  <2>4. s \in {"IDLE", "LOADED"} =>
          /\ Asked("stop") \/ Asked("wait") => srv \notin Active
          /\ Asked("start") /\ goal = "end" /\ s = "LOADED" => srv \notin Active
          /\ Asked("clear") /\ s = "IDLE" => srv = "IDLE"
    BY <1>1, <2>1, EndFacts
  <2>5. ASSUME op = "start", block, a = "ok"
        PROVE  reached
    <3>1. Asked("start") /\ goal = "end" /\ s = "TX"
      BY <2>2, <2>3, <2>5 DEF Asked, EndOf, GoalInv
    <3>2. mine = None /\ (~reached => cur # "TX" /\ ~InQueue("TX"))
      BY <3>1 DEF RunInv
    <3>3. cur = "TX" \/ InQueue("TX")
      BY <2>1, <3>1, <3>2, HeadFacts DEF Known
    <3> QED
      BY <3>2, <3>3
  <2>6. ASSUME op = "start", block, a = "error", ~stale
        PROVE  srv \notin Active
    <3>1. Asked("start") /\ goal = "end" /\ (err \/ s = "LOADED")
      BY <2>2, <2>3, <2>6 DEF Asked
    <3>2. err => srv = "LOADED"
      BY <2>6, <3>1 DEF RunInv
    <3> QED
      BY <2>4, <3>1, <3>2 DEF Active
  <2>7. ASSUME op = "stop", block, a = "ok"
        PROVE  srv \notin Active
    <3>1. Asked("stop")
      BY <2>3, <2>7 DEF Asked
    <3>2. \/ s \in {"IDLE", "LOADED"}
          \/ s = "TX" /\ Known # "TX"
      BY <2>2, <2>7 DEF EndOf, GoalInv
    <3>3. CASE s \in {"IDLE", "LOADED"}
      BY <2>4, <3>1, <3>3
    <3>4. CASE s = "TX" /\ Known # "TX"
      <4>1. CASE mine # None
        BY <3>1, <4>1 DEF HaltInv
      <4>2. CASE mine = None
        BY <2>1, <3>1, <3>4, <4>2, PastFacts
      <4> QED
        BY <4>1, <4>2
    <3> QED
      BY <3>2, <3>3, <3>4
  <2>8. ASSUME op = "clear", block, a = "ok"
        PROVE  srv = "IDLE"
    <3>1. Asked("clear") /\ s = "IDLE"
      BY <2>2, <2>3, <2>8 DEF Asked, EndOf, GoalInv
    <3> QED
      BY <2>4, <3>1
  <2>9. ASSUME op = "wait", a = "ok"
        PROVE  srv \notin Active
    <3>1. Asked("wait") /\ s = "LOADED"
      BY <2>2, <2>3, <2>9 DEF Asked, GoalInv
    <3> QED
      BY <2>4, <3>1
  <2> QED
    BY <2>5, <2>6, <2>7, <2>8, <2>9
<1>2. CASE TimeOut /\ goal = "ready" /\ answer' = "error"
  <2>1. pc = "get"
    BY <1>2 DEF TimeOut
  <2> QED
    BY <1>2, <2>1 DEF RestInv, Asked, Active
<1>3. CASE pc = "send" /\ answer' = "error"
  BY <1>3 DEF RestInv, Asked, Active
<1>4. CASE pc = "send" /\ answer' = "ok" /\ (op = "load" \/ ~block)
  BY <1>4 DEF GoalInv
<1> QED
  BY <1>1, <1>2, <1>3, <1>4, ReturnFacts

LEMMA TrueAnswers ==
  TypeOK /\ AstfInv /\ AnswerInv /\ [Next]_vars =>
    /\ Returns("start", "ok") /\ block /\ fresh => reached
    /\ Returns("start", "error") /\ block /\ fresh /\ ~stale => srv \notin Active
    /\ Returns("stop", "ok") /\ block /\ fresh => srv \notin Active
    /\ Returns("clear", "ok") /\ block /\ fresh => srv = "IDLE"
    /\ Returns("wait", "ok") /\ fresh => srv \notin Active
  BY TrueAnswer DEF Returns

\* A blocking start() given with no event on its way, which polled or was sent
\* and returns, has seen this run transmit, for any number of earlier runs.
THEOREM StartAnswers == Spec => StartIsTrue
<1>1. TypeOK /\ AstfInv /\ AnswerInv /\ [Next]_vars
        => [Returns("start", "ok") /\ block /\ fresh => reached]_vars
  BY TrueAnswers
<1> QED
  BY TypeCorrect, QueueOrder, AnswersInvariant, <1>1, PTL DEF Spec, StartIsTrue

\* One that raises leaves nothing transmitting, unless it reports the error of
\* an earlier command.  A start() refused at once is not one of these.
THEOREM FailureAnswers == Spec => FailIsTrue
<1>1. TypeOK /\ AstfInv /\ AnswerInv /\ [Next]_vars
        => [Returns("start", "error") /\ block /\ fresh /\ ~stale => srv \notin Active]_vars
  BY TrueAnswers
<1> QED
  BY TypeCorrect, QueueOrder, AnswersInvariant, <1>1, PTL DEF Spec, FailIsTrue

\* When a blocking stop() given with no event on its way has polled or was sent,
\* and returns, the profile has stopped, even if the stop waited for a run to
\* transmit and found that it had.
THEOREM StopAnswers == Spec => StopIsTrue
<1>1. TypeOK /\ AstfInv /\ AnswerInv /\ [Next]_vars
        => [Returns("stop", "ok") /\ block /\ fresh => srv \notin Active]_vars
  BY TrueAnswers
<1> QED
  BY TypeCorrect, QueueOrder, AnswersInvariant, <1>1, PTL DEF Spec, StopIsTrue

\* When a blocking clear_profile() given with no event on its way has polled or
\* was sent, and returns, the profile is gone.  One that returns at once, as the
\* profile is active, is not one of these.
THEOREM ClearAnswers == Spec => ClearIsTrue
<1>1. TypeOK /\ AstfInv /\ AnswerInv /\ [Next]_vars
        => [Returns("clear", "ok") /\ block /\ fresh => srv = "IDLE"]_vars
  BY TrueAnswers
<1> QED
  BY TypeCorrect, QueueOrder, AnswersInvariant, <1>1, PTL DEF Spec, ClearIsTrue

\* A wait_on_traffic() given with no event on its way returns when the run is
\* over.
THEOREM WaitAnswers == Spec => WaitIsTrue
<1>1. TypeOK /\ AstfInv /\ AnswerInv /\ [Next]_vars
        => [Returns("wait", "ok") /\ fresh => srv \notin Active]_vars
  BY TrueAnswers
<1> QED
  BY TypeCorrect, QueueOrder, AnswersInvariant, <1>1, PTL DEF Spec, WaitIsTrue
=============================================================================
