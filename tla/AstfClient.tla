----------------------------- MODULE AstfClient -----------------------------
(***************************************************************************)
(* The stateful client (trex_astf_client.py) and one of its profiles.      *)
(*                                                                         *)
(* The server answers a command at once and carries it out later.  It      *)
(* publishes each state the profile goes through; the subscriber thread    *)
(* queues these, and a blocking command takes them from the queue until it *)
(* has seen the end of what it asked for.  There is no lock: the two       *)
(* threads share the queue, the last known state and the last error.       *)
(***************************************************************************)
EXTENDS Integers, Sequences

CONSTANTS None,
          Blocks,    \* what `block` may be, a set of Booleans
          MaxCalls   \* bound on the commands

ASSUME BlocksAssumption == Blocks \subseteq BOOLEAN
ASSUME BoundsAssumption == MaxCalls \in Nat

Transient == {"PARSE", "BUILD", "CLEANUP", "DELETE"}
Steady    == {"IDLE", "LOADED", "TX"}
States    == Transient \cup Steady
Active    == {"PARSE", "BUILD", "TX"}

ASSUME NoneAssumption == None \notin States

VARIABLES
  op,      \* the command given last: "none", "load", "start", "stop", "wait", "clear"
  block,   \* whether it blocks
  answer,  \* what it returned: "none", "ok", "error"
  pc,      \* main: "idle", "get" (test the queue), "pop" or "cur" (take a state
           \* from it, or the last known one), "send", "off" (killed)
  goal,    \* what it polls for: "steady", "ready", "transient", "end", "TX", "LOADED"
  calls,   \* commands given
  cur,     \* astf_profile_state; None when the profile is not there
  queue,   \* profile_state_change
  mine,    \* the head of a list that was replaced between "get" and "pop"
  err,     \* last_profile_error is set
  spc,     \* subscriber: "idle", "test", "last", "append"
  seen,    \* the state it handles
  wire,    \* events on their way (external)
  srv,     \* the profile on the server (external)
  reached, \* it has transmitted since the last start was accepted (history)
  fresh,   \* when the command was given no event was on its way (history)
  stale    \* an error of an earlier command had not been reported (history)

callVars   == <<op, block, answer, goal, calls, fresh, stale>>
sharedVars == <<cur, queue, mine, err>>
subVars    == <<spc, seen>>
serverVars == <<wire, srv, reached>>
vars == <<callVars, pc, sharedVars, subVars, serverVars>>

Known == IF cur = None THEN "IDLE" ELSE cur    \* _get_profile_state

-----------------------------------------------------------------------------
(* The server (external).                                                   *)

Event(s, e) == [state |-> s, error |-> e, cleared |-> FALSE]
Removal     == [state |-> "IDLE", error |-> FALSE, cleared |-> TRUE]

\* The profile's own course.
Goes == [PARSE |-> "BUILD", BUILD |-> "TX", TX |-> "CLEANUP", CLEANUP |-> "LOADED",
         DELETE |-> "IDLE"]

GoesOn ==
  /\ srv \in DOMAIN Goes /\ srv' = Goes[srv]
  /\ wire' = Append(wire, IF srv = "DELETE" THEN Removal ELSE Event(srv', FALSE))
  /\ reached' = (reached \/ srv' = "TX")
  /\ UNCHANGED <<callVars, pc, sharedVars, subVars>>

\* It cannot be parsed or built.
StartFails ==
  /\ srv \in {"PARSE", "BUILD"} /\ srv' = "LOADED"
  /\ wire' = Append(wire, Event("LOADED", TRUE))
  /\ UNCHANGED <<callVars, pc, sharedVars, subVars, reached>>

\* What a command does when it is accepted.  "'stop' will be silently ignored
\* in server-side PARSE/BUILD state".
Effect == [load  |-> [IDLE |-> "LOADED", LOADED |-> "LOADED"],
           start |-> [LOADED |-> "PARSE"],
           stop  |-> [TX |-> "CLEANUP", PARSE |-> "PARSE", BUILD |-> "BUILD"],
           clear |-> [LOADED |-> "DELETE"]]

Accept ==
  /\ srv \in DOMAIN Effect[op] /\ srv' = Effect[op][srv]
  /\ wire' = IF srv' = srv THEN wire ELSE Append(wire, Event(srv', FALSE))
  /\ reached' = (reached /\ op # "start")

Refuse == srv \notin DOMAIN Effect[op] /\ UNCHANGED serverVars

-----------------------------------------------------------------------------
(* The subscriber thread.                                                   *)

\* _on_astf_profile_state_chg: the error and the state are stored, ...
Take ==
  /\ spc = "idle" /\ wire # <<>> /\ ~Head(wire).cleared
  /\ wire' = Tail(wire) /\ seen' = Head(wire).state
  /\ cur' = seen' /\ err' = (err \/ Head(wire).error)
  /\ spc' = IF seen' \in {"IDLE", "LOADED"} THEN "append" ELSE "test"
  /\ UNCHANGED <<callVars, pc, queue, mine, srv, reached>>

\* ... what the queue has of an earlier run is dropped ...
Test ==
  /\ spc = "test"
  /\ spc' = IF \E i \in DOMAIN queue : queue[i] = "LOADED" THEN "last" ELSE "append"
  /\ UNCHANGED <<callVars, pc, sharedVars, seen, serverVars>>

Replace_None ==  \* seeded bug: the list is removed, not emptied
  /\ queue' = None /\ mine' = IF pc = "pop" /\ mine = None THEN Head(queue) ELSE mine

\* (the list that main has tested and not yet popped from is main's alone now)
Replace ==
  /\ queue' = <<>>
  /\ mine' = IF pc = "pop" /\ mine = None THEN Head(queue) ELSE mine

DropOld_Never ==  \* seeded bug: the queue is never cleaned
  /\ spc = "last" /\ queue # <<>> /\ UNCHANGED <<queue, mine>>
  /\ spc' = "append"
  /\ UNCHANGED <<callVars, pc, cur, err, seen, serverVars>>

\* A LOADED in the queue is its last entry (QueueInv).
DropOld ==
  /\ spc = "last" /\ queue # <<>> /\ Replace
  /\ spc' = "append"
  /\ UNCHANGED <<callVars, pc, cur, err, seen, serverVars>>

\* Main has popped it since the test: IndexError, and SIGTERM.
SubscriberCrash ==
  /\ spc = "last" /\ queue = <<>>
  /\ spc' = "idle" /\ pc' = "off"
  /\ UNCHANGED <<callVars, sharedVars, seen, serverVars>>

\* ... and the state is queued.
Enqueue ==
  /\ spc = "append" /\ spc' = "idle"
  /\ queue' = Append(queue, seen)
  /\ UNCHANGED <<callVars, pc, cur, mine, err, seen, serverVars>>

Cleared_Keeps ==  \* seeded bug: what the queue has of the profile stays there
  /\ spc = "idle" /\ wire # <<>> /\ Head(wire).cleared
  /\ wire' = Tail(wire) /\ cur' = None
  /\ UNCHANGED <<callVars, pc, queue, mine, err, subVars, srv, reached>>

\* _on_astf_profile_cleared
Cleared ==
  /\ spc = "idle" /\ wire # <<>> /\ Head(wire).cleared
  /\ wire' = Tail(wire) /\ cur' = None
  /\ IF queue # <<>> THEN Replace ELSE UNCHANGED <<queue, mine>>
  /\ UNCHANGED <<callVars, pc, err, subVars, srv, reached>>

Subscriber ==
  pc # "off" /\ (Take \/ Test \/ DropOld \/ SubscriberCrash \/ Enqueue \/ Cleared)

-----------------------------------------------------------------------------
(* Main: a command is given.                                                *)

Call(cmd) ==
  /\ pc = "idle" /\ calls < MaxCalls
  /\ op' = cmd /\ calls' = calls + 1 /\ block' \in Blocks
  /\ fresh' = (wire = <<>> /\ spc = "idle") /\ stale' = err
  /\ UNCHANGED <<queue, mine, err, subVars, serverVars>>

Poll(g)   == pc' = "get" /\ goal' = g /\ answer' = "none"
Send      == pc' = "send" /\ goal' = "none" /\ answer' = "none"
Return(a) == pc' = "idle" /\ goal' = "none" /\ answer' = a

\* (the profile is given as an object)
Load == Call("load") /\ Send /\ UNCHANGED cur

Start_Hasty ==  \* seeded bug: the queue is not read up to now before the command
  /\ Call("start")
  /\ \/ Known \in {"IDLE", "LOADED"} /\ cur' = Known /\ Send
     \/ Known \notin {"IDLE", "LOADED"} /\ Return("error") /\ UNCHANGED cur

\* validate_profile_id_input makes a profile known that is not.
Start ==
  /\ Call("start")
  /\ \/ /\ Known \in {"IDLE", "LOADED"} /\ cur' = Known
        /\ IF block' THEN Poll("steady") ELSE Send
     \/ Known \notin {"IDLE", "LOADED"} /\ Return("error") /\ UNCHANGED cur

\* A run that is being prepared is stopped when it transmits.
Stop ==
  /\ Call("stop") /\ UNCHANGED cur
  /\ \/ cur = None /\ Return("error")
     \/ cur \in {"PARSE", "BUILD"} /\ Poll("TX")
     \/ cur = "TX" /\ IF block' THEN Poll("steady") ELSE Send
     \/ cur \in States \ Active /\ Return("ok")

Clear ==
  /\ Call("clear") /\ UNCHANGED cur
  /\ \/ cur = None /\ Return("error")
     \/ cur \in {"IDLE", "LOADED"} /\ IF block' /\ cur = "LOADED" THEN Poll("steady") ELSE Send
     \/ cur \in States \ {"IDLE", "LOADED"} /\ Return("ok")

\* wait_on_traffic, of a profile.
Wait == Call("wait") /\ Poll("LOADED") /\ UNCHANGED cur

-----------------------------------------------------------------------------
(* Main: the loops of a command.                                            *)

Get_NoQueue ==  \* seeded bug: only the last known state is looked at
  /\ pc = "get" /\ pc' = "cur"
  /\ UNCHANGED <<callVars, sharedVars, subVars, serverVars>>

\* __get_profile_state_with_change
Get ==
  /\ pc = "get" /\ pc' = IF queue # <<>> THEN "pop" ELSE "cur"
  /\ UNCHANGED <<callVars, sharedVars, subVars, serverVars>>

EndOf_Lax == \* seeded bug: the states that end a stop also end a clear
  [start |-> {"TX"}, stop |-> {"IDLE", "LOADED"}, clear |-> {"IDLE", "LOADED"}]

EndOf == [start |-> {"TX"}, stop |-> {"IDLE", "LOADED"}, clear |-> {"IDLE"}]

\* What is made of a state.
Judge(s) ==
  \/ /\ goal = "steady" /\ UNCHANGED err
     /\ IF s \in Transient THEN Poll("steady")
        ELSE IF op = "start" /\ s # "LOADED" THEN Poll("ready") ELSE Send
  \/ /\ goal = "ready" /\ UNCHANGED err
     /\ IF s = "LOADED" THEN Send ELSE Poll("ready")
  \/ /\ goal = "transient" /\ UNCHANGED err
     /\ Poll(IF s \in Transient THEN "end" ELSE "transient")
  \/ /\ goal = "end" /\ s \in EndOf[op]
     /\ Return("ok") /\ UNCHANGED err
  \/ /\ goal = "end" /\ s \notin EndOf[op]
     /\ IF err \/ (op = "start" /\ s = "LOADED") THEN Return("error") /\ err' = FALSE
        ELSE Poll("end") /\ UNCHANGED err
  \/ /\ goal = "LOADED" /\ UNCHANGED err
     /\ IF s = "LOADED" THEN Return("ok") ELSE Poll("LOADED")
  \/ /\ goal = "TX" /\ UNCHANGED err
     /\ IF s # "TX" THEN Poll("TX")
        ELSE IF Known # "TX" THEN Return("ok")
        ELSE IF block THEN Poll("steady") ELSE Send

LookOnly ==  \* of the variables that Judge leaves alone
  UNCHANGED <<op, block, calls, fresh, stale, cur, subVars, serverVars>>

Pop ==
  /\ pc = "pop"
  /\ Judge(IF mine # None THEN mine ELSE Head(queue))
  /\ IF mine # None THEN mine' = None /\ UNCHANGED queue
     ELSE queue' = Tail(queue) /\ UNCHANGED mine
  /\ LookOnly

Current == pc = "cur" /\ Judge(Known) /\ UNCHANGED <<queue, mine>> /\ LookOnly

\* A start waits a minute for a profile to be loaded.
TimeOut ==
  /\ pc = "get" /\ goal = "ready" /\ Return("error")
  /\ UNCHANGED <<op, block, calls, fresh, stale, sharedVars, subVars, serverVars>>

Transmit_Hasty ==  \* seeded bug: a transient state is not awaited
  /\ pc = "send"
  /\ \/ Accept /\ IF op # "load" /\ block THEN Poll("end") ELSE Return("ok")
     \/ Refuse /\ Return("error")
  /\ UNCHANGED <<op, block, calls, fresh, stale, sharedVars, subVars>>

Transmit ==
  /\ pc = "send"
  /\ \/ /\ Accept
        /\ IF op # "load" /\ block THEN Poll("transient") ELSE Return("ok")
     \/ Refuse /\ Return("error")
  /\ UNCHANGED <<op, block, calls, fresh, stale, sharedVars, subVars>>

Main == Get \/ Pop \/ Current \/ Transmit

-----------------------------------------------------------------------------
Init ==
  /\ op = "none" /\ block = FALSE /\ answer = "none" /\ pc = "idle" /\ goal = "none"
  /\ calls = 0 /\ fresh = TRUE /\ stale = FALSE
  /\ cur = "IDLE" /\ queue = <<>> /\ mine = None /\ err = FALSE
  /\ spc = "idle" /\ seen = "IDLE" /\ wire = <<>> /\ srv = "IDLE" /\ reached = FALSE

Next == \/ Load \/ Start \/ Stop \/ Clear \/ Wait
        \/ Main \/ TimeOut \/ Subscriber \/ GoesOn \/ StartFails

Spec == Init /\ [][Next]_vars

\* Both threads are scheduled, a run has a duration, a minute passes.
FairSpec == Spec /\ WF_vars(Main) /\ WF_vars(Subscriber) /\ WF_vars(GoesOn) /\ SF_vars(TimeOut)

-----------------------------------------------------------------------------
TypeOK ==
  /\ op \in {"none", "load", "start", "stop", "wait", "clear"}
  /\ block \in BOOLEAN /\ answer \in {"none", "ok", "error"}
  /\ pc \in {"idle", "get", "pop", "cur", "send", "off"}
  /\ goal \in {"none", "steady", "ready", "transient", "end", "TX", "LOADED"}
  /\ calls \in 0..MaxCalls /\ fresh \in BOOLEAN /\ stale \in BOOLEAN
  /\ cur \in States \cup {None} /\ queue \in Seq(States)
  /\ mine \in States \cup {None} /\ err \in BOOLEAN
  /\ spc \in {"idle", "test", "last", "append"} /\ seen \in States
  /\ wire \in Seq([state : States, error : BOOLEAN, cleared : BOOLEAN])
  /\ srv \in States /\ reached \in BOOLEAN

\* The queue may hold the states of several runs, but a LOADED is followed by
\* nothing but LOADED: what preceded the last end of a run is gone by the time
\* the next one queues a state.
QueueInv ==
  \A i \in DOMAIN queue : queue[i] = "LOADED" => i = Len(queue) \/ queue[i + 1] = "LOADED"

HasLoaded == \E i \in DOMAIN queue : queue[i] = "LOADED"

\* A state that begins something is queued behind no LOADED.
AppendInv == /\ spc = "append" /\ seen # "LOADED" => ~HasLoaded
             /\ spc = "test" => seen # "LOADED"

\* Main pops from a list that has an entry, whatever the subscriber does.
PopInv == /\ pc = "pop" => mine # None \/ queue # <<>>
          /\ mine # None => pc \in {"pop", "off"}

\* What is polled for leads to a command the server knows.
SendInv == pc = "send" \/ goal \in {"steady", "ready", "TX"}
             => op \in {"load", "start", "stop", "clear"}

\* Only the removal of a profile makes it idle.
WireInv == \A i \in DOMAIN wire : wire[i].state = "IDLE" => wire[i].cleared

\* Together: __reset_profile_state_change may drop the whole list instead of
\* searching it, and __get_profile_state_with_change pops from no empty list.
AstfInv == QueueInv /\ AppendInv /\ PopInv /\ SendInv /\ WireInv

\* Main pops from the list the subscriber tests and indexes.  A command given
\* with no event on its way cannot make the subscriber index an empty list,
\* except clear_profile: it queues behind the LOADED of the run before.
SubscriberSurvives == pc = "off" => op = "clear" \/ ~fresh

\* A command returns after it has polled or was sent.  What it is answered at
\* once, from the client's last known state, is not a Returns: a start() of a
\* profile that is active (trex_astf_client.py:262), a stop() of one that is
\* not, a clear_profile() of one that is.
Returns(cmd, a) == pc # "idle" /\ pc' = "idle" /\ op = cmd /\ answer' = a

\* A blocking start() that returns has seen the profile transmit: not a state
\* that an earlier run left in the queue.  This and the next four are about
\* commands that were given with no event on its way (fresh).
StartIsTrue == [][Returns("start", "ok") /\ block /\ fresh => reached]_vars

\* One that polled or was sent and then raises leaves nothing transmitting,
\* unless it reports an error that an earlier command left in
\* last_profile_error.  A start() that is refused at once, because the profile
\* is active, is none of these (see Returns) and leaves it active.
FailIsTrue == [][Returns("start", "error") /\ block /\ fresh /\ ~stale => srv \notin Active]_vars

\* When a blocking stop() that polled or was sent returns, the profile has
\* stopped.
StopIsTrue == [][Returns("stop", "ok") /\ block /\ fresh => srv \notin Active]_vars

\* When a blocking clear_profile() that polled or was sent returns, because
\* the profile was not active, it is gone.
ClearIsTrue == [][Returns("clear", "ok") /\ block /\ fresh => srv = "IDLE"]_vars

\* wait_on_traffic() does not take the LOADED of before the run for its end.
WaitIsTrue == [][Returns("wait", "ok") /\ fresh => srv \notin Active]_vars

Back == pc \in {"idle", "off"}

\* The polling loops miss no state they wait for: start() returns; stop() does,
\* once it need not wait for a run to transmit; wait_on_traffic() does when the
\* profile is there.
CallsEnd ==
  /\ (pc # "idle" /\ op = "start") ~> Back
  /\ (pc # "idle" /\ op = "stop") ~> (Back \/ goal = "TX")
  /\ (pc # "idle" /\ op = "wait" /\ srv \notin {"IDLE", "DELETE"}) ~> Back

\* stop() returns: the TX state is awaited "to avoid unexpected hanging
\* situation".  A run that cannot be built never gets there.
StopReturns == (pc # "idle" /\ op = "stop") ~> Back
=============================================================================
