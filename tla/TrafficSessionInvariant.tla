---------------------- MODULE TrafficSessionInvariant ----------------------
(* The inductive invariant behind the safety of a session nobody disturbs: *)
(* what the client believes of a port is what the server does on it, except *)
(* while an event is on its way.                                           *)
EXTENDS TrafficSession

\* No other session takes a port, forced acquisition works, every job outlasts
\* the call that starts it, and nothing transmits before the session begins.
Undisturbed == /\ MaxMeddling = 0 /\ ~ShortJobs
               /\ "acquire" \notin Refusable /\ "TX" \notin LeftOver

Rest == {"idle", "ready", "wait", "capture", "off"}       \* no RPC in these
Granted == {"stop", "remove", "attr", "ready", "add", "start", "wait"}
Preparing == {"connect", "idle", "acquire", "cleanup", "stop", "remove", "attr",
              "ready", "add", "start"}
OfAJob == (Granted \cup {"acquire", "cleanup"})
TX(p) == traf[p] = "TX"

\* main works on a port exactly while an RPC of the running call is under way.
LoopInv == /\ pc = "loop" => cur = NoPort
           /\ pc # "loop" => cur \in todo /\ phase \notin Rest
           /\ pc = "apply" => phase = "start"

\* Only a session that has all its ports has traffic and events.
OwnInv ==
  /\ phase # "cleanup"
  /\ phase = "connect" => \A p \in Ports : ~handler[p]
  /\ phase = "acquire" => /\ ~failed /\ (pc = "reply" => ok)
                          /\ \A p \in Ports \ todo : handler[p]
  /\ phase \in Granted => \A p \in Ports : handler[p]
  /\ phase \notin {"release", "off"} /\ (\E p \in Ports : ~handler[p]) =>
       /\ events = <<>> /\ inbox = <<>> /\ subpc = "idle"
       /\ \A p \in Ports : ~TX(p)

\* Nobody takes a port over.
NoTheftInv == /\ \A i \in DOMAIN events : events[i].type # "acquired"
              /\ \A i \in DOMAIN inbox : inbox[i].type # "acquired"

\* Up to the end of start() no end of a job is in sight, and the client knows of
\* every transmission.
AgreeInv ==
  phase \in Preparing => \A p \in Ports :
    /\ ~FinishPending(p)
    /\ TX(p) => p \notin aged
    /\ TX(p) /\ ~(phase = "start" /\ p = cur) => state[p] = "TX" /\ prof[p] = "TX"

\* reset() leaves nothing that transmits.
ClearInv ==
  /\ phase \in {"remove", "attr", "ready", "add"} => \A p \in Ports : ~TX(p)
  /\ phase = "stop" /\ pc = "reply" /\ ok => ~TX(cur)
  /\ phase = "add" => \A p \in Ports : state[p] # "TX"
  /\ phase = "start" => \A p \in todo \ {cur} : ~TX(p) /\ state[p] # "TX"

\* start() knows which ports it has launched.
LaunchInv ==
  phase = "start" =>
    /\ pc # "loop" => /\ saved # "TX" /\ (TX(cur) <=> ok)
                      /\ ok => state[cur] = "TX"
    /\ pc = "apply" => ok /\ val = "TX"
    /\ ~failed => \A p \in Ports \ todo : TX(p)

Once(queue, ev) ==
  \A i, j \in DOMAIN queue : queue[i] = ev /\ queue[j] = ev => i = j

\* The end of a job is announced once, and travels through one place at a time.
Announced(p) ==
  /\ Once(events, Finished(p)) /\ Once(inbox, Finished(p))
  /\ ~(Has(events, Finished(p)) /\ Has(inbox, Finished(p)))
  /\ Handling(p) => ~Has(events, Finished(p)) /\ ~Has(inbox, Finished(p))

\* While main waits, a port looks active as long as it transmits or the news of
\* its end is on the way.
WaitInv ==
  phase = "wait" =>
    /\ todo = Ports
    /\ subpc # "idle" => prof[subport] # "TX"
    /\ subpc = "write" => agg # "TX"
    /\ \A p \in Ports : /\ TX(p) => ~FinishPending(p)
                        /\ state[p] = "TX" <=> TX(p) \/ FinishPending(p)
                        /\ Announced(p)

\* A job is under way only while there are jobs left.
BudgetInv == phase \in OfAJob => Len(verdict) < Jobs

SafetyInv == /\ LoopInv /\ OwnInv /\ NoTheftInv /\ AgreeInv /\ ClearInv /\ LaunchInv
             /\ WaitInv /\ BudgetInv
-----------------------------------------------------------------------------
(* What disconnect() needs besides, when the server does not refuse it.     *)

Dismissed == Refusable \cap {"stop", "release"} = {}

\* The client has a handler for the ports the server holds for it, except for
\* the port that is being acquired or released.
HandlerInv ==
  \A p \in Ports :
    /\ owner[p] # "other"
    /\ phase \notin {"acquire", "release"} \/ p # cur => (owner[p] = "me" <=> handler[p])
    /\ phase = "acquire" /\ p = cur => owner[p] = "me"
    /\ phase = "release" => (handler[p] <=> p \in todo)
    /\ phase = "release" /\ p = cur => owner[p] = "none" /\ ok
    /\ phase = "off" => ~handler[p]

\* Until the last port is stopped the client knows what still transmits.
EndInv ==
  \A p \in Ports : TX(p) =>
    /\ phase \notin {"release", "off"}
    /\ phase = "capture" => state[p] = "TX" /\ prof[p] = "TX" /\ ~FinishPending(p)
    /\ phase = "halt" => p \in todo \ {cur} /\ state[p] = "TX" /\ ~FinishPending(p)
-----------------------------------------------------------------------------
(* With a server that refuses nothing no call fails: no port is in the way  *)
(* of the next command.                                                     *)

Willing == Refusable = {} /\ Ports # {}

\* Nothing has failed, and what connect() or reset() read was not transmitting.
FlawlessInv ==
  /\ \A i \in DOMAIN verdict : verdict[i] = "done"
  /\ phase \in Preparing \cup {"wait"} => ~failed /\ (pc = "reply" => ok)
  /\ phase \in {"connect", "attr"} /\ pc = "reply" => val # "TX"

\* A port is inactive until it is started, has its streams by then, and becomes
\* inactive with the news of its end.
ReadyInv ==
  \A p \in Ports :
    /\ phase \in Preparing \ {"start"} => state[p] # "TX" /\ prof[p] # "TX"
    /\ phase = "add" /\ p \notin todo => prof[p] # "NONE" /\ traf[p] = "STREAMS"
    /\ phase = "add" /\ p = cur => traf[p] = "STREAMS"
    /\ phase = "start" /\ p \in todo =>
         prof[p] # "NONE" /\ (p # cur => traf[p] = "STREAMS")
    /\ phase = "wait" /\ prof[p] = "TX" => TX(p) \/ FinishPending(p)
=============================================================================
