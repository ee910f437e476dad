------------------------- MODULE AstfClientInvariant ------------------------
(* The inductive invariant behind the answers of AstfClient: the queue,    *)
(* the events under way and the profile of the server tell one story.      *)
EXTENDS AstfClient

\* What a state can be followed by.
After == [IDLE    |-> {"LOADED"},
          LOADED  |-> {"PARSE", "DELETE"},
          PARSE   |-> {"BUILD", "LOADED"},
          BUILD   |-> {"TX", "LOADED"},
          TX      |-> {"CLEANUP"},
          CLEANUP |-> {"LOADED"},
          DELETE  |-> {"IDLE"}]

\* The place of a state in a run.
Rank == [IDLE |-> 0, DELETE |-> 0, PARSE |-> 1, BUILD |-> 2, TX |-> 3,
         CLEANUP |-> 4, LOADED |-> 5]

InQueue(s) == \E i \in DOMAIN queue : queue[i] = s
OnWire(s)  == \E i \in DOMAIN wire : wire[i].state = s
LastQueued == queue[Len(queue)]
Polling    == pc \in {"get", "pop", "cur"}

\* The last command, when it was given with no event on its way.
Asked(cmd) == op = cmd /\ fresh /\ pc # "off"

-----------------------------------------------------------------------------
(* What always holds.                                                       *)

\* The events under way lead from what the client knows to what the server does.
NewsInv ==
  /\ wire = <<>> => srv = Known
  /\ wire # <<>> => wire[1].state \in After[Known] /\ wire[Len(wire)].state = srv
  /\ \A i \in DOMAIN wire : i # Len(wire) => wire[i + 1].state \in After[wire[i].state]
  /\ \A i \in DOMAIN wire : wire[i].cleared => wire[i].state = "IDLE"
  /\ spc # "idle" => cur = seen /\ seen # "IDLE"

\* The queue holds states of one run, up to the last known one.
OrderInv ==
  /\ ~InQueue("IDLE") /\ mine # "IDLE"
  /\ \A i, j \in DOMAIN queue : i < j => Rank[queue[i]] < Rank[queue[j]]
  /\ queue # <<>> => IF spc = "idle" THEN LastQueued = cur ELSE seen \in After[LastQueued]

\* What a command polls for.
GoalInv ==
  /\ Polling <=> goal # "none" /\ pc # "off"
  /\ goal = "ready" => op = "start"
  /\ goal = "TX" => op = "stop"
  /\ op = "wait" => goal \in {"none", "LOADED"} /\ pc # "send"
  /\ goal = "LOADED" => op = "wait"
  /\ goal \in {"steady", "transient", "end"} => op \in {"start", "stop", "clear"}
  /\ goal \in {"steady", "ready", "transient", "end"} => block

-----------------------------------------------------------------------------
(* What holds of a command given with no event on its way.                  *)

\* A start that is not sent yet finds the profile at rest, and has read the
\* queue to its end before it is sent.
RestInv ==
  Asked("start") /\ (pc = "send" \/ goal \in {"steady", "ready"}) =>
    /\ wire = <<>> /\ spc = "idle" /\ mine = None /\ srv \in {"IDLE", "LOADED"}
    /\ pc = "cur" => queue = <<>>
    /\ pc = "send" /\ block => queue = <<>> /\ srv = "LOADED"
    /\ ~stale => ~err

\* The run it starts: what main can see of its states, and of its failure.
RunInv ==
  Asked("start") /\ goal \in {"transient", "end"} =>
    /\ srv \in Active \cup {"CLEANUP", "LOADED"} /\ mine = None
    /\ srv # "LOADED" /\ cur = "LOADED" => goal = "transient" /\ queue = <<>>
    /\ ~reached => cur # "TX" /\ ~InQueue("TX") /\ ~OnWire("TX")
    /\ ~stale /\ (err \/ \E i \in DOMAIN wire : wire[i].error) => srv = "LOADED"

\* A profile that is stopped or waited for ends once.
HaltInv ==
  Asked("stop") \/ Asked("wait") =>
    /\ Known \in {"IDLE", "LOADED"} => wire = <<>>
    /\ mine # None => srv \notin Active

\* No news follows the end of a run, until the next command.
LastInv ==
  Asked("stop") \/ Asked("wait") \/ (Asked("start") /\ block) =>
    /\ \A i \in DOMAIN wire : wire[i].state \in {"IDLE", "LOADED"} => i = Len(wire)
    /\ spc # "last"
    /\ spc # "idle" /\ seen = "LOADED" => wire = <<>>
    /\ HasLoaded => wire = <<>> /\ spc = "idle"

\* A profile that is cleared is removed once.
GoneInv ==
  Asked("clear") =>
    /\ Known = "IDLE" => wire = <<>>
    /\ \A i \in DOMAIN wire : wire[i].state = "IDLE" => i = Len(wire)

\* The list the subscriber is about to index has an entry.
IndexInv == fresh /\ op # "clear" /\ spc = "last" => queue # <<>>

AnswerInv == /\ NewsInv /\ OrderInv /\ GoalInv /\ RestInv /\ RunInv /\ HaltInv /\ LastInv
             /\ GoneInv /\ IndexInv /\ SubscriberSurvives
=============================================================================
