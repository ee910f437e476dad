--------------------------- MODULE TrafficSession ---------------------------
(***************************************************************************)
(* One traffic session of the IDS: the calls TRexTrafficGenerator makes on *)
(* an STLClient between connect() and disconnect(), and the threads that   *)
(* meet in the client.                                                     *)
(*                                                                         *)
(*   main        runs reset / add_streams / start / wait_on_traffic once   *)
(*               per job and disconnect() at the end.  Every command       *)
(*               visits the ports one by one and is a blocking RPC: the    *)
(*               Call action is what happens up to the server's answer,    *)
(*               the Return action is what the client then writes.         *)
(*   subscriber  fetches the server's events in batches (get_async_events) *)
(*               and lets each one update the port it names, in three      *)
(*               steps, with no lock shared with main.                     *)
(*   server      external: transmits, ends a job by itself, lets another   *)
(*               session take a port over.                                 *)
(*                                                                         *)
(* A port has the one profile the IDS uses ("_").  Call and the server's   *)
(* execution of it are one step: what main reads before it sends is client *)
(* state, which the server never touches, so the two commute with          *)
(* everything that could come between them.                                *)
(***************************************************************************)
EXTENDS Naturals, Sequences

CONSTANTS Ports,          \* the ports of the TRex server
          NoPort,         \* a value that is not a port
          Jobs,           \* traffic jobs of a session (normal, attack)
          Attempts,       \* connection attempts (5 in the code)
          Refusable,      \* the RPCs the server may refuse
          MaxMeddling,    \* bound on the steps of another session
          LeftOver,       \* what a server port may hold before the session
          ShortJobs,      \* TRUE: a job may end before start() has returned
          PromSupported   \* TRUE: reset() sets port attributes and re-syncs

Rpcs == {"acquire", "release", "stop", "remove", "attr", "sync", "add",
         "start", "tail"}

ASSUME PortsAssumption == NoPort \notin Ports
ASSUME JobsAssumption == Jobs \in Nat /\ Attempts \in Nat \ {0}
ASSUME RefusableAssumption == Refusable \subseteq Rpcs
ASSUME MeddlingAssumption == MaxMeddling \in Nat
ASSUME LeftOverAssumption == LeftOver \subseteq {"IDLE", "STREAMS", "TX"}
ASSUME FlagsAssumption == ShortJobs \in BOOLEAN /\ PromSupported \in BOOLEAN

VARIABLES
  handler,   \* port -> the client holds a handler for it (is_acquired)
  state,     \* port -> STLPort.state
  prof,      \* port -> profile_state_list["_"], "NONE" when absent
  streams,   \* port -> the client knows streams of the port
  attempt,   \* connection attempts made so far, the current one included
  phase,     \* the call main is in
  todo,      \* the ports the running call has still to visit
  pc,        \* main: "loop", "reply" (RPC answered), "apply" (start only)
  cur,       \* the port of the RPC in progress
  ok,        \* its answer: granted?
  val,       \* the state it read: the server's snapshot, or self.state
  saved,     \* last_state of STLPort.start
  failed,    \* some port of the running call answered with an error
  verdict,   \* how each concluded job ended, as the generator sees it
  inbox,     \* events fetched and not yet handled
  subpc,     \* subscriber: "idle", "agg", "write"
  subport,   \* the port whose event is being handled
  agg,       \* the state computed by __sync_port_state_from_profile
  owner,     \* server: port -> who holds it
  traf,      \* server: port -> its traffic
  events,    \* server: events not yet fetched
  aged,      \* server: ports whose last start is long past
  meddling   \* steps another session has taken

clientVars == <<handler, state, prof, streams>>
callVars   == <<cur, ok, val, saved>>
mainVars   == <<attempt, phase, todo, pc, failed, verdict>>
subVars    == <<inbox, subpc, subport, agg>>
serverVars == <<owner, traf, events, aged>>
vars == <<clientVars, callVars, mainVars, subVars, serverVars, meddling>>

PortStates == {"IDLE", "STREAMS", "TX"}
ProfStates == {"NONE", "STREAMS", "TX"}
Phases == {"connect", "idle", "acquire", "cleanup", "stop", "remove", "attr",
           "ready", "add", "start", "wait", "capture", "halt", "release", "off"}
Event == [type : {"started", "stopped", "finished", "acquired"}, port : Ports]

Active(s) == s = "TX"
Acquired == {p \in Ports : handler[p]}
Known == {p \in Ports : prof[p] # "NONE"}
ActiveProfiles == {p \in Acquired : Active(prof[p])}

Publish(type, p) == Append(events, [type |-> type, port |-> p])
Answers(rpc) == IF rpc \in Refusable THEN BOOLEAN ELSE {TRUE}

-----------------------------------------------------------------------------
(* How main moves from port to port and from call to call.                  *)

\* Leave the RPC: the call goes on with its next port.
NextPort == /\ pc' = "loop" /\ todo' = todo \ {cur}
            /\ cur' = NoPort /\ ok' = TRUE /\ val' = "IDLE" /\ saved' = "IDLE"

\* An RPC for p has been answered.
Answered(p, granted, snapshot, last) ==
  /\ pc' = "reply" /\ cur' = p /\ ok' = granted /\ val' = snapshot /\ saved' = last
  /\ UNCHANGED <<attempt, phase, todo, failed, verdict>>

\* A port is skipped without an RPC, with or without an error.
Skip(p, error) ==
  /\ todo' = todo \ {p} /\ failed' = (failed \/ error)
  /\ UNCHANGED <<attempt, phase, pc, verdict, callVars, clientVars, serverVars>>

Visits(ph, p) == phase = ph /\ pc = "loop" /\ p \in todo
LoopOver(ph) == phase = ph /\ pc = "loop" /\ todo = {}
Replied(ph) == phase = ph /\ pc = "reply"

Enter(ph, ports) == /\ phase' = ph /\ todo' = ports /\ failed' = FALSE
                    /\ UNCHANGED verdict
Conclude(v) == /\ phase' = "idle" /\ todo' = {} /\ failed' = FALSE
               /\ verdict' = Append(verdict, v)

\* A call either raises TRexError, which _generate_traffic swallows, or the
\* next one begins.
RaiseOr(raises, ph, ports) == IF raises THEN Conclude("error") ELSE Enter(ph, ports)
Between == UNCHANGED <<attempt, pc, callVars, clientVars, subVars, serverVars, meddling>>
OnReturn == UNCHANGED <<attempt, phase, verdict, subVars, serverVars, meddling>>

Everywhere(v) == [p \in Ports |-> v]

-----------------------------------------------------------------------------
(* connect(): every port is created fresh and synced with the server.       *)

\* Port.sync: write what get_port_status answered.  "IDLE" is state 0, which
\* __set_profile_state ignores.
ApplySync_StoresIdle ==  \* seeded bug: "is not None" for a truth test
  /\ prof' = [prof EXCEPT ![cur] = val]
  /\ state' = [state EXCEPT ![cur] = val]
  /\ UNCHANGED <<handler, streams>>

ApplySync ==
  /\ prof' = [prof EXCEPT ![cur] = IF val = "IDLE" THEN @ ELSE val]
  /\ state' = [state EXCEPT ![cur] = val]
  /\ UNCHANGED <<handler, streams>>

SyncCall(p) ==
  /\ Visits("connect", p)
  /\ \E granted \in Answers("sync") : Answered(p, granted, traf[p], "IDLE")
  /\ UNCHANGED <<clientVars, subVars, serverVars, meddling>>

SyncReturn ==
  /\ Replied("connect") /\ NextPort
  /\ failed' = (failed \/ ~ok)
  /\ IF ok THEN ApplySync ELSE UNCHANGED clientVars
  /\ OnReturn

ConnectDone ==
  /\ LoopOver("connect") /\ (failed => attempt = Attempts)
  /\ Enter(IF failed THEN "off" ELSE "idle", {})
  /\ Between

\* The generator tries again: _disconnect() has ended the subscriber, and the
\* new session has new ports and an empty queue of events.
Reconnect ==
  /\ LoopOver("connect") /\ failed /\ attempt < Attempts
  /\ attempt' = attempt + 1
  /\ Enter("connect", Ports)
  /\ handler' = Everywhere(FALSE) /\ state' = Everywhere("IDLE")
  /\ prof' = Everywhere("NONE") /\ streams' = Everywhere(FALSE)
  /\ inbox' = <<>> /\ subpc' = "idle" /\ subport' = NoPort /\ agg' = "IDLE"
  /\ events' = <<>>
  /\ UNCHANGED <<pc, callVars, owner, traf, aged, meddling>>

-----------------------------------------------------------------------------
(* reset(): acquire by force, stop, remove the streams, set the attributes. *)

BeginJob ==
  /\ phase = "idle" /\ Len(verdict) < Jobs
  /\ Enter("acquire", Ports)
  /\ Between

AcquireCall(p) ==
  /\ Visits("acquire", p)
  /\ \E granted \in Answers("acquire") :
       /\ Answered(p, granted, "IDLE", "IDLE")
       /\ owner' = IF granted THEN [owner EXCEPT ![p] = "me"] ELSE owner
  /\ UNCHANGED <<clientVars, subVars, traf, events, aged, meddling>>

AcquireReturn ==
  /\ Replied("acquire") /\ NextPort
  /\ failed' = (failed \/ ~ok)
  /\ handler' = [handler EXCEPT ![cur] = @ \/ ok]
  /\ UNCHANGED <<state, prof, streams>>
  /\ OnReturn

\* All taken: stop_stl on the profiles the client knows.  Otherwise give back.
AcquireDone ==
  /\ LoopOver("acquire")
  /\ IF failed THEN Enter("cleanup", Ports)
     ELSE RaiseOr(Known \cap Acquired # Known, "stop", Known)
  /\ Between

\* STLPort.stop for one port, in reset() and in disconnect().
StopCall(p) ==
  /\ Visits("stop", p) \/ Visits("halt", p)
  /\ UNCHANGED <<subVars, meddling>>
  /\ IF ~handler[p] THEN Skip(p, TRUE)
     ELSE IF ~Active(state[p]) THEN Skip(p, FALSE)
     ELSE /\ \E granted \in Answers("stop") :
               LET served == granted /\ owner[p] = "me"
                   halts  == served /\ traf[p] = "TX"
               IN /\ Answered(p, served, "IDLE", "IDLE")
                  /\ traf' = IF halts THEN [traf EXCEPT ![p] = "STREAMS"] ELSE traf
                  /\ events' = IF halts THEN Publish("stopped", p) ELSE events
          /\ UNCHANGED <<clientVars, owner, aged>>

StopReturn ==
  /\ Replied("stop") \/ Replied("halt")
  /\ NextPort
  /\ failed' = (failed \/ ~ok)
  /\ IF ok THEN /\ prof' = [prof EXCEPT ![cur] = "STREAMS"]
                /\ state' = [state EXCEPT ![cur] = "STREAMS"]
           ELSE UNCHANGED <<prof, state>>
  /\ UNCHANGED <<handler, streams>>
  /\ OnReturn

StopDone ==
  /\ LoopOver("stop")
  /\ RaiseOr(\/ failed
             \/ Known \cap Acquired # Known
             \/ Known \cap ActiveProfiles # {}, "remove", Known)
  /\ Between

RemoveCall(p) ==
  /\ Visits("remove", p)
  /\ UNCHANGED <<subVars, meddling>>
  /\ IF ~handler[p] THEN Skip(p, TRUE)
     ELSE /\ \E granted \in Answers("remove") :
               LET served == granted /\ owner[p] = "me" /\ traf[p] # "TX"
               IN /\ Answered(p, served, "IDLE", "IDLE")
                  /\ traf' = IF served THEN [traf EXCEPT ![p] = "IDLE"] ELSE traf
          /\ UNCHANGED <<clientVars, owner, events, aged>>

RemoveReturn ==
  /\ Replied("remove") /\ NextPort
  /\ failed' = (failed \/ ~ok)
  /\ IF ok THEN /\ prof' = [prof EXCEPT ![cur] = "NONE"]
                /\ streams' = [streams EXCEPT ![cur] = FALSE]
                /\ state' = [state EXCEPT ![cur] = "IDLE"]
           ELSE UNCHANGED <<prof, streams, state>>
  /\ UNCHANGED handler
  /\ OnReturn

RemoveDone ==
  /\ LoopOver("remove")
  /\ RaiseOr(failed, "attr", IF PromSupported THEN Ports ELSE {})
  /\ Between

AttrCall(p) ==
  /\ Visits("attr", p)
  /\ \E granted \in Answers("attr") :
       Answered(p, granted /\ owner[p] = "me" /\ handler[p], traf[p], "IDLE")
  /\ UNCHANGED <<clientVars, subVars, serverVars, meddling>>

AttrReturn ==
  /\ Replied("attr") /\ NextPort
  /\ failed' = (failed \/ ~ok)
  /\ IF ok THEN ApplySync ELSE UNCHANGED clientVars
  /\ OnReturn

\* The commands that end reset() need every port and may be refused.
ResetDone ==
  /\ LoopOver("attr")
  /\ \E granted \in Answers("tail") :
       RaiseOr(failed \/ ~granted \/ Acquired # Ports, "ready", {})
  /\ Between

-----------------------------------------------------------------------------
(* add_streams(), start() and wait_on_traffic().                            *)

BeginAdd ==
  /\ phase = "ready"
  /\ RaiseOr(Acquired = {} \/ \E p \in Acquired : Active(state[p]), "add", Acquired)
  /\ Between

AddCall(p) ==
  /\ Visits("add", p)
  /\ UNCHANGED <<subVars, meddling>>
  /\ IF ~handler[p] THEN Skip(p, TRUE)
     ELSE /\ \E granted \in Answers("add") :
               LET served == granted /\ owner[p] = "me" /\ traf[p] # "TX"
               IN /\ Answered(p, served, "IDLE", "IDLE")
                  /\ traf' = IF served THEN [traf EXCEPT ![p] = "STREAMS"] ELSE traf
          /\ UNCHANGED <<clientVars, owner, events, aged>>

AddReturn ==
  /\ Replied("add") /\ NextPort
  /\ failed' = (failed \/ ~ok)
  /\ streams' = [streams EXCEPT ![cur] = @ \/ ok]
  /\ prof' = [prof EXCEPT ![cur] = IF ok /\ @ = "NONE" THEN "STREAMS" ELSE @]
  /\ state' = [state EXCEPT ![cur] = IF streams'[cur] THEN "STREAMS" ELSE "IDLE"]
  /\ UNCHANGED handler
  /\ OnReturn

AddDone ==
  /\ LoopOver("add")
  /\ RaiseOr(failed \/ Acquired = {} \/ ActiveProfiles # {}, "start", Acquired)
  /\ Between

\* STLPort.start: the state becomes TX before the RPC is sent.
StartCall(p) ==
  /\ Visits("start", p)
  /\ UNCHANGED <<subVars, meddling>>
  /\ IF ~handler[p] \/ prof[p] = "NONE" THEN Skip(p, TRUE)
     ELSE /\ state' = [state EXCEPT ![p] = "TX"]
          /\ \E granted \in Answers("start") :
               LET served == granted /\ owner[p] = "me" /\ traf[p] = "STREAMS"
               IN /\ Answered(p, served, "IDLE", state[p])
                  /\ traf' = IF served THEN [traf EXCEPT ![p] = "TX"] ELSE traf
                  /\ events' = IF served THEN Publish("started", p) ELSE events
                  /\ aged' = IF served THEN aged \ {p} ELSE aged
          /\ UNCHANGED <<handler, prof, streams, owner>>

\* Granted: self.state is read for the profile.  Refused: last_state is back.
StartReturn ==
  /\ Replied("start") /\ UNCHANGED <<handler, prof, streams>> /\ OnReturn
  /\ IF ok THEN /\ pc' = "apply" /\ val' = state[cur]
                /\ UNCHANGED <<state, todo, failed, cur, ok, saved>>
           ELSE /\ NextPort
                /\ failed' = TRUE
                /\ state' = [state EXCEPT ![cur] = saved]

\* ... and then stored in profile_state_list.
StartApply ==
  /\ phase = "start" /\ pc = "apply" /\ NextPort
  /\ prof' = [prof EXCEPT ![cur] = IF val = "IDLE" THEN @ ELSE val]
  /\ UNCHANGED <<handler, state, streams, failed>>
  /\ OnReturn

StartDone ==
  /\ LoopOver("start")
  /\ RaiseOr(failed \/ Acquired = {}, "wait", Acquired)
  /\ Between

WaitDone_Any ==  \* seeded bug: any() for all()
  /\ phase = "wait"
  /\ \E p \in todo : ~(Active(state[p]) /\ handler[p])
  /\ Conclude("done")
  /\ Between

\* The ports in `todo` are polled until none is both active and acquired.
WaitDone ==
  /\ phase = "wait"
  /\ \A p \in todo : ~(Active(state[p]) /\ handler[p])
  /\ Conclude("done")
  /\ Between

-----------------------------------------------------------------------------
(* disconnect(): stop what is active, release what is acquired, hang up.    *)

BeginCapture ==
  /\ phase = "idle" /\ Len(verdict) = Jobs
  /\ Enter("capture", {})
  /\ Between

BeginHalt_KeepTraffic ==  \* seeded bug: stop_traffic = False
  /\ phase = "capture"
  /\ Enter("halt", {})
  /\ Between

BeginHalt ==
  /\ phase = "capture"
  /\ Enter("halt", ActiveProfiles)
  /\ Between

HaltDone ==
  /\ LoopOver("halt")
  /\ Enter("release", Acquired)
  /\ Between

\* Port.release, in disconnect() and when reset() could not take every port.
ReleaseCall(p) ==
  /\ Visits("release", p) \/ Visits("cleanup", p)
  /\ \E granted \in Answers("release") :
       LET served == granted /\ handler[p] /\ owner[p] = "me"
       IN /\ Answered(p, served, "IDLE", "IDLE")
          /\ owner' = IF served THEN [owner EXCEPT ![p] = "none"] ELSE owner
  /\ UNCHANGED <<clientVars, subVars, traf, events, aged, meddling>>

ReleaseReturn ==
  /\ Replied("release") \/ Replied("cleanup")
  /\ NextPort
  /\ handler' = [handler EXCEPT ![cur] = @ /\ ~ok]
  /\ UNCHANGED <<state, prof, streams, failed>>
  /\ OnReturn

CleanupDone ==
  /\ LoopOver("cleanup")
  /\ Conclude("error")
  /\ Between

ReleaseDone ==
  /\ LoopOver("release")
  /\ Enter("off", {})
  /\ Between

-----------------------------------------------------------------------------
(* The subscriber thread.                                                   *)

Online == phase # "off"

\* get_async_events takes everything the server has queued.
Fetch ==
  /\ Online /\ subpc = "idle" /\ inbox = <<>> /\ events # <<>>
  /\ inbox' = events /\ events' = <<>>
  /\ UNCHANGED <<subpc, subport, agg, clientVars, callVars, mainVars, owner,
                 traf, aged, meddling>>

Applies_Always(ev) == ev.type # "acquired"  \* seeded bug: also to a port we own
Applies_NotOwned(ev) ==                     \* seeded bug: as all the others
  ev.type # "acquired" /\ ~handler[ev.port]

\* Which events change a profile: the end of a job always, any other only on a
\* port this session does not own.
Applies(ev) ==
  ev.type = "finished" \/ (ev.type # "acquired" /\ ~handler[ev.port])

\* Dispatch one event: the effects it has on the port are set off here.
Handle ==
  /\ Online /\ subpc = "idle" /\ inbox # <<>>
  /\ inbox' = Tail(inbox)
  /\ LET ev == Head(inbox)
         p  == ev.port
     IN /\ handler' = IF ev.type = "acquired" THEN [handler EXCEPT ![p] = FALSE]
                      ELSE handler
        /\ IF Applies(ev)
           THEN /\ prof' = [prof EXCEPT ![p] =
                             IF ev.type = "started" THEN "TX" ELSE "STREAMS"]
                /\ subpc' = "agg" /\ subport' = p
           ELSE UNCHANGED <<prof, subpc, subport>>
  /\ UNCHANGED <<state, streams, agg, callVars, mainVars, serverVars, meddling>>

\* __sync_port_state_from_profile reads the profile ...
ReadProfile ==
  /\ Online /\ subpc = "agg"
  /\ agg' = IF prof[subport] = "NONE" THEN "IDLE" ELSE prof[subport]
  /\ subpc' = "write"
  /\ UNCHANGED <<inbox, subport, clientVars, callVars, mainVars, serverVars, meddling>>

\* ... and then assigns the state.
WriteState ==
  /\ Online /\ subpc = "write"
  /\ state' = [state EXCEPT ![subport] = agg]
  /\ subpc' = "idle" /\ subport' = NoPort /\ agg' = "IDLE"
  /\ UNCHANGED <<inbox, handler, prof, streams, callVars, mainVars, serverVars,
                 meddling>>

-----------------------------------------------------------------------------
(* The server and the sessions of other users (external).                   *)

\* Jobs last 60 and 30 seconds, a call milliseconds.  Unless ShortJobs, a job
\* can end only when main has since gone through a long call.
TimePasses ==
  /\ phase \in {"wait", "capture"} /\ aged # Ports
  /\ aged' = Ports
  /\ UNCHANGED <<owner, traf, events, clientVars, callVars, mainVars, subVars, meddling>>

Finish(p) ==
  /\ traf[p] = "TX" /\ (ShortJobs \/ p \in aged)
  /\ traf' = [traf EXCEPT ![p] = "STREAMS"]
  /\ events' = IF Online THEN Publish("finished", p) ELSE events
  /\ UNCHANGED <<owner, aged, clientVars, callVars, mainVars, subVars, meddling>>

Meddle == meddling < MaxMeddling /\ Online /\ meddling' = meddling + 1

Steal(p) ==
  /\ Meddle /\ owner[p] # "other"
  /\ owner' = [owner EXCEPT ![p] = "other"]
  /\ events' = Publish("acquired", p)
  /\ UNCHANGED <<traf, aged, clientVars, callVars, mainVars, subVars>>

OtherStop(p) ==
  /\ Meddle /\ owner[p] = "other" /\ traf[p] = "TX"
  /\ traf' = [traf EXCEPT ![p] = "STREAMS"]
  /\ events' = Publish("stopped", p)
  /\ UNCHANGED <<owner, aged, clientVars, callVars, mainVars, subVars>>

OtherStart(p) ==
  /\ Meddle /\ owner[p] = "other" /\ traf[p] = "STREAMS"
  /\ traf' = [traf EXCEPT ![p] = "TX"]
  /\ events' = Publish("started", p)
  /\ UNCHANGED <<owner, aged, clientVars, callVars, mainVars, subVars>>

-----------------------------------------------------------------------------
Init ==
  /\ handler = Everywhere(FALSE) /\ state = Everywhere("IDLE")
  /\ prof = Everywhere("NONE") /\ streams = Everywhere(FALSE)
  /\ inbox = <<>> /\ subpc = "idle" /\ subport = NoPort /\ agg = "IDLE"
  /\ attempt = 1 /\ phase = "connect" /\ todo = Ports /\ pc = "loop" /\ failed = FALSE
  /\ cur = NoPort /\ ok = TRUE /\ val = "IDLE" /\ saved = "IDLE"
  /\ verdict = <<>>
  /\ owner = Everywhere("none")
  /\ traf \in [Ports -> LeftOver]
  /\ events = <<>> /\ aged = Ports /\ meddling = 0

Call == \E p \in Ports :
  \/ SyncCall(p) \/ AcquireCall(p) \/ StopCall(p) \/ RemoveCall(p)
  \/ AttrCall(p) \/ AddCall(p) \/ StartCall(p) \/ ReleaseCall(p)

Return == \/ SyncReturn \/ AcquireReturn \/ StopReturn \/ RemoveReturn
          \/ AttrReturn \/ AddReturn \/ StartReturn \/ StartApply \/ ReleaseReturn

Advance == \/ ConnectDone \/ Reconnect \/ BeginJob \/ AcquireDone \/ StopDone \/ RemoveDone
           \/ ResetDone \/ BeginAdd \/ AddDone \/ StartDone \/ WaitDone \/ BeginCapture
           \/ BeginHalt \/ HaltDone \/ CleanupDone \/ ReleaseDone

Main == Call \/ Return \/ Advance
Subscriber == Fetch \/ Handle \/ ReadProfile \/ WriteState
Server == \/ TimePasses
          \/ \E p \in Ports : Finish(p) \/ Steal(p) \/ OtherStop(p) \/ OtherStart(p)

\* The session is over, and with it what the program does.
Terminated == phase = "off" /\ UNCHANGED vars

Next == Main \/ Subscriber \/ Server \/ Terminated

Spec == Init /\ [][Next]_vars

\* Both threads are scheduled, and a job started with a duration ends.
Fairness == /\ WF_vars(Main) /\ WF_vars(Subscriber)
            /\ WF_vars(TimePasses) /\ \A p \in Ports : WF_vars(Finish(p))

FairSpec == Spec /\ Fairness

-----------------------------------------------------------------------------
(* Properties.                                                              *)

TypeOK ==
  /\ handler \in [Ports -> BOOLEAN] /\ state \in [Ports -> PortStates]
  /\ prof \in [Ports -> ProfStates] /\ streams \in [Ports -> BOOLEAN]
  /\ attempt \in 1..Attempts /\ phase \in Phases /\ todo \subseteq Ports
  /\ pc \in {"loop", "reply", "apply"}
  /\ cur \in Ports \cup {NoPort} /\ (pc # "loop" => cur \in Ports)
  /\ ok \in BOOLEAN /\ val \in PortStates /\ saved \in PortStates
  /\ failed \in BOOLEAN /\ verdict \in Seq({"done", "error"})
  /\ inbox \in Seq(Event) /\ events \in Seq(Event)
  /\ subpc \in {"idle", "agg", "write"}
  /\ subport \in Ports \cup {NoPort} /\ (subpc # "idle" => subport \in Ports)
  /\ agg \in PortStates
  /\ owner \in [Ports -> {"none", "me", "other"}] /\ traf \in [Ports -> PortStates]
  /\ aged \subseteq Ports /\ meddling \in 0..MaxMeddling

\* An event "finished" of port p that has not taken full effect yet.
Finished(p) == [type |-> "finished", port |-> p]
Has(queue, ev) == \E i \in DOMAIN queue : queue[i] = ev
Handling(p) == subpc # "idle" /\ subport = p
FinishPending(p) == Has(events, Finished(p)) \/ Has(inbox, Finished(p)) \/ Handling(p)

\* wait_on_traffic lets go of a port only when the server has stopped
\* transmitting on it.
NoEarlyReturn ==
  phase = "wait" => \A p \in todo : Active(state[p]) \/ traf[p] # "TX"

\* A job that ended while main waits is noticed: unless the end is still on its
\* way to the client, a port that looks active is transmitting.
NoLostFinish ==
  phase = "wait" => \A p \in todo :
    Active(state[p]) /\ handler[p] => traf[p] = "TX" \/ FinishPending(p)

\* When start() is about to launch a port, nothing is left of an earlier job:
\* neither its traffic nor an event that would end the new job.
FreshLaunch ==
  phase = "start" => \A p \in todo \ {cur} : traf[p] # "TX" /\ ~FinishPending(p)

\* After disconnect() the server neither transmits nor holds a port for us.
QuietAtEnd ==
  phase = "off" => \A p \in Ports : traf[p] # "TX" /\ owner[p] # "me"

\* A port that is ours and transmits keeps wait_on_traffic waiting, whatever
\* another session did to it before (the docstring of wait_on_traffic).
HeldUntilEnded ==
  phase = "wait" => \A p \in todo :
    owner[p] = "me" /\ traf[p] = "TX" => handler[p] /\ Active(state[p])

\* With a server that refuses nothing, every job is done.
EveryJobDone == \A i \in DOMAIN verdict : verdict[i] = "done"

\* The session comes to its end.
Terminates == <>(phase = "off")

\* What a session promises: TrafficJobs.  A port is launched once the server has
\* granted the start of the running job.
launched ==
  IF phase = "wait" THEN Ports
  ELSE IF phase # "start" THEN {}
  ELSE {p \in Ports : IF p = cur THEN ok ELSE p \notin todo /\ Active(state[p])}

Promise == INSTANCE TrafficJobs
             WITH transmitting <- {p \in Ports : traf[p] = "TX"}

\* The session implements it: a job is reported done only when every port has
\* transmitted it and none still does.
KeepsPromise == Promise!Spec
=============================================================================
