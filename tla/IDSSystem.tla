----------------------------- MODULE IDSSystem ------------------------------
(***************************************************************************)
(* The IDS as processes: the menus of automation_script.py, the instances  *)
(* of main.py they start, and the one TRex server the instances share.     *)
(*                                                                         *)
(* An instance has two threads: main runs the schedule and the cycle, the  *)
(* subscriber of its TRex client watches the connection.  SIGINT reaches   *)
(* an instance from the terminal (Ctrl-C) and from its own subscriber,     *)
(* which uses it to report a lost connection.  What SIGINT does depends on *)
(* where main is: the client turns it into a TRexError, scapy's sniff      *)
(* swallows it, and anywhere else it is a KeyboardInterrupt that unwinds   *)
(* the cycle through its `finally`.                                        *)
(*                                                                         *)
(* A client acts on what it believes of the ports: the handler it was      *)
(* given and the state it has cached.  The server publishes what happens   *)
(* to the ports, and each subscriber takes the news in when it gets to it, *)
(* so that a client may act on old beliefs.                                *)
(*                                                                         *)
(* All ports of the server are taken together; TrafficSession has the      *)
(* client's calls port by port.                                            *)
(***************************************************************************)
EXTENDS Integers, Sequences

CONSTANTS Instances,  \* processes that can run main.py at the same time
          None,
          Attempts,   \* tries of TRexTrafficGenerator.connect (5 in the code)
          MaxMail,    \* bound: news on the way to one subscriber
          CtrlC,      \* TRUE: the user presses Ctrl-C
          Losses      \* the instances whose connection to the server may get lost

ASSUME InstancesAssumption == None \notin Instances
ASSUME AttemptsAssumption == Attempts \in Nat \ {0}
ASSUME MailAssumption == MaxMail \in Nat \ {0}
ASSUME FaultsAssumption == CtrlC \in BOOLEAN /\ Losses \subseteq Instances

VARIABLES
  menu,     \* automation_script.py: "prompt", "front" (it waits for main.py),
            \* "grace" (Ctrl-C came, main.py has 0.25 s to end), "gone"
  front,    \* the instance it waits for
  group,    \* the instances in the terminal's process group
  pc,       \* main thread of an instance: "off" is no process
  job,      \* 1 normal, 2 attack traffic
  tries,    \* attempts to connect that are left
  dying,    \* a KeyboardInterrupt unwinds the cycle
  sig,      \* SIGINT is pending
  conn,     \* Connection.state
  handler,  \* Port.handler: the client believes that it holds the ports
  view,     \* Port.state: the client believes that the ports transmit
  sub,      \* subscriber thread: "mark" and "shoot" are the two steps of
            \* mark_for_disconnect after the state is set
  mail,     \* published, and not yet handled by the subscriber
  owner,    \* the server's ports: who holds them
  traffic,  \* the server's ports: whose job transmits
  loose     \* the holder was cut off, or took the ports or started a job
            \* before it had the news that concerned it (history)

menuVars   == <<menu, front, group>>
mainVars   == <<pc, job, tries, dying>>
portVars   == <<handler, view>>
clientVars == <<conn, portVars, sub, mail>>
serverVars == <<owner, traffic>>
vars == <<menuVars, mainVars, sig, clientVars, serverVars, loose>>

News == {"taken", "started", "stopped", "ended"}

Rest    == {"off", "idle"}
Opening == {"connect", "nap"}
Working == {"acquire", "clear", "start", "wait"}
Closing == {"stop", "release", "drop"}
Places  == Rest \cup Opening \cup Working \cup {"capture", "detect"} \cup Closing

Goto(i, place) == pc' = [pc EXCEPT ![i] = place]

\* The client of a cycle is gone, with its subscriber and the news for it.
Forget(i) ==
  /\ dying' = [dying EXCEPT ![i] = FALSE] /\ conn' = [conn EXCEPT ![i] = "down"]
  /\ handler' = [handler EXCEPT ![i] = FALSE] /\ view' = [view EXCEPT ![i] = FALSE]
  /\ sub' = [sub EXCEPT ![i] = "off"] /\ mail' = [mail EXCEPT ![i] = <<>>]
  /\ job' = [job EXCEPT ![i] = 1] /\ tries' = [tries EXCEPT ![i] = Attempts]

\* The process ends: its threads are gone, the server is not told.
Ends(i) == /\ Goto(i, "off") /\ Forget(i)
           /\ sig' = [sig EXCEPT ![i] = FALSE] /\ UNCHANGED serverVars

\* The server tells the sessions that listen.
Publish(event, to) ==
  LET heard == {j \in to : sub[j] = "run"}
  IN  /\ \A j \in heard : Len(mail[j]) < MaxMail
      /\ mail' = [j \in Instances |-> IF j \in heard THEN Append(mail[j], event)
                                                     ELSE mail[j]]

Pending(i, event) == \E k \in DOMAIN mail[i] : mail[i][k] = event

\* No news on its way will take i's handler from it, and a transmission is
\* known to it and will not be taken for an ended one.
UpToDate(i) == /\ ~Pending(i, "taken")
               /\ traffic # None => view[i] /\ ~Pending(i, "ended")

-----------------------------------------------------------------------------
(* automation_script.py                                                     *)

\* "Start IDS": one instance in the background, then one in the foreground.
ChooseStart(b, f) ==
  /\ menu = "prompt" /\ b # f /\ pc[b] = "off" /\ pc[f] = "off"
  /\ pc' = [pc EXCEPT ![b] = "idle", ![f] = "idle"]
  /\ menu' = "front" /\ front' = f /\ group' = group \cup {b, f}
  /\ UNCHANGED <<job, tries, dying, sig, clientVars, serverVars, loose>>

\* "Stop IDS", an invalid choice, or a Popen that failed: the foreground
\* instance is started all the same.
ChooseOther(f) ==
  /\ menu = "prompt" /\ pc[f] = "off"
  /\ Goto(f, "idle")
  /\ menu' = "front" /\ front' = f /\ group' = group \cup {f}
  /\ UNCHANGED <<job, tries, dying, sig, clientVars, serverVars, loose>>

FrontEnded ==
  /\ menu = "front" /\ pc[front] = "off"
  /\ menu' = "prompt" /\ front' = None
  /\ UNCHANGED <<group, mainVars, sig, clientVars, serverVars, loose>>

\* SIGINT for the process group of the terminal.  At a prompt it also ends
\* automation_script.py.
Interrupt ==
  /\ CtrlC /\ menu \in {"prompt", "front"}
  /\ sig' = [i \in Instances |-> sig[i] \/ (i \in group /\ pc[i] # "off")]
  /\ menu' = IF menu = "front" THEN "grace" ELSE "gone"
  /\ UNCHANGED <<front, group, mainVars, clientVars, serverVars, loose>>

\* subprocess.run kills what is left of the foreground instance.
GraceOver ==
  /\ menu = "grace" /\ menu' = "prompt"
  /\ Ends(front)
  /\ loose' = (loose \/ owner = front)
  /\ front' = None /\ UNCHANGED group

Exit ==
  /\ menu = "prompt" /\ menu' = "gone"
  /\ UNCHANGED <<front, group, mainVars, sig, clientVars, serverVars, loose>>

\* The user starts automation_script.py again, in a new process group.
Relaunch ==
  /\ menu = "gone" /\ menu' = "prompt" /\ group' = {}
  /\ UNCHANGED <<front, mainVars, sig, clientVars, serverVars, loose>>

-----------------------------------------------------------------------------
(* main.py: the cycle.  A signal is taken before the next step.             *)

At(i, place) == pc[i] = place /\ ~sig[i]
Up(i) == conn[i] = "up"

\* A cycle that finds no server address ends at once and leaves no trace.
BeginCycle(i) ==
  /\ At(i, "idle")
  /\ Goto(i, "connect")
  /\ UNCHANGED <<menuVars, job, tries, dying, sig, clientVars, serverVars, loose>>

\* AWSManager is constructed outside the try block.
BuildFails(i) ==
  /\ At(i, "idle") /\ Ends(i)
  /\ UNCHANGED <<menuVars, loose>>

\* The ports of the new client are synchronised with the server.
Connect(i) ==
  /\ At(i, "connect")
  /\ Goto(i, "acquire")
  /\ conn' = [conn EXCEPT ![i] = "up"] /\ sub' = [sub EXCEPT ![i] = "run"]
  /\ view' = [view EXCEPT ![i] = traffic # None]
  /\ UNCHANGED <<menuVars, job, tries, dying, sig, handler, mail, serverVars, loose>>

ConnectFails(i) ==
  /\ pc[i] = "connect"
  /\ Goto(i, "nap") /\ tries' = [tries EXCEPT ![i] = @ - 1]
  /\ sig' = [sig EXCEPT ![i] = FALSE]
  /\ UNCHANGED <<menuVars, job, dying, clientVars, serverVars, loose>>

NapOver_OneMore(i) ==  \* seeded bug: the loop gives up one attempt too late
  /\ At(i, "nap")
  /\ Goto(i, IF tries[i] < 0 THEN "stop" ELSE "connect")
  /\ UNCHANGED <<menuVars, job, tries, dying, sig, clientVars, serverVars, loose>>

\* The code sleeps after the last attempt, too.
NapOver(i) ==
  /\ At(i, "nap")
  /\ Goto(i, IF tries[i] = 0 THEN "stop" ELSE "connect")
  /\ UNCHANGED <<menuVars, job, tries, dying, sig, clientVars, serverVars, loose>>

\* The job is over, done or with an error that _generate_traffic swallows.
JobOver(i) ==
  IF job[i] = 1 THEN Goto(i, "acquire") /\ job' = [job EXCEPT ![i] = 2]
  ELSE Goto(i, "capture") /\ UNCHANGED job

\* reset(): the ports are taken by force, whatever the client believes; the
\* event of its own takeover is ignored.
Acquire(i) ==
  /\ At(i, "acquire") /\ Up(i)
  /\ owner' = i /\ handler' = [handler EXCEPT ![i] = TRUE]
  /\ Publish("taken", Instances \ {i})
  /\ Goto(i, "clear")
  /\ loose' = (loose \/ ~UpToDate(i))
  /\ UNCHANGED <<menuVars, job, tries, dying, sig, conn, view, sub, traffic>>

\* The server stops a job of the ports.
Silence ==
  /\ traffic' = None
  /\ IF traffic # None THEN Publish("stopped", Instances) ELSE UNCHANGED mail

\* Then stop(), which sends nothing unless the ports are believed to
\* transmit, and the streams are replaced, which the server refuses while
\* they do.
CanClear(i) == Up(i) /\ handler[i] /\ owner = i /\ (view[i] \/ traffic = None)

Clear_Keeps(i) ==  \* seeded bug: without the stop
  /\ At(i, "clear") /\ CanClear(i)
  /\ view' = [view EXCEPT ![i] = FALSE] /\ Goto(i, "start")
  /\ loose' = Pending(i, "taken")
  /\ UNCHANGED <<menuVars, job, tries, dying, sig, conn, handler, sub, mail, serverVars>>

\* A reset() that succeeds ties up what was loose, if the news on its way
\* let it.
Clear(i) ==
  /\ At(i, "clear") /\ CanClear(i)
  /\ Silence /\ view' = [view EXCEPT ![i] = FALSE] /\ Goto(i, "start")
  /\ loose' = Pending(i, "taken")
  /\ UNCHANGED <<menuVars, job, tries, dying, sig, conn, handler, sub, owner>>

CanStart(i) == Up(i) /\ handler[i] /\ owner = i /\ ~view[i]

Start(i) ==
  /\ At(i, "start") /\ CanStart(i)
  /\ traffic' = i /\ view' = [view EXCEPT ![i] = TRUE]
  /\ Publish("started", Instances)
  /\ Goto(i, "wait")
  /\ loose' = (loose \/ Pending(i, "ended"))
  /\ UNCHANGED <<menuVars, job, tries, dying, sig, conn, handler, sub, owner>>

WaitDone_Deaf(i) ==  \* seeded bug: the loop never looks at the connection
  /\ At(i, "wait") /\ ~(handler[i] /\ view[i]) /\ JobOver(i)
  /\ UNCHANGED <<menuVars, tries, dying, sig, clientVars, serverVars, loose>>

\* None of the client's own ports is active, or the call cannot ask.
WaitDone(i) ==
  /\ At(i, "wait") /\ ~(handler[i] /\ view[i] /\ Up(i)) /\ JobOver(i)
  /\ UNCHANGED <<menuVars, tries, dying, sig, clientVars, serverVars, loose>>

\* The client refuses without connection or handler, the server who does not
\* own the ports.
Refused(i) ==
  /\ \/ At(i, "acquire") /\ ~Up(i)
     \/ At(i, "clear") /\ ~CanClear(i)
     \/ At(i, "start") /\ ~CanStart(i)
  /\ JobOver(i)
  /\ UNCHANGED <<menuVars, tries, dying, sig, clientVars, serverVars, loose>>

\* sniff() has its packets.
Capture(i) ==
  /\ At(i, "capture") /\ Goto(i, "detect")
  /\ UNCHANGED <<menuVars, job, tries, dying, sig, clientVars, serverVars, loose>>

\* The detector was never fitted: ValueError, which the cycle catches.
Detect_Uncaught(i) ==  \* seeded bug: the cycle catches STLError only
  /\ At(i, "detect") /\ Goto(i, "stop") /\ dying' = [dying EXCEPT ![i] = TRUE]
  /\ UNCHANGED <<menuVars, job, tries, sig, clientVars, serverVars, loose>>

Detect(i) ==
  /\ At(i, "detect") /\ Goto(i, "stop")
  /\ UNCHANGED <<menuVars, job, tries, dying, sig, clientVars, serverVars, loose>>

\* disconnect(), in the `finally`: stop what the client believes to hold and
\* to transmit, ...
Stop_Skipped(i) ==  \* seeded bug: disconnect(stop_traffic = False)
  /\ At(i, "stop") /\ Goto(i, "release")
  /\ UNCHANGED <<menuVars, job, tries, dying, sig, clientVars, serverVars, loose>>

Stop(i) ==
  /\ At(i, "stop") /\ Goto(i, "release")
  /\ IF Up(i) /\ handler[i] /\ view[i] /\ owner = i
       THEN Silence /\ view' = [view EXCEPT ![i] = FALSE]
       ELSE UNCHANGED <<traffic, view, mail>>
  /\ UNCHANGED <<menuVars, job, tries, dying, sig, conn, handler, sub, owner, loose>>

\* ... give back what it believes to hold, ...
Release_Active(i) ==  \* seeded bug: get_active_ports for get_acquired_ports
  /\ At(i, "release") /\ Goto(i, "drop")
  /\ IF Up(i) /\ handler[i] /\ view[i] /\ owner = i
       THEN owner' = None /\ handler' = [handler EXCEPT ![i] = FALSE]
       ELSE UNCHANGED <<owner, handler>>
  /\ UNCHANGED <<menuVars, job, tries, dying, sig, conn, view, sub, mail, traffic, loose>>

Release(i) ==
  /\ At(i, "release") /\ Goto(i, "drop")
  /\ IF Up(i) /\ handler[i] /\ owner = i
       THEN owner' = None /\ handler' = [handler EXCEPT ![i] = FALSE]
       ELSE UNCHANGED <<owner, handler>>
  /\ UNCHANGED <<menuVars, job, tries, dying, sig, conn, view, sub, mail, traffic, loose>>

\* ... join the subscriber and close the connection.
Drop(i) ==
  /\ At(i, "drop") /\ sub[i] \notin {"mark", "shoot"}
  /\ Goto(i, IF dying[i] THEN "off" ELSE "idle")
  /\ Forget(i)
  /\ UNCHANGED <<menuVars, sig, serverVars, loose>>

-----------------------------------------------------------------------------
(* SIGINT in main (at "connect" it makes the attempt fail: ConnectFails).   *)

\* Inside a call of the client it becomes a TRexError: the job is given up,
\* or disconnect() goes on with its next part.  sniff() just returns.
Swallow(i) ==
  /\ sig[i] /\ sig' = [sig EXCEPT ![i] = FALSE]
  /\ \/ pc[i] \in Working /\ JobOver(i)
     \/ pc[i] = "capture" /\ Goto(i, "detect") /\ UNCHANGED job
     \/ pc[i] = "stop" /\ Goto(i, "release") /\ UNCHANGED job
     \/ pc[i] = "release" /\ Goto(i, "drop") /\ UNCHANGED job
  /\ loose' = \/ loose
              \/ owner = i /\ pc[i] = "release"
              \/ owner = i /\ pc[i] = "stop" /\ traffic # None
  /\ UNCHANGED <<menuVars, tries, dying, clientVars, serverVars>>

\* Between two calls it unwinds the cycle, which closes the session ...
Unwind(i) ==
  /\ sig[i] /\ sig' = [sig EXCEPT ![i] = FALSE]
  /\ pc[i] \in Opening \cup Working \cup {"capture", "detect"}
  /\ Goto(i, "stop") /\ dying' = [dying EXCEPT ![i] = TRUE]
  /\ UNCHANGED <<menuVars, job, tries, clientVars, serverVars, loose>>

\* ... and out of a cycle, or out of disconnect(), it ends the process.
Succumb(i) ==
  /\ sig[i] /\ pc[i] \in {"idle"} \cup Closing
  /\ Ends(i)
  /\ loose' = (loose \/ owner = i)
  /\ UNCHANGED menuVars

Main(i) ==
  \/ BeginCycle(i) \/ BuildFails(i) \/ Connect(i) \/ ConnectFails(i) \/ NapOver(i)
  \/ Acquire(i) \/ Clear(i) \/ Start(i) \/ WaitDone(i) \/ Refused(i)
  \/ Capture(i) \/ Detect(i) \/ Stop(i) \/ Release(i) \/ Drop(i)
  \/ Swallow(i) \/ Unwind(i) \/ Succumb(i)

-----------------------------------------------------------------------------
(* The subscriber thread.                                                   *)

\* An event.  A takeover by another session takes the handler, and the end
\* of a job is the end of whatever the ports do; that ports were started or
\* stopped is news only to a client that does not hold them.
Handle_Own(i) ==  \* seeded bug: without the tests of is_acquired()
  /\ sub[i] = "run" /\ mail[i] # <<>>
  /\ mail' = [mail EXCEPT ![i] = Tail(@)]
  /\ handler' = [handler EXCEPT ![i] = @ /\ Head(mail[i]) # "taken"]
  /\ view' = [view EXCEPT ![i] =
                IF Head(mail[i]) = "taken" THEN @ ELSE Head(mail[i]) = "started"]
  /\ UNCHANGED <<menuVars, mainVars, sig, conn, sub, serverVars, loose>>

Handle(i) ==
  /\ sub[i] = "run" /\ mail[i] # <<>>
  /\ mail' = [mail EXCEPT ![i] = Tail(@)]
  /\ handler' = [handler EXCEPT ![i] = @ /\ Head(mail[i]) # "taken"]
  /\ view' = [view EXCEPT ![i] =
                IF Head(mail[i]) = "ended" THEN FALSE
                ELSE IF Head(mail[i]) \in {"started", "stopped"} /\ ~handler[i]
                  THEN Head(mail[i]) = "started" ELSE @]
  /\ UNCHANGED <<menuVars, mainVars, sig, conn, sub, serverVars, loose>>

\* mark_for_disconnect, after a time-out or a shutdown of the server ...
Lose(i) ==
  /\ i \in Losses /\ sub[i] = "run" /\ Up(i)
  /\ conn' = [conn EXCEPT ![i] = "lost"] /\ sub' = [sub EXCEPT ![i] = "mark"]
  /\ mail' = [mail EXCEPT ![i] = <<>>]
  /\ loose' = (loose \/ owner = i)
  /\ UNCHANGED <<menuVars, mainVars, sig, portVars, serverVars>>

\* ... tests whether main is in a call of the client.  The outer call of a
\* nest has the flag cleared when the first inner one returns.
TestFlag(i) ==
  /\ sub[i] = "mark"
  /\ \/ sub' = [sub EXCEPT ![i] = "off"]
     \/ /\ pc[i] \in Working \cup {"stop", "release"}
        /\ sub' = [sub EXCEPT ![i] = "shoot"]
  /\ UNCHANGED <<menuVars, mainVars, sig, conn, portVars, mail, serverVars, loose>>

Shoot(i) ==
  /\ sub[i] = "shoot"
  /\ sub' = [sub EXCEPT ![i] = "off"] /\ sig' = [sig EXCEPT ![i] = TRUE]
  /\ UNCHANGED <<menuVars, mainVars, conn, portVars, mail, serverVars, loose>>

\* An exception in the thread sends SIGTERM, which nothing handles.
SubscriberCrash(i) ==
  /\ i \in Losses /\ sub[i] = "run" /\ Ends(i)
  /\ loose' = (loose \/ owner = i)
  /\ UNCHANGED menuVars

Subscriber(i) == Handle(i) \/ TestFlag(i) \/ Shoot(i)

\* The server ends a job after its duration.
Finish ==
  /\ traffic # None /\ traffic' = None
  /\ Publish("ended", Instances)
  /\ UNCHANGED <<menuVars, mainVars, sig, conn, portVars, sub, owner, loose>>

-----------------------------------------------------------------------------
Init ==
  /\ menu = "prompt" /\ front = None /\ group = {}
  /\ pc = [i \in Instances |-> "off"] /\ job = [i \in Instances |-> 1]
  /\ tries = [i \in Instances |-> Attempts]
  /\ dying = [i \in Instances |-> FALSE] /\ sig = [i \in Instances |-> FALSE]
  /\ conn = [i \in Instances |-> "down"] /\ handler = [i \in Instances |-> FALSE]
  /\ view = [i \in Instances |-> FALSE]
  /\ sub = [i \in Instances |-> "off"] /\ mail = [i \in Instances |-> <<>>]
  /\ owner = None /\ traffic = None /\ loose = FALSE

Menu ==
  \/ \E b, f \in Instances : ChooseStart(b, f)
  \/ \E f \in Instances : ChooseOther(f)
  \/ FrontEnded \/ Interrupt \/ GraceOver \/ Exit \/ Relaunch

Next ==
  \/ Menu
  \/ \E i \in Instances : Main(i) \/ Subscriber(i) \/ Lose(i) \/ SubscriberCrash(i)
  \/ Finish

Spec == Init /\ [][Next]_vars

\* Threads are scheduled, a day passes, packets arrive, jobs have a duration.
\* Main is strongly fair, because only the bound MaxMail, which the code does
\* not have, disables a step of it once it is enabled.
FairSpec ==
  /\ Spec /\ WF_vars(Finish) /\ WF_vars(GraceOver)
  /\ \A i \in Instances : SF_vars(Main(i)) /\ WF_vars(Subscriber(i))

-----------------------------------------------------------------------------
TypeOK ==
  /\ menu \in {"prompt", "front", "grace", "gone"} /\ front \in Instances \cup {None}
  /\ group \subseteq Instances
  /\ pc \in [Instances -> Places] /\ job \in [Instances -> {1, 2}]
  /\ tries \in [Instances -> 0..Attempts]
  /\ dying \in [Instances -> BOOLEAN] /\ sig \in [Instances -> BOOLEAN]
  /\ conn \in [Instances -> {"down", "up", "lost"}]
  /\ handler \in [Instances -> BOOLEAN] /\ view \in [Instances -> BOOLEAN]
  /\ sub \in [Instances -> {"off", "run", "mark", "shoot"}]
  /\ mail \in [Instances -> Seq(News)]
  /\ \A i \in Instances : Len(mail[i]) <= MaxMail
  /\ owner \in Instances \cup {None} /\ traffic \in Instances \cup {None}
  /\ loose \in BOOLEAN

\* Between the cycles the server is free and silent, whoever took the ports
\* from whom in between and whatever was interrupted, unless the last holder
\* was cut off from the server, or took the ports or started its job before it
\* had the news that concerned it, and no reset() has put that right.
QuietAtRest ==
  (~loose /\ \A i \in Instances : pc[i] \in Rest) => owner = None /\ traffic = None

\* Two instances fight for the ports and act on what they last heard of them,
\* yet no job is started on top of another.
CleanStart == [][\A i \in Instances : Start(i) => traffic = None]_vars

\* Nothing that goes wrong in a cycle ends the schedule: only a signal makes
\* the cycle unwind, and only that, or being killed, ends the process.
SchedulerSurvives ==
  [][\A i \in Instances :
       /\ dying'[i] => dying[i] \/ sig[i]
       /\ pc[i] \notin Rest /\ pc'[i] = "off"
            => dying[i] \/ sig[i] \/ GraceOver \/ SubscriberCrash(i)]_vars

\* Every cycle comes to its end, with or without the server.
CyclesEnd == \A i \in Instances : pc[i] \notin Rest ~> pc[i] \in Rest

\* "if connection is lost a SIGINT will be sent to the main thread ...
\* causing the ZMQ RPC to stop what it's doing and report an error"
\* (trex_conn.py:116): a lost connection does no more than that.
LossOnlyReported == \A i \in Instances : ~dying[i]

\* "Block until traffic on specified port(s) has ended" (trex_client.py:2120):
\* wait_on_traffic of a connected client that owns the ports does not return
\* while its job transmits.
WaitsForTheEnd ==
  [][\A i \in Instances : WaitDone(i) /\ Up(i) /\ owner = i => traffic # i]_vars
=============================================================================
