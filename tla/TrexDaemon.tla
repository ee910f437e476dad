----------------------------- MODULE TrexDaemon -----------------------------
(***************************************************************************)
(* The TRex daemon (trex_daemon_server): it reserves the traffic generator *)
(* for a user, launches the t-rex-64 process and ends it.                  *)
(*                                                                         *)
(*   main     serves one RPC at a time (SimpleJSONRPCServer has a single   *)
(*            thread) and takes the signals                                *)
(*   thread   one AsynchronousTRexSession per run: launches the process,   *)
(*            polls it, kills it on request, and reports the end           *)
(*   monitor  ZmqMonitorSession: turns the first dump the process          *)
(*            publishes into the status Running                            *)
(*                                                                         *)
(* They share the CTRex object with no lock (start_lock only guards RPCs   *)
(* against each other, and these never overlap): status, expect_trex,      *)
(* first_dump, zmq_error.                                                  *)
(***************************************************************************)
EXTENDS Integers

CONSTANTS Users, NoUser,
          Tokens,    \* the values of gen_seq (1..999 in the code)
          MaxRuns,   \* bound on the runs
          MaxPolls,  \* status polls of a blocking call (timeout / interval)
          MaxPipe,   \* bound on the dumps waiting in the socket
          Faults,    \* what may go wrong, a subset of FaultKinds
          Hasty      \* TRUE: the holder of the reservation starts a run
                     \* without waiting for the one before

\* The export file cannot be opened; the process cannot be launched; a dump
\* cannot be decoded; join() gives up after its 5 seconds.
FaultKinds == {"export", "launch", "dump", "slowjoin"}

ASSUME UsersAssumption == NoUser \notin Users
ASSUME TokensAssumption == Tokens \subseteq Nat \ {0} /\ Tokens # {}
ASSUME BoundsAssumption == MaxRuns \in Nat /\ MaxPolls \in Nat \ {0}
                           /\ MaxPipe \in Nat
ASSUME FaultsAssumption == Faults \subseteq FaultKinds /\ Hasty \in BOOLEAN

Runs == 1..MaxRuns

VARIABLES
  reservation,  \* CTRexServer.__reservation
  seq,          \* CTRex.seq, 0 before the first run
  status,       \* CTRex.status
  expect,       \* CTRex.expect_trex
  firstdump,    \* ZmqMonitorSession.first_dump
  zmqerr,       \* CTRex.zmq_error is set
  run,          \* CTRex.session: the run started last, 0 before the first
  mpc,          \* main: "serve", or where the RPC in progress is
  goal,         \* what that RPC is
  caller,       \* who called it
  left,         \* the polls it has left
  thread,       \* run -> its session thread
  stopreq,      \* run -> AsynchronousTRexSession.stoprequest
  mon,          \* the monitor thread
  held,         \* user -> the seq of the run he started last (external)
  issuer,       \* run -> the user who started it
  proc,         \* run -> its t-rex-64 process (external)
  pipe          \* the dumps that wait in the socket (external)

rpcVars    == <<mpc, goal, caller, left>>
serverVars == <<reservation, seq, held>>
trexVars   == <<status, expect, firstdump, zmqerr>>
runVars    == <<run, issuer, thread, stopreq, proc>>
monVars    == <<mon, pipe>>
vars == <<rpcVars, serverVars, trexVars, runVars, monVars>>

Statuses == {"Idle", "Starting", "Running"}
Ended(r) == thread[r] \in {"done", "crashed"}
Alive(r) == proc[r] = "alive"      \* runs, and nobody asked it to end

-----------------------------------------------------------------------------
(* RPCs that answer at once.                                                *)

Serving == mpc = "serve"
Return == mpc' = "serve" /\ goal' = "none" /\ caller' = NoUser /\ left' = MaxPolls

Reserve_Busy(u) ==  \* seeded bug: without the test of the status
  /\ Serving /\ reservation = NoUser
  /\ reservation' = u
  /\ UNCHANGED <<seq, held, rpcVars, trexVars, runVars, monVars>>

Reserve(u) ==
  /\ Serving /\ reservation = NoUser /\ status = "Idle"
  /\ reservation' = u
  /\ UNCHANGED <<seq, held, rpcVars, trexVars, runVars, monVars>>

Cancel(u) ==
  /\ Serving /\ reservation = u
  /\ reservation' = NoUser
  /\ UNCHANGED <<seq, held, rpcVars, trexVars, runVars, monVars>>

\* get_running_status, get_running_info, get_latest_dump: report the error of
\* the monitor, once.
Query ==
  /\ Serving /\ zmqerr
  /\ zmqerr' = FALSE
  /\ UNCHANGED <<status, expect, firstdump, rpcVars, serverVars, runVars, monVars>>

-----------------------------------------------------------------------------
(* start_trex and wait_until_kickoff_finish.                                *)

Admitted_Always(u) ==  \* seeded bug: only the reservation counts
  reservation \in {NoUser, u}

\* The holder of a reservation is admitted whatever the status.
Admitted(u) == IF reservation # NoUser THEN reservation = u ELSE status = "Idle"

\* An admitted call may still fail to generate its command.
Start(u, block) ==
  /\ Serving /\ run < MaxRuns
  /\ ~Hasty /\ reservation = u => status = "Idle"
  /\ zmqerr' = FALSE
  /\ \/ /\ Admitted(u)
        /\ mpc' = "prepare" /\ caller' = u
        /\ goal' = IF block THEN "block" ELSE "start"
        /\ UNCHANGED left
     \/ UNCHANGED rpcVars
  /\ UNCHANGED <<status, expect, firstdump, serverVars, runVars, monVars>>

\* CTRex.start_trex: a monitor that is missing or dead is replaced ...
Prepare ==
  /\ mpc = "prepare" /\ mpc' = "launch"
  /\ status' = "Starting"
  /\ IF mon \in {"none", "dead"} THEN mon' = "recv" /\ firstdump' = TRUE
     ELSE UNCHANGED <<mon, firstdump>>
  /\ UNCHANGED <<goal, caller, left, expect, zmqerr, serverVars, runVars, pipe>>

\* ... the session thread is started ...
Launch ==
  /\ mpc = "launch" /\ run < MaxRuns /\ mpc' = "expect"
  /\ firstdump' = TRUE
  /\ run' = run + 1
  /\ thread' = [thread EXCEPT ![run + 1] = "spawn"]
  /\ issuer' = [issuer EXCEPT ![run + 1] = caller]
  /\ UNCHANGED <<goal, caller, left, status, expect, zmqerr, stopreq, proc,
                 serverVars, monVars>>

\* The client gets a sequence number for its run.
Grant == /\ \E t \in Tokens : seq' = t /\ held' = [held EXCEPT ![caller] = t]
         /\ Return

\* ... and its dumps are expected.
Expect ==
  /\ mpc = "expect"
  /\ expect' = TRUE
  /\ IF goal = "block"
     THEN mpc' = "poll" /\ UNCHANGED <<goal, caller, left, seq, held>>
     ELSE Grant
  /\ UNCHANGED <<reservation, status, firstdump, zmqerr, runVars, monVars>>

Kickoff ==
  /\ Serving /\ mpc' = "check" /\ goal' = "kickoff"
  /\ UNCHANGED <<caller, left, serverVars, trexVars, runVars, monVars>>

PollStatus_Endless ==  \* seeded bug: the polls are not counted
  /\ mpc = "poll"
  /\ IF status = "Starting"
     THEN mpc' = "check" /\ UNCHANGED <<goal, caller, left, seq, held>>
     ELSE IF goal = "block" /\ status = "Running" THEN Grant
     ELSE Return /\ UNCHANGED <<seq, held>>
  /\ UNCHANGED <<reservation, trexVars, runVars, monVars>>

PollStatus_Overrun ==  \* seeded bug: the end of the polls is not noticed
  /\ mpc = "poll"
  /\ IF status = "Starting"
     THEN mpc' = "check" /\ left' = left - 1 /\ UNCHANGED <<goal, caller, seq, held>>
     ELSE IF goal = "block" /\ status = "Running" THEN Grant
     ELSE Return /\ UNCHANGED <<seq, held>>
  /\ UNCHANGED <<reservation, trexVars, runVars, monVars>>

\* The loops of both calls: poll the status until it is not Starting any more
\* or the time is over, and between two polls check the monitor.  A blocking
\* start whose time is over does not look at the status again.
PollStatus ==
  /\ mpc = "poll"
  /\ IF status = "Starting" /\ left > 0
     THEN mpc' = "check" /\ left' = left - 1 /\ UNCHANGED <<goal, caller, seq, held>>
     ELSE IF goal = "block" /\ status = "Running" /\ left > 0 THEN Grant
     ELSE Return /\ UNCHANGED <<seq, held>>
  /\ UNCHANGED <<reservation, trexVars, runVars, monVars>>

\* CTRex.stop_trex on a status that is not Idle: session.join().
JoinSession(who, why) ==
  /\ stopreq' = [stopreq EXCEPT ![run] = TRUE]
  /\ mpc' = "join" /\ goal' = why /\ caller' = who
  /\ UNCHANGED <<left, run, issuer, thread, proc>>

\* assert_zmq_ok: raises the error of the monitor, and when the monitor is dead
\* ends the run and raises.
CheckMonitor ==
  /\ mpc = "check"
  /\ zmqerr' = FALSE
  /\ IF zmqerr THEN Return /\ UNCHANGED runVars
     ELSE IF mon # "dead" THEN mpc' = "poll" /\ UNCHANGED <<goal, caller, left, runVars>>
     ELSE IF status = "Idle" THEN Return /\ UNCHANGED runVars
     ELSE JoinSession(caller, "abandon")
  /\ UNCHANGED <<status, expect, firstdump, serverVars, monVars>>

-----------------------------------------------------------------------------
(* stop_trex, force_trex_kill and the signals.                              *)

Stop(u) ==
  /\ Serving /\ held[u] = seq /\ status # "Idle"
  /\ JoinSession(u, "stop")
  /\ UNCHANGED <<serverVars, trexVars, monVars>>

ForceKill ==
  /\ Serving /\ status # "Idle"
  /\ JoinSession(NoUser, "kill")
  /\ UNCHANGED <<serverVars, trexVars, monVars>>

\* The thread has ended, or join() gives up.
JoinReturn ==
  /\ mpc = "join"
  /\ Ended(run) \/ "slowjoin" \in Faults
  /\ IF goal = "exit" THEN mpc' = "off" /\ UNCHANGED <<goal, caller, left>> ELSE Return
  /\ UNCHANGED <<serverVars, trexVars, runVars, monVars>>

\* stop_handler.  Its SystemExit ends the daemon between two RPCs; within one
\* the dispatcher turns it into an error answer, and the daemon goes on.
Terminate ==
  /\ mpc \in {"serve", "poll", "check"}
  /\ IF status = "Running" THEN JoinSession(NoUser, IF Serving THEN "exit" ELSE "abandon")
     ELSE /\ IF Serving THEN mpc' = "off" /\ goal' = "exit" /\ UNCHANGED <<caller, left>>
             ELSE Return
          /\ UNCHANGED runVars
  /\ UNCHANGED <<serverVars, trexVars, monVars>>

\* Ctrl-C: KeyboardInterrupt, with the same fate.
Interrupt ==
  /\ mpc \in {"serve", "poll", "check"}
  /\ IF Serving THEN mpc' = "off" /\ UNCHANGED <<goal, caller, left>> ELSE Return
  /\ UNCHANGED <<serverVars, trexVars, runVars, monVars>>

-----------------------------------------------------------------------------
(* The session thread of a run (AsynchronousTRexSession.run).               *)

\* A failure to open the export file leaves the start time unset: computing the
\* run time raises, outside of the try, and the thread dies.
Spawn(r) ==
  /\ thread[r] = "spawn"
  /\ \/ thread' = [thread EXCEPT ![r] = "loop"] /\ proc' = [proc EXCEPT ![r] = "alive"]
     \/ /\ "launch" \in Faults
        /\ thread' = [thread EXCEPT ![r] = "finish"] /\ UNCHANGED proc
     \/ /\ "export" \in Faults
        /\ thread' = [thread EXCEPT ![r] = "crashed"] /\ UNCHANGED proc
  /\ UNCHANGED <<run, issuer, stopreq, rpcVars, serverVars, trexVars, monVars>>

Notice(r) ==
  /\ thread[r] = "loop" /\ proc[r] = "exited"
  /\ thread' = [thread EXCEPT ![r] = "finish"]
  /\ UNCHANGED <<run, issuer, stopreq, proc, rpcVars, serverVars, trexVars, monVars>>

Kill_Forgotten(r) ==  \* seeded bug: the loop is left without the signal
  /\ thread[r] = "loop" /\ stopreq[r]
  /\ thread' = [thread EXCEPT ![r] = "killed"]
  /\ UNCHANGED <<run, issuer, stopreq, proc, rpcVars, serverVars, trexVars, monVars>>

Kill_Running(r) ==  \* seeded bug: a run is not stopped before it runs
  /\ thread[r] = "loop" /\ stopreq[r] /\ status = "Running"
  /\ proc' = [proc EXCEPT ![r] = IF @ = "alive" THEN "killed" ELSE @]
  /\ thread' = [thread EXCEPT ![r] = "killed"]
  /\ UNCHANGED <<run, issuer, stopreq, rpcVars, serverVars, trexVars, monVars>>

\* SIGUSR1 to the process, which ends some time later ...
Kill(r) ==
  /\ thread[r] = "loop" /\ stopreq[r]
  /\ proc' = [proc EXCEPT ![r] = IF @ = "alive" THEN "killed" ELSE @]
  /\ thread' = [thread EXCEPT ![r] = "killed"]
  /\ UNCHANGED <<run, issuer, stopreq, rpcVars, serverVars, trexVars, monVars>>

\* ... and the status is Idle: at once after a kill, and (again) in the finally.
SetIdle(r) ==
  /\ thread[r] \in {"killed", "finish"}
  /\ status' = "Idle"
  /\ thread' = [thread EXCEPT ![r] = IF @ = "killed" THEN "finish" ELSE "clear"]
  /\ UNCHANGED <<run, issuer, stopreq, proc, expect, firstdump, zmqerr, rpcVars,
                 serverVars, monVars>>

Clear(r) ==
  /\ thread[r] = "clear"
  /\ expect' = FALSE
  /\ thread' = [thread EXCEPT ![r] = "done"]
  /\ UNCHANGED <<run, issuer, stopreq, proc, status, firstdump, zmqerr, rpcVars,
                 serverVars, monVars>>

Thread(r) == Spawn(r) \/ Notice(r) \/ Kill(r) \/ SetIdle(r) \/ Clear(r)

-----------------------------------------------------------------------------
(* The monitor thread (ZmqMonitorSession.run).                              *)

\* A dump is dropped unless a run is expected.
Receive ==
  /\ mon = "recv" /\ pipe > 0
  /\ pipe' = pipe - 1
  /\ mon' = IF expect THEN "parse" ELSE "recv"
  /\ UNCHANGED <<rpcVars, serverVars, trexVars, runVars>>

\* parse_and_update_zmq_dump, up to the test of first_dump.
Parse ==
  /\ mon = "parse"
  /\ \/ /\ "dump" \in Faults
        /\ zmqerr' = TRUE /\ mon' = "dead" /\ UNCHANGED firstdump
     \/ /\ firstdump' = FALSE
        /\ mon' = IF firstdump THEN "mark" ELSE "recv"
        /\ UNCHANGED zmqerr
  /\ UNCHANGED <<status, expect, pipe, rpcVars, serverVars, runVars>>

MarkRunning ==
  /\ mon = "mark" /\ mon' = "recv"
  /\ status' = "Running"
  /\ UNCHANGED <<expect, firstdump, zmqerr, pipe, rpcVars, serverVars, runVars>>

Monitor == Receive \/ Parse \/ MarkRunning

-----------------------------------------------------------------------------
(* The t-rex-64 process of a run (external).                                *)

Publish(r) ==
  /\ proc[r] \in {"alive", "killed"} /\ pipe < MaxPipe
  /\ pipe' = pipe + 1
  /\ UNCHANGED <<mon, rpcVars, serverVars, trexVars, runVars>>

\* By itself, after the signal, or through kill_all_trexes.
Exit(r) ==
  /\ proc[r] \in {"alive", "killed"}
  /\ proc' = [proc EXCEPT ![r] = "exited"]
  /\ UNCHANGED <<run, issuer, thread, stopreq, rpcVars, serverVars, trexVars, monVars>>

-----------------------------------------------------------------------------
Init ==
  /\ mpc = "serve" /\ goal = "none" /\ caller = NoUser /\ left = MaxPolls
  /\ reservation = NoUser /\ seq = 0 /\ held = [u \in Users |-> 0]
  /\ status = "Idle" /\ expect = FALSE /\ firstdump = FALSE /\ zmqerr = FALSE
  /\ run = 0 /\ issuer = [r \in Runs |-> NoUser]
  /\ thread = [r \in Runs |-> "none"] /\ stopreq = [r \in Runs |-> FALSE]
  /\ proc = [r \in Runs |-> "none"] /\ mon = "none" /\ pipe = 0

Request == \/ \E u \in Users : \/ Reserve(u) \/ Cancel(u) \/ Stop(u)
                               \/ \E block \in BOOLEAN : Start(u, block)
           \/ Query \/ Kickoff \/ ForceKill
Signal == Terminate \/ Interrupt
Progress == Prepare \/ Launch \/ Expect \/ PollStatus \/ CheckMonitor \/ JoinReturn
World == \E r \in Runs : Publish(r) \/ Exit(r)
Off == mpc = "off" /\ UNCHANGED vars

Next == \/ Request \/ Signal \/ Progress \/ Monitor \/ World \/ Off
        \/ \E r \in Runs : Thread(r)

Spec == Init /\ [][Next]_vars

\* The threads are scheduled.  No RPC need ever come, no process need ever end.
Fairness == WF_vars(Progress) /\ WF_vars(Monitor) /\ \A r \in Runs : WF_vars(Thread(r))

FairSpec == Spec /\ Fairness

-----------------------------------------------------------------------------
(* Properties.                                                              *)

TypeOK ==
  /\ reservation \in Users \cup {NoUser} /\ seq \in Tokens \cup {0}
  /\ held \in [Users -> Tokens \cup {0}]
  /\ status \in Statuses /\ expect \in BOOLEAN /\ firstdump \in BOOLEAN
  /\ zmqerr \in BOOLEAN
  /\ mpc \in {"serve", "prepare", "launch", "expect", "poll", "check", "join", "off"}
  /\ goal \in {"none", "block", "start", "kickoff", "stop", "kill", "abandon", "exit"}
  /\ caller \in Users \cup {NoUser} /\ left \in 0..MaxPolls
  /\ run \in 0..MaxRuns /\ issuer \in [Runs -> Users \cup {NoUser}]
  /\ thread \in [Runs -> {"none", "spawn", "loop", "killed", "finish", "clear",
                          "done", "crashed"}]
  /\ stopreq \in [Runs -> BOOLEAN] /\ proc \in [Runs -> {"none", "alive", "killed", "exited"}]
  /\ mon \in {"none", "recv", "parse", "mark", "dead"}
  /\ pipe \in 0..MaxPipe

\* A daemon that reports Idle has no t-rex-64 process it did not ask to end.
NoOrphan == status = "Idle" => \A r \in Runs : ~Alive(r)

\* TRex is never launched on top of a run.
OneRun == \A r, s \in Runs : Alive(r) /\ Alive(s) => r = s

\* While TRex is reserved, what runs is the holder's.
HolderRuns ==
  \A r \in Runs : reservation # NoUser /\ Alive(r) => issuer[r] = reservation

\* Every RPC is answered.
CallsReturn == mpc # "serve" ~> mpc \in {"serve", "off"}

\* A run that is asked to stop does not go on: its process is signalled, even
\* when the request comes before the process exists.
StopIsEffective == \A r \in Runs : stopreq[r] ~> []~Alive(r)

\* At the end of force_kill TRex is Idle (docstring of the client).
KillEndsInIdle ==
  [][mpc = "join" /\ goal = "kill" /\ mpc' = "serve" => status' = "Idle"]_vars

\* The dumps of a run under way are considered (comment on expect_trex).
DumpsExpected ==
  mpc # "expect" /\ run > 0 /\ thread[run] \in {"spawn", "loop"} => expect

\* What the users count on: TrexTurns.
Turns == INSTANCE TrexTurns
           WITH holder <- reservation,
                live <- {<<r, issuer[r]>> : r \in {q \in Runs : Alive(q)}},
                past <- {r \in Runs : proc[r] \in {"killed", "exited"}}

\* The daemon implements it: the reservation, the status, the session thread
\* and the process, each set in a step of its own, amount to taking turns.
TakesTurns == Turns!Spec
=============================================================================
