# A TLA+ model of the intrusion detection system and of the TRex parts around it

The repository holds a small intrusion detection system (IDS) in Python. Once a
day it makes a TRex server send normal and attack traffic, captures packets,
looks for anomalies, and is meant to store alerts and a model in AWS. The TRex
control plane, version 3.05, is in the repository too. This directory models the
concurrent parts of the whole, checks them with TLC on small instances, and
proves their safety with TLAPS for every instance.

## 1. Inventory

### Components

| Component | Source | State it keeps | Operations | Modelled |
|---|---|---|---|---|
| Traffic generator | `traffic_generator.py` | one `STLClient` | connect, two kinds of job, disconnect | `TrafficSession` |
| STL client session | `stl/trex_stl_client.py`, `stl/trex_stl_port.py`, `common/trex_client.py`, `common/trex_port.py`, `common/trex_psv.py` | per port: handler, state, profile states, streams | reset, add_streams, start, wait_on_traffic, stop, release, ... | `TrafficSession` (the part the IDS reaches) |
| Event subscriber | `common/trex_subscriber.py`, `common/trex_events.py` | the batch being handled | fetch and dispatch events, report a loss, crash | `TrafficSession`, `IDSSystem` |
| Connection of a client | `common/trex_conn.py`, `common/trex_api_annotators.py` | state, the flag "main is in a call" | connect, mark_for_disconnect, turn SIGINT into an error | `IDSSystem` |
| IDS cycle | `main.py`, `traffic_capture.py` | the schedule | one cycle per day | `IDSSystem` |
| Process control | `automation_script.py` | child processes, pid file | menus, background and foreground instance | `IDSSystem` (what the menus reach) |
| TRex daemon | `server/trex_server.py`, `trex_launch_thread.py`, `zmq_monitor_thread.py` | reservation, status, sequence number, session, monitor | reserve, start, stop, kill, queries, signals | `TrexDaemon`, `TrexTurns` |
| BIRD server and client | `pybird_server/pybird_zmq_server.py`, `pybird/pybird_zmq_client.py`, `pybird_server/pybird/` | lock, fragments, MD5 cache, count of clients | connect, acquire, upload, release, disconnect | `BirdServer` |
| Stateful (ASTF) client | `astf/trex_astf_client.py` | profile state, queue of states, last error | load, start, stop, clear, wait | `AstfClient` (one profile) |
| Detector, features | `anomaly_detection.py`, `feature_extractor.py` | fitted models, history | fit, detect, partial_fit | one fact in `IDSSystem` |
| Storage and alerts | `aws.py`, `lambda_zip.sh`, `alert_generation.py` | S3 model, DynamoDB table | save, load, notify, update | no: not reached |
| Infrastructure scripts | `terraform_*.py`, `configure_s3.py`, `terraform/` | `backend_config.ini`, the Terraform state | configure, init, plan, apply, destroy | no: one command each |
| Visualizer | `IDS_visualization.py` | three bounded lists | update, draw | no: one thread, no reader |
| Daemon management | `master_daemon.py`, `server/singleton_daemon.py`, `server/tcp_daemon.py` | sockets, pids | start, stop, restart | no |
| Model evaluator | `model_evaluator.py` | none | one script | no: sequential and numeric |
| Other TRex clients | `emu/`, `console/`, `stf/`, ... | | | no: the IDS never calls them |
| TRex server | binaries | traffic, owners, events | | external: as its clients see it |

Paths without a prefix are under `src/` or
`src/v3.05/automation/trex_control_plane/{interactive/trex,server}/`.

### How they interact

* `automation_script.py` starts instances of `main.py`, one in the background and
  one in the foreground, in one process group; Ctrl-C reaches both. All share one
  TRex server and take its ports from each other by force.
* `main.py` calls the traffic generator, which calls the STL client. The client
  sends blocking RPCs to the TRex server. A second thread, the subscriber,
  fetches the server's events and changes the same port objects. There is no
  lock: `wait_on_traffic` polls what the subscriber writes. The subscriber
  reports a lost connection by sending SIGINT to its own process.
* The ASTF client is the same pair of threads with another protocol: the server
  answers a command at once and carries it out later, and the subscriber queues
  the states that a blocking command polls for.
* The daemon launches the TRex server. Its main thread serves one RPC at a time
  and takes signals, a session thread per run watches the process, a monitor
  thread turns the first statistics message into the status Running. They share
  one object, `CTRex`.
* Clients of the BIRD server upload a configuration in fragments, under a lock
  that another client can take by force between two of them.

### What is hard, and what correctness means

* Session: an event arrives before, between or after the assignments of the
  command it belongs to; a command visits the ports one by one and some refuse;
  another session takes a port over. Correct: waiting ends exactly with the
  traffic, a job starts on clean ports, a job is *done* only if it was sent on
  every port, nothing transmits after `disconnect()`, and the session ends.
* IDS: SIGINT anywhere in a cycle, from the terminal or from the subscriber; a
  kill after a quarter of a second; two instances on one server; a connection
  lost at any step of the closing; a client that acts on what it last heard of
  ports another instance has taken since. Correct: the server is quiet between
  cycles, no job is started on top of another, the schedule goes on, every cycle
  ends.
* Daemon: a status written by three threads, a stop that races the launch and
  the natural end, a thread that dies, signals in the middle of an RPC. Correct:
  *Idle* means nothing runs, one run at a time, a reservation excludes others,
  every RPC is answered, a stop is effective.
* BIRD server: an upload that is cut off, a request served after its client gave
  up, a cache keyed by an MD5 the client computes, a BIRD that does not answer, a
  client of another version. Correct: a client told *configured* has its text
  running, and clients come and go without harm to others.
* ASTF client: the states of an earlier run still in the queue, a list that one
  thread tests and the other pops from, an error of an earlier command. Correct:
  the answer of a blocking command is true, and every command ends.

`PROJECT.json` lists every hazard at its line with the properties that cover it.

Three facts of this commit limit what the program reaches.
`traffic_generator.py:4` imports a name that `terraform_output_reader.py` does
not define; the model takes the import as resolved. `main.py:29` creates a
detector that nothing fits, so a cycle of `main.py` ends at line 47 with an
exception, after the traffic: alerts and storage are never reached.
`lambda_zip.sh:101-102` writes a nested `def` that Python rejects.

## 2. Modules

| Module | What it is |
|---|---|
| `TrafficJobs` | abstract: jobs one after the other, each launched on every port, each with a verdict |
| `TrafficSession` | the session in detail; `Promise` instantiates `TrafficJobs` |
| `TrafficSessionInvariant` | the inductive invariant `SafetyInv`, in named parts, and the assumption `Undisturbed` |
| `TrafficSessionProofs` | type correctness |
| `TrafficSessionSafety` | the invariant is inductive; safety and refinement |
| `TrafficSessionEnd` | the end: nothing left behind, every job done |
| `IDSSystem` | menus, instances of `main.py` and the server they share |
| `IDSSystemInvariant`, `IDSSystemProofs` | its inductive invariant `QuietInv`; type correctness and safety |
| `TrexTurns` | abstract: TRex is one device, reserved, used in turns |
| `TrexDaemon` | the daemon in detail; `Turns` instantiates `TrexTurns` |
| `TrexDaemonInvariant`, `TrexDaemonProofs` | `DaemonInv` and the assumption `Calm`; type correctness, safety, refinement |
| `BirdUploads` | abstract: one holder of BIRD, uploads that take effect in one step |
| `BirdServer` | the BIRD server and its clients; `Device` instantiates `BirdUploads` |
| `BirdServerInvariant`, `BirdServerProofs` | `BirdInv` and `KeyInv`; type correctness, safety, refinement |
| `AstfClient` | the ASTF client, its subscriber and one profile |
| `AstfClientInvariant` | the inductive invariant `AnswerInv` behind the answers of the client |
| `AstfClientProofs` | type correctness and the order of the queue |
| `AstfClientAnswers` | `AnswerInv` is inductive; the answers are true, the subscriber survives |
| `MC...` | sets, symmetry and names for the configurations |

A definition whose name has a suffix and whose comment says *seeded bug*
(`Kill_Forgotten`, `Clear_Keeps`, ...) is a mistake somebody could make in
the code. Nothing uses it; put in the place of the definition it is named
after, it makes a property fail (`mutants` in `PROJECT.json`).

### TrafficSession and the code

`phase` says which client call main is in; `todo` holds the ports that
`_for_each_port` has still to visit. An operation is a Call action (the checks
in the client and the RPC; the server executes it) and a Return action (what the
client stores after the answer). `STLPort.start` has a third, `StartApply`,
since it reads `self.state` and then writes the profile. The subscriber has
`Fetch`, `Handle`, `ReadProfile` and `WriteState`: a batch, the effect of one
event, and the two halves of `__sync_port_state_from_profile`.

| Code | Actions |
|---|---|
| `connect`, `_connect`, `Port.sync` | `SyncCall`, `SyncReturn`, `ConnectDone`, `Reconnect` |
| `reset` | `BeginJob`, `Acquire*`, `Cleanup*`, `Stop*`, `Remove*`, `Attr*`, `ResetDone` |
| `add_streams`, `start` | `BeginAdd`, `Add*`, `Start*` |
| `wait_on_traffic` | `WaitDone` |
| `disconnect` | `BeginCapture`, `BeginHalt`, `HaltDone`, `Release*` |
| `except STLError` in `_generate_traffic` | `Conclude("error")` in `RaiseOr` |
| the server and other sessions (external) | `TimePasses`, `Finish`, `Steal`, `OtherStop`, `OtherStart` |

Left out: contents of streams, statistics, services, the order of the ports in
a command (any), time limits of the RPCs, and the loss of the connection.

### TrexDaemon and the code

`mpc` says where main is. The RPCs that answer at once are single actions. A
start is `Start` (admission), `Prepare`, `Launch`, `Expect` (the parts of
`CTRex.start_trex` that the other threads can tell apart) and, when it blocks,
a loop of `PollStatus` and `CheckMonitor`, which `Kickoff` shares. `Stop`,
`ForceKill`, `CheckMonitor` and `Terminate` join the session thread, and
`JoinReturn` ends the join. `Spawn`, `Notice`, `Kill`, `SetIdle`, `Clear` are
the session thread; `Receive`, `Parse`, `MarkRunning` the monitor.

Left out: texts and error codes, which steer no action; files; a second
platform configuration, so the ZMQ port never changes; the option with_tb.
Signals are taken while main rests (serving, or between two polls), which is
where it spends its time. A signal within an RPC raises `SystemExit` inside the
dispatcher of jsonrpclib, whose bare `except` answers with an error: the daemon
goes on. SIGKILL is not modelled. The model ends with the main thread.

`TrexTurns` sees three things of this: `holder` is the reservation, `live` the
pair of a run whose process lives and the user who issued it, `past` the runs
whose process was killed or has exited. Status, threads and RPCs are hidden.

### IDSSystem and the code

`pc[i]` is the place of instance `i` in `run_ids_cycle`: the places of `Working`
are the calls of the traffic generator, those of `Closing` the parts of
`disconnect()` in the `finally`. The ports are taken together, since
`TrafficSession` has them one by one.

What the server does (`owner`, `traffic`) and what a client believes (`handler`,
`view`, its port's handler and state) are different variables. Every operation of
the client looks at its beliefs first, as the code does, and at the connection;
the server then does what it is told if the session owns the ports. `Publish` puts
the news of a takeover, a start, a stop or an end into the `mail` of every
instance whose subscriber runs, in the order of the events, and `Handle` takes the
first one in whenever the subscriber gets to it: a takeover clears the handler
whoever owns the ports by now, an end clears the state, a start or stop counts only
for a client without handler. `Connect` reads the state from the server; its own
takeovers a session ignores. So `stop()` within `reset()` and `disconnect()`, and
`release()`, may do nothing on a server that transmits for this very client.

| Code | Actions |
|---|---|
| `run_ids`, `main_menu` of `automation_script.py` | `ChooseStart`, `ChooseOther`, `FrontEnded`, `Exit`, `Relaunch` |
| Ctrl-C in the terminal, `subprocess.run` killing its child | `Interrupt`, `GraceOver` |
| `run_ids_cycle` up to the connection, with its sleeps | `BeginCycle`, `BuildFails`, `Connect`, `ConnectFails`, `NapOver` |
| the jobs; an `STLError` that is swallowed | `Acquire`, `Clear`, `Start`, `WaitDone`, `Refused` |
| `capture_traffic`, `detect_anomalies` | `Capture`, `Detect` |
| `disconnect` in the `finally` | `Stop`, `Release`, `Drop` |
| `client_api` around a `KeyboardInterrupt`; the interrupt elsewhere | `Swallow`, `Unwind`, `Succumb` |
| events, `mark_for_disconnect`, SIGTERM of a failed subscriber | `Handle`, `Lose`, `TestFlag`, `Shoot`, `SubscriberCrash` |

What the code does and a reader of it would hardly expect, all in the model:

* Ctrl-C inside a call of the client only costs that call. The foreground
  instance is killed a quarter of a second later; the background instance goes
  on with its cycle.
* "Stop IDS" starts an instance like every other choice, and "Start IDS" starts
  two. `start_ids`, `stop_ids` and `check_ids_status`, with their pid file, have
  no caller, so their hazards are listed but no action models them.
* The flag "main is in a call" is cleared when the first inner call of a nest
  returns, so a lost connection is often not reported; and it is tested and used
  in two steps, so that the SIGINT may hit main when it is out of the call.
* An error of the subscriber ends the whole process with SIGTERM.
* The event of a takeover clears the handler of a client that has taken the ports
  back meanwhile. It waits for nothing any more, and its `disconnect()` neither
  stops nor releases anything.

Of the server (external) the model assumes that it obeys nobody but the owner,
grants a forced acquisition, refuses to replace streams of ports that transmit
(in `Clear`), and publishes its events in order. `Connect` with its subscription and
its look at the ports is one step.

`loose` is a history variable: an instance was cut off while it owned the ports
(the connection lost, the process killed or interrupted within `disconnect()`), or
it took the ports or started a job before it had the news that concerned it, a
takeover, a start or an end. Nobody may be left then who knows that he has to clean
up. The next `reset()` that succeeds puts it right.

Left out: an instance without a server address (its cycle does nothing), the time
between two cycles, the content of captures.

### BirdServer and the code

The server has one thread, so a request and its answer are one step, taken
inside the step of the client that waits (`Call`, `SendFragment`, `UploadDone`,
`UploadFails`) or by `ServeLate` when the client has given up (`GiveUp`).

| Code | Actions and operators |
|---|---|
| `BirdWrapper.connect`, `disconnect`, `acquire`, `release`, `set_empty_config` | `Connect`, `Disconnect`, `Acquire`, `Release`, `SetEmpty` |
| `BirdWrapper.set_config`, `_set_new_config`, `LRU_cache` | `SetConfig`, `SetNewConfig`, `SetCached`, `SetNew`, `Remember` |
| `PyBird.set_config` and the answers of BIRD | `Bird` |
| `_upload_fragmented` of the client | `BeginUpload`, `SendFragment`, `UploadDone`, `UploadFails` |
| time-outs of the client's channel | `GiveUp`, `ServeLate` |

Kept as they are in the code: the first fragment does not clear what an earlier
upload left; `_current_md5` is set before BIRD has confirmed a cached text;
`PyBird.set_config` returns None when BIRD confirms nothing, and the test of the
answer then raises; `set_empty_config` needs no handler as long as nobody holds
one, since None equals None; a client refused at `connect()` keeps its channel
open, acquires, uploads and disconnects like one that was not; a client of another
version (`Compatible` has those of the server's) is refused uncounted; the first
request to disconnect that brings the count to zero closes the socket to BIRD, and
one at zero is an error. That socket matters to no upload, since every query opens
it again, so the model has the count alone. `LRU_cache` makes room by age of
insertion, not of use. Handlers are random
numbers in the code and all different here, and a text stands for its MD5.

### AstfClient and the code

Main gives a command (`Load`, `Start`, `Stop`, `Clear`, `Wait`), polls (`Get`,
then `Pop` or `Current`, judged by `Judge`) and sends (`Transmit`). `goal` is the
loop main is in. The steps of the subscriber are the reads and writes of
`_on_astf_profile_state_chg` that main can come between: `Take`, `Test`,
`DropOld` or `SubscriberCrash`, `Enqueue`; and `Cleared`. `mine` is the list object
that main has found non-empty and that the subscriber has replaced since.

Of the server (external) the model assumes what the client relies on: it refuses a
start of anything not loaded and a stop that finds nothing running, ignores a stop
during PARSE and BUILD (comment in the code), publishes only changes of state, and
removes a profile through DELETE and the event that it is cleared. Left out:
several profiles, `reset`, the epoch, `update`, removal at a stop, statistics,
topologies, tunnels, a load that fails.

## 3. Runs

| Run | Shows | Bounds |
|---|---|---|
| `session_refusals` | `TypeOK`, `NoEarlyReturn`, `NoLostFinish`, `FreshLaunch`, `KeepsPromise`, `Terminates`, with any RPC but stop and release refusable | 2 ports, 2 jobs, 2 attempts |
| `session_quiet` | `QuietAtEnd`, `SafetyInv` and `KeepsPromise`, with forced acquisition granted | 2 ports, 3 jobs, 2 attempts |
| `session_theft` | `Terminates`, with takeovers and left-over traffic | 1 port, 2 jobs, 2 steps of the other session |
| `ids_safety` | `QuietAtRest`, `CleanStart`, `SchedulerSurvives`, the invariant `QuietInv`, `TypeOK`; Ctrl-C | 2 instances, 1 attempt, 2 events on the way to each |
| `ids_liveness` | `CyclesEnd`, `QuietAtRest`, `SchedulerSurvives`; lost connections and crashed subscribers | 2 instances, 1 attempt, 1 event, no Ctrl-C, one connection that may be lost |
| `ids_stale` | **violated** `WaitsForTheEnd`, when two instances take the ports from each other | 2 instances, 2 events, no faults |
| `daemon_safety` | `NoOrphan`, `OneRun`, `HolderRuns`, `TakesTurns` (refinement), the invariant `DaemonInv`, `TypeOK`; every fault but a slow join | 2 users, 2 runs, 2 polls, 1 dump |
| `daemon_liveness` | `CallsReturn`, `StopIsEffective` | 1 user, 2 runs, 2 polls, 1 dump; export and dump faults |
| `kill_stuck` | **violated** `KillEndsInIdle` when an export file cannot be opened | 2 users, 2 runs, 1 poll |
| `bird_safety` | `UploadIsTrue`, `UploadsInOneStep` (refinement), the invariant `BirdInv`, `TypeOK` | 2 clients of two versions, texts of 1 and 3 fragments, cache of 2, 2 handlers, 1 call given up, 1 failure of BIRD |
| `astf` | `StartIsTrue`, `FailIsTrue`, `StopIsTrue`, `ClearIsTrue`, `WaitIsTrue`, `CallsEnd`, `SubscriberSurvives`, the invariants `AnswerInv` and `AstfInv`, `TypeOK` | 4 commands, blocking or not |
| `astf_stop` | **violated** `StopReturns` | the same |

### Bounds, and why they are enough

Every bound is a CONSTANT.

* Session. Two ports give every combination of a port that answers and one that
  refuses. Two jobs are what the IDS
  runs; the third in `session_quiet` lets a job follow one that followed a failed
  one. `MaxMeddling` bounds the steps of another session: two allow a takeover and
  one step of traffic. `ShortJobs = FALSE` says that a job does not end before
  `start()` has returned: the jobs of the IDS last 60 and 30 seconds
  (`main.py:13-14`), a call milliseconds.
* IDS. Two instances are what one choice of the menu starts, and what a fight for
  the ports takes. One attempt to connect is the last one, which is the only one
  that differs. `MaxMail` bounds the events on their way to an instance, which the
  code does not: an action that would publish one more has to wait until the
  subscriber has handled one, so a bound only removes delays. One event suffices
  for news that comes late, two let a takeover wait behind the end of a job, or be
  overtaken by a new acquisition and start, as `ids_stale` needs. Ctrl-C and the loss
  of a connection are in different runs, to keep each small; that both may meet is
  left to the proofs. Instances are symmetric; symmetry is used for
  safety only.
* Daemon. Two runs let the threads of one run meet the next, which is as far as
  `CTRex` looks. Two polls cover at once, later and too late (the code polls for
  40 seconds; a time limit of 0 is not modelled). One waiting dump is enough for
  the monitor to read a stale one. `Tokens` has one value, which makes every two
  sequence numbers collide: the worst case for a stop.
* BIRD server. A text of three fragments has a first, a middle and a last one, a
  text of one has them all at once. A cache of two with the boot configuration and
  two texts overflows. Two handlers allow one takeover. BIRD accepts one of the
  texts that a mix of two uploads yields and refuses the others, so both outcomes
  occur.
* ASTF client. Four commands reach a second run behind a first one (load, start,
  stop or the natural end, start), and a clear after a run.

### Fairness

Session: main and the subscriber are threads that the interpreter schedules (WF),
time passes, and the server ends a job started with a duration (WF on `Finish`).
Nothing forces another session to move. IDS: the same for the threads of each
instance (a day passes, packets arrive for `sniff`), for the grace period and for
jobs. Main has SF, since an action of another instance may fill a mailbox and so
disable a step of main that publishes; this comes from the bound `MaxMail` and not
from the code, in which main's steps, once possible, stay possible. Daemon: main inside an RPC, the
monitor and each session thread are scheduled (WF). No RPC need ever come, no
process need publish or end: `StopIsEffective` follows from the threads alone.
ASTF client: both threads (WF), the profile's course (WF on `GoesOn`), and a minute
that passes while main polls (SF on `TimeOut`, since main leaves the loop's first
place and comes back to it all the time).

`CyclesEnd` relies on packets: `sniff()` has no time limit
(`traffic_capture.py:9`), and on an interface where nothing arrives the cycle
never ends. `CallsEnd` leaves out two loops of the ASTF client that really may
not end: a blocking `clear_profile` whose list is removed before DELETE was seen in
it, and `stop` waiting for TX, which is `astf_stop`.

Deadlock is checked in all runs but the two of `AstfClient`, where the number of
commands is bounded and a crash of the subscriber ends the process. The other
modules have a step for having ended (`Terminated`, `Off`) or never end.

### Divergences between code and documents

Three have a run of their own, which quotes the line it refutes in `PROJECT.json`:

* `kill_stuck`: the session thread dies outside its `try`, and no kill brings
  Starting back to Idle. The same property fails without any fault, when the
  monitor sets Running after the thread has set Idle.
* `astf_stop`: the server is still in BUILD when `stop` decides to wait for TX; the
  build fails, the profile is LOADED again, and main polls for ever. The comment
  above the loop says that it is there to avoid hanging.
* `ids_stale`: one instance takes the ports, another one takes them a moment later
  and starts its job; only then its subscriber handles the event of the first
  takeover. The handler is gone, the port counts as not acquired, and
  `wait_on_traffic`, which is to block until the traffic has ended, returns at
  once. No fault is needed.

The others were met in the same way: each names a definition of the model that
TLC refutes with the constants given.

* `NoLostFinish` of the session with `ShortJobs = TRUE`: the answer to
  `start_traffic` arrives, the subscriber handles the end of the job, and then
  `trex_stl_port.py:600` stores the state that was read before. The port is active
  for ever and `wait_on_traffic` does not return.
* `QuietAtEnd` when an acquisition may be refused: one port refuses the second
  job's acquisition, `acquire()` gives all ports back (`trex_stl_client.py:442`),
  one of them still transmits, and `disconnect()` stops only acquired ports. It
  needs a first job that failed in the middle of `start()`.
* `HeldUntilEnded` after one takeover (`MaxMeddling = 1`): the docstring of
  `wait_on_traffic` says it blocks until the traffic on its ports has ended, but
  `async_event_port_acquired` clears the handler without asking whether the
  takeover is over.
* `OneRun` of the daemon with `Hasty = TRUE`: the tests of reservation and status
  in `start_trex` are the two branches of one `if`, so a holder is never asked for
  Idle.
* `DumpsExpected` of the daemon, no fault needed: status Idle is published before
  `expect_trex` is cleared, and a new start comes in between.
* `LossOnlyReported` of the IDS with `CtrlC = FALSE` and a connection that may be lost:
  the loss is detected while main is in a call; main leaves the call before the
  SIGINT is sent, and the signal ends the instance instead of being reported as an
  error of the call (comment at `trex_conn.py:116`).
* `RefusedStaysOut` of the BIRD server with clients of two versions: a client refused for its version asks to be
  disconnected. The docstring (`pybird_zmq_client.py:187`) promises an error to who
  is not connected; the server counts it out.
* `UploadAsDocumented` of the BIRD server: a takeover between two fragments leaves
  the first ones behind, and the next upload is configured with them in front. If
  BIRD accepts the mix the client is told that its own text is configured.

Met on the way and modelled: an event is applied during `connect()` although the
handler is disabled (`trex_events.py:112`, against the comment at
`trex_client.py:435`); the sequence number that `stop_trex` compares is an earlier
run's while a start blocks or after it has failed (`trex_server.py:419`, against
the docstring of the stateful client); `force_trex_kill` does not end the
reservation, as that client's docstring says; SIGTERM while the status is Starting
leaves the process running (`trex_server.py:297`, against the comment below it);
the BIRD client does not compare hashes before sending the rest
(`pybird_zmq_client.py:200`), nor does a forced acquisition disconnect other
clients (line 72); an error of a non-blocking ASTF start is reported by the next
command; `wait_on_traffic` after a non-blocking start may take a LOADED that was
queued before and return at once, which is why `WaitIsTrue` asks for a command
given with no event on its way; and the ASTF subscriber may index a list that main
has just emptied, after a clear or with events under way.

## 4. Proofs

All proofs are for arbitrary ports, users, jobs, runs, instances, clients, texts,
commands, faults and bounds.

### TrafficSession

* `TypeCorrect`: `Spec => []TypeOK`, no assumption. `TypeOK` is split by owner
  (client, call, main, subscriber, server), and each group of actions has a
  lemma about the parts it changes.
* `Safety`: `Undisturbed => (Spec => []SafetyInv)`. `NoEarlyReturn` is not
  inductive: it speaks of the wait only, and what makes it true is what the
  calls before it left behind. `SafetyInv` says so phase by phase: main works on
  a port only during an RPC (`LoopInv`); without all ports there are no events
  (`OwnInv`); no event says that a port was taken over (`NoTheftInv`); up to
  `start()` no end of a job is in sight and the client knows of every
  transmission (`AgreeInv`); `reset()` clears (`ClearInv`); `start()` knows what
  it launched (`LaunchInv`); during the wait the news of an end is in exactly
  one place (`WaitInv`); there is a job to conclude (`BudgetInv`).
* `WaitsLongEnough`, `WaitsNoLonger`, `LaunchesAfresh` follow from it.
* `PromiseKept`: the initial state maps to one of `TrafficJobs`, and every step
  to a step of it or a stutter, under the mapping `launched` and the set of
  transmitting ports.
* `EndsQuietly`: `Undisturbed /\ Dismissed => (Spec => []QuietAtEnd)`. The client
  has a handler exactly for the ports the server holds for it, except for the
  port under way (`HandlerInv`), and knows which of them transmit until the last
  is stopped (`EndInv`); so `disconnect()` leaves out no port.
* `JobsAreDone`: `Undisturbed /\ Willing => (Spec => []EveryJobDone)`. No RPC is
  answered with an error (`FlawlessInv`) because every port is, at each command,
  in the state the command asks for (`ReadyInv`).

`Undisturbed` assumes that no other session meddles, that forced acquisition is
granted, that jobs are not short and that nothing transmits at the start;
`Dismissed` that stop and release are granted; `Willing` that everything is, and
that there is a port. The theorems are about sessions with any number of jobs and
any other refusals. TLC checks the same properties with refusable acquisition and
two jobs, the number the IDS runs; with three jobs and a refused acquisition
`FreshLaunch` fails, for the reason given for `QuietAtEnd` in section 3.

### IDSSystem

`TypeCorrect`, `QuietServer`, `CleanStarts` and `ScheduleGoesOn` hold for any number
of instances, attempts and events on their way, with or without Ctrl-C and losses.
`QuietAtRest` speaks of the rest between cycles; the inductive `QuietInv` says what
holds within them. Nothing transmits when the owner of the ports starts a job
(`StartInv`, without any exception: the `reset()` before it was obeyed, and who
wants to transmit in between has to take the ports first). Unless things are
`loose`, the owner is at work on the ports, connected, has its handler, knows of a
transmission, and no news on its way will make it forget either (`HolderInv`);
nothing transmits when it gives the ports back (`ReleaseInv`) and when nobody holds
them (`FreeInv`). `CountInv` is what the type of `tries` and `front` needs.
`QuietInvariant` states it by itself.

The exception is a real one: `ids_stale` shows how a session gets to act on news
that is out of date, and the theorem claims nothing of the ports it leaves behind
until a `reset()` has succeeded. What the proof needs of the news is small: to handle
an event adds nothing to what is on the way (`HandlePending`), and to publish one
adds that one, for those who are told (`PublishPending`).

### TrexDaemon

* `TypeCorrect`: no assumption. Booleans and the other variables are proved
  apart (`TypeFlags`, `TypeData`), as they need different provers.
* `Invariant`: `Calm => (Spec => []DaemonInv)`, and from it `NothingOrphaned`,
  `OneAtATime`, `OnlyTheHolders`. None of the three properties is inductive.
  `DaemonInv` adds that the thread of every run but the last is over and only a
  looping thread has a live process (`ThreadInv`), that Idle means a run which is
  over or was told to end (`IdleInv`), that main waits for a run it asked to stop
  and launches when none is left (`CallInv`), and that the holder issued what is
  under way (`HolderInv`).
* `TurnsTaken`: `Calm => (Spec => TakesTurns)`. Every step of the daemon is a turn of
  `TrexTurns` or a stutter; it needs besides that a run has no process before its
  thread launched one (`ProcInv`) and that it is somebody's (`IssuerInv`).

`Calm` assumes that the holder of the reservation waits for Idle before it
starts again, and that a thread ends before `join` gives up after 5 seconds.
`OneRun` with `Hasty = TRUE` shows that the first is needed.

### BirdServer

`TypeCorrect`, `Safety` (`BirdInv`) and `UploadsAreTrue`. What makes
an upload true is that the server has collected exactly what the holder of the
lock has sent (`FragmentInv`), and nothing if he uploads nothing (`IdleInv`); a
handler belongs to one client (`HandlerInv`); what is late is no fragment
(`LateInv`); the cache holds accepted texts under their own MD5 (`AcceptedInv`,
`CacheIsTrue`), and the current MD5 is that of what runs (`CurrentIsTrue`). `cut`
marks the runs in which fragments were left behind; the divergence above shows what
happens then. No theorem speaks of the count of clients, which any client refused for its
version can bring out of step (`RefusedStaysOut`); uploads do not depend on it.

`OneStepUploads`: `Spec => UploadsInOneStep`, the refinement of `BirdUploads`. An
upload of the abstract specification is asked for, and ends confirmed or refused.
The mapping hides the requests, the fragments collected, the MD5s and the cache;
`asked` is the text a client is uploading. Every step is a step of `BirdUploads` or a
stutter:

* a fragment that is not the last one is a stutter (`SendStep`);
* the last one is `Confirm`, or `Refuse` when the answer is an error or a refusal.
  A confirmed text is running because the server holds exactly the fragments before
  this one, or knows the text by its MD5 (`ConfigTold`, from `BirdInv`);
* a request given up and served late still comes from the holder, or is rejected:
  a handler that is not its client's any more never becomes current again
  (`KeyInv`, proved along with the type). This is what lets a late `release` map to
  `GiveBack` and a late `set_empty_config` to `Reset`, which ask for a holder;
* losing a fragment and a failure of BIRD set `broken`. It says nothing more about
  what runs from there on, but who holds BIRD, and that nobody else's upload is
  confirmed, is still claimed.

### AstfClient

`TypeCorrect` and `QueueOrder` (`AstfInv`), for any number of commands. A LOADED in the
queue is followed by nothing but LOADED (`QueueInv`), because the subscriber drops
the list before it queues the first state of the next run (`AppendInv`); and main,
which tests the list and pops from it in two steps, pops from no empty one
(`PopInv`), although the subscriber may replace it in between. The first is
what lets `__reset_profile_state_change` drop the whole list after a look at its
last entry.

`AnswersInvariant`: `Spec => []AnswerInv`, and from it `StartAnswers`,
`FailureAnswers`, `StopAnswers`, `ClearAnswers`, `WaitAnswers` and `SubscriberGoesOn`.
None of the answers is inductive: what main is told depends on states that the
server published, the subscriber queued and main popped, in this run or in one
before. `AnswerInv` ties the three places together:

* `NewsInv`: the events under way lead, state by state, from what the client knows
  to what the server does; `OrderInv`: the queue holds states of one run in the order
  of the run, up to the last known one. These two hold always.
* `GoalInv`: what a command polls for, at each place of main.
* `RestInv`: a start that is not sent yet finds the profile at rest, and a blocking
  one has read the queue to its end before it is sent, so nothing of an earlier
  run is left. `RunInv`: after that what main can see is the new run, and a TX in
  the queue or under way is its own; an error not left over means that the profile is
  LOADED again.
* `HaltInv`, `LastInv`, `GoneInv`: a profile that is stopped, waited for or cleared
  ends once, and no news follows its end until the next command. So a LOADED or
  IDLE that main sees is the end it waits for.
* `IndexInv`: between its test of the list and its look at the last entry the list
  of the subscriber does not get empty, as long as the command is not a clear.

All but the first three speak of a command given with no event on its way (`fresh`); the
divergences above show what happens to others. The answers are about commands that
polled or were sent: what a command is told at once, from the last known state, is
outside (a start of an active profile, a stop of one that is not, a clear of one
that is). `FailIsTrue` excludes the error that
an earlier command left behind (`stale`), which the code does report.

### Left to TLC

Liveness (`Terminates`, `CyclesEnd`, `CallsReturn`, `StopIsEffective`, `CallsEnd`) is
beyond this prover; so is every claim that a refinement keeps the abstract one's
fairness, and the abstract specifications state none. What another session does to
this one is model-checked only (`session_theft`), while `EveryJobDone`, about a server that
refuses nothing, is proved only. Every invariant and every safety property of a step
that a passing run checks has a theorem.

## 5. Plan

Done: the session and its jobs; the daemon and its turns; the IDS with its
processes; the BIRD server; the ASTF client; their invariants and proofs, with the refinements
of `TrafficJobs`, `TrexTurns` and `BirdUploads`.

What could follow:

1. The loss of the connection inside the port-by-port session (`IDSSystem` has it
   with the ports taken together), and a second profile per port.
2. Several profiles of the ASTF client, with `reset` and the epoch.
3. An abstract specification of the ASTF client's commands, as the other three
   components have one.
4. The singleton daemons and the master daemon that start the daemon modelled here.

### Not modelled

* Storage, alerts and the update of the model: no run of the program at this commit
  gets there (see the end of section 1), so there is no state to begin with.
* Infrastructure scripts: each runs one Terraform command; they share no state but a
  file that one of them writes. `terraform_apply.py` defines a function and does not
  call it.
* Visualizer: one thread and three bounded lists that nobody else reads.
* Detector, features, model evaluator: sequential, and numeric through scikit-learn.
* Daemon management: one-shot commands on sockets and pids, at which the daemon
  modelled here does not look.
* Statistics, captures, consoles, emulation and the other clients of TRex: the IDS
  does not call them.
* Vendored code (`external_libs`, scapy above all) is most of the repository, and not
  this system's logic. The share of all source lines that the model stands for is
  small for this reason.
