----------------------------- MODULE BirdServer -----------------------------
(***************************************************************************)
(* The server that configures BIRD for TRex (pybird_zmq_server.py) and its *)
(* clients (pybird_zmq_client.py).                                         *)
(*                                                                         *)
(* The server has one thread and answers one request at a time.  A client  *)
(* uploads a configuration in fragments, a request each; the server joins  *)
(* them, has BIRD take the text over, and remembers the last ones by their *)
(* MD5.  A client that waits too long gives up: its request may be gone,   *)
(* or be served when nobody waits for the answer any more.                 *)
(*                                                                         *)
(* A text is the sequence of its fragments and stands for its own MD5.     *)
(***************************************************************************)
EXTENDS Integers, Sequences

CONSTANTS Clients,
          Compatible, \* the clients of the server's version
          None,
          Pieces,     \* what fragments are made of
          Texts,      \* the configurations that clients upload
          Accepted,   \* the texts BIRD accepts
          Boot,       \* bird.conf when the server starts
          Empty,      \* DEFAULT_CFG of PyBird
          MaxCached,  \* length of the LRU cache (5 in the code)
          MayForce,   \* TRUE: clients acquire by force
          MaxIssued,  \* bound: handlers given out
          MaxLost,    \* bound: calls given up
          MaxFaults   \* bound: failures of BIRD's control socket

Text == Seq(Pieces)

ASSUME TextsAssumption ==
  /\ Texts \subseteq Text \ {<<>>} /\ Boot \in Text /\ Empty \in Text
  /\ None \notin Text /\ Boot \in Accepted
ASSUME ClientsAssumption == Compatible \subseteq Clients
ASSUME BoundsAssumption ==
  /\ MaxCached \in Nat \ {0} /\ MaxIssued \in Nat /\ MaxLost \in Nat /\ MaxFaults \in Nat
  /\ MayForce \in BOOLEAN

VARIABLES
  current,   \* current_handler of the server; 0 is None
  issued,    \* handlers given out (random in the code: all different here)
  count,     \* connected_clients
  frags, fragMd5,  \* _config_fragments
  md5,       \* _current_md5
  cache,     \* prev_md5s, the oldest entry first
  running,   \* the configuration BIRD runs
  online,    \* clients whose RPC channel is open
  handler,   \* the handler a client believes to have; 0 is None
  upload,    \* a client in the middle of _upload_fragmented
  late,      \* requests on their way, their clients gone, each with a number
  lost,      \* calls given up (history)
  cut,       \* fragments were left behind, or are late (history)
  faults     \* failures of BIRD's control socket (history)

lockVars   == <<current, issued>>
configVars == <<frags, fragMd5, md5, cache, running, faults>>
clientVars == <<online, handler, upload>>
vars == <<lockVars, count, configVars, clientVars, late, lost, cut>>

Nothing == [text |-> <<>>, next |-> 0]  \* no upload

Requests ==
  [op : {"connect"}, same : BOOLEAN] \cup [op : {"disconnect"}]
    \cup [op : {"acquire"}, force : BOOLEAN]
    \cup [op : {"release", "empty"}, key : 0..MaxIssued]
    \cup [op : {"fragment"}, key : 0..MaxIssued, text : Texts, n : Nat]

-----------------------------------------------------------------------------
(* The server: what BIRD makes of a text.                                   *)

\* The socket of BIRD fails.
Fault == faults < MaxFaults /\ faults' = faults + 1

\* PyBird.set_config: check the text, write bird.conf, have BIRD read it.
\* The answers: "ok", "refused" (a string), "none" (BIRD did not confirm).
Bird(text, answer) ==
  \/ text \in Accepted /\ answer = "ok" /\ running' = text /\ UNCHANGED faults
  \/ text \notin Accepted /\ answer = "refused" /\ UNCHANGED <<running, faults>>
  \/ Fault /\ answer = "refused" /\ UNCHANGED running
  \/ Fault /\ answer = "none" /\ running' \in {running, text}

Cached(m) == \E i \in DOMAIN cache : cache[i].md5 = m
Lookup(m) == cache[CHOOSE i \in DOMAIN cache : cache[i].md5 = m].text

Remember_All(m, text) ==  \* seeded bug: no entry makes room
  cache' = Append(cache, [md5 |-> m, text |-> text])

\* LRU_cache.__setitem__ of a new key: the oldest entry makes room.
Remember(m, text) ==
  LET longer == Append(cache, [md5 |-> m, text |-> text])
  IN  cache' = IF Len(longer) > MaxCached THEN Tail(longer) ELSE longer

SetCached_Oldest(m, reply) ==  \* seeded bug: the wrong entry of the cache
  /\ md5' = m /\ UNCHANGED cache
  /\ \E answer \in {"ok", "refused", "none"} :
       /\ Bird(cache[1].text, answer)
       /\ reply = IF answer = "ok" THEN "configured" ELSE "error"

\* A text of the cache: its MD5 is current before BIRD has answered.
SetCached(m, reply) ==
  /\ md5' = m /\ UNCHANGED cache
  /\ \E answer \in {"ok", "refused", "none"} :
       /\ Bird(Lookup(m), answer)
       /\ reply = IF answer = "ok" THEN "configured" ELSE "error"

SetNew(m, text, reply) ==
  \E answer \in {"ok", "refused", "none"} :
    /\ Bird(text, answer)
    /\ IF answer = "ok" THEN reply = "configured" /\ md5' = m /\ Remember(m, text)
       ELSE reply = "error" /\ UNCHANGED <<md5, cache>>

SetNewConfig_Keeps(m, text, reply) ==  \* seeded bug: the fragments are kept
  /\ UNCHANGED frags /\ fragMd5' = None
  /\ \/ m = md5 /\ reply = "already" /\ UNCHANGED <<md5, cache, running, faults>>
     \/ m # md5 /\ Cached(m) /\ SetCached(m, reply)
     \/ m # md5 /\ ~Cached(m) /\ SetNew(m, text, reply)

\* BirdWrapper._set_new_config
SetNewConfig(m, text, reply) ==
  /\ frags' = <<>> /\ fragMd5' = None
  /\ \/ m = md5 /\ reply = "already" /\ UNCHANGED <<md5, cache, running, faults>>
     \/ m # md5 /\ Cached(m) /\ SetCached(m, reply)
     \/ m # md5 /\ ~Cached(m) /\ SetNew(m, text, reply)

\* BirdWrapper.set_config: the n-th fragment.  The first one brings the MD5
\* of the whole; it does not clear what is left of another upload.
SetConfig(text, n, reply) ==
  LET all == Append(frags, text[n])
  IN  \/ /\ n = 1 /\ Len(text) = 1
         /\ SetNewConfig(text, text, reply)
      \/ /\ n = 1 /\ Len(text) > 1
         /\ frags' = all /\ fragMd5' = text
         /\ reply = "more" /\ UNCHANGED <<md5, cache, running, faults>>
      \/ /\ n > 1 /\ n = Len(text)
         /\ SetNewConfig(IF fragMd5 = None THEN all ELSE fragMd5, all, reply)
      \/ /\ n > 1 /\ n < Len(text)
         /\ frags' = all /\ UNCHANGED fragMd5
         /\ reply = "more" /\ UNCHANGED <<md5, cache, running, faults>>

-----------------------------------------------------------------------------
(* The server: requests.                                                    *)

\* A client of another version is refused before it is counted.
Connect(same, reply) ==
  \/ same /\ reply = "ok" /\ count' = count + 1 /\ UNCHANGED <<lockVars, configVars>>
  \/ same /\ reply = "error" /\ Fault
     /\ UNCHANGED <<lockVars, count, frags, fragMd5, md5, cache, running>>
  \/ ~same /\ reply = "error" /\ UNCHANGED <<lockVars, count, configVars>>

\* Whoever leaves is counted out, and the last one takes the connection to
\* BIRD down.
Disconnect(reply) ==
  /\ UNCHANGED <<lockVars, configVars>>
  /\ \/ count > 0 /\ reply = "ok" /\ count' = count - 1
     \/ count = 0 /\ reply = "error" /\ UNCHANGED count

\* An answer is the new handler.
Acquire(force, reply) ==
  /\ UNCHANGED <<count, configVars>>
  /\ \/ /\ current = 0 \/ force
        /\ issued < MaxIssued
        /\ issued' = issued + 1 /\ current' = issued' /\ reply = "ok"
     \/ current # 0 /\ ~force /\ reply = "error" /\ UNCHANGED lockVars

Release(key, reply) ==
  /\ UNCHANGED <<issued, count, configVars>>
  /\ \/ current # 0 /\ key = current /\ current' = 0 /\ reply = "ok"
     \/ (current = 0 \/ key # current) /\ reply = "error" /\ UNCHANGED current

\* set_empty_config passes check_handler without a handler, too, as long as
\* nobody has one: None equals None.
SetEmpty(key, reply) ==
  /\ UNCHANGED <<lockVars, count>>
  /\ \/ /\ key = current
        /\ md5' = None /\ UNCHANGED <<frags, fragMd5, cache>>
        /\ \E answer \in {"ok", "refused", "none"} :
             /\ Bird(Empty, answer)
             /\ reply = IF answer = "ok" THEN "ok" ELSE "error"
     \/ key # current /\ reply = "error" /\ UNCHANGED configVars

Fragment_Unchecked(key, text, n, reply) ==  \* seeded bug: anybody's fragments are taken
  UNCHANGED <<lockVars, count>> /\ SetConfig(text, n, reply)

Fragment(key, text, n, reply) ==
  /\ UNCHANGED <<lockVars, count>>
  /\ \/ key = current /\ SetConfig(text, n, reply)
     \/ key # current /\ reply = "error" /\ UNCHANGED configVars

Serve(r, reply) ==
  \/ r.op = "connect" /\ Connect(r.same, reply)
  \/ r.op = "disconnect" /\ Disconnect(reply)
  \/ r.op = "acquire" /\ Acquire(r.force, reply)
  \/ r.op = "release" /\ Release(r.key, reply)
  \/ r.op = "empty" /\ SetEmpty(r.key, reply)
  \/ r.op = "fragment" /\ Fragment(r.key, r.text, r.n, reply)

\* Fragments are cut off from the rest of their upload when another takes
\* the lock over, or the holder lets go of it.
CutOff == cut' = (cut \/ (frags # <<>> /\ current' # current))

-----------------------------------------------------------------------------
(* The clients.                                                             *)

Busy(c) == upload[c] # Nothing

\* The fragment that is due in an upload.
NextFragment(c) ==
  [op |-> "fragment", key |-> handler[c], text |-> upload[c].text, n |-> upload[c].next]

\* Between uploads a client asks for what its own checks let through.
Asks(c) ==
  IF c \notin online THEN {[op |-> "connect", same |-> c \in Compatible]}
  ELSE [op : {"acquire"}, force : IF MayForce THEN BOOLEAN ELSE {FALSE}]
         \cup {[op |-> "empty", key |-> handler[c]]}
         \cup (IF handler[c] = 0 THEN {[op |-> "disconnect"]}
               ELSE {[op |-> "release", key |-> handler[c]]})

\* A call that is no upload, and its answer.  The channel of a client that
\* was refused at connect() stays open.
Call(c) ==
  /\ ~Busy(c)
  /\ \E r \in Asks(c), reply \in {"ok", "error"} :
       /\ Serve(r, reply)
       /\ online' = IF r.op = "connect" THEN online \cup {c}
                    ELSE IF r.op = "disconnect" /\ reply = "ok" THEN online \ {c}
                    ELSE online
       /\ handler' = IF r.op \in {"acquire", "release"} /\ reply = "ok"
                     THEN [handler EXCEPT ![c] = current'] ELSE handler
  /\ CutOff
  /\ UNCHANGED <<upload, late, lost>>

\* set_config
BeginUpload(c) ==
  /\ ~Busy(c) /\ c \in online /\ handler[c] # 0
  /\ \E t \in Texts : upload' = [upload EXCEPT ![c] = [text |-> t, next |-> 1]]
  /\ UNCHANGED <<lockVars, count, configVars, online, handler, late, lost, cut>>

SendFragment(c) ==
  /\ Busy(c) /\ Serve(NextFragment(c), "more")
  /\ upload' = [upload EXCEPT ![c] = [text |-> @.text, next |-> @.next + 1]]
  /\ UNCHANGED <<online, handler, late, lost, cut>>

UploadDone(c) ==
  /\ Busy(c)
  /\ \E reply \in {"configured", "already"} : Serve(NextFragment(c), reply)
  /\ upload' = [upload EXCEPT ![c] = Nothing]
  /\ UNCHANGED <<online, handler, late, lost, cut>>

UploadFails(c) ==
  /\ Busy(c) /\ Serve(NextFragment(c), "error")
  /\ upload' = [upload EXCEPT ![c] = Nothing]
  /\ UNCHANGED <<online, handler, late, lost, cut>>

\* No answer in time: the client closes its channel.  Nobody knows whether
\* the request will be served.
GiveUp(c) ==
  /\ lost < MaxLost /\ lost' = lost + 1
  /\ \E r \in IF Busy(c) THEN {NextFragment(c)} ELSE Asks(c) :
       /\ late' \in {late, late \cup {<<lost, r>>}}
       /\ cut' = (cut \/ r.op = "fragment")
  /\ online' = online \ {c} /\ upload' = [upload EXCEPT ![c] = Nothing]
  /\ UNCHANGED <<lockVars, count, configVars, handler>>

\* The server serves a request of a client that has gone.
ServeLate ==
  /\ \E l \in late :
       /\ \E reply \in {"ok", "more", "configured", "already", "error"} : Serve(l[2], reply)
       /\ late' = late \ {l}
  /\ CutOff
  /\ UNCHANGED <<clientVars, lost>>

-----------------------------------------------------------------------------
Init ==
  /\ current = 0 /\ issued = 0 /\ count = 0
  /\ frags = <<>> /\ fragMd5 = None
  /\ \/ md5 = Boot /\ cache = <<[md5 |-> Boot, text |-> Boot]>>
     \/ md5 = None /\ cache = <<>>  \* bird.conf could not be read
  /\ running = Boot
  /\ online = {} /\ handler = [c \in Clients |-> 0]
  /\ upload = [c \in Clients |-> Nothing]
  /\ late = {} /\ lost = 0 /\ cut = FALSE /\ faults = 0

Next ==
  \/ \E c \in Clients : \/ Call(c) \/ BeginUpload(c) \/ SendFragment(c)
                        \/ UploadDone(c) \/ UploadFails(c) \/ GiveUp(c)
  \/ ServeLate

Spec == Init /\ [][Next]_vars

-----------------------------------------------------------------------------
Uploads == [text : Texts, next : Nat \ {0}] \cup {Nothing}

TypeOK ==
  /\ current \in 0..issued /\ issued \in 0..MaxIssued /\ count \in Nat
  /\ frags \in Text /\ fragMd5 \in Texts \cup {None} /\ md5 \in Text \cup {None}
  /\ cache \in Seq([md5 : Text, text : Text]) /\ Len(cache) <= MaxCached
  /\ running \in Text
  /\ online \subseteq Clients /\ handler \in [Clients -> 0..issued]
  /\ upload \in [Clients -> Uploads]
  /\ \A c \in Clients : upload[c].next <= Len(upload[c].text)
  /\ late \subseteq (0..MaxLost) \X Requests /\ lost \in 0..MaxLost
  /\ cut \in BOOLEAN /\ faults \in 0..MaxFaults

\* What the server keeps under an MD5 is the text with that MD5, unless an
\* upload was cut short.
CacheIsTrue ==
  ~cut => \A i \in DOMAIN cache : cache[i].text = cache[i].md5

\* The MD5 the server takes for the current one is that of the configuration
\* BIRD runs, unless an upload was cut short or BIRD failed in the middle.
CurrentIsTrue ==
  ~cut /\ faults = 0 => md5 \in {None, running}

\* A client told that its upload is done finds BIRD running what it sent,
\* from whichever fragments, or from the cache, or because it was there, unless
\* an upload was cut short or the socket of BIRD has failed.
UploadIsTrue ==
  [][\A c \in Clients : UploadDone(c) /\ ~cut /\ faults' = 0 => running' = upload[c].text]_vars

\* disconnect() raises "ConnectionError in case client is not connected"
\* (pybird_zmq_client.py:187): a client whose connect() was refused for its
\* version counts nobody else out.
RefusedStaysOut ==
  [][\A c \in Clients \ Compatible : Call(c) => count' >= count]_vars

\* "set the given config string as the new bird configuration"
\* (pybird_zmq_client.py:152): an upload that ends well has done so.
UploadAsDocumented ==
  [][\A c \in Clients : UploadDone(c) => running' = upload[c].text]_vars

\* What the clients count on: BirdUploads.
Sending == [c \in Clients |-> IF Busy(c) THEN upload[c].text ELSE None]
Broken  == cut \/ faults > 0

Device == INSTANCE BirdUploads
            WITH holder <- current, given <- issued, key <- handler,
                 asked <- Sending, broken <- Broken

\* The server implements it: fragments that arrive one by one, each with a
\* check of the handler, a cache that answers for BIRD and an answer that is
\* an error amount to uploads of one step.
UploadsInOneStep == Device!Spec
=============================================================================
