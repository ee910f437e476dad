-------------------------- MODULE BirdServerProofs --------------------------
(* What holds of BirdServer for all clients, texts and bounds.             *)
EXTENDS BirdServerInvariant, TLAPS

Entry == [md5 : Text, text : Text]

\* The part of TypeOK the server's requests can disturb.
ConfigType ==
  /\ frags \in Text /\ fragMd5 \in Texts \cup {None} /\ md5 \in Text \cup {None}
  /\ cache \in Seq(Entry) /\ Len(cache) <= MaxCached
  /\ running \in Text /\ faults \in 0..MaxFaults
LockType ==
  /\ current \in 0..issued /\ issued \in 0..MaxIssued /\ count \in Nat

\* Every entry of the cache is true, as a state function of its own.
TrueCache == \A i \in DOMAIN cache : cache[i].text = cache[i].md5

LEMMA TextFacts == Texts \subseteq Text /\ Boot \in Text /\ Empty \in Text /\ None \notin Text
                   /\ \A t \in Texts : t # <<>> /\ Len(t) \in Nat /\ Len(t) >= 1
  BY TextsAssumption DEF Text

LEMMA BirdFacts ==
  ASSUME ConfigType, NEW text \in Text, NEW answer, Bird(text, answer)
  PROVE  /\ running' \in Text /\ faults' \in 0..MaxFaults
         /\ faults' = 0 => faults = 0
         /\ answer = "ok" => running' = text
         /\ text \in Accepted /\ faults' = 0 => answer = "ok"
         /\ answer # "ok" /\ faults' = 0 => running' = running
         /\ answer = "ok" => text \in Accepted
  BY BoundsAssumption DEF Bird, Fault, ConfigType

LEMMA LookupFacts ==
  ASSUME ConfigType, NEW m, Cached(m)
  PROVE  /\ Lookup(m) \in Text
         /\ TrueCache => Lookup(m) = m
         /\ AcceptedInv => Lookup(m) \in Accepted
<1>1. PICK i \in DOMAIN cache : cache[i].md5 = m
  BY DEF Cached
<1> DEFINE j == CHOOSE k \in DOMAIN cache : cache[k].md5 = m
<1>2. j \in DOMAIN cache /\ cache[j].md5 = m
  BY <1>1
<1>3. cache[j] \in Entry
  BY <1>2 DEF ConfigType
<1> QED
  BY <1>2, <1>3 DEF Lookup, Entry, TrueCache, AcceptedInv

LEMMA RememberFacts ==
  ASSUME ConfigType, NEW m \in Text, NEW text \in Text, Remember(m, text)
  PROVE  /\ cache' \in Seq(Entry) /\ Len(cache') <= MaxCached
         /\ TrueCache /\ text = m => TrueCache'
         /\ AcceptedInv /\ text \in Accepted => AcceptedInv'
<1> DEFINE e == [md5 |-> m, text |-> text]
           longer == Append(cache, e)
<1>1. e \in Entry /\ cache \in Seq(Entry) /\ Len(cache) \in Nat /\ MaxCached \in Nat \ {0}
  BY BoundsAssumption DEF Entry, ConfigType
<1>2. longer \in Seq(Entry) /\ Len(longer) = Len(cache) + 1
  BY <1>1
<1>3. \A i \in DOMAIN longer : longer[i] = e \/ \E k \in DOMAIN cache : longer[i] = cache[k]
  <2>1. TAKE i \in DOMAIN longer
  <2>2. CASE i = Len(cache) + 1
    BY <2>2, <1>1
  <2>3. CASE i # Len(cache) + 1
    <3>1. i \in DOMAIN cache /\ longer[i] = cache[i]
      BY <2>1, <2>3, <1>1
    <3> QED
      BY <3>1
  <2> QED
    BY <2>2, <2>3
<1>4. /\ cache' \in Seq(Entry) /\ Len(cache') <= MaxCached
      /\ \A i \in DOMAIN cache' : \E k \in DOMAIN longer : cache'[i] = longer[k]
  <2>1. CASE Len(longer) > MaxCached
    <3>1. cache' = Tail(longer) /\ longer # <<>>
      BY <2>1, <1>1, <1>2 DEF Remember
    <3>2. cache' \in Seq(Entry) /\ Len(cache') = Len(cache)
      BY <3>1, <1>2, <1>1
    <3>3. \A i \in DOMAIN cache' : i + 1 \in DOMAIN longer /\ cache'[i] = longer[i + 1]
      BY <3>1, <3>2, <1>2, <1>1
    <3> QED
      BY <3>2, <3>3, <1>1 DEF ConfigType
  <2>2. CASE Len(longer) <= MaxCached
    BY <2>2, <1>2, <1>1 DEF Remember
  <2> QED
    BY <2>1, <2>2, <1>2, <1>1
<1>5. \A i \in DOMAIN cache' : cache'[i] = e \/ \E k \in DOMAIN cache : cache'[i] = cache[k]
  BY <1>3, <1>4
<1>6. e.md5 = m /\ e.text = text
  OBVIOUS
<1> QED
  BY <1>4, <1>5, <1>6 DEF TrueCache, AcceptedInv

\* What BirdWrapper._set_new_config does, whatever becomes of the text.  The
\* last two parts are the heart of it: with a true cache, and a text that
\* has the MD5 it came with, cache and current MD5 stay true.
LEMMA SetNewConfigFacts ==
  ASSUME ConfigType, NEW m \in Text, NEW text \in Text, NEW reply,
         SetNewConfig(m, text, reply)
  PROVE  /\ ConfigType' /\ frags' = <<>> /\ fragMd5' = None
         /\ faults' = 0 => faults = 0
         /\ reply \in {"configured", "already", "error"}
         /\ TrueCache /\ text = m => TrueCache'
         /\ AcceptedInv => AcceptedInv'
         /\ /\ AcceptedInv /\ TrueCache /\ text = m
            /\ md5 \in {None, running} /\ faults' = 0
            => /\ md5' \in {None, running'}
               /\ reply # "error" => running' = text
<1>0. frags' = <<>> /\ fragMd5' = None /\ <<>> \in Text
  BY DEF SetNewConfig, Text
<1>1. CASE m = md5 /\ reply = "already" /\ UNCHANGED <<md5, cache, running, faults>>
  BY <1>0, <1>1, TextFacts DEF ConfigType, TrueCache, AcceptedInv
<1>2. CASE m # md5 /\ Cached(m) /\ SetCached(m, reply)
  <2>1. PICK answer \in {"ok", "refused", "none"} :
          /\ Bird(Lookup(m), answer)
          /\ reply = IF answer = "ok" THEN "configured" ELSE "error"
    BY <1>2 DEF SetCached
  <2>2. /\ Lookup(m) \in Text
        /\ TrueCache => Lookup(m) = m
        /\ AcceptedInv => Lookup(m) \in Accepted
    BY <1>2, LookupFacts
  <2>3. md5' = m /\ cache' = cache
    BY <1>2 DEF SetCached
  <2>4. /\ running' \in Text /\ faults' \in 0..MaxFaults /\ (faults' = 0 => faults = 0)
        /\ answer = "ok" => running' = Lookup(m)
        /\ Lookup(m) \in Accepted /\ faults' = 0 => answer = "ok"
    BY <2>1, <2>2, BirdFacts
  <2> QED
    BY <1>0, <2>1, <2>2, <2>3, <2>4 DEF ConfigType, TrueCache, AcceptedInv
<1>3. CASE m # md5 /\ ~Cached(m) /\ SetNew(m, text, reply)
  <2>1. PICK answer \in {"ok", "refused", "none"} :
          /\ Bird(text, answer)
          /\ IF answer = "ok" THEN reply = "configured" /\ md5' = m /\ Remember(m, text)
             ELSE reply = "error" /\ UNCHANGED <<md5, cache>>
    BY <1>3 DEF SetNew
  <2>2. /\ running' \in Text /\ faults' \in 0..MaxFaults /\ (faults' = 0 => faults = 0)
        /\ answer = "ok" => running' = text /\ text \in Accepted
        /\ answer # "ok" /\ faults' = 0 => running' = running
    BY <2>1, BirdFacts
  <2>3. CASE answer = "ok"
    <3>1. /\ cache' \in Seq(Entry) /\ Len(cache') <= MaxCached
          /\ TrueCache /\ text = m => TrueCache'
          /\ AcceptedInv /\ text \in Accepted => AcceptedInv'
      BY <2>1, <2>3, RememberFacts
    <3> QED
      BY <1>0, <2>1, <2>2, <2>3, <3>1 DEF ConfigType
  <2>4. CASE answer # "ok"
    BY <1>0, <2>1, <2>2, <2>4 DEF ConfigType, TrueCache, AcceptedInv
  <2> QED
    BY <2>3, <2>4
<1> QED
  BY <1>1, <1>2, <1>3 DEF SetNewConfig

\* A fragment, by whoever sends it.  When it continues what the server has
\* collected of the same text, cache and current MD5 stay true.
LEMMA SetConfigFacts ==
  ASSUME ConfigType, NEW text \in Texts, NEW n \in Nat, NEW reply,
         SetConfig(text, n, reply)
  PROVE  /\ ConfigType' /\ n \in 1..Len(text)
         /\ faults' = 0 => faults = 0
         /\ reply \in {"more", "configured", "already", "error"}
         /\ reply = "more" => /\ n < Len(text) /\ frags' = Append(frags, text[n])
                              /\ n = 1 => fragMd5' = text
                              /\ n > 1 => fragMd5' = fragMd5
         /\ reply # "more" => frags' = <<>> /\ fragMd5' = None
         /\ AcceptedInv => AcceptedInv'
         /\ /\ frags = SubSeq(text, 1, n - 1) /\ (n > 1 => fragMd5 = text)
            /\ TrueCache /\ AcceptedInv
            => /\ TrueCache'
               /\ md5 \in {None, running} /\ faults' = 0
                  => /\ md5' \in {None, running'}
                     /\ reply \in {"configured", "already"} => running' = text
<1> DEFINE all == Append(frags, text[n])
<1>1. text \in Text /\ Len(text) \in Nat /\ Len(text) >= 1
  BY TextFacts
<1>2. n \in 1..Len(text)
  BY <1>1 DEF SetConfig
<1>3. text[n] \in Pieces /\ frags \in Text /\ all \in Text
  BY <1>1, <1>2 DEF Text, ConfigType
<1>4. CASE n = 1 /\ Len(text) = 1 /\ SetNewConfig(text, text, reply)
  BY <1>4, <1>1, <1>2, SetNewConfigFacts
<1>5. CASE /\ n < Len(text) /\ frags' = all /\ reply = "more"
           /\ UNCHANGED <<md5, cache, running, faults>>
           /\ n = 1 => fragMd5' = text
           /\ n > 1 => fragMd5' = fragMd5
  BY <1>5, <1>2, <1>3 DEF ConfigType, TrueCache, AcceptedInv
<1>6. CASE n > 1 /\ n = Len(text)
           /\ SetNewConfig(IF fragMd5 = None THEN all ELSE fragMd5, all, reply)
  <2> DEFINE m == IF fragMd5 = None THEN all ELSE fragMd5
  <2>1. m \in Text
    BY <1>3, TextFacts DEF ConfigType
  <2>2. frags = SubSeq(text, 1, n - 1) /\ fragMd5 = text => all = text /\ m = text
    <3>1. ASSUME frags = SubSeq(text, 1, n - 1)
          PROVE  all = text
      <4>1. Len(frags) = n - 1 /\ \A i \in 1..(n - 1) : frags[i] = text[i]
        BY <3>1, <1>1, <1>2 DEF Text
      <4>2. Len(all) = Len(text) /\ \A i \in 1..Len(text) : all[i] = text[i]
        BY <4>1, <1>1, <1>3, <1>6 DEF Text
      <4> QED
        BY <4>2, <1>1, <1>3 DEF Text
    <3> QED
      BY <3>1, TextFacts
  <2>3. SetNewConfig(m, all, reply)
    BY <1>6
  <2> HIDE DEF m, all
  <2>4. /\ ConfigType' /\ frags' = <<>> /\ fragMd5' = None
        /\ faults' = 0 => faults = 0
        /\ reply \in {"configured", "already", "error"}
        /\ TrueCache /\ all = m => TrueCache'
        /\ AcceptedInv => AcceptedInv'
        /\ /\ AcceptedInv /\ TrueCache /\ all = m
           /\ md5 \in {None, running} /\ faults' = 0
           => /\ md5' \in {None, running'}
              /\ reply # "error" => running' = all
    BY <2>1, <2>3, <1>3, SetNewConfigFacts
  <2> QED
    BY <2>2, <2>4, <1>2, <1>6
<1>7. \/ n = 1 /\ Len(text) = 1 /\ SetNewConfig(text, text, reply)
      \/ /\ n < Len(text) /\ frags' = all /\ reply = "more"
         /\ UNCHANGED <<md5, cache, running, faults>>
         /\ n = 1 => fragMd5' = text
         /\ n > 1 => fragMd5' = fragMd5
      \/ /\ n > 1 /\ n = Len(text)
         /\ SetNewConfig(IF fragMd5 = None THEN all ELSE fragMd5, all, reply)
  BY <1>1, <1>2 DEF SetConfig
<1> QED
  BY <1>4, <1>5, <1>6, <1>7

-----------------------------------------------------------------------------
(* Requests.                                                                *)

ServerType == ConfigType /\ LockType

LEMMA SetEmptyFacts ==
  ASSUME ServerType, NEW key, NEW reply, SetEmpty(key, reply)
  PROVE  /\ ServerType' /\ reply \in {"ok", "error"}
         /\ UNCHANGED <<lockVars, count, frags, fragMd5, cache>>
         /\ faults' = 0 => faults = 0
         /\ md5 \in {None, running} => md5' \in {None, running'}
<1>1. CASE key = current
  <2>1. PICK answer \in {"ok", "refused", "none"} :
          Bird(Empty, answer) /\ reply = IF answer = "ok" THEN "ok" ELSE "error"
    BY <1>1 DEF SetEmpty
  <2>2. running' \in Text /\ faults' \in 0..MaxFaults /\ (faults' = 0 => faults = 0)
    BY <2>1, BirdFacts, TextFacts DEF ServerType
  <2>3. md5' = None /\ UNCHANGED <<lockVars, count, frags, fragMd5, cache>>
    BY <1>1 DEF SetEmpty
  <2> QED
    BY <2>1, <2>2, <2>3 DEF ServerType, ConfigType, LockType, lockVars
<1>2. CASE key # current
  BY <1>2 DEF SetEmpty, configVars, ServerType, ConfigType, LockType, lockVars
<1> QED
  BY <1>1, <1>2

\* What a request that is no fragment leaves of the server.
LEMMA CallFacts ==
  ASSUME ServerType, NEW r \in Requests, r.op # "fragment", NEW reply, Serve(r, reply)
  PROVE  /\ ServerType' /\ reply \in {"ok", "error"}
         /\ UNCHANGED <<frags, fragMd5, cache>>
         /\ faults' = 0 => faults = 0
         /\ md5 \in {None, running} => md5' \in {None, running'}
         /\ issued <= issued'
         /\ \/ UNCHANGED lockVars
            \/ r.op = "acquire" /\ reply = "ok" /\ current' = issued + 1 /\ issued' = issued + 1
            \/ r.op = "release" /\ reply = "ok" /\ current' = 0 /\ issued' = issued
         /\ r.op = "acquire" /\ reply = "ok" => current' = issued + 1 /\ issued' = issued + 1
         /\ r.op = "release" /\ reply = "ok" => current # 0 /\ current' = 0
<1>1. CASE r.op = "connect" /\ Connect(r.same, reply)
  BY <1>1, BoundsAssumption
     DEF Connect, Fault, configVars, lockVars, ServerType, ConfigType, LockType
<1>2. CASE r.op = "disconnect" /\ Disconnect(reply)
  BY <1>2 DEF Disconnect, configVars, lockVars, ServerType, ConfigType, LockType
<1>3. CASE r.op = "acquire" /\ Acquire(r.force, reply)
  BY <1>3, BoundsAssumption DEF Acquire, configVars, lockVars, ServerType, ConfigType,
     LockType
<1>4. CASE r.op = "release" /\ Release(r.key, reply)
  BY <1>4 DEF Release, configVars, lockVars, ServerType, ConfigType, LockType
<1>5. CASE r.op = "empty" /\ SetEmpty(r.key, reply)
  BY <1>5, SetEmptyFacts DEF lockVars, ServerType, LockType
<1> QED
  BY <1>1, <1>2, <1>3, <1>4, <1>5 DEF Serve

LEMMA FragmentRequest ==
  ASSUME NEW r \in Requests, r.op = "fragment"
  PROVE  r.key \in 0..MaxIssued /\ r.text \in Texts /\ r.n \in Nat
  BY DEF Requests

LEMMA UploadFacts ==
  ASSUME TypeOK, NEW c \in Clients, Busy(c)
  PROVE  /\ upload[c] \in [text : Texts, next : Nat \ {0}]
         /\ upload[c].text \in Texts /\ upload[c].next \in Nat \ {0}
         /\ upload[c].next <= Len(upload[c].text)
         /\ NextFragment(c) \in Requests /\ NextFragment(c).op = "fragment"
<1>1. upload[c] \in [text : Texts, next : Nat \ {0}]
  BY DEF TypeOK, Uploads, Busy
<1>2. handler[c] \in 0..MaxIssued
  BY BoundsAssumption DEF TypeOK
<1> QED
  BY <1>1, <1>2 DEF NextFragment, Requests, TypeOK

LEMMA AsksFacts ==
  ASSUME TypeOK, NEW c \in Clients, NEW r \in Asks(c)
  PROVE  /\ r \in Requests /\ r.op # "fragment"
         /\ r.op = "connect" => c \notin online
         /\ r.op = "disconnect" => c \in online
<1>1. handler[c] \in 0..MaxIssued
  BY BoundsAssumption DEF TypeOK
<1>2. CASE c \notin online
  <2>1. r = [op |-> "connect", same |-> c \in Compatible]
    BY <1>2 DEF Asks
  <2> QED
    BY <1>2, <2>1 DEF Requests
<1>3. CASE c \in online
  <2>1. \/ r \in [op : {"acquire"}, force : BOOLEAN]
        \/ r = [op |-> "empty", key |-> handler[c]]
        \/ r = [op |-> "disconnect"]
        \/ r = [op |-> "release", key |-> handler[c]]
    <3>1. (IF MayForce THEN BOOLEAN ELSE {FALSE}) \subseteq BOOLEAN
      BY BoundsAssumption
    <3> QED
      BY <1>3, <3>1 DEF Asks
  <2>2. CASE r \in [op : {"acquire"}, force : BOOLEAN]
    BY <1>3, <2>2 DEF Requests
  <2>3. CASE r = [op |-> "empty", key |-> handler[c]]
    BY <1>1, <1>3, <2>3 DEF Requests
  <2>4. CASE r = [op |-> "disconnect"]
    BY <1>3, <2>4 DEF Requests
  <2>5. CASE r = [op |-> "release", key |-> handler[c]]
    BY <1>1, <1>3, <2>5 DEF Requests
  <2> QED
    BY <2>1, <2>2, <2>3, <2>4, <2>5
<1> QED
  BY <1>2, <1>3

\* A fragment of the holder is handled, one of anybody else is refused.
LEMMA SendFacts ==
  ASSUME NEW c \in Clients, NEW reply, Serve(NextFragment(c), reply)
  PROVE  /\ UNCHANGED <<lockVars, count>>
         /\ \/ /\ handler[c] = current
               /\ SetConfig(upload[c].text, upload[c].next, reply)
            \/ handler[c] # current /\ reply = "error" /\ UNCHANGED configVars
  BY DEF Serve, Fragment, NextFragment

LEMMA TypeIsServerType == ASSUME TypeOK PROVE ServerType
  BY DEF TypeOK, ServerType, ConfigType, LockType, Entry

LEMMA ServeType ==
  ASSUME ServerType, NEW r \in Requests, NEW reply, Serve(r, reply)
  PROVE  ServerType' /\ issued <= issued' /\ (AcceptedInv => AcceptedInv')
         /\ (faults' = 0 => faults = 0)
<1>1. CASE r.op # "fragment"
  BY <1>1, CallFacts DEF AcceptedInv
<1>2. CASE r.op = "fragment"
  <2>1. Fragment(r.key, r.text, r.n, reply)
    BY <1>2 DEF Serve
  <2>2. UNCHANGED lockVars /\ UNCHANGED count
    BY <2>1 DEF Fragment
  <2>3. CASE SetConfig(r.text, r.n, reply)
    BY <1>2, <2>2, <2>3, FragmentRequest, SetConfigFacts DEF ServerType, LockType,
       lockVars
  <2>4. CASE UNCHANGED configVars
    BY <2>2, <2>4 DEF ServerType, LockType, ConfigType, lockVars, configVars,
       AcceptedInv
  <2> QED
    BY <2>1, <2>3, <2>4 DEF Fragment
<1> QED
  BY <1>1, <1>2

-----------------------------------------------------------------------------
LEMMA NothingType == Nothing \in Uploads /\ Nothing.next <= Len(Nothing.text)
  BY DEF Nothing, Uploads

LEMMA TypeInit == Init => TypeOK
<1> SUFFICES ASSUME Init PROVE TypeOK
  OBVIOUS
<1>1. cache \in Seq(Entry) /\ Len(cache) <= MaxCached
  <2>1. [md5 |-> Boot, text |-> Boot] \in Entry
    BY TextFacts DEF Entry
  <2>2. CASE cache = <<[md5 |-> Boot, text |-> Boot]>>
    BY <2>1, <2>2, BoundsAssumption
  <2>3. CASE cache = <<>>
    BY <2>3, BoundsAssumption
  <2> QED
    BY <2>2, <2>3 DEF Init
<1>2. upload \in [Clients -> Uploads] /\ \A c \in Clients : upload[c].next <= Len(upload[c].text)
  <2>1. \A c \in Clients : upload[c] = Nothing
    BY DEF Init
  <2> QED
    BY <2>1, NothingType DEF Init
<1>3. frags \in Text
  BY DEF Init, Text
<1>4. /\ fragMd5 \in Texts \cup {None} /\ md5 \in Text \cup {None} /\ running \in Text
  BY TextFacts DEF Init
<1>5. /\ current \in 0..issued /\ issued \in 0..MaxIssued /\ count \in Nat
      /\ faults \in 0..MaxFaults /\ lost \in 0..MaxLost
      /\ handler \in [Clients -> 0..issued]
  BY BoundsAssumption DEF Init
<1>6. online \subseteq Clients /\ late \subseteq (0..MaxLost) \X Requests /\ cut \in BOOLEAN
  BY DEF Init
<1> QED
  BY <1>1, <1>2, <1>3, <1>4, <1>5, <1>6 DEF TypeOK, Entry

\* What the clients' actions keep of TypeOK once the server's part is done.
ClientType ==
  /\ online \subseteq Clients /\ handler \in [Clients -> 0..issued]
  /\ upload \in [Clients -> Uploads]
  /\ \A c \in Clients : upload[c].next <= Len(upload[c].text)
  /\ late \subseteq (0..MaxLost) \X Requests /\ lost \in 0..MaxLost
  /\ cut \in BOOLEAN

LEMMA TypeParts == TypeOK => ServerType /\ ClientType
  BY DEF TypeOK, ServerType, ConfigType, LockType, ClientType, Entry

LEMMA TypeSplit == ServerType' /\ ClientType' => TypeOK'
  BY DEF TypeOK, ServerType, ConfigType, LockType, ClientType, Entry

LEMMA TypeStep == TypeOK /\ [Next]_vars => TypeOK'
<1> SUFFICES ASSUME TypeOK, [Next]_vars PROVE TypeOK'
  OBVIOUS
<1>0. ServerType /\ ClientType
  BY TypeParts
<1>1. ASSUME NEW c \in Clients, Call(c) PROVE TypeOK'
  <2>1. PICK r \in Asks(c), reply \in {"ok", "error"} :
          /\ Serve(r, reply)
          /\ online' = IF r.op = "connect" THEN online \cup {c}
                       ELSE IF r.op = "disconnect" /\ reply = "ok" THEN online \ {c}
                       ELSE online
          /\ handler' = IF r.op \in {"acquire", "release"} /\ reply = "ok"
                        THEN [handler EXCEPT ![c] = current'] ELSE handler
    BY <1>1 DEF Call
  <2>2. ServerType' /\ issued <= issued'
    BY <1>0, <2>1, AsksFacts, ServeType
  <2>3. issued \in Nat /\ issued' \in Nat /\ current' \in 0..issued'
    BY <1>0, <2>2 DEF ServerType, LockType
  <2>4. handler' \in [Clients -> 0..issued']
    BY <1>0, <2>1, <2>2, <2>3 DEF ClientType
  <2>5. online' \subseteq Clients
    BY <1>0, <2>1 DEF ClientType
  <2> QED
    <3>1. ClientType'
      BY <1>0, <1>1, <2>4, <2>5 DEF ClientType, Call, CutOff
    <3> QED
      BY <2>2, <3>1, TypeSplit
<1>2. ASSUME NEW c \in Clients, BeginUpload(c) PROVE TypeOK'
  <2>1. PICK t \in Texts : upload' = [upload EXCEPT ![c] = [text |-> t, next |-> 1]]
    BY <1>2 DEF BeginUpload
  <2>2. /\ upload' \in [Clients -> Uploads]
        /\ \A d \in Clients : upload'[d].next <= Len(upload'[d].text)
    BY <1>0, <2>1, TextFacts DEF ClientType, Uploads
  <2> QED
    <3>1. ClientType'
      BY <1>0, <1>2, <2>2 DEF BeginUpload, ClientType, lockVars
    <3>2. ServerType'
      BY <1>0, <1>2 DEF BeginUpload, ServerType, ConfigType, LockType, lockVars,
         configVars
    <3> QED
      BY <3>1, <3>2, TypeSplit
<1>3. ASSUME NEW c \in Clients, SendFragment(c) PROVE TypeOK'
  <2>1. Busy(c) /\ Serve(NextFragment(c), "more")
    BY <1>3 DEF SendFragment
  <2>2. ServerType' /\ issued <= issued'
    BY <1>0, <2>1, UploadFacts, ServeType
  <2>3. upload[c].next < Len(upload[c].text) /\ UNCHANGED lockVars
    BY <1>0, <2>1, UploadFacts, SendFacts, SetConfigFacts DEF ServerType
  <2>4. upload' = [upload EXCEPT ![c] =
                           [text |-> upload[c].text, next |-> upload[c].next + 1]]
    BY <1>3 DEF SendFragment
  <2>5. /\ upload' \in [Clients -> Uploads]
        /\ \A d \in Clients : upload'[d].next <= Len(upload'[d].text)
    BY <1>0, <2>1, <2>3, <2>4, UploadFacts, TextFacts DEF ClientType, Uploads
  <2> QED
    <3>1. ClientType'
      BY <1>0, <1>3, <2>3, <2>5 DEF SendFragment, ClientType, lockVars
    <3> QED
      BY <2>2, <3>1, TypeSplit
<1>4. ASSUME NEW c \in Clients, UploadDone(c) \/ UploadFails(c) PROVE TypeOK'
  <2>1. PICK reply : Busy(c) /\ Serve(NextFragment(c), reply)
    BY <1>4 DEF UploadDone, UploadFails
  <2>2. ServerType' /\ UNCHANGED lockVars
    BY <1>0, <2>1, UploadFacts, ServeType, SendFacts
  <2>3. upload' = [upload EXCEPT ![c] = Nothing]
    BY <1>4 DEF UploadDone, UploadFails
  <2>4. /\ upload' \in [Clients -> Uploads]
        /\ \A d \in Clients : upload'[d].next <= Len(upload'[d].text)
    BY <1>0, <2>3, NothingType DEF ClientType
  <2> QED
    <3>1. ClientType'
      BY <1>0, <1>4, <2>2, <2>4 DEF UploadDone, UploadFails, ClientType, lockVars
    <3> QED
      BY <2>2, <3>1, TypeSplit
<1>5. ASSUME NEW c \in Clients, GiveUp(c) PROVE TypeOK'
  <2>1. PICK r \in IF Busy(c) THEN {NextFragment(c)} ELSE Asks(c) :
          /\ late' \in {late, late \cup {<<lost, r>>}}
          /\ cut' = (cut \/ r.op = "fragment")
    BY <1>5 DEF GiveUp
  <2>2. r \in Requests
    BY <2>1, UploadFacts, AsksFacts
  <2>3. lost \in 0..MaxLost /\ lost' \in 0..MaxLost
    BY <1>0, <1>5, BoundsAssumption DEF GiveUp, ClientType
  <2>4. late' \subseteq (0..MaxLost) \X Requests
    BY <1>0, <2>1, <2>2, <2>3 DEF ClientType
  <2>5. /\ upload' \in [Clients -> Uploads]
        /\ \A d \in Clients : upload'[d].next <= Len(upload'[d].text)
    BY <1>0, <1>5, NothingType DEF ClientType, GiveUp
  <2>6. cut' \in BOOLEAN /\ online' \subseteq Clients
    BY <1>0, <1>5, <2>1 DEF ClientType, GiveUp
  <2> QED
    <3>1. ClientType'
      BY <1>0, <1>5, <2>3, <2>4, <2>5, <2>6 DEF GiveUp, ClientType, lockVars
    <3>2. ServerType'
      BY <1>0, <1>5 DEF GiveUp, ServerType, ConfigType, LockType, lockVars, configVars
    <3> QED
      BY <3>1, <3>2, TypeSplit
<1>6. CASE ServeLate
  <2>1. PICK l \in late, reply \in {"ok", "more", "configured", "already", "error"} :
              Serve(l[2], reply) /\ late' = late \ {l}
    BY <1>6 DEF ServeLate
  <2>2. ServerType' /\ issued <= issued'
    BY <1>0, <2>1, ServeType DEF ClientType
  <2>3. issued \in Nat /\ issued' \in Nat
    BY <1>0, <2>2 DEF ServerType, LockType
  <2> QED
    <3>1. ClientType'
      BY <1>0, <1>6, <2>1, <2>2, <2>3 DEF ServeLate, ClientType, CutOff, clientVars
    <3> QED
      BY <2>2, <3>1, TypeSplit
<1>7. CASE UNCHANGED vars
  BY <1>7 DEF vars, lockVars, configVars, clientVars, TypeOK
<1> QED
  BY <1>1, <1>2, <1>3, <1>4, <1>5, <1>6, <1>7 DEF Next

\* Every variable keeps to its type, whatever gets lost and whatever fails.
THEOREM TypeCorrect == Spec => []TypeOK
<1> QED
  BY TypeInit, TypeStep, PTL DEF Spec

-----------------------------------------------------------------------------
(* The cache is true, and so is what a client is told.                      *)

LEMMA Extend ==
  ASSUME NEW t \in Text, NEW n \in 1..Len(t)
  PROVE  Append(SubSeq(t, 1, n - 1), t[n]) = SubSeq(t, 1, n)
<1>1. Len(t) \in Nat /\ t \in Seq(Pieces) /\ t[n] \in Pieces
  BY DEF Text
<1>2. /\ SubSeq(t, 1, n - 1) \in Seq(Pieces) /\ Len(SubSeq(t, 1, n - 1)) = n - 1
      /\ SubSeq(t, 1, n) \in Seq(Pieces) /\ Len(SubSeq(t, 1, n)) = n
      /\ \A i \in 1..(n - 1) : SubSeq(t, 1, n - 1)[i] = t[i]
      /\ \A i \in 1..n : SubSeq(t, 1, n)[i] = t[i]
  BY <1>1
<1>3. \A i \in 1..n : Append(SubSeq(t, 1, n - 1), t[n])[i] = t[i]
  BY <1>1, <1>2
<1> QED
  BY <1>1, <1>2, <1>3

\* CacheIsTrue and CurrentIsTrue, in the terms of the lemmas above.
LEMMA TrueParts ==
  /\ CacheIsTrue <=> (~cut => TrueCache)
  /\ CacheIsTrue' <=> (~cut' => TrueCache')
  /\ CurrentIsTrue <=> (~cut /\ faults = 0 => md5 \in {None, running})
  /\ CurrentIsTrue' <=> (~cut' /\ faults' = 0 => md5' \in {None, running'})
  BY DEF CacheIsTrue, CurrentIsTrue, TrueCache

\* Only one client holds the handler that is current.
LEMMA OneHolder ==
  ASSUME TypeOK, HandlerInv, NEW c \in Clients, Busy(c), handler[c] = current
  PROVE  \A d \in Clients : handler[d] = current => d = c
  BY DEF HandlerInv

LEMMA NothingLeft ==
  ASSUME TypeOK, BirdInv, ~cut, frags = <<>>
  PROVE  fragMd5 = None
<1>1. CASE \E c \in Clients : Uploading(c)
  <2>1. PICK c \in Clients : Uploading(c)
    BY <1>1
  <2>2. /\ upload[c].text \in Text /\ upload[c].next \in Nat \ {0}
        /\ upload[c].next <= Len(upload[c].text)
    BY <2>1, UploadFacts, TextFacts DEF Uploading
  <2>3. /\ frags = SubSeq(upload[c].text, 1, upload[c].next - 1)
        /\ upload[c].next = 1 => fragMd5 = None
    BY <2>1 DEF BirdInv, FragmentInv
  <2>4. Len(SubSeq(upload[c].text, 1, upload[c].next - 1)) = upload[c].next - 1
    BY <2>2 DEF Text
  <2>5. Len(frags) = 0
    OBVIOUS
  <2> QED
    BY <2>2, <2>3, <2>4, <2>5
<1>2. CASE ~ \E c \in Clients : Uploading(c)
  BY <1>2 DEF BirdInv, IdleInv
<1> QED
  BY <1>1, <1>2

\* A request of the holder, in the middle of an upload.
LEMMA HolderSends ==
  ASSUME TypeOK, BirdInv, NEW c \in Clients, Busy(c), handler[c] = current,
         NEW reply, Serve(NextFragment(c), reply)
  PROVE  LET t == upload[c].text
             n == upload[c].next
         IN  /\ faults' = 0 => faults = 0
             /\ reply \in {"more", "configured", "already", "error"}
             /\ reply = "more" => n < Len(t) /\ (~cut => frags' = SubSeq(t, 1, n) /\ fragMd5' = t)
             /\ reply # "more" => frags' = <<>> /\ fragMd5' = None
             /\ AcceptedInv'
             /\ ~cut => TrueCache'
             /\ ~cut /\ faults' = 0
                  => /\ md5' \in {None, running'}
                     /\ reply \in {"configured", "already"} => running' = t
<1> DEFINE t == upload[c].text
           n == upload[c].next
<1>1. t \in Texts /\ t \in Text /\ n \in Nat \ {0} /\ n <= Len(t) /\ Len(t) \in Nat
  BY UploadFacts, TextFacts
<1>2. SetConfig(t, n, reply) /\ ConfigType
  BY SendFacts, TypeIsServerType DEF ServerType
<1>3. ~cut => frags = SubSeq(t, 1, n - 1) /\ (n > 1 => fragMd5 = t)
  BY DEF BirdInv, FragmentInv, Uploading
<1>4. AcceptedInv /\ (~cut => TrueCache) /\ (~cut /\ faults = 0 => md5 \in {None, running})
  BY TrueParts DEF BirdInv
<1> HIDE DEF t, n
<1>5. /\ faults' = 0 => faults = 0
      /\ reply \in {"more", "configured", "already", "error"}
      /\ reply = "more" => /\ n < Len(t) /\ frags' = Append(frags, t[n])
                           /\ n = 1 => fragMd5' = t
                           /\ n > 1 => fragMd5' = fragMd5
      /\ reply # "more" => frags' = <<>> /\ fragMd5' = None
      /\ AcceptedInv => AcceptedInv'
      /\ /\ frags = SubSeq(t, 1, n - 1) /\ (n > 1 => fragMd5 = t)
         /\ TrueCache /\ AcceptedInv
         => /\ TrueCache'
            /\ md5 \in {None, running} /\ faults' = 0
               => /\ md5' \in {None, running'}
                  /\ reply \in {"configured", "already"} => running' = t
  BY <1>1, <1>2, SetConfigFacts
<1>6. Append(SubSeq(t, 1, n - 1), t[n]) = SubSeq(t, 1, n)
  BY <1>1, Extend
<1>7. CASE reply = "more"
  <2>1. ~cut => frags' = SubSeq(t, 1, n) /\ fragMd5' = t
    <3>1. CASE n = 1
      BY <1>3, <1>5, <1>6, <1>7, <3>1
    <3>2. CASE n > 1
      BY <1>3, <1>5, <1>6, <1>7, <3>2
    <3> QED
      BY <1>1, <3>1, <3>2
  <2>2. AcceptedInv' /\ (~cut => TrueCache') /\ n < Len(t) /\ (faults' = 0 => faults = 0)
    BY <1>3, <1>4, <1>5, <1>7
  <2>3. ~cut /\ faults' = 0 => md5' \in {None, running'}
    BY <1>3, <1>4, <1>5
  <2> QED
    BY <1>7, <2>1, <2>2, <2>3 DEF t, n
<1>8. CASE reply # "more"
  BY <1>1, <1>3, <1>4, <1>5, <1>8 DEF t, n
<1> QED
  BY <1>7, <1>8

-----------------------------------------------------------------------------
(* BirdInv is inductive.                                                    *)

LEMMA BirdInit == Init => BirdInv
<1> SUFFICES ASSUME Init PROVE BirdInv
  OBVIOUS
<1>1. AcceptedInv /\ CacheIsTrue
  BY TextsAssumption DEF Init, AcceptedInv, CacheIsTrue
<1>2. HandlerInv /\ FragmentInv
  BY DEF Init, HandlerInv, FragmentInv, Uploading, Busy
<1> QED
  BY <1>1, <1>2 DEF Init, BirdInv, IdleInv, LateInv, CurrentIsTrue

\* A request that is no fragment, of a client between two uploads or of one
\* that has gone: what it can do to the lock leaves no upload uncut.
LEMMA CallKeeps ==
  ASSUME TypeOK, BirdInv, NEW r \in Requests, r.op # "fragment", NEW reply,
         Serve(r, reply), CutOff, upload' = upload, late' \subseteq late,
         \/ handler' = handler
         \/ /\ r.op \in {"acquire", "release"} /\ reply = "ok"
            /\ \E c \in Clients : ~Busy(c) /\ handler' = [handler EXCEPT ![c] = current']
  PROVE  BirdInv'
<1>1. /\ UNCHANGED <<frags, fragMd5, cache>>
      /\ faults' = 0 => faults = 0
      /\ md5 \in {None, running} => md5' \in {None, running'}
      /\ \/ UNCHANGED lockVars
         \/ r.op = "acquire" /\ reply = "ok" /\ current' = issued + 1 /\ issued' = issued + 1
         \/ r.op = "release" /\ reply = "ok" /\ current' = 0 /\ issued' = issued
      /\ r.op = "acquire" /\ reply = "ok" => current' = issued + 1 /\ issued' = issued + 1
      /\ r.op = "release" /\ reply = "ok" => current # 0 /\ current' = 0
  BY CallFacts, TypeIsServerType
<1>2. /\ issued \in Nat /\ current \in 0..issued
      /\ handler \in [Clients -> 0..issued]
  BY BoundsAssumption DEF TypeOK
<1>3. ~cut' => ~cut /\ (frags = <<>> \/ current' = current)
  BY DEF CutOff
<1>4. \A c \in Clients : Busy(c)' <=> Busy(c)
  BY DEF Busy
<1>5. AcceptedInv' /\ CacheIsTrue' /\ CurrentIsTrue' /\ LateInv'
  BY <1>1, <1>3
     DEF BirdInv, AcceptedInv, CacheIsTrue, CurrentIsTrue, LateInv
<1>6. CASE current' = current
  <2>1. handler' = handler
    BY <1>1, <1>2, <1>6
  <2>2. HandlerInv' /\ \A c \in Clients : Uploading(c)' <=> Uploading(c)
    BY <1>4, <1>6, <2>1 DEF HandlerInv, BirdInv, Uploading
  <2>3. FragmentInv' /\ IdleInv'
    BY <1>1, <1>3, <2>2 DEF BirdInv, FragmentInv, IdleInv
  <2> QED
    BY <1>5, <2>2, <2>3 DEF BirdInv
<1>7. CASE current' # current
  <2>1. \/ current' = issued + 1
        \/ current' = 0
    BY <1>1, <1>7 DEF lockVars
  <2>2. HandlerInv'
    <3>1. CASE handler' = handler
      BY <1>4, <3>1 DEF HandlerInv, BirdInv
    <3>2. CASE \E c \in Clients : ~Busy(c) /\ handler' = [handler EXCEPT ![c] = current']
      <4>1. PICK c \in Clients : ~Busy(c) /\ handler' = [handler EXCEPT ![c] = current']
        BY <3>2
      <4>2. \A d \in Clients : d # c => handler'[d] = handler[d] /\ handler[d] # issued + 1
        BY <1>2, <4>1
      <4>3. handler'[c] = current'
        BY <1>2, <4>1
      <4> QED
        BY <1>4, <2>1, <4>1, <4>2, <4>3 DEF HandlerInv, BirdInv
    <3> QED
      BY <3>1, <3>2
  <2>3. \A d \in Clients : ~Uploading(d)'
    <3> SUFFICES ASSUME NEW d \in Clients, Busy(d), handler'[d] = current' PROVE FALSE
      BY <1>4 DEF Uploading
    <3>1. handler'[d] = handler[d]
      BY <1>2
    <3>2. handler[d] # 0 /\ handler[d] # issued + 1
      BY <1>2 DEF BirdInv, HandlerInv
    <3> QED
      BY <2>1, <3>1, <3>2
  <2>4. ~cut' => frags' = <<>> /\ fragMd5' = None
    BY <1>1, <1>3, <1>7, NothingLeft
  <2>5. FragmentInv' /\ IdleInv'
    BY <2>3, <2>4 DEF FragmentInv, IdleInv
  <2> QED
    BY <1>5, <2>2, <2>5 DEF BirdInv
<1> QED
  BY <1>6, <1>7

\* The next fragment of an upload, whoever's turn at the lock it is.
LEMMA SendKeeps ==
  ASSUME TypeOK, BirdInv, NEW c \in Clients, Busy(c), NEW reply,
         Serve(NextFragment(c), reply), UNCHANGED <<online, handler, late, lost, cut>>,
         upload' = [upload EXCEPT ![c] =
                      IF reply = "more"
                      THEN [text |-> upload[c].text, next |-> upload[c].next + 1]
                      ELSE Nothing]
  PROVE  BirdInv'
<1> DEFINE t == upload[c].text
           n == upload[c].next
<1>1. t \in Texts /\ t \in Text /\ n \in Nat \ {0} /\ n <= Len(t) /\ Len(t) \in Nat
  BY UploadFacts, TextFacts
<1>2. UNCHANGED <<lockVars, count>> /\ current' = current
  BY SendFacts DEF lockVars
<1>3. \A d \in Clients : d # c => upload'[d] = upload[d]
  BY DEF TypeOK
<1>4. upload'[c] = IF reply = "more" THEN [text |-> t, next |-> n + 1] ELSE Nothing
  BY DEF TypeOK
<1>5. HandlerInv' /\ LateInv'
  <2>1. \A d \in Clients : Busy(d)' => Busy(d)
    BY <1>3 DEF Busy
  <2> QED
    BY <2>1 DEF BirdInv, HandlerInv, LateInv
<1>6. CASE handler[c] = current
  <2>1. /\ faults' = 0 => faults = 0
        /\ reply = "more" => n < Len(t) /\ (~cut => frags' = SubSeq(t, 1, n) /\ fragMd5' = t)
        /\ reply # "more" => frags' = <<>> /\ fragMd5' = None
        /\ AcceptedInv'
        /\ ~cut => TrueCache'
        /\ ~cut /\ faults' = 0 => md5' \in {None, running'}
    BY <1>6, HolderSends
  <2>2. CacheIsTrue' /\ CurrentIsTrue'
    BY <2>1, TrueParts
  <2>3. \A d \in Clients : Uploading(d)' => d = c
    BY <1>2, <1>6, OneHolder DEF BirdInv, Uploading
  <2>4. CASE reply = "more"
    <3>1. Uploading(c)' /\ upload'[c].text = t /\ upload'[c].next = n + 1
      BY <1>1, <1>2, <1>4, <1>6, <2>4 DEF Uploading, Busy, Nothing
    <3>2. IdleInv'
      BY <3>1 DEF IdleInv
    <3>3. ~cut' => /\ frags' = SubSeq(t, 1, (n + 1) - 1) /\ fragMd5' = t
      BY <1>1, <2>1, <2>4
    <3>4. FragmentInv'
      BY <1>1, <2>3, <3>1, <3>3 DEF FragmentInv
    <3> QED
      BY <1>5, <2>1, <2>2, <3>2, <3>4 DEF BirdInv
  <2>5. CASE reply # "more"
    <3>1. ~Uploading(c)'
      BY <1>4, <2>5 DEF Uploading, Busy
    <3>2. FragmentInv' /\ IdleInv'
      BY <2>1, <2>3, <2>5, <3>1 DEF FragmentInv, IdleInv
    <3> QED
      BY <1>5, <2>1, <2>2, <3>2 DEF BirdInv
  <2> QED
    BY <2>4, <2>5
<1>7. CASE handler[c] # current
  <2>1. UNCHANGED configVars
    BY <1>7, SendFacts
  <2>2. \A d \in Clients : Uploading(d)' => Uploading(d) /\ upload'[d] = upload[d]
    BY <1>2, <1>3, <1>7 DEF Uploading, Busy
  <2>3. \A d \in Clients : Uploading(d) => Uploading(d)'
    BY <1>2, <1>3, <1>7 DEF Uploading, Busy
  <2>4. FragmentInv' /\ IdleInv'
    BY <2>1, <2>2, <2>3 DEF BirdInv, FragmentInv, IdleInv, configVars
  <2> QED
    BY <1>5, <2>1, <2>4 DEF BirdInv, AcceptedInv, CacheIsTrue, CurrentIsTrue, configVars
<1> QED
  BY <1>6, <1>7

LEMMA BirdStep == TypeOK /\ BirdInv /\ [Next]_vars => BirdInv'
<1> SUFFICES ASSUME TypeOK, BirdInv, [Next]_vars PROVE BirdInv'
  OBVIOUS
<1>1. ASSUME NEW c \in Clients, Call(c) PROVE BirdInv'
  <2>1. PICK r \in Asks(c), reply \in {"ok", "error"} :
          /\ Serve(r, reply)
          /\ handler' = IF r.op \in {"acquire", "release"} /\ reply = "ok"
                        THEN [handler EXCEPT ![c] = current'] ELSE handler
    BY <1>1 DEF Call
  <2>2. ~Busy(c) /\ CutOff /\ upload' = upload /\ late' = late
    BY <1>1 DEF Call
  <2>3. r \in Requests /\ r.op # "fragment"
    BY <2>1, AsksFacts
  <2>4. \/ handler' = handler
        \/ /\ r.op \in {"acquire", "release"} /\ reply = "ok"
           /\ \E d \in Clients : ~Busy(d) /\ handler' = [handler EXCEPT ![d] = current']
    BY <2>1, <2>2
  <2> QED
    BY <2>1, <2>2, <2>3, <2>4, CallKeeps
<1>2. ASSUME NEW c \in Clients, BeginUpload(c) PROVE BirdInv'
  <2>1. PICK t \in Texts : upload' = [upload EXCEPT ![c] = [text |-> t, next |-> 1]]
    BY <1>2 DEF BeginUpload
  <2>2. ~Busy(c) /\ handler[c] # 0 /\ UNCHANGED <<lockVars, configVars, handler, late, cut>>
    BY <1>2 DEF BeginUpload
  <2>3. /\ upload'[c].text = t /\ upload'[c].next = 1
        /\ \A d \in Clients : d # c => upload'[d] = upload[d]
    BY <2>1 DEF TypeOK
  <2>4. HandlerInv'
    <3>1. \A d \in Clients : d # c => (Busy(d)' <=> Busy(d))
      BY <2>3 DEF Busy
    <3> QED
      BY <2>2, <3>1 DEF BirdInv, HandlerInv
  <2>5. SubSeq(t, 1, 1 - 1) = <<>>
    BY TextFacts DEF Text
  <2>6. handler[c] = current /\ ~cut => frags = <<>> /\ fragMd5 = None
    <3>1. handler[c] = current => \A d \in Clients : ~Uploading(d)
      BY <2>2 DEF BirdInv, HandlerInv, Uploading
    <3> QED
      BY <3>1 DEF BirdInv, IdleInv
  <2>7. \A d \in Clients : d # c => (Uploading(d)' <=> Uploading(d))
    BY <2>2, <2>3 DEF Uploading, Busy, lockVars
  <2>8. FragmentInv'
    <3>1. ASSUME ~cut, Uploading(c)'
          PROVE  frags' = <<>> /\ fragMd5' = None
      BY <2>2, <2>6, <3>1 DEF Uploading, lockVars, configVars
    <3>2. ASSUME ~cut, NEW d \in Clients, Uploading(d)'
          PROVE  LET u == upload'[d].text
                     n == upload'[d].next
                 IN  /\ frags' = SubSeq(u, 1, n - 1)
                     /\ n = 1 => fragMd5' = None
                     /\ n > 1 => fragMd5' = u
      <4>1. CASE d = c
        BY <2>3, <2>5, <3>1, <3>2, <4>1
      <4>2. CASE d # c
        BY <2>2, <2>3, <2>7, <3>2, <4>2 DEF BirdInv, FragmentInv, configVars
      <4> QED
        BY <4>1, <4>2
    <3> QED
      BY <2>2, <3>2 DEF FragmentInv
  <2>9. IdleInv'
    <3>1. CASE \E d \in Clients : Uploading(d)
      <4>1. PICK d \in Clients : Uploading(d)
        BY <3>1
      <4>2. d # c
        BY <2>2, <4>1 DEF Uploading
      <4> QED
        BY <2>7, <4>1, <4>2 DEF IdleInv
    <3>2. CASE ~ \E d \in Clients : Uploading(d)
      BY <2>2, <3>2 DEF BirdInv, IdleInv, configVars
    <3> QED
      BY <3>1, <3>2
  <2> QED
    BY <2>2, <2>4, <2>8, <2>9
       DEF BirdInv, LateInv, AcceptedInv, CacheIsTrue, CurrentIsTrue, configVars
<1>3. ASSUME NEW c \in Clients, SendFragment(c) PROVE BirdInv'
  BY <1>3, SendKeeps DEF SendFragment
<1>4. ASSUME NEW c \in Clients, UploadDone(c) \/ UploadFails(c) PROVE BirdInv'
  <2>1. PICK reply \in {"configured", "already", "error"} :
          Busy(c) /\ Serve(NextFragment(c), reply)
    BY <1>4 DEF UploadDone, UploadFails
  <2>2. upload' = [upload EXCEPT ![c] = Nothing] /\ UNCHANGED <<online, handler, late, lost, cut>>
    BY <1>4 DEF UploadDone, UploadFails
  <2> QED
    BY <2>1, <2>2, SendKeeps
<1>5. ASSUME NEW c \in Clients, GiveUp(c) PROVE BirdInv'
  <2>1. UNCHANGED <<lockVars, configVars, handler>> /\ upload' = [upload EXCEPT ![c] = Nothing]
    BY <1>5 DEF GiveUp
  <2>2. PICK r \in IF Busy(c) THEN {NextFragment(c)} ELSE Asks(c) :
          /\ late' \in {late, late \cup {<<lost, r>>}}
          /\ cut' = (cut \/ r.op = "fragment")
    BY <1>5 DEF GiveUp
  <2>3. AcceptedInv'
    BY <2>1 DEF BirdInv, AcceptedInv, configVars
  <2>4. HandlerInv'
    <3>1. \A d \in Clients : Busy(d)' => Busy(d)
      BY <2>1 DEF Busy, TypeOK
    <3> QED
      BY <2>1, <3>1 DEF BirdInv, HandlerInv
  <2>5. CASE Busy(c)
    <3>1. cut'
      BY <2>2, <2>5, UploadFacts
    <3> QED
      BY <2>3, <2>4, <3>1
         DEF BirdInv, FragmentInv, IdleInv, LateInv, CacheIsTrue, CurrentIsTrue
  <2>6. CASE ~Busy(c)
    <3>1. upload' = upload
      BY <2>1, <2>6 DEF Busy, TypeOK
    <3>2. r.op # "fragment" /\ (cut' <=> cut)
      BY <2>2, <2>6, AsksFacts DEF TypeOK
    <3>3. LateInv'
      BY <2>2, <3>2 DEF BirdInv, LateInv
    <3>4. \A d \in Clients : Uploading(d)' <=> Uploading(d)
      BY <2>1, <3>1 DEF Uploading, Busy, lockVars
    <3>5. FragmentInv' /\ IdleInv'
      BY <2>1, <3>1, <3>2, <3>4 DEF BirdInv, FragmentInv, IdleInv, configVars
    <3> QED
      BY <2>1, <2>3, <2>4, <3>2, <3>3, <3>5
         DEF BirdInv, CacheIsTrue, CurrentIsTrue, configVars
  <2> QED
    BY <2>5, <2>6
<1>6. CASE ServeLate
  <2>1. PICK l \in late, reply \in {"ok", "more", "configured", "already", "error"} :
        Serve(l[2], reply) /\ late' = late \ {l}
    BY <1>6 DEF ServeLate
  <2>2. CutOff /\ UNCHANGED clientVars /\ upload' = upload /\ handler' = handler
    BY <1>6 DEF ServeLate, clientVars
  <2>3. l[2] \in Requests
    BY DEF TypeOK
  <2>4. CASE l[2].op # "fragment"
    BY <2>1, <2>2, <2>3, <2>4, CallKeeps
  <2>5. CASE l[2].op = "fragment"
    <3>1. cut /\ cut'
      BY <2>2, <2>5 DEF BirdInv, LateInv, CutOff
    <3>2. AcceptedInv'
      BY <2>1, <2>3, ServeType, TypeIsServerType DEF BirdInv
    <3>3. HandlerInv'
      BY <2>2 DEF BirdInv, HandlerInv, Busy
    <3> QED
      BY <3>1, <3>2, <3>3
         DEF BirdInv, FragmentInv, IdleInv, LateInv, CacheIsTrue, CurrentIsTrue
  <2> QED
    BY <2>4, <2>5
<1>7. CASE UNCHANGED vars
  BY <1>7 DEF vars, lockVars, configVars, clientVars, BirdInv, HandlerInv, Busy,
     FragmentInv,
              IdleInv, Uploading, LateInv, AcceptedInv, CacheIsTrue, CurrentIsTrue
<1> QED
  BY <1>1, <1>2, <1>3, <1>4, <1>5, <1>6, <1>7 DEF Next

\* As long as no upload is cut off in the middle, the cache holds each text
\* under its own MD5 and the current MD5 is that of BIRD's configuration.
THEOREM Safety == Spec => []BirdInv
<1> QED
  BY BirdInit, BirdStep, TypeCorrect, PTL DEF Spec

\* A client that is told its upload is done finds BIRD running what it sent,
\* with any number of clients that take the lock from each other, unless an
\* upload was cut off in the middle or the socket of BIRD has failed.
THEOREM UploadsAreTrue == Spec => UploadIsTrue
<1> DEFINE Honest ==
      \A c \in Clients : UploadDone(c) /\ ~cut /\ faults' = 0 => running' = upload[c].text
<1>1. TypeOK /\ BirdInv /\ [Next]_vars => [Honest]_vars
  <2> SUFFICES ASSUME TypeOK, BirdInv, NEW c \in Clients, UploadDone(c), ~cut, faults' = 0
               PROVE  running' = upload[c].text
    OBVIOUS
  <2>1. PICK reply \in {"configured", "already"} :
          Busy(c) /\ Serve(NextFragment(c), reply)
    BY DEF UploadDone
  <2>2. handler[c] = current
    BY <2>1, SendFacts
  <2> QED
    BY <2>1, <2>2, HolderSends
<1> QED
  BY <1>1, Safety, TypeCorrect, PTL DEF Spec, UploadIsTrue

-----------------------------------------------------------------------------
(* Requests that come late, and their handlers.                             *)

LEMMA AsksKey ==
  ASSUME NEW c \in Clients, NEW r \in Asks(c), r.op \in {"release", "empty"}
  PROVE  r.key = handler[c]
<1>1. c \in online
  <2>1. c \notin online => r = [op |-> "connect", same |-> c \in Compatible]
    BY DEF Asks
  <2> QED
    BY <2>1
<1>2. \/ r \in [op : {"acquire"}, force : IF MayForce THEN BOOLEAN ELSE {FALSE}]
      \/ r = [op |-> "disconnect"]
      \/ r = [op |-> "empty", key |-> handler[c]]
      \/ r = [op |-> "release", key |-> handler[c]]
  BY <1>1 DEF Asks
<1>3. CASE r \in [op : {"acquire"}, force : IF MayForce THEN BOOLEAN ELSE {FALSE}]
  BY <1>3
<1>4. CASE r = [op |-> "disconnect"]
  BY <1>4
<1>5. CASE r = [op |-> "empty", key |-> handler[c]] \/ r = [op |-> "release", key |-> handler[c]]
  <2>1. r = [op |-> "empty", key |-> handler[c]] => r.key = handler[c]
    OBVIOUS
  <2>2. r = [op |-> "release", key |-> handler[c]] => r.key = handler[c]
    OBVIOUS
  <2> QED
    BY <1>5, <2>1, <2>2
<1> QED
  BY <1>2, <1>3, <1>4, <1>5

LEMMA KeyInit == Init => KeyInv
  BY DEF Init, KeyInv

LEMMA KeyStep == TypeOK /\ KeyInv /\ [Next]_vars => KeyInv'
<1> SUFFICES ASSUME TypeOK, KeyInv, [Next]_vars PROVE KeyInv'
  OBVIOUS
<1>0. issued \in Nat /\ handler \in [Clients -> 0..issued]
  BY BoundsAssumption DEF TypeOK
\* A request that is no fragment.
<1>1. ASSUME NEW r \in Requests, r.op # "fragment", NEW reply, Serve(r, reply),
             late' \subseteq late,
             handler' = handler \/ (r.op \in {"acquire", "release"} /\ reply = "ok")
      PROVE  KeyInv'
  <2>1. /\ \/ UNCHANGED lockVars
           \/ current' = issued + 1 /\ issued' = issued + 1
           \/ current' = 0 /\ issued' = issued
        /\ r.op = "acquire" /\ reply = "ok" => current' = issued + 1 /\ issued' = issued + 1
        /\ r.op = "release" /\ reply = "ok" => current # 0 /\ current' = 0
    BY <1>1, CallFacts, TypeIsServerType
  <2>2. \A l \in late' : l \in late /\ l[2] \in Requests
    BY <1>1 DEF TypeOK
  <2>3. \A l \in late' : l[2].op \in {"release", "empty"} => l[2].key \in Nat
    BY <2>2, BoundsAssumption DEF Requests
  <2>4. CASE handler' = handler /\ UNCHANGED lockVars
    BY <2>2, <2>4 DEF KeyInv, lockVars
  <2>5. CASE current' = issued + 1 /\ issued' = issued + 1
    BY <1>0, <2>2, <2>3, <2>5 DEF KeyInv
  <2>6. CASE current' = 0 /\ issued' = issued
    BY <2>2, <2>6 DEF KeyInv
  <2>7. CASE UNCHANGED lockVars /\ handler' # handler
    <3>1. current' = current /\ issued' = issued /\ current \in 0..issued
      BY <2>7 DEF lockVars, TypeOK
    <3> QED
      BY <1>0, <1>1, <2>1, <2>7, <3>1
  <2> QED
    BY <2>1, <2>4, <2>5, <2>6, <2>7
<1>2. ASSUME NEW c \in Clients, Call(c) PROVE KeyInv'
  <2>1. PICK r \in Asks(c), reply \in {"ok", "error"} :
          /\ Serve(r, reply)
          /\ handler' = IF r.op \in {"acquire", "release"} /\ reply = "ok"
                        THEN [handler EXCEPT ![c] = current'] ELSE handler
    BY <1>2 DEF Call
  <2>2. r \in Requests /\ r.op # "fragment" /\ late' = late
    BY <1>2, <2>1, AsksFacts DEF Call
  <2> QED
    BY <1>1, <2>1, <2>2
<1>3. ASSUME NEW c \in Clients, BeginUpload(c) PROVE KeyInv'
  BY <1>3 DEF BeginUpload, KeyInv, lockVars
<1>4. ASSUME NEW c \in Clients, SendFragment(c) \/ UploadDone(c) \/ UploadFails(c) PROVE KeyInv'
  <2>1. UNCHANGED <<lockVars, handler, late>>
    BY <1>4, SendFacts DEF SendFragment, UploadDone, UploadFails
  <2> QED
    BY <2>1 DEF KeyInv, lockVars
<1>5. ASSUME NEW c \in Clients, GiveUp(c) PROVE KeyInv'
  <2>1. UNCHANGED <<lockVars, handler>>
    BY <1>5 DEF GiveUp
  <2>2. PICK r \in IF Busy(c) THEN {NextFragment(c)} ELSE Asks(c) :
          late' \in {late, late \cup {<<lost, r>>}}
    BY <1>5 DEF GiveUp
  <2>3. r.op \in {"release", "empty"} => r.key = handler[c]
    BY <2>2, AsksKey DEF NextFragment
  <2>4. \A l \in late' : l \in late \/ l[2] = r
    BY <2>2
  <2> QED
    BY <1>0, <2>1, <2>3, <2>4 DEF KeyInv, lockVars
<1>6. CASE ServeLate
  <2>1. PICK l \in late, reply \in {"ok", "more", "configured", "already", "error"} :
        Serve(l[2], reply) /\ late' = late \ {l}
    BY <1>6 DEF ServeLate
  <2>2. l[2] \in Requests /\ handler' = handler
    BY <1>6 DEF ServeLate, clientVars, TypeOK
  <2>3. CASE l[2].op # "fragment"
    BY <1>1, <2>1, <2>2, <2>3
  <2>4. CASE l[2].op = "fragment"
    <3>1. UNCHANGED lockVars
      BY <2>1, <2>4 DEF Serve, Fragment
    <3> QED
      BY <2>1, <2>2, <3>1 DEF KeyInv, lockVars
  <2> QED
    BY <2>3, <2>4
<1>7. CASE UNCHANGED vars
  BY <1>7 DEF vars, lockVars, clientVars, KeyInv
<1> QED
  BY <1>2, <1>3, <1>4, <1>5, <1>6, <1>7 DEF Next

-----------------------------------------------------------------------------
(* The server implements BirdUploads.                                       *)

LEMMA SendingFacts ==
  TypeOK => \A c \in Clients : /\ Busy(c) => Sending[c] = upload[c].text /\ Sending[c] \in Texts
                               /\ Sending[c] # None <=> Busy(c)
  BY UploadFacts, TextFacts DEF Sending

\* What an answer to a fragment tells of BIRD.
LEMMA BirdTold ==
  ASSUME ConfigType, NEW text \in Text, NEW answer, Bird(text, answer)
  PROVE  /\ running' \in {running, text} /\ (faults > 0 => faults' > 0)
         /\ answer = "ok" => UNCHANGED faults
         /\ answer # "ok" /\ ~(faults' > 0) => UNCHANGED running
  BY DEF Bird, Fault, ConfigType

LEMMA ConfigTold ==
  ASSUME ConfigType, NEW m \in Text, NEW text \in Text, NEW reply,
         SetNewConfig(m, text, reply)
  PROVE  /\ reply # "more" /\ (faults > 0 => faults' > 0)
         /\ reply \in {"configured", "already"} => UNCHANGED faults
         /\ reply = "error" /\ ~(faults' > 0) => UNCHANGED running
         /\ TrueCache /\ text = m => running' \in {running, text}
<1>1. CASE m = md5 /\ reply = "already" /\ UNCHANGED <<md5, cache, running, faults>>
  BY <1>1
<1>2. CASE m # md5 /\ Cached(m) /\ SetCached(m, reply)
  <2>1. PICK answer \in {"ok", "refused", "none"} :
          /\ Bird(Lookup(m), answer)
          /\ reply = IF answer = "ok" THEN "configured" ELSE "error"
    BY <1>2 DEF SetCached
  <2>2. Lookup(m) \in Text /\ (TrueCache => Lookup(m) = m)
    BY <1>2, LookupFacts
  <2> QED
    BY <2>1, <2>2, BirdTold
<1>3. CASE m # md5 /\ ~Cached(m) /\ SetNew(m, text, reply)
  <2>1. PICK answer \in {"ok", "refused", "none"} :
          /\ Bird(text, answer)
          /\ reply = IF answer = "ok" THEN "configured" ELSE "error"
    BY <1>3 DEF SetNew
  <2> QED
    BY <2>1, BirdTold
<1> QED
  BY <1>1, <1>2, <1>3 DEF SetNewConfig

LEMMA FragmentTold ==
  ASSUME ConfigType, NEW text \in Texts, NEW n \in Nat, NEW reply,
         SetConfig(text, n, reply)
  PROVE  /\ faults > 0 => faults' > 0
         /\ reply = "more" => UNCHANGED <<running, faults>>
         /\ reply \in {"configured", "already"} => UNCHANGED faults
         /\ reply = "error" /\ ~(faults' > 0) => UNCHANGED running
         /\ frags = SubSeq(text, 1, n - 1) /\ (n > 1 => fragMd5 = text) /\ TrueCache
              => running' \in {running, text}
<1> DEFINE all == Append(frags, text[n])
<1>1. text \in Text /\ Len(text) \in Nat /\ n \in 1..Len(text)
  BY TextFacts, SetConfigFacts
<1>2. all \in Text
  BY <1>1 DEF Text, ConfigType
<1>3. CASE n = 1 /\ Len(text) = 1 /\ SetNewConfig(text, text, reply)
  BY <1>1, <1>3, ConfigTold
<1>4. CASE reply = "more" /\ UNCHANGED <<md5, cache, running, faults>>
  BY <1>4
<1>5. CASE n > 1 /\ n = Len(text)
           /\ SetNewConfig(IF fragMd5 = None THEN all ELSE fragMd5, all, reply)
  <2> DEFINE m == IF fragMd5 = None THEN all ELSE fragMd5
  <2>1. m \in Text /\ SetNewConfig(m, all, reply)
    BY <1>2, <1>5, TextFacts DEF ConfigType
  <2>2. frags = SubSeq(text, 1, n - 1) /\ fragMd5 = text => all = text /\ m = text
    <3>1. SubSeq(text, 1, n) = text
      BY <1>1, <1>5 DEF Text
    <3>2. frags = SubSeq(text, 1, n - 1) => all = text
      BY <1>1, <3>1, Extend
    <3> QED
      BY <1>1, <3>2, TextFacts
  <2> HIDE DEF m, all
  <2> QED
    BY <1>2, <1>5, <2>1, <2>2, ConfigTold
<1> QED
  BY <1>3, <1>4, <1>5 DEF SetConfig

LEMMA DeviceInit == Init => Device!Init
  BY DEF Init, Device!Init, Sending, Broken, Busy

\* What breaks an upload that is underway.
LEMMA CutsOnly ==
  ASSUME TypeOK, BirdInv, CutOff, UNCHANGED faults
  PROVE  Device!BreaksOnly(Device!Underway)
<1>1. CASE cut' => cut
  BY <1>1 DEF CutOff, Broken, Device!BreaksOnly
<1>2. CASE cut' /\ ~cut
  <2>1. frags # <<>>
    BY <1>2 DEF CutOff
  <2>2. PICK c \in Clients : Uploading(c)
    BY <1>2, <2>1 DEF BirdInv, IdleInv
  <2>3. Device!Underway
    BY <2>2, SendingFacts DEF Uploading, Device!Underway
  <2> QED
    BY <2>3 DEF CutOff, Broken, Device!BreaksOnly
<1> QED
  BY <1>1, <1>2

\* Between uploads: the lock, the empty configuration, and failures of BIRD.
LEMMA CallStep ==
  ASSUME TypeOK, BirdInv, NEW r, r.op # "fragment", NEW reply, Serve(r, reply), CutOff,
         upload' = upload,
         r.op \in {"release", "empty"} /\ r.key = current /\ current # 0
           => \E c \in Clients : handler[c] = current,
         \/ handler' = handler
         \/ /\ r.op \in {"acquire", "release"} /\ reply = "ok"
            /\ \E c \in Clients : /\ ~Busy(c) /\ handler' = [handler EXCEPT ![c] = current']
                                  /\ r.op = "release" => r.key = handler[c]
  PROVE  Device!Next \/ UNCHANGED Device!vars
<1>1. Sending' = Sending
  BY DEF Sending, Busy
<1>2. \A c \in Clients : ~Busy(c) => Sending[c] = None
  BY SendingFacts
<1>3. ASSUME UNCHANGED <<lockVars, running, faults>>, r.op \notin {"acquire", "release"} \/ reply # "ok"
      PROVE  UNCHANGED Device!vars
  BY <1>1, <1>3 DEF Device!vars, Broken, CutOff, lockVars
<1>4. ASSUME UNCHANGED lockVars, Fault, running' \in {running, Empty}, r.op \notin {"acquire", "release"}
      PROVE  Device!Next
  <2>1. Broken' = TRUE
    BY <1>4 DEF Broken, Fault, TypeOK
  <2> QED
    BY <1>1, <1>4, <2>1 DEF Device!Next, Device!Break, lockVars
<1>5. CASE r.op = "connect" /\ Connect(r.same, reply)
  BY <1>3, <1>4, <1>5 DEF Connect, configVars
<1>6. CASE r.op = "disconnect" /\ Disconnect(reply)
  BY <1>3, <1>6 DEF Disconnect, configVars
<1>7. CASE r.op = "acquire" /\ Acquire(r.force, reply)
  <2>1. CASE reply # "ok"
    BY <1>3, <1>7, <2>1 DEF Acquire, configVars
  <2>2. CASE reply = "ok"
    <3>1. issued' = issued + 1 /\ current' = issued' /\ UNCHANGED configVars
      BY <1>7, <2>2 DEF Acquire
    <3>2. Device!BreaksOnly(Device!Underway)
      BY <3>1, CutsOnly DEF configVars
    <3>3. \/ UNCHANGED handler
          \/ \E c \in Clients : Sending[c] = None /\ handler' = [handler EXCEPT ![c] = issued']
      <4>1. CASE UNCHANGED handler
        BY <4>1
      <4>2. CASE ~UNCHANGED handler
        <5>1. PICK c \in Clients : ~Busy(c) /\ handler' = [handler EXCEPT ![c] = current']
          BY <4>2
        <5>2. Sending[c] = None
          BY <1>2, <5>1
        <5>3. handler' = [handler EXCEPT ![c] = issued']
          BY <3>1, <5>1
        <5> QED
          BY <5>2, <5>3
      <4> QED
        BY <4>1, <4>2
    <3>4. Device!Take
      BY <1>1, <3>1, <3>2, <3>3 DEF Device!Take, configVars
    <3> QED
      BY <3>4 DEF Device!Next
  <2> QED
    BY <2>1, <2>2
<1>8. CASE r.op = "release" /\ Release(r.key, reply)
  <2>1. CASE reply # "ok"
    BY <1>3, <1>8, <2>1 DEF Release, configVars, lockVars
  <2>2. CASE reply = "ok"
    <3>1. /\ current # 0 /\ r.key = current /\ current' = 0
          /\ issued' = issued /\ UNCHANGED configVars
      BY <1>8, <2>2 DEF Release
    <3>2. Device!BreaksOnly(Device!Underway)
      BY <3>1, CutsOnly DEF configVars
    <3>3. Device!Held
      BY <1>8, <3>1 DEF Device!Held
    <3>4. \/ UNCHANGED handler
          \/ \E c \in Clients : /\ handler[c] = current /\ Sending[c] = None
                                /\ handler' = [handler EXCEPT ![c] = 0]
      <4>1. CASE UNCHANGED handler
        BY <4>1
      <4>2. CASE ~UNCHANGED handler
        <5>1. PICK c \in Clients : /\ ~Busy(c) /\ handler' = [handler EXCEPT ![c] = current']
                                   /\ r.op = "release" => r.key = handler[c]
          BY <4>2
        <5>2. Sending[c] = None
          BY <1>2, <5>1
        <5>3. handler[c] = current
          BY <1>8, <3>1, <5>1
        <5>4. handler' = [handler EXCEPT ![c] = 0]
          BY <3>1, <5>1
        <5> QED
          BY <5>2, <5>3, <5>4
      <4> QED
        BY <4>1, <4>2
    <3>5. Device!GiveBack
      BY <1>1, <3>1, <3>2, <3>3, <3>4 DEF Device!GiveBack, configVars
    <3> QED
      BY <3>5 DEF Device!Next
  <2> QED
    BY <2>1, <2>2
<1>9. CASE r.op = "empty" /\ SetEmpty(r.key, reply)
  <2>1. CASE r.key # current
    BY <1>3, <1>9, <2>1 DEF SetEmpty, configVars
  <2>2. CASE r.key = current
    <3>1. PICK answer \in {"ok", "refused", "none"} : Bird(Empty, answer)
      BY <1>9, <2>2 DEF SetEmpty
    <3>2. UNCHANGED lockVars
      BY <1>9 DEF SetEmpty
    <3>3. CASE Fault
      BY <1>4, <1>9, <3>1, <3>2, <3>3 DEF Bird
    <3>4. CASE running' = Empty /\ UNCHANGED faults
      <4>1. Device!Held \/ current = 0
        BY <1>9, <2>2 DEF Device!Held
      <4>2. UNCHANGED <<current, issued, handler, Sending, Broken>>
        BY <1>1, <1>9, <3>2, <3>4 DEF Broken, CutOff, lockVars
      <4> QED
        BY <3>4, <4>1, <4>2 DEF Device!Next, Device!Reset
    <3>5. CASE UNCHANGED <<running, faults>>
      BY <1>3, <1>9, <3>2, <3>5
    <3> QED
      BY <3>1, <3>3, <3>4, <3>5 DEF Bird
  <2> QED
    BY <2>1, <2>2
<1> QED
  BY <1>5, <1>6, <1>7, <1>8, <1>9 DEF Serve

\* A fragment: unless it is the last one nobody sees it.
LEMMA SendStep ==
  ASSUME TypeOK, BirdInv, NEW c \in Clients, Busy(c), NEW reply,
         Serve(NextFragment(c), reply), UNCHANGED <<handler, cut>>,
         upload' = [upload EXCEPT ![c] =
                      IF reply = "more"
                      THEN [text |-> upload[c].text, next |-> upload[c].next + 1]
                      ELSE Nothing]
  PROVE  Device!Next \/ UNCHANGED Device!vars
<1> DEFINE t == upload[c].text
           n == upload[c].next
<1>1. t \in Texts /\ n \in Nat \ {0} /\ ConfigType
  BY UploadFacts, TypeIsServerType DEF ServerType
<1>2. current' = current /\ issued' = issued
  BY SendFacts DEF lockVars
<1>3. Sending[c] = t /\ Sending[c] # None
  BY <1>1, SendingFacts
<1>4. Sending' = IF reply = "more" THEN Sending ELSE [Sending EXCEPT ![c] = None]
  <2>1. \A d \in Clients : d # c => upload'[d] = upload[d]
    BY DEF TypeOK
  <2>2. upload'[c] = IF reply = "more" THEN [text |-> t, next |-> n + 1] ELSE Nothing
    BY DEF TypeOK
  <2>3. CASE reply = "more"
    <3>1. upload'[c].text = t /\ upload'[c] # Nothing
      BY <1>1, <2>2, <2>3 DEF Nothing
    <3> QED
      BY <2>1, <2>3, <3>1 DEF Sending, Busy
  <2>4. CASE reply # "more"
    <3>1. upload'[c] = Nothing
      BY <2>2, <2>4
    <3>2. Sending' = [d \in Clients |-> IF d = c THEN None ELSE Sending[d]]
      BY <2>1, <3>1 DEF Sending, Busy
    <3>3. [Sending EXCEPT ![c] = None] = [d \in Clients |-> IF d = c THEN None ELSE Sending[d]]
      BY DEF Sending
    <3> QED
      BY <2>4, <3>2, <3>3
  <2> QED
    BY <2>3, <2>4
<1>5. CASE handler[c] = current /\ SetConfig(t, n, reply)
  <2>1. /\ faults > 0 => faults' > 0
        /\ reply = "more" => UNCHANGED <<running, faults>>
        /\ reply \in {"configured", "already"} => UNCHANGED faults
        /\ reply = "error" /\ ~(faults' > 0) => UNCHANGED running
        /\ frags = SubSeq(t, 1, n - 1) /\ (n > 1 => fragMd5 = t) /\ TrueCache
             => running' \in {running, t}
    BY <1>1, <1>5, FragmentTold
  <2>2. ~cut => running' \in {running, t}
    BY <1>5, <2>1, TrueParts DEF BirdInv, FragmentInv, Uploading
  <2>3. reply \in {"more", "configured", "already", "error"}
    BY <1>5, HolderSends
  <2>4. CASE reply = "more"
    BY <1>2, <1>4, <2>1, <2>4 DEF Device!vars, Broken
  <2>5. CASE reply \in {"configured", "already"}
    <3>1. ~cut /\ faults' = 0 => running' = t
      BY <1>5, <2>5, HolderSends
    <3>2. faults' = faults /\ faults \in Nat /\ Broken' = Broken
      BY <2>1, <2>5, BoundsAssumption DEF Broken, TypeOK
    <3>3. ~Broken => running' = Sending[c]
      BY <1>3, <3>1, <3>2 DEF Broken
    <3>4. handler[c] # 0
      BY DEF BirdInv, HandlerInv
    <3>5. Device!Confirm(c)
      BY <1>2, <1>3, <1>4, <1>5, <2>5, <3>2, <3>3, <3>4 DEF Device!Confirm, Device!Ends
    <3> QED
      BY <3>5 DEF Device!Next
  <2>6. CASE reply = "error"
    <3>1. Device!Refuse(c)
      BY <1>2, <1>3, <1>4, <2>1, <2>2, <2>6 DEF Device!Refuse, Device!Ends, Broken
    <3> QED
      BY <3>1 DEF Device!Next
  <2> QED
    BY <2>3, <2>4, <2>5, <2>6
<1>6. CASE handler[c] # current /\ reply = "error" /\ UNCHANGED configVars
  <2>1. Device!Refuse(c)
    BY <1>2, <1>3, <1>4, <1>6 DEF Device!Refuse, Device!Ends, Broken, configVars
  <2> QED
    BY <2>1 DEF Device!Next
<1> QED
  BY <1>5, <1>6, SendFacts

LEMMA DeviceStep ==
  ASSUME TypeOK, BirdInv, KeyInv, [Next]_vars
  PROVE  Device!Next \/ UNCHANGED Device!vars
<1>1. ASSUME NEW c \in Clients, Call(c)
      PROVE  Device!Next \/ UNCHANGED Device!vars
  <2>1. PICK r \in Asks(c), reply \in {"ok", "error"} :
          /\ Serve(r, reply)
          /\ handler' = IF r.op \in {"acquire", "release"} /\ reply = "ok"
                        THEN [handler EXCEPT ![c] = current'] ELSE handler
    BY <1>1 DEF Call
  <2>2. ~Busy(c) /\ CutOff /\ upload' = upload
    BY <1>1 DEF Call
  <2>3. r.op # "fragment" /\ (r.op \in {"release", "empty"} => r.key = handler[c])
    BY <2>1, AsksFacts, AsksKey
  <2>4. \/ handler' = handler
        \/ /\ r.op \in {"acquire", "release"} /\ reply = "ok"
           /\ \E d \in Clients : /\ ~Busy(d) /\ handler' = [handler EXCEPT ![d] = current']
                                 /\ r.op = "release" => r.key = handler[d]
    BY <2>1, <2>2, <2>3
  <2> QED
    BY <2>1, <2>2, <2>3, <2>4, CallStep
<1>2. ASSUME NEW c \in Clients, BeginUpload(c)
      PROVE  Device!Next \/ UNCHANGED Device!vars
  <2>1. PICK t \in Texts : upload' = [upload EXCEPT ![c] = [text |-> t, next |-> 1]]
    BY <1>2 DEF BeginUpload
  <2>2. ~Busy(c) /\ handler[c] # 0 /\ UNCHANGED <<lockVars, configVars, handler, cut>>
    BY <1>2 DEF BeginUpload
  <2>3. /\ upload'[c].text = t /\ upload'[c] # Nothing
        /\ \A d \in Clients : d # c => upload'[d] = upload[d]
    BY <2>1 DEF TypeOK, Nothing
  <2>4. Sending' = [Sending EXCEPT ![c] = t] /\ Sending[c] = None
    BY <2>2, <2>3, SendingFacts DEF Sending, Busy
  <2>5. Device!Ask(c)
    BY <2>2, <2>4 DEF Device!Ask, Broken, lockVars, configVars
  <2> QED
    BY <2>5 DEF Device!Next
<1>3. ASSUME NEW c \in Clients, SendFragment(c)
      PROVE  Device!Next \/ UNCHANGED Device!vars
  BY <1>3, SendStep DEF SendFragment
<1>4. ASSUME NEW c \in Clients, UploadDone(c) \/ UploadFails(c)
      PROVE  Device!Next \/ UNCHANGED Device!vars
  <2>1. PICK reply \in {"configured", "already", "error"} :
          Busy(c) /\ Serve(NextFragment(c), reply)
    BY <1>4 DEF UploadDone, UploadFails
  <2>2. upload' = [upload EXCEPT ![c] = Nothing] /\ UNCHANGED <<handler, cut>>
    BY <1>4 DEF UploadDone, UploadFails
  <2> QED
    BY <2>1, <2>2, SendStep
<1>5. ASSUME NEW c \in Clients, GiveUp(c)
      PROVE  Device!Next \/ UNCHANGED Device!vars
  <2>1. UNCHANGED <<lockVars, configVars, handler>> /\ upload' = [upload EXCEPT ![c] = Nothing]
    BY <1>5 DEF GiveUp
  <2>2. PICK r \in IF Busy(c) THEN {NextFragment(c)} ELSE Asks(c) :
          cut' = (cut \/ r.op = "fragment")
    BY <1>5 DEF GiveUp
  <2>3. Sending' = [Sending EXCEPT ![c] = None]
    BY <2>1 DEF Sending, Busy, TypeOK
  <2>4. CASE Busy(c)
    <3>1. Device!Refuse(c)
      BY <2>1, <2>2, <2>3, <2>4, SendingFacts
         DEF Device!Refuse, Device!Ends, Broken, lockVars, configVars
    <3> QED
      BY <3>1 DEF Device!Next
  <2>5. CASE ~Busy(c)
    <3>1. cut' = cut
      BY <2>2, <2>5, AsksFacts DEF TypeOK
    <3>2. Sending' = Sending
      BY <2>3, <2>5, SendingFacts DEF Sending
    <3> QED
      BY <2>1, <3>1, <3>2 DEF Device!vars, Broken, lockVars, configVars
  <2> QED
    BY <2>4, <2>5
<1>6. CASE ServeLate
  <2>1. PICK l \in late, reply \in {"ok", "more", "configured", "already", "error"} :
        Serve(l[2], reply) /\ late' = late \ {l}
    BY <1>6 DEF ServeLate
  <2>2. CutOff /\ upload' = upload /\ handler' = handler
    BY <1>6 DEF ServeLate, clientVars
  <2>3. CASE l[2].op # "fragment"
    BY <2>1, <2>2, <2>3, CallStep DEF KeyInv
  <2>4. CASE l[2].op = "fragment"
    <3>1. UNCHANGED lockVars
      BY <2>1, <2>4 DEF Serve, Fragment
    <3>2. Broken = TRUE /\ Broken' = TRUE
      BY <2>2, <2>4 DEF BirdInv, LateInv, CutOff, Broken
    <3>3. Device!Break
      BY <2>2, <3>1, <3>2 DEF Device!Break, Sending, Busy, lockVars
    <3> QED
      BY <3>3 DEF Device!Next
  <2> QED
    BY <2>3, <2>4
<1>7. CASE UNCHANGED vars
  BY <1>7 DEF vars, lockVars, configVars, clientVars, Device!vars, Sending, Busy, Broken
<1> QED
  BY <1>1, <1>2, <1>3, <1>4, <1>5, <1>6, <1>7 DEF Next

\* An upload, however many fragments it has and whoever sends others in
\* between, takes effect in one step or not at all, until one is cut off or
\* BIRD fails; only who has the current handler gives it back or resets BIRD.
THEOREM OneStepUploads == Spec => UploadsInOneStep
<1>1. TypeOK /\ BirdInv /\ KeyInv /\ [Next]_vars => [Device!Next]_(Device!vars)
  BY DeviceStep
<1>2. TypeOK /\ KeyInv /\ [Next]_vars => KeyInv'
  BY KeyStep
<1> QED
  BY <1>1, <1>2, KeyInit, DeviceInit, Safety, TypeCorrect, PTL
     DEF Spec, UploadsInOneStep, Device!Spec
=============================================================================
