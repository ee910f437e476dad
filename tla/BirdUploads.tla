---------------------------- MODULE BirdUploads ----------------------------
(* What the clients of the BIRD server count on, with its requests, its    *)
(* fragments and its cache left out: one of them holds BIRD at a time, and *)
(* an upload takes effect in one step or not at all.                       *)
EXTENDS Naturals

CONSTANTS Clients, None, Texts, Boot, Empty

VARIABLES holder,   \* the handler that is current; 0 is nobody's
          given,    \* handlers given out
          key,      \* the handler a client believes to have
          asked,    \* what a client uploads, or None
          running,  \* the configuration of BIRD
          broken    \* BIRD has failed, or an upload was cut off

vars == <<holder, given, key, asked, running, broken>>

Init ==
  /\ holder = 0 /\ given = 0 /\ key = [c \in Clients |-> 0]
  /\ asked = [c \in Clients |-> None]
  /\ running = Boot /\ broken = FALSE

\* It is broken for good, and only by what breaks it.
BreaksOnly(reason) == (broken => broken') /\ (broken' => broken \/ reason)

\* The holder is in the middle of an upload.
Underway == \E c \in Clients : asked[c] # None /\ key[c] = holder

\* A client that is not uploading takes BIRD over, or one that has gone does.
Take ==
  /\ given' = given + 1 /\ holder' = given'
  /\ \/ UNCHANGED key
     \/ \E c \in Clients : asked[c] = None /\ key' = [key EXCEPT ![c] = given']
  /\ BreaksOnly(Underway)
  /\ UNCHANGED <<asked, running>>

\* A client has the current handler, and knows it.
Held == holder # 0 /\ \E c \in Clients : key[c] = holder

GiveBack ==
  /\ Held /\ holder' = 0
  /\ \/ UNCHANGED key
     \/ \E c \in Clients : key[c] = holder /\ asked[c] = None /\ key' = [key EXCEPT ![c] = 0]
  /\ BreaksOnly(Underway)
  /\ UNCHANGED <<given, asked, running>>

Ask(c) ==
  /\ asked[c] = None /\ key[c] # 0
  /\ \E t \in Texts : asked' = [asked EXCEPT ![c] = t]
  /\ UNCHANGED <<holder, given, key, running, broken>>

Ends(c) == asked[c] # None /\ asked' = [asked EXCEPT ![c] = None]

\* Only the holder's upload is confirmed, and it is what BIRD runs now.
Confirm(c) ==
  /\ Ends(c) /\ key[c] = holder /\ holder # 0
  /\ ~broken => running' = asked[c]
  /\ UNCHANGED <<holder, given, key, broken>>

\* An upload that is refused has changed nothing, unless this is where it breaks.
Refuse(c) ==
  /\ Ends(c)
  /\ broken => broken'
  /\ ~broken' => UNCHANGED running
  /\ ~broken => running' \in {running, asked[c]}
  /\ UNCHANGED <<holder, given, key>>

\* The empty configuration is for the holder, or for all while there is none.
Reset ==
  /\ Held \/ holder = 0
  /\ running' = Empty
  /\ UNCHANGED <<holder, given, key, asked, broken>>

\* BIRD fails, or it gets what was left of a broken upload.
Break ==
  /\ broken' = TRUE
  /\ ~broken => running' \in {running, Empty}
  /\ UNCHANGED <<holder, given, key, asked>>

Next ==
  \/ Take \/ GiveBack \/ Reset \/ Break
  \/ \E c \in Clients : Ask(c) \/ Confirm(c) \/ Refuse(c)

Spec == Init /\ [][Next]_vars
=============================================================================
