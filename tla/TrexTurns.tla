----------------------------- MODULE TrexTurns -----------------------------
(* What the users of the TRex daemon count on, with its threads, its calls *)
(* and its status left out: TRex is one device, used in turns.             *)
CONSTANTS Users, NoUser, Runs

VARIABLES holder,  \* who has reserved TRex
          live,    \* <<run, user>>: the run that goes on, and whose it is
          past     \* the runs that are over, or told to end

vars == <<holder, live, past>>

Init == holder = NoUser /\ live = {} /\ past = {}

\* TRex is reserved while nothing runs.
Take(u) ==
  /\ holder = NoUser /\ live = {}
  /\ holder' = u
  /\ UNCHANGED <<live, past>>

GiveBack ==
  /\ holder' = NoUser
  /\ UNCHANGED <<live, past>>

\* A run begins when none goes on, and is the holder's if there is one.
Begin(u) ==
  /\ live = {} /\ holder \in {NoUser, u}
  /\ \E r \in Runs \ past : live' = {<<r, u>>}
  /\ UNCHANGED <<holder, past>>

\* It goes on until it is over, and never comes back.
End ==
  /\ \E r \in Runs, u \in Users : live = {<<r, u>>} /\ past' = past \cup {r}
  /\ live' = {}
  /\ UNCHANGED holder

Next == GiveBack \/ End \/ \E u \in Users : Take(u) \/ Begin(u)

Spec == Init /\ [][Next]_vars
=============================================================================
