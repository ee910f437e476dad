---------------------------- MODULE MCBirdServer ----------------------------
(* BirdServer with texts of one and of three fragments.  Of the texts that *)
(* a mix of uploads yields BIRD accepts one and refuses the others.        *)
EXTENDS BirdServerInvariant

Short   == <<"s">>
Long    == <<"a", "b", "c">>
Minimal == <<"m">>  \* bird.conf is the empty configuration

AllTexts    == {Short, Long}
AllPieces   == {"s", "a", "b", "c", "m"}
AllAccepted == {Short, Long, Minimal, <<"a", "a", "b", "c">>}
=============================================================================
