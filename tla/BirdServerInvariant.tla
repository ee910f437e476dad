------------------------- MODULE BirdServerInvariant ------------------------
(* The inductive invariants behind CacheIsTrue, CurrentIsTrue,             *)
(* UploadIsTrue and UploadsInOneStep.                                      *)
EXTENDS BirdServer

\* A handler is given to one client, and a client uploads with a handler.
HandlerInv ==
  \A c, d \in Clients :
    /\ handler[c] = handler[d] /\ handler[c] # 0 => c = d
    /\ Busy(c) => handler[c] # 0

Uploading(c) == Busy(c) /\ handler[c] = current

\* What the server has collected is what the holder has sent, ...
FragmentInv ==
  ~cut => \A c \in Clients : Uploading(c) =>
            LET t == upload[c].text
                n == upload[c].next
            IN  /\ frags = SubSeq(t, 1, n - 1)
                /\ n = 1 => fragMd5 = None
                /\ n > 1 => fragMd5 = t

\* ... and nothing when the holder uploads nothing.
IdleInv ==
  ~cut => \/ \E c \in Clients : Uploading(c)
          \/ frags = <<>> /\ fragMd5 = None

\* A fragment that comes late was cut off.
LateInv == ~cut => \A l \in late : l[2].op # "fragment"

\* BIRD has accepted what is in the cache.
AcceptedInv == \A i \in DOMAIN cache : cache[i].text \in Accepted

BirdInv ==
  HandlerInv /\ FragmentInv /\ IdleInv /\ LateInv /\ AcceptedInv
  /\ CacheIsTrue /\ CurrentIsTrue

\* The handler of a request that comes late is still its client's, or will
\* never be current again.
KeyInv ==
  /\ \A l \in late : l[2].op \in {"release", "empty"} => l[2].key <= issued
  /\ \A l \in late : l[2].op \in {"release", "empty"} /\ l[2].key = current /\ current # 0
                     => \E c \in Clients : handler[c] = current
=============================================================================
