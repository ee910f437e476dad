---------------------------- MODULE MCAstfClient ----------------------------
(* AstfClient on small instances: a command may block or not.              *)
EXTENDS AstfClientInvariant

Both == {TRUE, FALSE}
=============================================================================
