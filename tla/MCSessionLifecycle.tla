------------------------ MODULE MCSessionLifecycle ------------------------
(* Small instances of SessionLifecycle.                                    *)
EXTENDS SessionLifecycle

\* "c" and "d" connect with cleanSession = true, "p" and "q" with false.
CleanOnes == Endpoints \cap {"c", "d"}

\* "p" declares a retained will, "q" an empty one, "d" an ordinary one.
MCWillOf ==
    [e \in Endpoints |-> CASE e = "p" -> "retained" [] e = "q" -> "empty"
                           [] e = "d" -> "message" [] OTHER -> "none"]

\* "q" arrives over WebSocket.
MCListener == [e \in Endpoints |-> IF e = "q" THEN "ws" ELSE "tcp"]
===========================================================================
