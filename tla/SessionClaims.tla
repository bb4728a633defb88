--------------------------- MODULE SessionClaims ---------------------------
(***************************************************************************)
(* What comments and log messages of the source say about sessions, and    *)
(* the code does not keep.  TLC finds a behaviour of SessionManager        *)
(* against each of these.                                                  *)
(***************************************************************************)
EXTENDS SessionManager

\* The comment of READER_IDLE says that it closes the current connection: a
\* handler closes the channel whose event it handles and no other.
ClosesOwnChannel ==
  [][\A l \in Loops : RemoveSession(l) =>
        (open \ open') \cup (closing' \ closing) \subseteq {th[l].ctx}]_vars

\* removeSession says that a web session leaves the map after it has no other
\* page: an account is not dropped while another page of it is open.
DroppedWithLastPage ==
  \A l \in Loops :
    LET s == sessions[th[l].sid]
    IN  th[l].pc = "drop" /\ s # None /\ Source(sess[s].chan) = "websocket"
          => ({sess[s].chan} \cup sess[s].pages) \cap open \subseteq {th[l].ctx}

\* `sessions` is said to be the set of the currently active sessions: between
\* events the session of an account has a connection that is open, or whose end
\* is still to be handled.
SessionsActive ==
  Quiet => \A a \in Accounts : sessions[a] # None =>
             ({sess[sessions[a]].chan} \cup sess[sessions[a]].pages) \cap (open \cup inactive) # {}

=============================================================================
