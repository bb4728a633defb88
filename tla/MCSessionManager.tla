-------------------------- MODULE MCSessionManager --------------------------
(* Instances of SessionManager and of what is said about it, for TLC.      *)
EXTENDS SessionPresence, SessionInvariants, SessionClaims, TLC

AllChannels == SocketChannels \cup WebChannels

\* Every channel on an event loop of its own.
OwnLoop == [c \in AllChannels |-> c]

\* One event loop for each server.
ServerLoops == {"tcp", "web"}
ServerLoop == [c \in AllChannels |-> IF c \in WebChannels THEN "web" ELSE "tcp"]

\* Every watch on a loop of its own, and the pages on one.
PageLoops == SocketChannels \cup {"web"}
PageLoop == [c \in AllChannels |-> IF c \in WebChannels THEN "web" ELSE c]

\* Clients that may log in with any account of the instance.
AnyId == [c \in AllChannels |-> Accounts]

\* One account for the watches and one for the pages.
SourceIds == {"watch", "page"}

\* Watches that may also log in with the account of the pages.
RebindId == [c \in AllChannels |-> IF c \in WebChannels THEN {"page"} ELSE SourceIds]

Symmetry == Permutations(SocketChannels) \cup Permutations(WebChannels)

=============================================================================
