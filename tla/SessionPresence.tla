-------------------------- MODULE SessionPresence --------------------------
(* The session registry implements Presence.                               *)
EXTENDS SessionManager

\* Steps of a login that has not put its session into the map yet.
Joining == {"get", "ungroup", "unmap", "add", "putpage", "storepage", "update"}

\* The accounts with a session in the map.
Online == {a \in Accounts : sessions[a] # None}

\* The account each loop is logging in.
Logins == [l \in Loops |-> IF th[l].pc \in Joining THEN th[l].sid ELSE None]

\* The account whose OFFLINE message is being broadcast: removeSession does it
\* before it leaves the monitor.
Announcing ==
  IF monitor # None /\ th[monitor].pc = "broadcast" THEN th[monitor].sid ELSE None

P == INSTANCE Presence WITH
       Workers <- Loops, Nobody <- None,
       online <- Online, joining <- Logins, announcing <- Announcing

\* Every step of the registry is a step of Presence or changes nothing that
\* Presence shows: only a running login hides an account without announcing it,
\* and announcements and registrations exclude each other.
ImplementsPresence == P!Spec

\* Under the scheduling of the event loops the registry also finishes the
\* logins and announcements that Presence requires it to finish.
ImplementsFairPresence == P!FairSpec

=============================================================================
