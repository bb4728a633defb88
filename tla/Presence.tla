------------------------------ MODULE Presence ------------------------------
(***************************************************************************)
(* What the session registry promises about accounts, whatever handlers    *)
(* run at the same time: which accounts are online, which logins are under *)
(* way, and which account is being announced as offline.                   *)
(*                                                                         *)
(* An account is announced only when a departure has just taken it         *)
(* offline, one announcement at a time and never together with a           *)
(* registration.  It goes offline without an announcement only while a     *)
(* login for the same account is under way to register it again.           *)
(***************************************************************************)
CONSTANTS
  Accounts,  \* what can be online
  Workers,   \* who performs logins and departures
  Nobody     \* what is not an account

VARIABLES
  online,     \* the registered accounts
  joining,    \* the account each worker is logging in
  announcing  \* the account being announced as offline

presence == <<online, joining, announcing>>

Init ==
  /\ online = {}
  /\ joining = [w \in Workers |-> Nobody]
  /\ announcing = Nobody

\* Worker w starts a login for account a.
Begin(w, a) ==
  /\ joining[w] = Nobody
  /\ joining' = [joining EXCEPT ![w] = a]
  /\ UNCHANGED <<online, announcing>>

\* A login takes down the registration it replaces.
Displace(w) ==
  /\ joining[w] # Nobody
  /\ online' = online \ {joining[w]}
  /\ UNCHANGED <<joining, announcing>>

\* A login registers its account and ends.
Register(w) ==
  /\ joining[w] # Nobody
  /\ announcing = Nobody
  /\ online' = online \cup {joining[w]}
  /\ joining' = [joining EXCEPT ![w] = Nobody]
  /\ UNCHANGED announcing

\* Account a goes offline for good, which is announced next.
Depart(a) ==
  /\ announcing = Nobody
  /\ online' = online \ {a}
  /\ announcing' = a
  /\ UNCHANGED joining

Announce ==
  /\ announcing # Nobody
  /\ announcing' = Nobody
  /\ UNCHANGED <<online, joining>>

Next ==
  \/ \E w \in Workers : Displace(w) \/ Register(w)
  \/ \E w \in Workers, a \in Accounts : Begin(w, a)
  \/ \E a \in Accounts : Depart(a)
  \/ Announce

Spec == Init /\ [][Next]_presence

\* Logins and announcements that have started are finished.
FairSpec == Spec /\ WF_presence(Announce) /\ \A w \in Workers : WF_presence(Register(w))

=============================================================================
