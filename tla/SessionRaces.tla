---------------------------- MODULE SessionRaces ----------------------------
(***************************************************************************)
(* What the registry keeps of the accounts whose logins nothing overtakes. *)
(* createSession holds no lock from its sessions.get() to what it does     *)
(* with the session it found: a handler of the same account on another     *)
(* loop in between can leave a dead session in the map, or a watch in the  *)
(* group that no session has (SessionClaims).  A history variable notes    *)
(* the accounts to which that has happened; whatever the loops of the      *)
(* other clients are, and whatever they do, all is well with the rest.     *)
(***************************************************************************)
EXTENDS SessionInvariants

VARIABLE raced  \* for the properties: accounts of which a login has run along with another handler

\* The accounts with a login on one loop and a handler on another.
Racing ==
  {th[l].sid : l \in {k \in Loops : /\ th[k].pc \in LoginSteps
                                    /\ \E m \in Loops \ {k} : th[m].sid = th[k].sid}}

RaceSpec == /\ Init /\ raced = {}
            /\ [][Next /\ raced' = raced \cup Racing']_<<vars, raced>>

Unraced == Accounts \ raced

\* No handler runs for account a.
Settled(a) == \A l \in Loops : th[l].sid # a

\* Watches whose connection nobody has ended.
Connected == (SocketChannels \cap open) \ closing

-----------------------------------------------------------------------------
(* What holds of them.                                                     *)

\* While no handler of the account runs, the broadcast group has a watch of it
\* if and only if the account is registered with that watch: a login leaves no
\* other watch of the account behind, be they watches or pages, on whatever
\* loops (createSession, addSession, close).  A replaced connection that is
\* about to be closed is in the group until then.
GroupMatchesRegistry ==
  \A c \in Connected, a \in Unraced :
    a \in LoginIds[c] /\ Settled(a) => (c \in group <=> attr[c] = a /\ Registered(a, c))

\* `sessions` is documented as the set of currently active sessions: while no
\* handler of the account runs, its session has a connection that is open, or
\* whose end is still to be handled (createSession, removeSession, close(nid)).
OnlyActiveSessions ==
  \A a \in Unraced :
    sessions[a] # None /\ Settled(a) =>
      ({sess[sessions[a]].chan} \cup sess[sessions[a]].pages) \cap (open \cup inactive) # {}

-----------------------------------------------------------------------------
(* Why.                                                                    *)

\* What the handler of loop l has found in the registry is still so: the session
\* that a login replaces or joins, its page table, or that there is none; and the
\* watch whose session is going to be removed is closed, or will be.
StillSo(l) ==
  LET a == th[l].sid
      c == th[l].ctx
      s == th[l].ref
  IN  /\ th[l].pc \in FoundSteps => sessions[a] = s
      /\ th[l].pc = "unmap" => sess[s].chan \notin SocketChannels \cap group
      /\ th[l].pc = "add" => sessions[a] = None
      /\ th[l].pc = "join" => Registered(a, c) /\ attr[c] = a
      /\ th[l].pc = "putpage" => attr[c] # a
      /\ th[l].pc = "storepage" => attr[c] = a /\ c # sess[s].chan /\ th[l].view = sess[s].pages
      /\ th[l].pc = "drop" => \A d \in SocketChannels : Registered(a, d) => d \notin Connected

SerialHandlerInv == \A l \in Loops : th[l].sid \in Unraced => StillSo(l)

\* A session in use was created by a client that may log in with its account.
ClientInv ==
  \A m \in Reachable \ {None} :
    sess[m].chan \in Channels /\ sess[m].account \in LoginIds[sess[m].chan]

\* A watch in the group has the session of its account.
SerialGroupInv ==
  /\ \A c \in Connected \cap group :
       LoginIds[c] \subseteq Unraced => attr[c] # None /\ Registered(attr[c], c)
  /\ \A l \in Loops : th[l].pc = "joinpage" => th[l].ctx \notin SocketChannels

\* Channel c is connected, or its end has not got to its session yet.
Alive(c) == c \in open \cup inactive \/ At(c, {"close", "remove"})

\* The pages of a session are alive, and so is the page that created it when
\* there are no others, until the session is dropped.
SerialPagesInv ==
  \A a \in Unraced : sessions[a] # None =>
    LET s == sess[sessions[a]]
    IN  s.chan \in WebChannels =>
          /\ attr[s.chan] = a /\ s.chan \notin s.pages
          /\ \A d \in s.pages : attr[d] = a /\ Alive(d)
          /\ s.pages = {} => Alive(s.chan) \/ \E l \in Loops : th[l].pc = "drop" /\ th[l].sid = a

\* What the two properties rest on, in one conjunction that is inductive together
\* with the invariants of the registry.
SerialInv == ClientInv /\ SerialHandlerInv /\ SerialGroupInv /\ SerialPagesInv

=============================================================================
