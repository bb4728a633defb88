------------------------- MODULE DeliveryInvariants -------------------------
(***************************************************************************)
(* The invariants that the proofs about Delivery rest on.  What is on its  *)
(* way to a channel is in three places, one behind the other: what the     *)
(* client has taken, the outbound buffer, and the tasks of the loop.       *)
(***************************************************************************)
EXTENDS Delivery

\* Message m has been written to channel c.
Reached(c, m) == In(m, out[c]) \/ Pending(c, m)

\* Message m may be in front of n: a client that sent both sent m first.
Precedes(msgs, m, n) ==
  /\ m # n
  /\ m.from = n.from => \E i, j \in DOMAIN msgs : i < j /\ msgs[i] = m /\ msgs[j] = n

Ascending(msgs, seq) == \A i, j \in DOMAIN seq : i < j => Precedes(msgs, seq[i], seq[j])

\* The same for the writes to one channel in a queue of tasks.
AscendingTasks(msgs, queue) ==
  \A i, j \in DOMAIN queue :
    i < j /\ queue[i][1] = queue[j][1] => Precedes(msgs, queue[i][2], queue[j][2])

\* Every channel has its messages in order, each once, within each of the three
\* places and from one to the next.
PipelineInv ==
  /\ \A c \in Channels :
       /\ Ascending(sent, out[c]) /\ Ascending(sent, outbound[c])
       /\ \A m, n \in Messages : In(m, out[c]) /\ In(n, outbound[c]) => Precedes(sent, m, n)
       /\ \A m, n \in Messages :
            (In(m, out[c]) \/ In(m, outbound[c])) /\ In(<<c, n>>, tasks[LoopOf[c]])
              => Precedes(sent, m, n)
  /\ \A l \in Loops : AscendingTasks(sent, tasks[l])

\* Tasks are the writes of other loops.
TaskInv == \A c \in Channels, m \in Messages : In(<<c, m>>, tasks[LoopOf[c]]) => LoopOf[m.from] # LoopOf[c]

\* What has been written to a channel was sent by somebody for its account and
\* is no position, and the channel has logged in before.
ReachedInv ==
  \A c \in Channels, m \in Messages : Reached(c, m) =>
    /\ In(m, sent) /\ Protocol(m) # "UD"
    /\ Protocol(m) # "GROUP" => Login[c] = Addressee(m)
    /\ Bound(c) \/ c \notin open

\* The channels that the Session.write of loop l has still to write to.
ToWrite(l) == (th[l].left \cup {Owner[th[l].acc]}) \ {th[l].to}

\* A loop writes the last message of a client of its own, to the session that
\* the message is for.
WriterInv ==
  \A l \in Loops : ~LoopIdle(l) =>
    LET m == th[l].msg
        a == th[l].acc
    IN  /\ In(m, sent) /\ LoopOf[m.from] = l
        /\ \A n \in Messages : In(n, sent) /\ n.from = m.from => n = m \/ Precedes(sent, n, m)
        /\ Protocol(m) \notin {"UD", "GROUP"} /\ a = Addressee(m)

\* The pages it has still to come to have logged in with the account; the write
\* that it waits for is one of those to do.
LeftInv ==
  \A l \in Loops : ~LoopIdle(l) =>
    LET a == th[l].acc
    IN  /\ th[l].left \subseteq Members(a) \ {Owner[a]}
        /\ \A c \in th[l].left : c \in pages[a] \/ c \notin open
        /\ th[l].pc = "write" => th[l].to = None
        /\ th[l].pc = "wait" => th[l].to \in th[l].left \/ (th[l].to = Owner[a] /\ th[l].left = {})

\* It has not yet written to the channels it has still to write to, and it has
\* left out none of the others.
ProgressInv ==
  \A l \in Loops : ~LoopIdle(l) =>
    LET m == th[l].msg
    IN  /\ \A c \in ToWrite(l) : ~Reached(c, m)
        /\ \A c \in audience[m] \cap open : c \in ToWrite(l) \/ Reached(c, m)
        /\ ended[m] = "no"

\* Only what was sent has an end.
EndedInv == \A m \in Messages : ended[m] # "no" => In(m, sent)

\* What holds of the writes between their steps, in one conjunction.  Together
\* with TypeOK and ReachesAll it is inductive, and it implies the properties of
\* Delivery.
WriteInv ==
  PipelineInv /\ TaskInv /\ ReachedInv /\ WriterInv /\ LeftInv /\ ProgressInv /\ EndedInv

=============================================================================
