----------------------------- MODULE MCDelivery -----------------------------
(* An instance of Delivery for TLC: a watch on loop 1, and pages of one    *)
(* account on loop 2, the first of which has the session.                  *)
EXTENDS DeliveryMailboxes, DeliveryInvariants

Connections == {"w", "p1", "p2"}
OnLoop == [c \in Connections |-> IF c = "w" THEN 1 ELSE 2]
Ids == {"watch", "page"}
IdOf == [c \in Connections |-> IF c = "w" THEN "watch" ELSE "page"]
SessionOf == [a \in Ids |-> IF a = "watch" THEN "w" ELSE "p1"]

Message(nr, from, type, receiver, group) ==
  [nr |-> nr, from |-> from, type |-> type, device |-> IdOf[from], receiver |-> receiver, group |-> group]

\* A reply of the watch, its message to all and its position; a reply to the
\* watch, a message of a page to the pages, and the heartbeat of a page, with the
\* receiver that its form happens to have.
Talk == { Message(1, "w", "TK", "page", FALSE), Message(2, "w", "TK", None, TRUE),
          Message(3, "w", "UD", None, FALSE), Message(4, "p1", "TK", "watch", FALSE),
          Message(5, "p1", "TK", None, FALSE), Message(6, "p2", "LK", "watch", FALSE) }

=============================================================================
