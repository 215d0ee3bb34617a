--------------------------- MODULE RequestService ---------------------------
(***************************************************************************)
(* What the threaded server of redis-proxy promises each connection,       *)
(* whatever queues, threads and events it uses inside: a connection has at *)
(* most one request in the server's hands; while it has one the connection *)
(* is not closed by the server; a request is answered before the next one  *)
(* is read.                                                                *)
(***************************************************************************)
EXTENDS Naturals

CONSTANTS Conns,      \* connections
          MayStrand   \* can the event mechanism refuse a registration?

VARIABLE state

States == {"absent", "idle", "pending", "replying", "stranded"}

Init == state = [c \in Conns |-> "absent"]

Move(c, from, to) ==
    /\ state[c] = from
    /\ state' = [state EXCEPT ![c] = to]

Connect(c) == Move(c, "absent", "idle")
Submit(c)  == Move(c, "idle", "pending")
Answer(c)  == Move(c, "pending", "replying")
Deliver(c) == Move(c, "replying", "idle")
Close(c)   == \E s \in {"idle", "replying"} : Move(c, s, "absent")

\* A connection the server forgets: still open, never served again.
Strand(c) ==
    /\ MayStrand
    /\ \E s \in {"pending", "replying"} : Move(c, s, "stranded")

Next ==
    \E c \in Conns :
        \/ Connect(c) \/ Submit(c) \/ Answer(c)
        \/ Deliver(c) \/ Close(c) \/ Strand(c)

Spec == Init /\ [][Next]_state

=============================================================================
