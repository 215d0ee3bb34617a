------------------------------ MODULE EchoCell ------------------------------
(***************************************************************************)
(* asyncell/asyncell.py with asyncell/echo.py: one thread polls an epoll   *)
(* set and calls the handlers of the dispatchers in socket_map; a handler  *)
(* echoes what it receives through out_buf, and asks for write events only *)
(* while out_buf holds something.  The flags of one entry are handled one  *)
(* after the other, also after one of them has closed the dispatcher.      *)
(*                                                                         *)
(* The peers and the kernel's buffers are external.  Bytes are numbered in *)
(* the order their peer sends them.                                        *)
(***************************************************************************)
EXTENDS Integers, Sequences, SequencesExt, FiniteSets, FiniteSetsExt

CONSTANTS Fds,          \* descriptor numbers; the smallest is the listening socket
          MaxConns, MaxBytes, \* bounds: connections made, bytes of each peer
          SndBuf        \* bytes the kernel holds for a peer that does not read

ASSUME EchoAssumption ==
    /\ Fds \subseteq Nat /\ IsFiniteSet(Fds) /\ Fds # {} /\ SndBuf \in Nat

VARIABLES
    obj,        \* socket_map: [fd -> [there, out_buf]]
    events,     \* the epoll set: [fd -> SUBSET {"in", "out"}]; HUP and ERR are always there
    polled,     \* what poll returned and is not handled yet: <<[fd, flags]>>
    sock,       \* the kernel's sockets: [fd -> [open, peer, sent, got, held, echoed]]
    backlog,    \* connections that wait in the listening socket
    conns,      \* connections made so far
    closedConn  \* the connection closed last, as it was: [peer, rest]

echoVars == <<obj, events, polled, sock, backlog, conns, closedConn>>

Listener == Min(Fds)
NoObj    == [there |-> FALSE, out_buf |-> << >>]
NoSock   == [open |-> FALSE, peer |-> "none", sent |-> 0, got |-> 0, held |-> 0, echoed |-> << >>]

echoInit ==
    /\ obj    = [fd \in Fds |-> IF fd = Listener THEN [NoObj EXCEPT !.there = TRUE] ELSE NoObj]
    /\ events = [fd \in Fds |-> IF fd = Listener THEN {"in"} ELSE {}]
    /\ sock   = [fd \in Fds |-> IF fd = Listener THEN [NoSock EXCEPT !.open = TRUE] ELSE NoSock]
    /\ polled = << >> /\ backlog = 0 /\ conns = 0
    /\ closedConn = [peer |-> "none", rest |-> << >>]

-----------------------------------------------------------------------------
(* asyncell.py *)

\* What epoll reports of a descriptor.
ready(fd) ==
    LET s == sock[fd]
        up == (IF fd = Listener THEN backlog > 0
               ELSE s.sent > s.got \/ s.peer \in {"shut", "reset"})
        down == fd # Listener /\ (s.held < SndBuf \/ s.peer = "reset")
    IN  ({f \in events[fd] : (f = "in" /\ up) \/ (f = "out" /\ down)})
        \cup (IF s.peer = "reset" THEN {"hup"} ELSE {})

poll_epoll ==
    /\ polled = << >>
    /\ LET F == {fd \in Fds : sock[fd].open /\ ready(fd) # {}}
       IN  /\ F # {}
           /\ \E order \in SetToSeqs(F) :
                polled' = [i \in DOMAIN order |-> [fd |-> order[i], flags |-> ready(order[i])]]
    /\ UNCHANGED <<obj, events, sock, backlog, conns, closedConn>>

fd    == polled[1].fd
flags == polled[1].flags

\* The flag is handled; the entry is done when it was the last.
done(f) == polled' = IF flags = {f} THEN Tail(polled)
                     ELSE <<[fd |-> fd, flags |-> flags \ {f}]>> \o Tail(polled)

\* close: out of the map and of the epoll set.  A second close of the same
\* dispatcher finds neither, and unregister ignores a closed descriptor.
handle_close ==
    IF sock[fd].open
    THEN /\ obj' = [obj EXCEPT ![fd] = NoObj]
         /\ events' = [events EXCEPT ![fd] = {}]
         /\ sock' = [sock EXCEPT ![fd] = NoSock]
         /\ closedConn' = IF fd = Listener THEN closedConn
                      ELSE [peer |-> sock[fd].peer, rest |-> obj[fd].out_buf]
    ELSE UNCHANGED <<obj, events, sock, closedConn>>

\* An exception skips the flags that are left.
handle_error == handle_close /\ polled' = Tail(polled)

-----------------------------------------------------------------------------
(* echo.py *)

\* A connection that went away is EWOULDBLOCK; every other error (EMFILE, an
\* error of the handler's constructor) goes through handle_error, and that
\* closes the listener.
handle_accept ==
    LET free == {n \in Fds : ~sock[n].open}
    IN  \/ /\ backlog = 0 /\ done("in")
           /\ UNCHANGED <<obj, events, sock, backlog, closedConn>>
        \/ /\ backlog > 0 /\ handle_error
           /\ UNCHANGED backlog
        \/ /\ backlog > 0 /\ free # {} /\ done("in")
           /\ backlog' = backlog - 1
           /\ LET n == Min(free)
              IN  /\ obj' = [obj EXCEPT ![n] = [there |-> TRUE, out_buf |-> << >>]]
                  /\ events' = [events EXCEPT ![n] = {"in"}]
                  /\ sock' = [sock EXCEPT ![n] = [NoSock EXCEPT !.open = TRUE, !.peer = "open"]]
           /\ UNCHANGED closedConn

\* recv: an error and the end of the stream close; else some of the bytes.
handle_read ==
    LET s == sock[fd]
    IN  \/ /\ s.peer = "reset" \/ (s.peer = "shut" /\ s.sent = s.got)
           /\ handle_close
        \/ /\ s.peer # "reset"
           /\ \E k \in s.got + 1 .. s.sent :
                /\ sock' = [sock EXCEPT ![fd].got = k]
                /\ obj' = [obj EXCEPT ![fd].out_buf = @ \o [i \in 1 .. k - s.got |-> s.got + i]]
           /\ events' = [events EXCEPT ![fd] = {"in", "out"}]
           /\ UNCHANGED closedConn

\* Mutant of rest: what was sent stays in out_buf.
restKeeps(b, k) == b

rest(b, k) == SubSeq(b, k + 1, Len(b))

interest(b) == IF b = << >> THEN {"in"} ELSE {"in", "out"}

\* A closed dispatcher raises in getsockopt.  A send that fails closes, and
\* then event_mod_read_write (or EPIPE) raises; else a part is sent.
handle_write ==
    LET s == sock[fd]
        b == obj[fd].out_buf
    IN  \/ /\ ~s.open \/ (s.peer = "reset" /\ b # << >>)
           /\ handle_error
        \/ /\ s.open /\ done("out")
           /\ IF b = << >>
              THEN events' = [events EXCEPT ![fd] = {"in"}] /\ UNCHANGED <<obj, sock>>
              ELSE /\ s.peer # "reset"
                   /\ \E k \in (IF s.held = SndBuf THEN {0} ELSE 1 .. SndBuf - s.held) :
                        /\ k <= Len(b)
                        /\ sock' = [sock EXCEPT ![fd].held = @ + k,
                                                ![fd].echoed = @ \o SubSeq(b, 1, k)]
                        /\ obj' = [obj EXCEPT ![fd].out_buf = rest(b, k)]
                        /\ events' = [events EXCEPT ![fd] = interest(rest(b, k))]
           /\ UNCHANGED closedConn

\* readwrite: IN, then OUT, then HUP and ERR.
readwrite ==
    /\ polled # << >>
    /\ \/ /\ "in" \in flags /\ fd = Listener /\ handle_accept
       \/ /\ "in" \in flags /\ fd # Listener /\ handle_read /\ done("in")
          /\ UNCHANGED backlog
       \/ /\ "in" \notin flags /\ "out" \in flags /\ handle_write
          /\ UNCHANGED backlog
       \/ /\ flags = {"hup"} /\ handle_close /\ done("hup")
          /\ UNCHANGED backlog
    /\ UNCHANGED conns

-----------------------------------------------------------------------------
(* The peers *)

peerConnects ==
    /\ sock[Listener].open /\ conns < MaxConns
    /\ conns' = conns + 1 /\ backlog' = backlog + 1
    /\ UNCHANGED <<obj, events, polled, sock, closedConn>>

peerAborts ==
    /\ backlog > 0 /\ backlog' = backlog - 1
    /\ UNCHANGED <<obj, events, polled, sock, conns, closedConn>>

peerSteps(n) ==
    /\ sock[n].open
    /\ \/ /\ sock[n].peer = "open" /\ sock[n].sent < MaxBytes
          /\ sock' = [sock EXCEPT ![n].sent = @ + 1]
       \/ /\ sock[n].peer = "open" /\ sock' = [sock EXCEPT ![n].peer = "shut"]
       \/ /\ sock[n].peer \in {"open", "shut"} /\ sock' = [sock EXCEPT ![n].peer = "reset"]
    /\ UNCHANGED <<obj, events, polled, backlog, conns, closedConn>>

peerReads(n) ==
    /\ sock[n].open /\ sock[n].held > 0
    /\ sock' = [sock EXCEPT ![n].held = 0]
    /\ UNCHANGED <<obj, events, polled, backlog, conns, closedConn>>

echoNext ==
    \/ poll_epoll \/ readwrite
    \/ peerConnects \/ peerAborts
    \/ \E n \in Fds \ {Listener} : peerSteps(n) \/ peerReads(n)

echoSpec == echoInit /\ [][echoNext]_echoVars

-----------------------------------------------------------------------------
(***************************************************************************)
(* Whatever order the flags come in and whichever of them closes, the map, *)
(* the epoll set and the open sockets stay the same set; a peer has been   *)
(* sent what was received of it, in order, but for what out_buf holds;     *)
(* write events are asked for as long as it holds something; and it is     *)
(* thrown away only when the peer has stopped sending.                     *)
(***************************************************************************)
EchoSound ==
    /\ \A n \in Fds :
         /\ obj[n].there <=> sock[n].open
         /\ sock[n].open <=> events[n] # {}
         /\ obj[n].out_buf # << >> => "out" \in events[n]
         /\ sock[n].echoed \o obj[n].out_buf = [i \in 1 .. sock[n].got |-> i]
    /\ closedConn.rest # << >> => closedConn.peer \in {"shut", "reset"}

=============================================================================
