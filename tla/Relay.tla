-------------------------------- MODULE Relay --------------------------------
(***************************************************************************)
(* The encoded relay: an application, a client-side relay, a server-side   *)
(* relay and the target, over three TCP connections.                       *)
(*                                                                         *)
(*     app --"app"-- client --"mid"-- server --"peer"-- target             *)
(*                                                                         *)
(* The client side is one of the programs that do the same job: client.cpp *)
(* of tcpipe and sock4a, and the ports to APR, Go, POCO, Mono, D, Qt and   *)
(* Twisted.  The server side is server.cpp of tcpipe or of sock4a.  What   *)
(* is sent over "mid" has Shift added to every byte.  A connection holds   *)
(* Cap bytes in each direction; a write blocks while it is full.           *)
(***************************************************************************)
EXTENDS Integers, Sequences, SequencesExt, FiniteSets

CONSTANTS
    Setups,      \* [client, server, request, up, down]: the two programs, the bytes of
                 \* a SOCKS application's request, what either end sends
    Cap,         \* bytes a connection holds in one direction
    BufSize,     \* BUF_SIZE
    Width,       \* values of a byte, 256
    MinHeader,   \* bytes of a request that the server is content with, 9
    ReplyLen     \* bytes of its answer, 8

Relays == {"client", "server"}
Parties == Relays \cup {"app", "target"}
Dirs == {"up", "down"}
Links == {"app", "mid", "peer"}
Shift == 3

ASSUME RelayAssumption ==
    /\ Width \in Nat /\ Width > Shift
    /\ MinHeader \in Nat \ {0} /\ ReplyLen \in Nat \ {0}
    /\ \A k \in Setups : k.request \in Nat /\ k.up \in Seq(0 .. Width - 1) /\ k.down \in Seq(0 .. Width - 1)

\* Where a relay reads and writes each direction, and who is at the other end.
Source == [client |-> [up |-> "app", down |-> "mid"], server |-> [up |-> "mid", down |-> "peer"]]
Sink   == [client |-> [up |-> "mid", down |-> "app"], server |-> [up |-> "peer", down |-> "mid"]]
Feeder == [client |-> [up |-> "app", down |-> "server"], server |-> [up |-> "client", down |-> "target"]]
Taker  == [client |-> [up |-> "server", down |-> "app"], server |-> [up |-> "target", down |-> "client"]]

VARIABLES
    kind,     \* a member of Setups
    chan,     \* bytes in flight
    links,    \* links that are connected
    closed,   \* parties that have closed their sockets
    state,    \* of each relay: "new", "header", "loop", "dead"
    todo,     \* directions the pass of a relay's loop still serves
    hold,     \* bytes read and not yet written
    left,     \* what each end still has to send
    got,      \* what each end has received
    cut,      \* a port has thrown bytes away
    accepted  \* bytes of the request that the server's one read took (history)

relayVars == <<kind, chan, links, closed, state, todo, hold, left, got, cut, accepted>>

\* A byte wraps, whatever its sign.
simpleEncode(b) == (b + Shift) % Width
simpleDecode(b) == (b - Shift) % Width
Coded(r, d, s) ==
    [i \in 1 .. Len(s) |-> IF (r = "client") = (d = "up") THEN simpleEncode(s[i]) ELSE simpleDecode(s[i])]

\* sock4a.py tests for "> 256": the value 256 is left, and chr() refuses it.
PyRaises(d, s) == d = "up" /\ \E i \in 1 .. Len(s) : s[i] + Shift = Width

\* One thread that serves both directions; a thread for each.  Qt and Twisted
\* have an event loop and never block on a write.
Serial == {"tcpipe", "sock4a", "apr", "poco", "mono", "d"}
Duplex == {"go"}

Header == [i \in 1 .. kind.request |-> 0]
Reply == [i \in 1 .. ReplyLen |-> 1 % Width]

relayInit ==
    /\ kind \in Setups
    /\ chan = [l \in Links |-> [d \in Dirs |-> <<>>]]
    /\ links = {"app"} /\ closed = {}
    /\ state = [r \in Relays |-> "new"]
    /\ todo = [r \in Relays |-> <<>>]
    /\ hold = [r \in Relays |-> [d \in Dirs |-> <<>>]]
    /\ left = [up |-> (IF kind.server = "sock4a" THEN Header ELSE <<>>) \o kind.up, down |-> kind.down]
    /\ got = [up |-> <<>>, down |-> <<>>]
    /\ cut = FALSE /\ accepted = kind.request

-----------------------------------------------------------------------------
(* The two ends (external).  Each sends, reads and may close at any time.  *)
(* A SOCKS application waits for the answer before it goes on.             *)

EndSends(d) ==
    LET l == IF d = "up" THEN "app" ELSE "peer"
        waits == d = "up" /\ kind.server = "sock4a" /\ Len(left.up) = Len(kind.up) /\ Len(got.down) < ReplyLen
    IN  /\ l \in links /\ left[d] # <<>> /\ ~waits
        /\ (IF d = "up" THEN "app" ELSE "target") \notin closed
        /\ Len(chan[l][d]) < Cap
        /\ chan' = [chan EXCEPT ![l][d] = Append(@, Head(left[d]))]
        /\ left' = [left EXCEPT ![d] = Tail(@)]
        /\ UNCHANGED <<kind, links, closed, state, todo, hold, got, cut, accepted>>

EndReads(d) ==
    LET l == IF d = "up" THEN "peer" ELSE "app" IN
    /\ (IF d = "up" THEN "target" ELSE "app") \notin closed
    /\ chan[l][d] # <<>>
    /\ got' = [got EXCEPT ![d] = Append(@, Head(chan[l][d]))]
    /\ chan' = [chan EXCEPT ![l][d] = Tail(@)]
    /\ UNCHANGED <<kind, links, closed, state, todo, hold, left, cut, accepted>>

EndCloses(p) ==
    /\ p \notin closed /\ (IF p = "app" THEN "app" ELSE "peer") \in links
    /\ closed' = closed \cup {p}
    /\ UNCHANGED <<kind, chan, links, state, todo, hold, left, got, cut, accepted>>

-----------------------------------------------------------------------------
(* A relay closes both of its sockets and ends, whatever went wrong.       *)

Readable(r, d) == Source[r][d] \in links /\ (chan[Source[r][d]][d] # <<>> \/ Feeder[r][d] \in closed)

closeBoth(r) ==
    /\ closed' = closed \cup {r}
    /\ state' = [state EXCEPT ![r] = "dead"]
    /\ todo' = [todo EXCEPT ![r] = <<>>]
    /\ hold' = [hold EXCEPT ![r] = [d \in Dirs |-> <<>>]]

\* The beginnings of the client programs.  A refused connection closes the
\* browser's socket in the APR, Go and POCO ports; in Mono Connect raises
\* outside the try block and ends the process, which closes it as well; Qt
\* gets an error signal.  client.cpp does not look: it polls descriptor -1,
\* which is never ready, and its first write there fails.
clientConnects(ok) ==
    /\ state.client = "new"
    /\ IF ok \/ kind.client \in {"tcpipe", "sock4a"}
         THEN /\ links' = IF ok THEN links \cup {"mid"} ELSE links
              /\ state' = [state EXCEPT !.client = "loop"]
              /\ UNCHANGED <<kind, chan, closed, todo, hold, left, got, cut, accepted>>
         ELSE /\ kind.client \notin {"d", "py"}
              /\ closeBoth("client") /\ UNCHANGED <<kind, chan, links, left, got, cut, accepted>>

\* In D the exception ends the thread only, and clientConnectionFailed of
\* Twisted prints a line: the browser stays connected to nobody.
clientAbandons ==
    /\ state.client = "new" /\ kind.client \in {"d", "py"}
    /\ state' = [state EXCEPT !.client = "dead"]
    /\ UNCHANGED <<kind, chan, links, closed, todo, hold, left, got, cut, accepted>>

\* tcpipe's server waits for the first byte, or the end, before it connects.
serverConnects(ok) ==
    /\ state.server = "new" /\ kind.server = "tcpipe"
    /\ Readable("server", "up")
    /\ IF ok THEN /\ links' = links \cup {"peer"}
                  /\ state' = [state EXCEPT !.server = "loop"]
                  /\ UNCHANGED <<kind, chan, closed, todo, hold, left, got, cut, accepted>>
       ELSE closeBoth("server") /\ UNCHANGED <<kind, chan, links, left, got, cut, accepted>>

\* sock4a's server reads the request once, and refuses what has not the bytes
\* of an address.  Of a longer request it may have read a part: where that
\* part leads to is the buffer's business, and what comes later of the request
\* is data to the loop behind it.
serverReadsHeader(n, ok) ==
    LET s == chan["mid"]["up"] IN
    /\ state.server = "new" /\ kind.server = "sock4a" /\ Readable("server", "up")
    /\ n \in 0 .. Len(s) /\ (n = 0 => s = <<>>) /\ n <= BufSize
    /\ chan' = [chan EXCEPT !["mid"]["up"] = SubSeq(s, n + 1, Len(s))]
    /\ IF ok /\ n >= MinHeader
         THEN /\ links' = links \cup {"peer"}
              /\ state' = [state EXCEPT !.server = "header"]
              /\ hold' = [hold EXCEPT !.server.down = Coded("server", "down", Reply)]
              /\ accepted' = n
              /\ UNCHANGED <<kind, closed, todo, left, got, cut>>
         ELSE closeBoth("server") /\ UNCHANGED <<kind, links, left, got, cut, accepted>>

serverReplied ==
    /\ state.server = "header" /\ hold.server.down = <<>>
    /\ state' = [state EXCEPT !.server = "loop"]
    /\ UNCHANGED <<kind, chan, links, closed, todo, hold, left, got, cut, accepted>>

-----------------------------------------------------------------------------
(* The directions a pass serves, once poll or select has returned ready.   *)

InOrder(ready, order) == {SelectSeq(order, LAMBDA d : d \in ready)}

\* client.cpp, server.cpp and the D port: the browser, then the other side.
relayWorker(ready) == InOrder(ready, <<"up", "down">>)
WorkerThread(ready) == InOrder(ready, <<"up", "down">>)
serverWorker(ready) == InOrder(ready, <<"up", "down">>)

\* APR looks at the first result only, in whatever order they come.
browser_thread_func(ready) == {<<d>> : d \in ready}

\* POCO tests whether the browser is the first in the list, else takes the other.
pocoRun(ready) == {IF "up" \in ready THEN <<"up">> ELSE <<"down">>}

\* Mono serves the server's side first.
monoRun(ready) == InOrder(ready, <<"down", "up">>)

Passes(r, ready) ==
    CASE r = "server" -> serverWorker(ready)
      [] kind[r] \in {"tcpipe", "sock4a"} -> relayWorker(ready)
      [] kind[r] = "apr" -> browser_thread_func(ready)
      [] kind[r] = "poco" -> pocoRun(ready)
      [] kind[r] = "mono" -> monoRun(ready)
      [] kind[r] = "d" -> WorkerThread(ready)

isSerial(r) == r = "server" \/ kind[r] \in Serial
Idle(r) == todo[r] = <<>> /\ \A d \in Dirs : hold[r][d] = <<>>

poll(r) ==
    LET ready == {d \in Dirs : Readable(r, d)} IN
    /\ state[r] = "loop" /\ isSerial(r) /\ Idle(r) /\ ready # {}
    /\ \E p \in Passes(r, ready) : todo' = [todo EXCEPT ![r] = p]
    /\ UNCHANGED <<kind, chan, links, closed, state, hold, left, got, cut, accepted>>

\* Mutant of mayRead: the threads of the Go port wait for each other's writes.
mayReadLocked(r, d) ==
    IF isSerial(r) THEN todo[r] # <<>> /\ Head(todo[r]) = d /\ \A x \in Dirs : hold[r][x] = <<>>
    ELSE kind[r] \in Duplex => \A x \in Dirs : hold[r][x] = <<>>

\* Go: handleBrowser and handleSocks each write before they read again.
handleConnection(r, d) == hold[r][d] = <<>>

\* Qt: the slot takes all there is and hands it to a socket that buffers
\* without limit; Twisted's dataReceived does the same.
readyRead(r, d) == state[r] = "loop"

\* A loop reads when the write before, in either direction, is done.
mayRead(r, d) ==
    CASE isSerial(r) -> todo[r] # <<>> /\ Head(todo[r]) = d /\ \A x \in Dirs : hold[r][x] = <<>>
      [] ~isSerial(r) /\ kind[r] \in Duplex -> handleConnection(r, d)
      [] OTHER -> readyRead(r, d)

\* Mutant of read: the bytes read replace those not written yet.
readOver(r, d, n) ==
    LET l == Source[r][d] s == chan[l][d] IN
    /\ state[r] = "loop" /\ Readable(r, d) /\ mayRead(r, d)
    /\ n \in 0 .. Len(s) /\ n <= BufSize /\ (n = 0 => Feeder[r][d] \in closed)
    /\ chan' = [chan EXCEPT ![l][d] = SubSeq(s, n + 1, Len(s))]
    /\ IF n = 0 THEN closeBoth(r) /\ UNCHANGED <<kind, links, left, got, cut, accepted>>
       ELSE /\ hold' = [hold EXCEPT ![r][d] = Coded(r, d, SubSeq(s, 1, n))]
            /\ todo' = IF isSerial(r) THEN [todo EXCEPT ![r] = Tail(@)] ELSE todo
            /\ UNCHANGED <<kind, links, closed, state, left, got, cut, accepted>>

\* read: some of what is there; nothing or an error when the other end has
\* closed.  Twisted's handler raises on the byte simpleEncode cannot make,
\* which ends the connection.
read(r, d, n) ==
    LET l == Source[r][d] s == chan[l][d] IN
    /\ state[r] = "loop" /\ Readable(r, d) /\ mayRead(r, d)
    /\ n \in 0 .. Len(s) /\ n <= BufSize /\ (n = 0 => Feeder[r][d] \in closed)
    /\ chan' = [chan EXCEPT ![l][d] = SubSeq(s, n + 1, Len(s))]
    /\ IF n = 0 \/ (r = "client" /\ kind[r] = "py" /\ PyRaises(d, SubSeq(s, 1, n)))
         THEN closeBoth(r) /\ UNCHANGED <<kind, links, left, got, cut, accepted>>
         ELSE /\ hold' = [hold EXCEPT ![r][d] = @ \o Coded(r, d, SubSeq(s, 1, n))]
              /\ todo' = IF isSerial(r) THEN [todo EXCEPT ![r] = Tail(@)] ELSE todo
              /\ UNCHANGED <<kind, links, closed, state, left, got, cut, accepted>>

\* write: as much as fits.  It fails once the other end has closed, and where
\* there is no connection.
write(r, d) ==
    LET l == Sink[r][d] IN
    /\ state[r] \in {"loop", "header"} /\ hold[r][d] # <<>>
    /\ \/ /\ l \in links /\ Taker[r][d] \notin closed /\ Len(chan[l][d]) < Cap
          /\ chan' = [chan EXCEPT ![l][d] = Append(@, Head(hold[r][d]))]
          /\ hold' = [hold EXCEPT ![r][d] = Tail(@)]
          /\ UNCHANGED <<kind, links, closed, state, todo, left, got, cut, accepted>>
       \/ /\ l \notin links \/ Taker[r][d] \in closed
          /\ closeBoth(r) /\ UNCHANGED <<kind, chan, links, left, got, cut, accepted>>

\* apr_socket_send may send less than it was given; the test is for n <= 0.
aprSendsLess ==
    /\ kind.client = "apr" /\ state.client = "loop"
    /\ \E d \in Dirs :
         /\ Taker["client"][d] \notin closed
         /\ Len(hold.client[d]) > 1 /\ Len(chan[Sink["client"][d]][d]) < Cap
         /\ chan' = [chan EXCEPT ![Sink["client"][d]][d] = Append(@, Head(hold.client[d]))]
         /\ hold' = [hold EXCEPT !.client[d] = <<>>]
    /\ cut' = TRUE
    /\ UNCHANGED <<kind, links, closed, state, todo, left, got, accepted>>

Relaying(r) ==
    \/ poll(r)
    \/ \E d \in Dirs : write(r, d) \/ \E n \in 0 .. BufSize : read(r, d, n)

relayNext ==
    \/ \E d \in Dirs : EndSends(d) \/ EndReads(d)
    \/ \E p \in {"app", "target"} : EndCloses(p)
    \/ \E ok \in BOOLEAN : clientConnects(ok) \/ serverConnects(ok)
                           \/ \E n \in 0 .. BufSize : serverReadsHeader(n, ok)
    \/ clientAbandons \/ serverReplied \/ aprSendsLess
    \/ \E r \in Relays : Relaying(r)

\* The threads run, and the ends send and read what they can.
relayFairness ==
    /\ \A d \in Dirs : WF_relayVars(EndSends(d)) /\ WF_relayVars(EndReads(d))
    /\ WF_relayVars(\E ok \in BOOLEAN : clientConnects(ok))
    /\ WF_relayVars(\E ok \in BOOLEAN, n \in 0 .. BufSize : serverConnects(ok) \/ serverReadsHeader(n, ok))
    /\ WF_relayVars(serverReplied)
    /\ \A r \in Relays : /\ WF_relayVars(poll(r))
                         /\ \A d \in Dirs : /\ WF_relayVars(write(r, d))
                                            /\ WF_relayVars(\E n \in 0 .. BufSize : read(r, d, n))

-----------------------------------------------------------------------------
(* Properties.                                                             *)

\* What an end is to receive: behind what the server's one read left of a SOCKS
\* request, and behind its answer, what the other end sends.
UpDue ==
    (IF kind.server = "sock4a" THEN SubSeq(Header, accepted + 1, kind.request) ELSE <<>>) \o kind.up
DownDue == (IF kind.server = "sock4a" THEN Reply ELSE <<>>) \o kind.down

\* Each end receives what the other sent, byte for byte, decoded, in order
\* and without a gap, whatever the pieces in which it is read and written -
\* unless the APR port has dropped the rest of a short write; and of a SOCKS
\* request that was read in part the target receives the rest first.  (The
\* loops, simpleEncode and simpleDecode of both sides.)
Transparent ==
    ~cut => IsPrefix(got.up, UpDue) /\ IsPrefix(got.down, DownDue)

\* What was sent arrives, unless somebody closes or a connection is refused
\* - as long as one direction fits into the connection between the relays, or
\* the client has a thread for each direction.  Otherwise two loops may wait
\* for each other's room on "mid" for ever, although both ends go on reading.
Delivers ==
    LET up == Len(kind.up) + IF kind.server = "sock4a" THEN kind.request ELSE 0
    IN  kind.client \in Duplex \/ up <= Cap \/ Len(DownDue) <= Cap =>
      <>(closed # {} \/ cut \/ state.client = "dead" \/ (got.up = UpDue /\ got.down = DownDue))

=============================================================================
