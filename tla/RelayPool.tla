----------------------------- MODULE RelayPool -----------------------------
(***************************************************************************)
(* The connections of the relay's client side (tcpipe/client.cpp,          *)
(* sock4a/client.cpp): a factory thread keeps connections to the server in *)
(* clientQueue, and one detached thread per browser connection takes one,  *)
(* looks whether it is still idle, and uses it.  Descriptors are numbers   *)
(* the kernel gives out again as soon as they are closed, so a descriptor  *)
(* that is closed twice, or used after its close, is another thread's.     *)
(*                                                                         *)
(* The calls of anet.cpp are their outcomes: each system call in them may  *)
(* fail, and some failures leave the socket open.                          *)
(***************************************************************************)
EXTENDS Integers, Sequences, FiniteSets

CONSTANTS Descriptors,   \* the numbers the process may have open
          Workers,       \* threads of browser connections
          MaxIdle        \* 20 connections in the queue

ANET_ERR == -1

VARIABLES
    program,       \* "tcpipe" or "sock4a"
    open,          \* open descriptors
    leaked,        \* open, and known to no thread any more (history)
    clientQueue,
    fpc, ffd,      \* the factory: position, connection in its hands
    wpc, cfd, peer \* each worker: position, its two descriptors

poolVars == <<program, open, leaked, clientQueue, fpc, ffd, wpc, cfd, peer>>
workerVars == <<program, wpc, cfd, peer>>

Init ==
    /\ program \in {"tcpipe", "sock4a"}
    /\ open = {} /\ leaked = {} /\ clientQueue = << >>
    /\ fpc = "size" /\ ffd = ANET_ERR
    /\ wpc = [w \in Workers |-> "none"]
    /\ cfd = [w \in Workers |-> ANET_ERR] /\ peer = [w \in Workers |-> ANET_ERR]

-----------------------------------------------------------------------------
(* anet.cpp: what a call may return, and whether it leaves a socket open.  *)

Err  == [ok |-> FALSE, open |-> FALSE]
Leak == [ok |-> FALSE, open |-> TRUE]     \* an error, and the socket is not closed
Ok   == [ok |-> TRUE,  open |-> TRUE]

\* SO_REUSEADDR is set on a socket that is not closed when that fails.
anetCreateSocket == {Err, Leak, Ok}

\* A name that does not resolve and a refused connection close the socket.
anetTcpConnect == anetCreateSocket \cup {Err}

anetGenericAccept == {Err, Ok}

\* The descriptor is the lowest free number.
Lowest == CHOOSE d \in Descriptors \ open : \A e \in Descriptors \ open : d <= e

\* A call with an outcome of the set returns d.  What it leaves open without
\* returning it is lost, as are the descriptors its caller forgets.
Opens(outcomes, d, forgotten) ==
    \E r \in {x \in outcomes : x.open => Descriptors \ open # {}} :
       /\ d = IF r.ok THEN Lowest ELSE ANET_ERR
       /\ open' = IF r.open THEN open \cup {Lowest} ELSE open
       /\ leaked' = leaked \cup forgotten \cup (IF r.open /\ ~r.ok THEN {Lowest} ELSE {})

\* server_host is an array and never NULL; anetTcpNoDelay is also called with
\* -1 and changes nothing.
connectToServer(d, forgotten) == Opens(anetTcpConnect, d, forgotten)

-----------------------------------------------------------------------------
(* connection_factory: three steps, the lock is not held between them.     *)

factorySize ==
    /\ fpc = "size"
    /\ fpc' = IF Len(clientQueue) < MaxIdle THEN "connect" ELSE "size"
    /\ UNCHANGED <<open, leaked, clientQueue, ffd>> /\ UNCHANGED workerVars

factoryConnect ==
    /\ fpc = "connect"
    /\ \E d \in Descriptors \cup {ANET_ERR} :
         /\ connectToServer(d, {})
         /\ ffd' = d
         /\ fpc' = IF d = ANET_ERR THEN "size" ELSE "push"
    /\ UNCHANGED clientQueue /\ UNCHANGED workerVars

factoryPush ==
    /\ fpc = "push"
    /\ clientQueue' = Append(clientQueue, ffd)
    /\ ffd' = ANET_ERR
    /\ fpc' = "size"
    /\ UNCHANGED <<open, leaked>> /\ UNCHANGED workerVars

-----------------------------------------------------------------------------
(* main and dealWithThread *)

dealWithThread(w) ==
    /\ wpc[w] = "none"
    /\ \E d \in Descriptors :
         /\ Opens(anetGenericAccept, d, {})
         /\ cfd' = [cfd EXCEPT ![w] = d]
    /\ wpc' = [wpc EXCEPT ![w] = "deQueue"]
    /\ UNCHANGED <<program, clientQueue, fpc, ffd, peer>>

\* The result of pthread_create is not looked at: without a thread nobody knows
\* the browser's socket.
threadFails ==
    /\ Opens({Leak}, ANET_ERR, {})
    /\ UNCHANGED <<clientQueue, fpc, ffd>> /\ UNCHANGED workerVars

\* Mutant of deQueue: the front is read and not popped.
deQueueKeeps(w) ==
    /\ wpc[w] = "deQueue"
    /\ IF clientQueue = << >>
       THEN /\ wpc' = [wpc EXCEPT ![w] = "connect"]
            /\ UNCHANGED <<clientQueue, peer>>
       ELSE /\ peer' = [peer EXCEPT ![w] = Head(clientQueue)]
            /\ wpc' = [wpc EXCEPT ![w] = "idle"]
            /\ UNCHANGED clientQueue
    /\ UNCHANGED <<program, open, leaked, fpc, ffd, cfd>>

\* The front of the queue; of an empty one the lock is given up before the
\* connection is made.
deQueue(w) ==
    /\ wpc[w] = "deQueue"
    /\ IF clientQueue = << >>
       THEN /\ wpc' = [wpc EXCEPT ![w] = "connect"]
            /\ UNCHANGED <<clientQueue, peer>>
       ELSE /\ peer' = [peer EXCEPT ![w] = Head(clientQueue)]
            /\ clientQueue' = Tail(clientQueue)
            /\ wpc' = [wpc EXCEPT ![w] = "idle"]
    /\ UNCHANGED <<program, open, leaked, fpc, ffd, cfd>>

deQueueConnect(w) ==
    /\ wpc[w] = "connect"
    /\ \E d \in Descriptors \cup {ANET_ERR} :
         /\ connectToServer(d, {})
         /\ peer' = [peer EXCEPT ![w] = d]
    /\ wpc' = [wpc EXCEPT ![w] = "idle"]
    /\ UNCHANGED <<program, clientQueue, fpc, ffd, cfd>>

\* poll for a millisecond: -1 is never ready, another descriptor is when the
\* server has closed it.
pollIdle(w) ==
    /\ wpc[w] = "idle"
    /\ \E ready \in IF peer[w] = ANET_ERR THEN {FALSE} ELSE BOOLEAN :
         wpc' = [wpc EXCEPT ![w] = IF ready THEN "reconnect" ELSE "relay"]
    /\ UNCHANGED <<program, open, leaked, clientQueue, fpc, ffd, cfd, peer>>

\* A new connection takes the place of one that was ready; the old descriptor
\* is forgotten without a close.  The sock4a copy goes on with a peer of -1.
reconnect(w) ==
    /\ wpc[w] = "reconnect"
    /\ \E d \in Descriptors \cup {ANET_ERR} :
         /\ connectToServer(d, {peer[w]})
         /\ peer' = [peer EXCEPT ![w] = d]
         /\ wpc' = [wpc EXCEPT ![w] = IF d = ANET_ERR /\ program = "tcpipe" THEN "close" ELSE "relay"]
    /\ UNCHANGED <<program, clientQueue, fpc, ffd, cfd>>

\* The relay loop ends with the end of either side, or a failed read or write;
\* with a peer of -1 only the browser's side can end it.
relayEnds(w) ==
    /\ wpc[w] = "relay"
    /\ wpc' = [wpc EXCEPT ![w] = "close"]
    /\ UNCHANGED <<program, open, leaked, clientQueue, fpc, ffd, cfd, peer>>

\* The two closes, one after the other; other threads may be given the first
\* number before the second is closed.
closeClient(w) ==
    /\ wpc[w] = "close"
    /\ open' = open \ {cfd[w]}
    /\ wpc' = [wpc EXCEPT ![w] = "closePeer"]
    /\ UNCHANGED <<program, leaked, clientQueue, fpc, ffd, cfd, peer>>

closePeer(w) ==
    /\ wpc[w] = "closePeer"
    /\ open' = open \ {peer[w]}
    /\ wpc' = [wpc EXCEPT ![w] = "none"]
    /\ cfd' = [cfd EXCEPT ![w] = ANET_ERR] /\ peer' = [peer EXCEPT ![w] = ANET_ERR]
    /\ UNCHANGED <<program, leaked, clientQueue, fpc, ffd>>

sock4aWorker(w) ==
    \/ deQueue(w) \/ deQueueConnect(w) \/ pollIdle(w) \/ reconnect(w)
    \/ relayEnds(w) \/ closeClient(w) \/ closePeer(w)

connection_factory == factorySize \/ factoryConnect \/ factoryPush

Next ==
    \/ connection_factory \/ threadFails
    \/ \E w \in Workers : dealWithThread(w) \/ sock4aWorker(w)

Spec == Init /\ [][Next]_poolVars

-----------------------------------------------------------------------------
\* The workers that will still read, write or close the descriptor: as that
\* of the browser, as that of the server.
AsClient(d) == {w \in Workers : cfd[w] = d /\ wpc[w] \notin {"none", "closePeer"}}
AsPeer(d)   == {w \in Workers : peer[w] = d /\ wpc[w] \in {"idle", "reconnect", "relay", "close", "closePeer"}}

(***************************************************************************)
(* An open descriptor belongs to one thread or to one place of the queue,  *)
(* and a thread or the queue never holds a number that is closed: no two   *)
(* browsers share a connection to the server, and no close hits another's  *)
(* descriptor, although the factory decides on a queue length it read      *)
(* before and numbers are used again at once.  The descriptors without an  *)
(* owner are those that a replaced connection, a failed setsockopt or a    *)
(* browser for whom no thread could be made left open.                     *)
(***************************************************************************)
OneOwner ==
    \A d \in Descriptors :
       Cardinality({i \in DOMAIN clientQueue : clientQueue[i] = d})
         + Cardinality(AsClient(d)) + Cardinality(AsPeer(d))
         + (IF fpc = "push" /\ ffd = d THEN 1 ELSE 0)
       = IF d \in open \ leaked THEN 1 ELSE 0

=============================================================================
