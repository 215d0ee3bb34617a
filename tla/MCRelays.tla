----------------------------- MODULE MCRelays -----------------------------
(* The programs that hand bytes on and share no state, checked by one run:  *)
(* the encoded relays and their ports, the pool of their client side, the   *)
(* UDP gets, the echo server, and the buffers of redis-realloc.  A          *)
(* behaviour is one of a single part; the variables of the others keep      *)
(* their initial values.                                                    *)
EXTENDS Relay, RelayPool, UuidRealloc, UdpGet, EchoCell, TLC

CONSTANT Parts          \* the parts a run is about

VARIABLE part

\* A few bytes one way against one: tcpipe with its server, every client program
\* with sock4a's server and a request that its one read may take as a whole,
\* and a longer request, of which it can only get a part; and more than the
\* connections hold both ways, which needs a thread for each direction.
MCSetups ==
    [client : {"tcpipe"}, server : {"tcpipe"}, request : {0}, up : {<<2, 4, 1>>}, down : {<<3>>}]
    \cup [client : {"tcpipe", "apr", "go", "poco", "mono", "d", "qt", "py"}, server : {"sock4a"},
          request : {2}, up : {<<2, 4>>}, down : {<<3>>}]
    \cup [client : {"sock4a"}, server : {"sock4a"}, request : {3}, up : {<<2, 4>>}, down : {<<3>>}]
    \cup [client : {"go"}, server : {"tcpipe"}, request : {0}, up : {<<3, 0, 1, 2>>}, down : {<<1, 2, 4>>}]

MCInit ==
    /\ part \in Parts
    /\ relayInit /\ Init /\ reallocInit /\ udpInit /\ echoInit
    /\ part # "relay" => kind = CHOOSE k \in MCSetups : TRUE
    /\ part # "pool" => program = "tcpipe"

MCNext ==
    /\ UNCHANGED part
    /\ \/ part = "relay" /\ relayNext /\ UNCHANGED <<poolVars, reallocVars, udpVars, echoVars>>
       \/ part = "pool" /\ Next /\ UNCHANGED <<relayVars, reallocVars, udpVars, echoVars>>
       \/ part = "realloc" /\ reallocNext /\ UNCHANGED <<relayVars, poolVars, udpVars, echoVars>>
       \/ part = "udp" /\ udpNext /\ UNCHANGED <<relayVars, poolVars, reallocVars, echoVars>>
       \/ part = "echo" /\ echoNext /\ UNCHANGED <<relayVars, poolVars, reallocVars, udpVars>>

\* Fairness, and the one liveness property, are those of the relay.
MCSpec ==
    /\ MCInit /\ [][MCNext]_<<part, relayVars, poolVars, reallocVars, udpVars, echoVars>>
    /\ relayFairness
=============================================================================
