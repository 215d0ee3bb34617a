-------------------------------- MODULE Anet --------------------------------
(***************************************************************************)
(* anet.c, the socket calls of the Redis servers, as a process of several  *)
(* threads uses them: the event loop listens and accepts, I/O threads      *)
(* connect.  Every system call is one step, which may fail; descriptors    *)
(* are the numbers of one process, and open(2) gives the lowest free one,  *)
(* so a number closed once too often is another thread's.                  *)
(*                                                                         *)
(* Addresses, ports and the text of errors are left out.  The descriptor a *)
(* function works on is its frame's s.                                     *)
(***************************************************************************)
EXTENDS Integers, FiniteSets

CONSTANTS Callers,      \* threads
          Descriptors,  \* numbers the process may have open
          Asked,        \* bytes asked of anetRead and anetWrite
          MaxStray      \* bound: failing fcntl(2) calls of a connect

ANET_ERR == -1

ASSUME AnetAssumption ==
    /\ Descriptors \subseteq Nat /\ IsFiniteSet(Descriptors)
    /\ Asked \in Nat /\ MaxStray \in Nat

VARIABLES
    sockets,       \* state of each number
    nonblocking,   \* the sockets that have O_NONBLOCK
    frame,         \* the call each thread is in: [fn, at, s, totlen]
    held,          \* descriptors a thread was given and has not closed
    maker,         \* the function that returned a descriptor (history)
    stray          \* connects that ended at a failing fcntl (history)

anetVars == <<sockets, nonblocking, frame, held, maker, stray>>

Creators == {"anetTcpConnect", "anetTcpNonBlockConnect", "anetTcpServer", "anetAccept"}
Setters  == {"anetNonBlock", "anetTcpNoDelay", "anetSetSendBuffer", "anetTcpKeepAlive"}
Movers   == {"anetRead", "anetWrite"}
NoCall   == [fn |-> "none", at |-> "idle", s |-> ANET_ERR, totlen |-> 0]

Open   == {d \in Descriptors : sockets[d] # "closed"}

anetInit ==
    /\ sockets = [d \in Descriptors |-> "closed"] /\ nonblocking = {}
    /\ frame = [t \in Callers |-> NoCall] /\ held = [t \in Callers |-> {}]
    /\ maker = [d \in Descriptors |-> "none"] /\ stray = 0

-----------------------------------------------------------------------------
goto(t, step) == frame' = [frame EXCEPT ![t].at = step]
leave(t)      == frame' = [frame EXCEPT ![t] = NoCall]

\* open(2) and its kin give the lowest number that is free.
Lowest(d) == d \notin Open /\ \A e \in Descriptors : e < d => e \in Open

\* close(2): what was known of the socket is gone with it.
close(d) ==
    /\ sockets' = [sockets EXCEPT ![d] = "closed"]
    /\ nonblocking' = nonblocking \ {d}
    /\ maker' = [maker EXCEPT ![d] = "none"]

socketVars == <<sockets, nonblocking, maker>>

\* close(s); return ANET_ERR
closeAndFail(t) == close(frame[t].s) /\ leave(t) /\ UNCHANGED <<held, stray>>

\* return s
give(t, d, state) ==
    /\ sockets' = [sockets EXCEPT ![d] = state]
    /\ maker' = [maker EXCEPT ![d] = frame[t].fn]
    /\ held' = [held EXCEPT ![t] = @ \cup {d}]
    /\ leave(t)
    /\ UNCHANGED <<nonblocking, stray>>

-----------------------------------------------------------------------------
(* Callers: a call with a socket of theirs or without one, and close(2).   *)

FirstStep(fn) ==
    CASE fn \in Setters -> "set" [] fn \in Movers -> "move"
      [] fn = "anetAccept" -> "accept" [] OTHER -> "socket"

call(t) ==
    /\ frame[t].at = "idle"
    /\ \E fn \in Creators \cup Setters \cup Movers, d \in held[t] \cup {ANET_ERR} :
         /\ fn \in Setters \cup Movers <=> d # ANET_ERR
         /\ fn = "anetAccept" => \E l \in held[t] : sockets[l] = "listening"
         /\ fn \in Movers => sockets[d] = "connected"
         /\ frame' = [frame EXCEPT ![t] = [fn |-> fn, at |-> FirstStep(fn), s |-> d, totlen |-> 0]]
    /\ UNCHANGED <<held, stray, socketVars>>

callerCloses(t) ==
    /\ frame[t].at = "idle"
    /\ \E d \in held[t] : close(d) /\ held' = [held EXCEPT ![t] = @ \ {d}]
    /\ UNCHANGED <<frame, stray>>

\* anetNonBlock, and the three functions around one setsockopt(2).
setOption(t) ==
    /\ frame[t].at = "set"
    /\ \/ frame[t].fn = "anetNonBlock" /\ nonblocking' = nonblocking \cup {frame[t].s}
       \/ UNCHANGED nonblocking
    /\ leave(t)
    /\ UNCHANGED <<sockets, held, maker, stray>>

-----------------------------------------------------------------------------
(* anetTcpGenericConnect, anetTcpServer and anetAccept. *)

socket(t) ==
    /\ frame[t].at = "socket"
    /\ \/ leave(t) /\ UNCHANGED sockets
       \/ \E d \in Descriptors :
            /\ Lowest(d)
            /\ sockets' = [sockets EXCEPT ![d] = "new"]
            /\ frame' = [frame EXCEPT ![t].s = d,
                 ![t].at = IF frame[t].fn = "anetTcpServer" THEN "options" ELSE "resolve"]
    /\ UNCHANGED <<nonblocking, held, maker, stray>>

\* inet_aton or gethostbyname; the result of SO_REUSEADDR is not looked at.
resolve(t) ==
    /\ frame[t].at = "resolve"
    /\ \/ closeAndFail(t)
       \/ /\ goto(t, IF frame[t].fn = "anetTcpNonBlockConnect" THEN "nonblock" ELSE "connect")
          /\ UNCHANGED <<held, stray, socketVars>>

\* anetNonBlock on the new socket: its error is returned as it is.
makeNonBlock(t) ==
    /\ frame[t].at = "nonblock"
    /\ \/ leave(t) /\ stray < MaxStray /\ stray' = stray + 1 /\ UNCHANGED nonblocking
       \/ /\ nonblocking' = nonblocking \cup {frame[t].s}
          /\ goto(t, "connect") /\ UNCHANGED stray
    /\ UNCHANGED <<sockets, held, maker>>

\* Mutant of connect: EINPROGRESS is taken for success of any socket.
connectAnyProgress(t) ==
    /\ frame[t].at = "connect"
    /\ \/ \E state \in {"connecting", "connected"} : give(t, frame[t].s, state)
       \/ closeAndFail(t)

\* EINPROGRESS is a success of a nonblocking socket only.
connect(t) ==
    /\ frame[t].at = "connect"
    /\ \/ give(t, frame[t].s, "connected")
       \/ frame[t].fn = "anetTcpNonBlockConnect" /\ give(t, frame[t].s, "connecting")
       \/ closeAndFail(t)

\* SO_REUSEADDR, the address to bind and bind(2), then listen(2).
anetTcpServer(t) ==
    \/ /\ frame[t].at = "options" /\ goto(t, "listen")
       /\ sockets' = [sockets EXCEPT ![frame[t].s] = "bound"]
       /\ UNCHANGED <<nonblocking, held, maker, stray>>
    \/ frame[t].at = "listen" /\ give(t, frame[t].s, "listening")
    \/ frame[t].at \in {"options", "listen"} /\ closeAndFail(t)

\* EINTR tries again; any other error leaves everything as it is.
anetAccept(t) ==
    /\ frame[t].at = "accept"
    /\ \/ leave(t) /\ UNCHANGED <<held, stray, socketVars>>
       \/ \E d \in Descriptors : Lowest(d) /\ give(t, d, "connected")

\* The other end accepts a connection in progress.
connectEnds ==
    /\ \E d \in Open : sockets[d] = "connecting" /\ sockets' = [sockets EXCEPT ![d] = "connected"]
    /\ UNCHANGED <<nonblocking, frame, held, maker, stray>>

-----------------------------------------------------------------------------
\* The loop of anetRead and anetWrite ends with all the bytes, with a call
\* that moves none, or with an error that forgets what has passed.
transfer(t) ==
    /\ frame[t].at = "move"
    /\ \/ \E n \in 1 .. Asked - frame[t].totlen : frame' = [frame EXCEPT ![t].totlen = @ + n]
       \/ leave(t)
    /\ UNCHANGED <<held, stray, socketVars>>

anetNext ==
    \/ connectEnds
    \/ \E t \in Callers :
         \/ call(t) \/ callerCloses(t) \/ setOption(t) \/ socket(t) \/ resolve(t)
         \/ makeNonBlock(t) \/ connect(t) \/ anetTcpServer(t) \/ anetAccept(t) \/ transfer(t)

anetSpec == anetInit /\ [][anetNext]_anetVars

-----------------------------------------------------------------------------
Users(d) == {t \in Callers : \/ d \in held[t]
                             \/ frame[t].fn \in Creators /\ frame[t].s = d}

Made(d) == CASE maker[d] = "anetTcpServer" -> sockets[d] = "listening"
             [] maker[d] = "anetTcpNonBlockConnect" ->
                  d \in nonblocking /\ sockets[d] \in {"connecting", "connected"}
             [] OTHER -> sockets[d] = "connected"

(***************************************************************************)
(* Whatever fails between two system calls and whichever thread comes in   *)
(* between: a descriptor is used by one thread at most, and only while it  *)
(* is open; the open ones that nobody knows are the sockets of connects    *)
(* that ended at fcntl, one each; and a socket that was returned is in the *)
(* state that its function promises, also after other calls on it.         *)
(***************************************************************************)
SocketsAccounted ==
    /\ \A d \in Descriptors : \A t, u \in Users(d) : t = u
    /\ \A d \in Descriptors \ Open : Users(d) = {}
    /\ Cardinality({d \in Open : Users(d) = {}}) = stray
    /\ \A t \in Callers : \A d \in held[t] : Made(d)
=============================================================================
