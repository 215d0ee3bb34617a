--------------------------- MODULE MCRedisServer ---------------------------
(* The parts of redis-server and redis-proxy that share no state, checked   *)
(* by one run: the file events and the timers of the ae library, the I/O    *)
(* threads of redis-server, the list, the socket calls, and the proxy's     *)
(* framing of replies.  A behaviour is one of a single part; the variables  *)
(* of the others keep their initial values.                                 *)
EXTENDS AeFileEvents, AeTimeEvents, OnDemandIO, Anet, TLC

CONSTANTS Nodes, Values, NULL, Idle, MaxBulks

VARIABLES part,    \* the part this behaviour is about
          heap, lists, content, iter, given, visited, stayed, dupNext,
          reply, rlen, verdict

listVars    == <<heap, lists, content, iter, given, visited, stayed, dupNext>>
framingVars == <<reply, rlen, verdict>>

\* Bulks that end, or are cut, in CR LF, and one that looks like a header.
MCPayloads == {<<>>, <<"x">>, <<"r", "n">>, <<"n">>, <<"r">>, <<"$", "1", "r", "n">>}

List    == INSTANCE AdList
Framing == INSTANCE ReplyFraming WITH Payloads <- MCPayloads

\* Only the handlers' identities, of which the file events' part is full: each
\* permutation more costs every state of every part.
Symmetry == Permutations(Procs)

MCInit ==
    /\ part \in {"files", "timers", "threads", "list", "sockets", "replies"}
    /\ part # "replies" => reply = CHOOSE r \in Framing!Replies : TRUE
    /\ List!Init /\ Framing!Init
    /\ Init /\ timersInit /\ ioInit /\ anetInit
    /\ part # "files" =>
         open = {} /\ \A f, g \in Fds : rfileProc[f] = rfileProc[g]

MCNext ==
    /\ UNCHANGED part
    /\ \/ part = "files" /\ Next
          /\ UNCHANGED <<timerVars, ioThreadVars, anetVars, listVars, framingVars>>
       \/ part = "timers" /\ timersNext
          /\ UNCHANGED <<vars, ioThreadVars, anetVars, listVars, framingVars>>
       \/ part = "threads" /\ ioNext
          /\ UNCHANGED <<vars, timerVars, anetVars, listVars, framingVars>>
       \/ part = "sockets" /\ anetNext
          /\ UNCHANGED <<vars, timerVars, ioThreadVars, listVars, framingVars>>
       \/ part = "list" /\ List!Next
          /\ UNCHANGED <<vars, timerVars, ioThreadVars, anetVars, framingVars>>
       \/ part = "replies" /\ Framing!Next
          /\ UNCHANGED <<vars, timerVars, ioThreadVars, anetVars, listVars>>

MCSpec == MCInit /\ [][MCNext]_<<part, vars, timerVars, ioThreadVars, anetVars, listVars, framingVars>>

\* Bounds of the threads' part: a client structure may sit in the lists
\* several times once it has been reused, and two jobs at a time show every
\* effect; the len field drifts away from the chain as updates are lost.
MaxQueued  == 2
MaxLen     == 2
QueueBound == Len(nodes) + Len(io_processed) <= MaxQueued /\ len <= MaxLen

\* A list is the sequence it stands for, and its iterations miss nothing.
ListSound == part = "list" => List!ListSound
\* The proxy finds the end of a reply exactly, however the reply is cut.
FramingExact == part = "replies" => Framing!FramingExact
=============================================================================
