---------------------------- MODULE UuidRealloc ----------------------------
(***************************************************************************)
(* redis-uuid/redis-realloc.c: the server of redis.c with its buffers on   *)
(* the heap.  The request buffer of a client is reallocated to ReadLen     *)
(* bytes more than it holds before every read(2), the reply gets a block   *)
(* of its own, and every handler has blocks to keep or to free.            *)
(*                                                                         *)
(* The heap is a set of blocks; malloc and realloc may give any free one.  *)
(* A read that fills the buffer leaves no zero byte for strstr to stop at, *)
(* so what it finds is anything; what a request says is any verdict here   *)
(* too.  The identifiers are UuidServer's, with get_uuid's widths.         *)
(***************************************************************************)
EXTENDS Integers, FiniteSets

CONSTANTS Clients,     \* redisClient structures
          Blocks,      \* bound: blocks of the heap
          Null,
          ReadLen,     \* READ_BUF_LEN, 64
          MaxRead,     \* MAX_READ_BUF_LEN, 128
          MaxReply,    \* bound: length of a reply, in write(2) units
          MaxClients,  \* server.maxclients; 0 means no limit
          MaxMid,      \* the largest server id, 255
          MaxLost      \* bound: replies that could not be sent

ASSUME ReallocAssumption ==
    /\ Null \notin Blocks /\ IsFiniteSet(Blocks) /\ IsFiniteSet(Clients)
    /\ ReadLen \in Nat \ {0} /\ MaxRead \in Nat /\ MaxReply \in Nat \ {0}
    /\ MaxClients \in Nat /\ MaxMid \in Nat /\ MaxLost \in Nat

VARIABLES
    mid,          \* -u; 0 while the process does not run
    heap,         \* blocks that are allocated
    connected,    \* clients with a connection; server.clients counts them
    event,        \* the event registered for each: "R", "W" or "none"
    rbuf, wbuf,   \* the blocks of each, or Null
    rlen,         \* bytes in rbuf
    wlen, wpos,   \* reply length and how much of it is sent
    lost          \* replies that could not be sent (history)

fields == <<rbuf, wbuf, rlen, wlen, wpos>>
reallocVars == <<mid, heap, connected, event, fields, lost>>

reallocInit ==
    /\ mid = 0 /\ heap = {} /\ connected = {} /\ lost = 0
    /\ event = [c \in Clients |-> "none"]
    /\ rbuf = [c \in Clients |-> Null] /\ wbuf = [c \in Clients |-> Null]
    /\ rlen = [c \in Clients |-> 0]
    /\ wlen = [c \in Clients |-> 0] /\ wpos = [c \in Clients |-> 0]

-----------------------------------------------------------------------------
\* "mid must be a number between 1 and 255."
main ==
    /\ mid = 0 /\ mid' \in 1 .. MaxMid
    /\ UNCHANGED <<heap, connected, event, fields, lost>>

\* The handlers of SIGTERM and of faults end the process, and its heap.
sigtermHandler ==
    /\ mid # 0
    /\ mid' = 0 /\ heap' = {} /\ connected' = {} /\ lost' = 0
    /\ event' = [c \in Clients |-> "none"]
    /\ rbuf' = [c \in Clients |-> Null] /\ wbuf' = [c \in Clients |-> Null]
    /\ rlen' = [c \in Clients |-> 0]
    /\ wlen' = [c \in Clients |-> 0] /\ wpos' = [c \in Clients |-> 0]

\* A connection over the limit is freed in the same handler, before it has a
\* buffer.
acceptHandler(c) ==
    /\ mid # 0 /\ c \notin connected
    /\ MaxClients = 0 \/ Cardinality(connected) + 1 <= MaxClients
    /\ connected' = connected \cup {c}
    /\ event' = [event EXCEPT ![c] = "R"]
    /\ UNCHANGED <<mid, heap, fields, lost>>

\* The structure is freed with everything in it.  b is its request buffer:
\* if there is one, wbuf is set to NULL where rbuf was meant, and the reply's
\* block stays on the heap.
freeClient(c, b) ==
    /\ connected' = connected \ {c}
    /\ event' = [event EXCEPT ![c] = "none"]
    /\ heap' = (heap \ {rbuf[c]}) \ {IF b # Null THEN b ELSE wbuf[c]}
    /\ rbuf' = [rbuf EXCEPT ![c] = Null] /\ wbuf' = [wbuf EXCEPT ![c] = Null]
    /\ rlen' = [rlen EXCEPT ![c] = 0]
    /\ wlen' = [wlen EXCEPT ![c] = 0] /\ wpos' = [wpos EXCEPT ![c] = 0]

\* realloc: in place, or another block with the bytes read so far.
Grown(c) == ({rbuf[c]} \ {Null}) \cup (Blocks \ heap)

keepsReading(c, b, n) ==
    /\ heap' = (heap \ {rbuf[c]}) \cup {b}
    /\ rbuf' = [rbuf EXCEPT ![c] = b] /\ rlen' = [rlen EXCEPT ![c] = n]
    /\ UNCHANGED <<connected, event, wbuf, wlen, wpos>>

\* The reply in a block of its own; AE_READABLE is deleted, and registering
\* AE_WRITABLE may fail, which leaves the client without an event.
reply(c, b, n) ==
    \E w \in Blocks \ (heap \cup {b}), k \in 1 .. MaxReply, e \in {"W", "none"} :
      /\ heap' = (heap \ {rbuf[c]}) \cup {b, w}
      /\ rbuf' = [rbuf EXCEPT ![c] = b] /\ rlen' = [rlen EXCEPT ![c] = n]
      /\ wbuf' = [wbuf EXCEPT ![c] = w] /\ wlen' = [wlen EXCEPT ![c] = k]
      /\ event' = [event EXCEPT ![c] = e]
      /\ UNCHANGED <<connected, wpos>>

\* Wait for more, close (protocol error or quit), or answer a get.
processInputBuffer(c, b, n) == keepsReading(c, b, n) \/ freeClient(c, b) \/ reply(c, b, n)

\* End of file and errors free the client, EAGAIN leaves it with its larger
\* buffer; so many bytes that the buffer holds more than MaxRead free it too.
readQueryFromClient(c) ==
    /\ event[c] = "R"
    /\ \E b \in Grown(c), n \in 0 .. ReadLen :
         \/ n = 0 /\ (freeClient(c, b) \/ keepsReading(c, b, rlen[c]))
         \/ n > 0 /\ rlen[c] + n > MaxRead /\ freeClient(c, b)
         \/ n > 0 /\ rlen[c] + n <= MaxRead /\ processInputBuffer(c, b, rlen[c] + n)
    /\ UNCHANGED <<mid, lost>>

\* Mutant of resetClient: the reply's block is freed and its address is kept.
resetClientKeepsWbuf(c) ==
    /\ heap' = heap \ {rbuf[c], wbuf[c]}
    /\ rbuf' = [rbuf EXCEPT ![c] = Null] /\ rlen' = [rlen EXCEPT ![c] = 0]
    /\ wlen' = [wlen EXCEPT ![c] = 0] /\ wpos' = [wpos EXCEPT ![c] = 0]
    /\ \E e \in {"R", "none"} : event' = [event EXCEPT ![c] = e]
    /\ UNCHANGED <<connected, wbuf>>

\* The registration at the end of resetClient may fail unnoticed.
resetClient(c) ==
    /\ heap' = heap \ {rbuf[c], wbuf[c]}
    /\ rbuf' = [rbuf EXCEPT ![c] = Null] /\ wbuf' = [wbuf EXCEPT ![c] = Null]
    /\ rlen' = [rlen EXCEPT ![c] = 0]
    /\ wlen' = [wlen EXCEPT ![c] = 0] /\ wpos' = [wpos EXCEPT ![c] = 0]
    /\ \E e \in {"R", "none"} : event' = [event EXCEPT ![c] = e]
    /\ UNCHANGED connected

\* write(2) takes 0 (EAGAIN) to all of what is left, or fails.
sendReplyToClient(c) ==
    /\ event[c] = "W"
    /\ \/ freeClient(c, rbuf[c]) /\ lost < MaxLost /\ lost' = lost + 1
       \/ /\ \E n \in 0 .. wlen[c] - wpos[c] :
               IF wpos[c] + n = wlen[c]
               THEN resetClient(c)
               ELSE /\ wpos' = [wpos EXCEPT ![c] = @ + n]
                    /\ UNCHANGED <<heap, connected, event, rbuf, wbuf, rlen, wlen>>
          /\ UNCHANGED lost
    /\ UNCHANGED mid

reallocNext ==
    \/ main \/ sigtermHandler
    \/ \E c \in Clients : acceptHandler(c) \/ readQueryFromClient(c) \/ sendReplyToClient(c)

reallocSpec == reallocInit /\ [][reallocNext]_reallocVars

-----------------------------------------------------------------------------
reallocTypeOK ==
    /\ mid \in 0 .. MaxMid /\ heap \in SUBSET Blocks /\ connected \in SUBSET Clients
    /\ event \in [Clients -> {"R", "W", "none"}]
    /\ rbuf \in [Clients -> Blocks \cup {Null}] /\ wbuf \in [Clients -> Blocks \cup {Null}]
    /\ rlen \in [Clients -> 0 .. MaxRead]
    /\ wlen \in [Clients -> 0 .. MaxReply] /\ wpos \in [Clients -> 0 .. MaxReply]
    /\ lost \in 0 .. MaxLost

RequestBlocks == {rbuf[c] : c \in Clients} \ {Null}
ReplyBlocks   == {wbuf[c] : c \in Clients} \ {Null}

(***************************************************************************)
(* No block is in two places, and none that is used has been freed; what   *)
(* stays on the heap without an owner is one reply for every client that   *)
(* freeClient took while its reply was under way.  A client that waits for *)
(* a request has no reply, so that calloc overwrites no block.             *)
(***************************************************************************)
HeapAccounts ==
    /\ RequestBlocks \cup ReplyBlocks \subseteq heap
    /\ RequestBlocks \cap ReplyBlocks = {}
    /\ \A c, d \in Clients : c # d =>
         /\ rbuf[c] = rbuf[d] => rbuf[c] = Null
         /\ wbuf[c] = wbuf[d] => wbuf[c] = Null
    /\ Cardinality(heap \ (RequestBlocks \cup ReplyBlocks)) = lost
    /\ \A c \in Clients : event[c] = "R" => wbuf[c] = Null /\ wlen[c] = 0 /\ wpos[c] = 0
    /\ \A c \in Clients : event[c] = "W" => wbuf[c] # Null /\ rbuf[c] # Null /\ wpos[c] < wlen[c]
=============================================================================
