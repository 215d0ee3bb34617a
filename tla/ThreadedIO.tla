----------------------------- MODULE ThreadedIO -----------------------------
(***************************************************************************)
(* Threaded I/O of redis-proxy (redis-proxy/redis.c).                      *)
(*                                                                         *)
(* One main thread runs the ae event loop: it accepts clients, reads       *)
(* requests, hands a client with a complete request to a pool of I/O       *)
(* threads through io_newjobs, takes finished clients back from            *)
(* io_processed when a byte arrives on a pipe, and writes replies.         *)
(* vm_max_threads I/O threads, created once at start-up, sleep on the      *)
(* condition variable io_ready and run the extension's command procedure   *)
(* outside the lock.                                                       *)
(*                                                                         *)
(* The unit of interleaving is what the mutex, the pipe and the condition  *)
(* variable leave: taking the lock, a critical section with its unlock,    *)
(* a signal, one byte read or written, one run of the extension, and, for  *)
(* what only the main thread touches, one event handler.                   *)
(*                                                                         *)
(* Bytes are abstracted: a request is absent, partial or full, a reply is  *)
(* a length.  Which verdict the parser gives a buffer and how much a       *)
(* socket accepts are nondeterministic.                                    *)
(***************************************************************************)
EXTENDS Integers, Sequences, FiniteSets

CONSTANTS
    Clients,        \* redisClient structures (and their descriptors) that may exist
    Threads,        \* the I/O threads, vm_max_threads of them
    Main,           \* the event loop's thread, as an owner of io_mutex
    NoOne,          \* io_mutex is free / no client in hand
    MaxReply,       \* bound: longest reply, in write(2) units
    PipeCap,        \* bytes the pipe holds before a writer blocks
    MaxClientsConf, \* server.maxclients; 0 means no limit
    EpollMayFail    \* may aeCreateFileEvent fail for a registered descriptor?

ASSUME ThreadedIOAssumption ==
    /\ IsFiniteSet(Clients)
    /\ IsFiniteSet(Threads)
    /\ Main \notin Threads
    /\ NoOne \notin Threads \cup {Main} \cup Clients
    /\ MaxReply \in Nat \ {0}
    /\ PipeCap \in Nat \ {0}
    /\ MaxClientsConf \in Nat
    /\ EpollMayFail \in BOOLEAN

VARIABLES
    live,         \* allocated clients
    clients,      \* server.clients
    mask,         \* events registered with ae for each client's descriptor
    rbuf,         \* the client's request buffer
    wlen, wpos,   \* length of the client's reply and how much of it is sent
    io_newjobs, io_processed,   \* the two job lists
    io_mutex,     \* who holds the lock of the lists
    pipe,         \* bytes in the completion pipe
    mpc, mc,      \* main thread: position and client in hand
    tpc, tc       \* I/O threads: position and client in hand

vars == <<live, clients, mask, rbuf, wlen, wpos, io_newjobs, io_processed,
          io_mutex, pipe, mpc, mc, tpc, tc>>

clientVars == <<live, clients, mask, rbuf, wlen, wpos>>
ioVars     == <<io_newjobs, io_processed, io_mutex, pipe, tpc, tc>>

MainPC   == {"loop", "q_lock", "q_add", "q_signal",
             "p_read", "p_lock", "p_pop", "p_event", "aborted"}
ThreadPC == {"init", "lock", "check", "waiting", "proc", "done_lock",
             "done_add", "pipe"}

R == "R"   \* AE_READABLE
W == "W"   \* AE_WRITABLE
Masks == SUBSET {R, W}

(***************************************************************************)
(* Client lifecycle, main thread only.                                     *)
(***************************************************************************)
createClient(c) ==
    /\ live'    = live \cup {c}
    /\ clients' = clients + 1
    /\ mask'    = [mask EXCEPT ![c] = {R}]
    /\ rbuf'    = [rbuf EXCEPT ![c] = "null"]
    /\ wlen'    = [wlen EXCEPT ![c] = 0]
    /\ wpos'    = [wpos EXCEPT ![c] = 0]

freeClient(c) ==
    /\ live'    = live \ {c}
    /\ clients' = clients - 1
    /\ mask'    = [mask EXCEPT ![c] = {}]
    /\ rbuf'    = [rbuf EXCEPT ![c] = "null"]
    /\ wlen'    = [wlen EXCEPT ![c] = 0]
    /\ wpos'    = [wpos EXCEPT ![c] = 0]

\* Mutant of resetClient: wlen keeps the length of the reply just sent.
resetClientKeepsLen(c) ==
    /\ rbuf' = [rbuf EXCEPT ![c] = "null"]
    /\ wpos' = [wpos EXCEPT ![c] = 0]
    /\ mask' = [mask EXCEPT ![c] = {R}]
    /\ UNCHANGED <<live, clients, wlen>>

\* Clears both events, then registers AE_READABLE; the return value of that
\* registration is ignored, so a failure leaves the client without events.
resetClient(c) ==
    /\ rbuf' = [rbuf EXCEPT ![c] = "null"]
    /\ wlen' = [wlen EXCEPT ![c] = 0]
    /\ wpos' = [wpos EXCEPT ![c] = 0]
    /\ \/ mask' = [mask EXCEPT ![c] = {R}]
       \/ EpollMayFail /\ mask' = [mask EXCEPT ![c] = {}]
    /\ UNCHANGED <<live, clients>>

\* A connection over the limit is created and freed again in one handler, and
\* of one whose aeCreateFileEvent fails createClient frees what it has made:
\* no trace is left, so only accepted connections are steps here.
acceptHandler(c) ==
    /\ mpc = "loop"
    /\ c \notin live
    /\ MaxClientsConf = 0 \/ clients + 1 <= MaxClientsConf
    /\ createClient(c)
    /\ UNCHANGED <<mpc, mc>> /\ UNCHANGED ioVars

\* Mutant of processInputBuffer: AE_READABLE stays registered while the
\* request is with the I/O threads.
processInputBufferKeepsEvent(c, verdict) ==
    \/ /\ verdict = "close"
       /\ freeClient(c)
       /\ UNCHANGED <<mpc, mc>>
    \/ /\ verdict = "full"
       /\ rbuf' = [rbuf EXCEPT ![c] = "full"]
       /\ mpc'  = "q_lock"
       /\ mc'   = c
       /\ UNCHANGED <<live, clients, mask, wlen, wpos>>

\* The parser's verdict on the bytes read so far: more data needed, a
\* complete request, or an end of the connection (end of file, read error,
\* protocol error, QUIT).
processInputBuffer(c, verdict) ==
    \/ /\ verdict = "close"
       /\ freeClient(c)
       /\ UNCHANGED <<mpc, mc>>
    \/ /\ verdict = "more"
       /\ rbuf' = [rbuf EXCEPT ![c] = "partial"]
       /\ UNCHANGED <<live, clients, mask, wlen, wpos, mpc, mc>>
    \/ /\ verdict = "full"
       /\ rbuf' = [rbuf EXCEPT ![c] = "full"]
       /\ mask' = [mask EXCEPT ![c] = @ \ {R}]
       /\ mpc'  = "q_lock"
       /\ mc'   = c
       /\ UNCHANGED <<live, clients, wlen, wpos>>

readQueryFromClient(c) ==
    /\ mpc = "loop"
    /\ R \in mask[c]
    /\ \E verdict \in {"close", "more", "full"} : processInputBuffer(c, verdict)
    /\ UNCHANGED ioVars

\* write(2) takes 0 (EAGAIN) to all of what is left, or fails.
sendReplyToClient(c) ==
    /\ mpc = "loop"
    /\ W \in mask[c]
    /\ \/ freeClient(c)
       \/ \E n \in 0 .. wlen[c] - wpos[c] :
            IF wpos[c] + n = wlen[c]
            THEN resetClient(c)
            ELSE /\ wpos' = [wpos EXCEPT ![c] = @ + n]
                 /\ UNCHANGED <<live, clients, mask, rbuf, wlen>>
    /\ UNCHANGED <<mpc, mc>> /\ UNCHANGED ioVars

(***************************************************************************)
(* queueIOJob: lock, append, unlock, then signal without the lock.         *)
(***************************************************************************)
Waiting == {t \in Threads : tpc[t] = "waiting"}

queueLock ==
    /\ mpc = "q_lock"
    /\ io_mutex = NoOne
    /\ io_mutex' = Main
    /\ mpc' = "q_add"
    /\ UNCHANGED <<mc, io_newjobs, io_processed, pipe, tpc, tc>>
    /\ UNCHANGED clientVars

queueAdd ==
    /\ mpc = "q_add"
    /\ io_newjobs' = Append(io_newjobs, mc)
    /\ io_mutex' = NoOne
    /\ mpc' = "q_signal"
    /\ UNCHANGED <<mc, io_processed, pipe, tpc, tc>>
    /\ UNCHANGED clientVars

\* Mutant of noticeThreadedIO: signal only for the first job of the list.
noticeFirstJobOnly ==
    /\ mpc = "q_signal"
    /\ mpc' = "loop"
    /\ mc' = NoOne
    /\ IF Waiting # {} /\ Len(io_newjobs) = 1
       THEN \E t \in Waiting : tpc' = [tpc EXCEPT ![t] = "lock"]
       ELSE tpc' = tpc
    /\ UNCHANGED <<io_newjobs, io_processed, io_mutex, pipe, tc>>
    /\ UNCHANGED clientVars

\* Mutant of noticeThreadedIO: the thread goes on without the lock.
noticeSkipsLock ==
    /\ mpc = "q_signal"
    /\ mpc' = "loop"
    /\ mc' = NoOne
    /\ IF Waiting # {}
       THEN \E t \in Waiting : tpc' = [tpc EXCEPT ![t] = "check"]
       ELSE tpc' = tpc
    /\ UNCHANGED <<io_newjobs, io_processed, io_mutex, pipe, tc>>
    /\ UNCHANGED clientVars

\* Mutant of noticeThreadedIO: nobody is signalled.
noticeNobody ==
    /\ mpc = "q_signal"
    /\ mpc' = "loop"
    /\ mc' = NoOne
    /\ UNCHANGED ioVars /\ UNCHANGED clientVars

noticeThreadedIO ==
    /\ mpc = "q_signal"
    /\ mpc' = "loop"
    /\ mc' = NoOne
    /\ \/ /\ Waiting = {}
          /\ tpc' = tpc
       \/ \E t \in Waiting : tpc' = [tpc EXCEPT ![t] = "lock"]
    /\ UNCHANGED <<io_newjobs, io_processed, io_mutex, pipe, tc>>
    /\ UNCHANGED clientVars

(***************************************************************************)
(* vmThreadedIOCompletedJob: one job per byte until read(2) says EAGAIN.   *)
(***************************************************************************)
pipeReadable ==
    /\ mpc = "loop"
    /\ pipe > 0
    /\ mpc' = "p_read"
    /\ UNCHANGED mc /\ UNCHANGED clientVars /\ UNCHANGED ioVars

\* Mutant of pipeRead: one read(2) takes every byte of the pipe.
pipeReadDrains ==
    /\ mpc = "p_read"
    /\ pipe' = 0
    /\ mpc' = IF pipe > 0 THEN "p_lock" ELSE "loop"
    /\ UNCHANGED <<mc, io_newjobs, io_processed, io_mutex, tpc, tc>>
    /\ UNCHANGED clientVars

pipeRead ==
    /\ mpc = "p_read"
    /\ IF pipe > 0
       THEN pipe' = pipe - 1 /\ mpc' = "p_lock"
       ELSE pipe' = pipe     /\ mpc' = "loop"
    /\ UNCHANGED <<mc, io_newjobs, io_processed, io_mutex, tpc, tc>>
    /\ UNCHANGED clientVars

completedLock ==
    /\ mpc = "p_lock"
    /\ io_mutex = NoOne
    /\ io_mutex' = Main
    /\ mpc' = "p_pop"
    /\ UNCHANGED <<mc, io_newjobs, io_processed, pipe, tpc, tc>>
    /\ UNCHANGED clientVars

\* assert(listLength(server.io_processed) != 0), then take the oldest.
completedPop ==
    /\ mpc = "p_pop"
    /\ IF io_processed = << >>
       THEN /\ mpc' = "aborted"
            /\ UNCHANGED <<mc, io_processed, io_mutex>>
       ELSE /\ mc' = Head(io_processed)
            /\ io_processed' = Tail(io_processed)
            /\ io_mutex' = NoOne
            /\ mpc' = "p_event"
    /\ UNCHANGED <<io_newjobs, pipe, tpc, tc>>
    /\ UNCHANGED clientVars

\* On AE_ERR the handler returns: the client is in no list and has no event.
completedEvent ==
    /\ mpc = "p_event"
    /\ \/ mask' = [mask EXCEPT ![mc] = @ \cup {W}] /\ mpc' = "p_read"
       \/ EpollMayFail /\ mask' = mask /\ mpc' = "loop"
    /\ mc' = NoOne
    /\ UNCHANGED <<live, clients, rbuf, wlen, wpos>>
    /\ UNCHANGED ioVars

(***************************************************************************)
(* IOThreadEntryPoint.                                                     *)
(***************************************************************************)
threadInit(t) ==
    /\ tpc[t] = "init"
    /\ tpc' = [tpc EXCEPT ![t] = "lock"]
    /\ UNCHANGED <<io_newjobs, io_processed, io_mutex, pipe, tc, mpc, mc>>
    /\ UNCHANGED clientVars

threadLock(t) ==
    /\ tpc[t] \in {"lock", "done_lock"}
    /\ io_mutex = NoOne
    /\ io_mutex' = t
    /\ tpc' = [tpc EXCEPT ![t] = IF @ = "lock" THEN "check" ELSE "done_add"]
    /\ UNCHANGED <<io_newjobs, io_processed, pipe, tc, mpc, mc>>
    /\ UNCHANGED clientVars

\* pthread_cond_wait releases the lock and sleeps in one step.
waitThreadedIO(t) ==
    /\ tpc[t] = "check"
    /\ io_newjobs = << >>
    /\ io_mutex' = NoOne
    /\ tpc' = [tpc EXCEPT ![t] = "waiting"]
    /\ UNCHANGED <<io_newjobs, io_processed, pipe, tc, mpc, mc>>
    /\ UNCHANGED clientVars

\* A wake-up nobody signalled, which POSIX allows; the thread takes the lock
\* again and tests the list again.
spuriousWakeup(t) ==
    /\ tpc[t] = "waiting"
    /\ tpc' = [tpc EXCEPT ![t] = "lock"]
    /\ UNCHANGED <<io_newjobs, io_processed, io_mutex, pipe, tc, mpc, mc>>
    /\ UNCHANGED clientVars

threadGet(t) ==
    /\ tpc[t] = "check"
    /\ io_newjobs # << >>
    /\ tc' = [tc EXCEPT ![t] = Head(io_newjobs)]
    /\ io_newjobs' = Tail(io_newjobs)
    /\ io_mutex' = NoOne
    /\ tpc' = [tpc EXCEPT ![t] = "proc"]
    /\ UNCHANGED <<io_processed, pipe, mpc, mc>>
    /\ UNCHANGED clientVars

\* The extension's command procedure, without the lock: it leaves a reply in
\* the client (its own module is Backend).
extCmdProc(t) ==
    /\ tpc[t] = "proc"
    /\ \E n \in 1 .. MaxReply : wlen' = [wlen EXCEPT ![tc[t]] = n]
    /\ tpc' = [tpc EXCEPT ![t] = "done_lock"]
    /\ UNCHANGED <<live, clients, mask, rbuf, wpos>>
    /\ UNCHANGED <<io_newjobs, io_processed, io_mutex, pipe, tc, mpc, mc>>

threadDone(t) ==
    /\ tpc[t] = "done_add"
    /\ io_processed' = Append(io_processed, tc[t])
    /\ io_mutex' = NoOne
    /\ tpc' = [tpc EXCEPT ![t] = "pipe"]
    /\ tc' = [tc EXCEPT ![t] = NoOne]
    /\ UNCHANGED <<io_newjobs, pipe, mpc, mc>>
    /\ UNCHANGED clientVars

\* The write end of the pipe blocks when the pipe is full.
pipeWrite(t) ==
    /\ tpc[t] = "pipe"
    /\ pipe < PipeCap
    /\ pipe' = pipe + 1
    /\ tpc' = [tpc EXCEPT ![t] = "lock"]
    /\ UNCHANGED <<io_newjobs, io_processed, io_mutex, tc, mpc, mc>>
    /\ UNCHANGED clientVars

-----------------------------------------------------------------------------
Init ==
    /\ live = {}
    /\ clients = 0
    /\ mask = [c \in Clients |-> {}]
    /\ rbuf = [c \in Clients |-> "null"]
    /\ wlen = [c \in Clients |-> 0]
    /\ wpos = [c \in Clients |-> 0]
    /\ io_newjobs = << >>
    /\ io_processed = << >>
    /\ io_mutex = NoOne
    /\ pipe = 0
    /\ mpc = "loop"
    /\ mc = NoOne
    /\ tpc = [t \in Threads |-> "init"]
    /\ tc = [t \in Threads |-> NoOne]

IOThreadEntryPoint(t) ==
    \/ threadInit(t)
    \/ threadLock(t)
    \/ waitThreadedIO(t)
    \/ threadGet(t)
    \/ extCmdProc(t)
    \/ threadDone(t)
    \/ pipeWrite(t)

queueIOJob == queueLock \/ queueAdd \/ noticeThreadedIO

vmThreadedIOCompletedJob ==
    pipeReadable \/ pipeRead \/ completedLock \/ completedPop \/ completedEvent

clientHandler(c) ==
    acceptHandler(c) \/ readQueryFromClient(c) \/ sendReplyToClient(c)

Next ==
    \/ \E c \in Clients : clientHandler(c)
    \/ queueIOJob
    \/ vmThreadedIOCompletedJob
    \/ \E t \in Threads : IOThreadEntryPoint(t) \/ spuriousWakeup(t)

Spec == Init /\ [][Next]_vars

(***************************************************************************)
(* Fairness.  The kernel runs every runnable thread (weak fairness) and    *)
(* does not starve a thread that keeps finding the mutex taken (strong     *)
(* fairness on taking it).  An iteration of the event loop dispatches      *)
(* every descriptor epoll reports, so a readable pipe is served even when  *)
(* clients keep the loop busy (strong fairness on pipeReadable).  Nothing  *)
(* is assumed of the clients or of spurious wake-ups.                      *)
(***************************************************************************)
Fairness ==
    /\ SF_vars(pipeReadable)
    /\ SF_vars(queueLock) /\ WF_vars(queueAdd) /\ WF_vars(noticeThreadedIO)
    /\ WF_vars(pipeRead) /\ SF_vars(completedLock)
    /\ WF_vars(completedPop) /\ WF_vars(completedEvent)
    /\ \A t \in Threads : SF_vars(threadLock(t)) /\ WF_vars(IOThreadEntryPoint(t))

FairSpec == Spec /\ Fairness

-----------------------------------------------------------------------------
TypeOK ==
    /\ live \in SUBSET Clients
    /\ clients \in Int
    /\ mask \in [Clients -> Masks]
    /\ rbuf \in [Clients -> {"null", "partial", "full"}]
    /\ wlen \in [Clients -> 0 .. MaxReply]
    /\ wpos \in [Clients -> 0 .. MaxReply]
    /\ io_newjobs \in Seq(Clients)
    /\ io_processed \in Seq(Clients)
    /\ io_mutex \in Threads \cup {Main, NoOne}
    /\ pipe \in 0 .. PipeCap
    /\ mpc \in MainPC
    /\ mc \in Clients \cup {NoOne}
    /\ tpc \in [Threads -> ThreadPC]
    /\ tc \in [Threads -> Clients \cup {NoOne}]

(***************************************************************************)
(* Who has a client in hand.                                               *)
(***************************************************************************)
HoldingPC == {"proc", "done_lock", "done_add"}

InList(s, c)  == \E i \in DOMAIN s : s[i] = c
Queued(c)     == InList(io_newjobs, c)
Processed(c)  == InList(io_processed, c)
HeldByThread(c, t) == tpc[t] \in HoldingPC /\ tc[t] = c
HeldByMain(c) == mpc \in {"q_lock", "q_add", "p_event"} /\ mc = c

Pending(c) == \/ Queued(c) \/ Processed(c) \/ HeldByMain(c)
              \/ \E t \in Threads : HeldByThread(c, t)

\* Threads that have queued their client and owe the pipe a byte, and the byte
\* the main thread has read for a client it has not taken yet.
Writers    == {t \in Threads : tpc[t] = "pipe"}
ByteInHand == IF mpc \in {"p_lock", "p_pop"} THEN 1 ELSE 0

NoDuplicates(s) == \A i, j \in DOMAIN s : i # j => s[i] # s[j]

(***************************************************************************)
(* A client handed over by readQueryFromClient is in one place only until  *)
(* sendReplyToClient gets it: one list, one I/O thread, or the main        *)
(* thread's hand.  All that time it is allocated and the event loop holds  *)
(* no event for it, so no handler can free it or read into its buffer      *)
(* while a thread works on it (redis.c keeps this only by deleting         *)
(* AE_READABLE before queueIOJob).                                         *)
(***************************************************************************)
SingleOwner ==
    /\ NoDuplicates(io_newjobs)
    /\ NoDuplicates(io_processed)
    /\ \A c \in Clients : ~(Queued(c) /\ Processed(c))
    /\ \A c \in Clients, t \in Threads :
          HeldByThread(c, t) =>
             /\ ~Queued(c) /\ ~Processed(c)
             /\ \A u \in Threads : HeldByThread(c, u) => u = t
    /\ \A c \in Clients :
          HeldByMain(c) =>
             /\ ~Queued(c) /\ ~Processed(c)
             /\ \A t \in Threads : ~HeldByThread(c, t)
    /\ \A c \in Clients :
          /\ Pending(c) => c \in live /\ mask[c] = {}
          /\ mask[c] # {} => c \in live

(***************************************************************************)
(* Whoever reads or changes a job list holds io_mutex, and it is held by   *)
(* nobody else: each critical section is one step of this module only      *)
(* because of this.                                                        *)
(***************************************************************************)
MutualExclusion ==
    /\ mpc \in {"q_add", "p_pop", "aborted"} <=> io_mutex = Main
    /\ \A t \in Threads : tpc[t] \in {"check", "done_add"} <=> io_mutex = t

(***************************************************************************)
(* One byte per finished job: the bytes in the pipe, those still to be     *)
(* written by threads that have queued their client, and the one the main  *)
(* thread has just read add up to the length of io_processed ("For every   *)
(* byte we read in the read side of the pipe, there is one I/O job         *)
(* completed to process").                                                 *)
(***************************************************************************)
PipeAccounts ==
    Len(io_processed) = pipe + Cardinality(Writers) + ByteInHand

(***************************************************************************)
(* assert(listLength(server.io_processed) != 0) never stops the server.    *)
(***************************************************************************)
AssertHolds == mpc # "aborted"

(***************************************************************************)
(* Although queueIOJob signals after it has released the lock, and only    *)
(* one thread per job, no job is left in io_newjobs while a thread sleeps: *)
(* as long as some thread sleeps, every queued job has an awake thread on  *)
(* its way to the list, or the signal still to come.                       *)
(***************************************************************************)
Awake == {t \in Threads : tpc[t] \in {"init", "lock", "check"}}

WorkConserving ==
    Waiting # {} =>
        Len(io_newjobs) <= Cardinality(Awake) + (IF mpc = "q_signal" THEN 1 ELSE 0)

(***************************************************************************)
(* The buffers a job carries.  The command procedure appends its reply at  *)
(* wbuf + wlen, so it must find wlen = 0, and the write handler starts at  *)
(* wpos = 0 of a reply that is not empty: a client that serves a second    *)
(* request on the same connection carries nothing over from the first.     *)
(***************************************************************************)
JobBuffers ==
    \A c \in Clients :
        /\ Pending(c) => rbuf[c] = "full" /\ wpos[c] = 0
        /\ \/ Queued(c)
           \/ HeldByMain(c) /\ mpc # "p_event"
           \/ \E t \in Threads : HeldByThread(c, t) /\ tpc[t] = "proc"
           => wlen[c] = 0
        /\ \/ Processed(c)
           \/ HeldByMain(c) /\ mpc = "p_event"
           \/ \E t \in Threads : HeldByThread(c, t) /\ tpc[t] # "proc"
           => wlen[c] > 0
        /\ W \in mask[c] => wpos[c] < wlen[c]

(***************************************************************************)
(* Every client whose request was queued gets its reply handed to the      *)
(* write handler: no lost wake-up, no byte without its job, nobody waiting *)
(* for everybody when the pipe is full.                                    *)
(***************************************************************************)
EveryJobCompletes ==
    \A c \in Clients : Pending(c) ~> W \in mask[c]

(***************************************************************************)
(* The threads, lists, pipe and events implement the request service.      *)
(***************************************************************************)
stateOf(c) ==
    CASE c \notin live   -> "absent"
      [] c \in live /\ Pending(c)    -> "pending"
      [] c \in live /\ ~Pending(c) /\ W \in mask[c] -> "replying"
      [] c \in live /\ ~Pending(c) /\ mask[c] = {R}  -> "idle"
      [] OTHER -> "stranded"

serviceState == [c \in Clients |-> stateOf(c)]

Service == INSTANCE RequestService
             WITH Conns <- Clients, MayStrand <- EpollMayFail, state <- serviceState

ImplementsService == Service!Spec

=============================================================================
