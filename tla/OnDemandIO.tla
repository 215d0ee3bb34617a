----------------------------- MODULE OnDemandIO -----------------------------
(***************************************************************************)
(* Threaded I/O of redis-server (redis-server/redis.c), the older sibling  *)
(* of redis-proxy: an I/O thread is spawned when a job is queued and fewer *)
(* than vm_max_threads are counted, and exits when it finds io_newjobs     *)
(* empty.                                                                  *)
(*                                                                         *)
(* Two differences matter.  queueIOJob and spawnIOThread touch io_newjobs  *)
(* and io_active_threads without io_mutex, so those updates are split here *)
(* into the loads and stores that can interleave with the threads' locked  *)
(* ones.  And AE_READABLE stays registered while a job is pending, so the  *)
(* event loop can free a client that a list or a thread still holds; the   *)
(* allocator may then give the same structure to the next connection.      *)
(*                                                                         *)
(* The list is its chain of nodes and, apart from it, its len field.       *)
(***************************************************************************)
EXTENDS Integers, Sequences, FiniteSets

CONSTANTS
    Clients,          \* redisClient structures (and their descriptors)
    Threads,          \* thread slots; more than MaxThreads of them
    Main, NoOne,
    MaxThreads,       \* server.vm_max_threads
    UIntMod           \* io_active_threads is unsigned and wraps here

ASSUME OnDemandIOAssumption ==
    /\ IsFiniteSet(Threads)
    /\ MaxThreads \in Nat /\ UIntMod \in Nat \ {0}

VARIABLES
    live, cmask,      \* allocated clients, events registered for each
    full,             \* clients whose rbuf holds a whole request
    nodes, len,       \* io_newjobs: chain of nodes, and the len field
    io_processed, io_mutex, pipe,
    io_active_threads,
    mpc, mc, mreg,    \* main thread: position, client, value loaded
    tpc, tc, treg     \* I/O threads: the same

ioThreadVars == <<live, cmask, full, nodes, len, io_processed, io_mutex, pipe,
          io_active_threads, mpc, mc, mreg, tpc, tc, treg>>

clientVars == <<live, cmask, full>>
threadVars == <<tpc, tc, treg>>

AE_READABLE == "R"
AE_WRITABLE == "W"

MainPC   == {"loop", "q_len", "q_link", "q_load", "q_store", "s_test", "s_load",
             "s_store", "p_read", "p_lock", "p_pop", "p_event", "crashed", "aborted"}
ThreadPC == {"dead", "lock", "check", "del_store", "exit_load", "exit_store",
             "proc", "done_lock", "done_add", "pipe"}

ioInit ==
    /\ live = {} /\ cmask = [c \in Clients |-> {}] /\ full = {}
    /\ nodes = << >> /\ len = 0
    /\ io_processed = << >> /\ io_mutex = NoOne /\ pipe = 0
    /\ io_active_threads = 0
    /\ mpc = "loop" /\ mc = NoOne /\ mreg = 0
    /\ tpc = [t \in Threads |-> "dead"]
    /\ tc = [t \in Threads |-> NoOne] /\ treg = [t \in Threads |-> 0]

\* A dereference of NULL: segvHandler ends the process.
crash ==
    /\ mpc' = "crashed"
    /\ UNCHANGED <<nodes, len, io_processed, io_mutex, pipe, io_active_threads,
                   mc, mreg>>
    /\ UNCHANGED clientVars /\ UNCHANGED threadVars

-----------------------------------------------------------------------------
(* Event handlers of the main thread. *)

ioVars == <<nodes, len, io_processed, io_mutex, pipe, io_active_threads>>

createClient(c) ==
    /\ live' = live \cup {c}
    /\ cmask' = [cmask EXCEPT ![c] = {AE_READABLE}]
    /\ full' = full \ {c}      \* calloc

freeClient(c) ==
    /\ live' = live \ {c}
    /\ cmask' = [cmask EXCEPT ![c] = {}]
    /\ UNCHANGED full

resetClient(c) ==
    /\ cmask' = [cmask EXCEPT ![c] = {AE_READABLE}]
    /\ full' = full \ {c}
    /\ UNCHANGED live

acceptHandler(c) ==
    /\ mpc = "loop" /\ c \notin live
    /\ createClient(c)
    /\ UNCHANGED ioVars /\ UNCHANGED threadVars /\ UNCHANGED <<mpc, mc, mreg>>

\* End of file, an error, or bytes after a whole request free the client;
\* bytes that complete the request queue it.  Fewer bytes change nothing here.
readQueryFromClient(c) ==
    /\ mpc = "loop" /\ AE_READABLE \in cmask[c]
    /\ \/ /\ freeClient(c)
          /\ UNCHANGED <<mpc, mc>>
       \/ /\ c \notin full
          /\ full' = full \cup {c}
          /\ mpc' = "q_len" /\ mc' = c
          /\ UNCHANGED <<live, cmask>>
    /\ UNCHANGED ioVars /\ UNCHANGED threadVars /\ UNCHANGED mreg

\* A short write changes nothing here; a reply of length 0 counts as sent.
sendReplyToClient(c) ==
    /\ mpc = "loop" /\ AE_WRITABLE \in cmask[c]
    /\ freeClient(c) \/ resetClient(c)
    /\ UNCHANGED ioVars /\ UNCHANGED threadVars /\ UNCHANGED <<mpc, mc, mreg>>

-----------------------------------------------------------------------------
(* queueIOJob and spawnIOThread, without the lock. *)

listAddNodeTail ==
    \/ /\ mpc = "q_len"                  \* is len 0?
       /\ mreg' = len /\ mpc' = "q_link"
       /\ UNCHANGED <<nodes, len>>
    \/ /\ mpc = "q_link"                 \* link after the tail seen as such
       /\ mreg = 0 \/ nodes # << >>
       /\ nodes' = IF mreg = 0 THEN <<mc>> ELSE Append(nodes, mc)
       /\ mpc' = "q_load"
       /\ UNCHANGED <<len, mreg>>
    \/ /\ mpc = "q_load"                 \* len++
       /\ mreg' = len /\ mpc' = "q_store"
       /\ UNCHANGED <<nodes, len>>
    \/ /\ mpc = "q_store"
       /\ len' = mreg + 1 /\ mpc' = "s_test"
       /\ UNCHANGED <<nodes, mreg>>

queueIOJob ==
    \/ /\ listAddNodeTail
       /\ UNCHANGED <<io_processed, io_mutex, pipe, io_active_threads, mc>>
       /\ UNCHANGED clientVars /\ UNCHANGED threadVars
    \/ /\ mpc = "q_link" /\ mreg # 0 /\ nodes = << >>   \* list->tail is NULL
       /\ crash

spawnIOThread ==
    \/ /\ mpc = "s_test"
       /\ \/ /\ io_active_threads < MaxThreads
             /\ \E t \in Threads :                      \* pthread_create
                  tpc[t] = "dead" /\ tpc' = [tpc EXCEPT ![t] = "lock"]
             /\ mpc' = "s_load"
          \/ /\ io_active_threads >= MaxThreads
             /\ mpc' = "loop" /\ UNCHANGED tpc
       /\ UNCHANGED <<mreg, io_active_threads>>
    \/ /\ mpc = "s_load"                                \* io_active_threads++
       /\ mreg' = io_active_threads /\ mpc' = "s_store"
       /\ UNCHANGED <<tpc, io_active_threads>>
    \/ /\ mpc = "s_store"
       /\ io_active_threads' = (mreg + 1) % UIntMod /\ mpc' = "loop"
       /\ UNCHANGED <<tpc, mreg>>

spawn ==
    /\ spawnIOThread
    /\ UNCHANGED <<nodes, len, io_processed, io_mutex, pipe, mc, tc, treg>>
    /\ UNCHANGED clientVars

-----------------------------------------------------------------------------
(* vmThreadedIOCompletedJob. *)

\* Mutant of pipeReadable: the byte that woke the handler is not read.
pipeReadableLeaves ==
    /\ mpc = "loop" /\ pipe > 0
    /\ mpc' = "p_lock"
    /\ UNCHANGED ioVars /\ UNCHANGED clientVars /\ UNCHANGED threadVars
    /\ UNCHANGED <<mc, mreg>>

pipeReadable ==
    /\ mpc = "loop" /\ pipe > 0
    /\ mpc' = "p_read"
    /\ UNCHANGED ioVars /\ UNCHANGED clientVars /\ UNCHANGED threadVars
    /\ UNCHANGED <<mc, mreg>>

pipeRead ==
    /\ mpc = "p_read"
    /\ IF pipe > 0
       THEN pipe' = pipe - 1 /\ mpc' = "p_lock"
       ELSE pipe' = pipe     /\ mpc' = "loop"
    /\ UNCHANGED <<nodes, len, io_processed, io_mutex, io_active_threads, mc, mreg>>
    /\ UNCHANGED clientVars /\ UNCHANGED threadVars

completedLock ==
    /\ mpc = "p_lock" /\ io_mutex = NoOne
    /\ io_mutex' = Main /\ mpc' = "p_pop"
    /\ UNCHANGED <<nodes, len, io_processed, pipe, io_active_threads, mc, mreg>>
    /\ UNCHANGED clientVars /\ UNCHANGED threadVars

completedPop ==
    /\ mpc = "p_pop"
    /\ IF io_processed = << >>
       THEN mpc' = "aborted" /\ UNCHANGED <<mc, io_processed, io_mutex>>
       ELSE /\ mc' = Head(io_processed) /\ io_processed' = Tail(io_processed)
            /\ io_mutex' = NoOne /\ mpc' = "p_event"
    /\ UNCHANGED <<nodes, len, pipe, io_active_threads, mreg>>
    /\ UNCHANGED clientVars /\ UNCHANGED threadVars

\* c->fd of a freed client is whatever the memory holds: a closed descriptor
\* (epoll_ctl fails and the handler returns) or one that is open again for
\* another client; or the access ends the process.
completedEvent ==
    /\ mpc = "p_event"
    /\ \/ /\ \E c \in live :
               /\ mc \in live => c = mc
               /\ cmask' = [cmask EXCEPT ![c] = @ \cup {AE_WRITABLE}]
          /\ mpc' = "p_read"
       \/ /\ mc \notin live
          /\ cmask' = cmask
          /\ mpc' \in {"loop", "crashed"}
    /\ UNCHANGED <<live, full, mc, mreg>>
    /\ UNCHANGED ioVars /\ UNCHANGED threadVars

-----------------------------------------------------------------------------
(* IOThreadEntryPoint. *)

mainVars == <<mpc, mc, mreg>>

threadLock(t) ==
    /\ tpc[t] \in {"lock", "done_lock"} /\ io_mutex = NoOne
    /\ io_mutex' = t
    /\ tpc' = [tpc EXCEPT ![t] = IF @ = "lock" THEN "check" ELSE "done_add"]
    /\ UNCHANGED <<nodes, len, io_processed, pipe, io_active_threads, tc, treg>>
    /\ UNCHANGED clientVars /\ UNCHANGED mainVars

\* len is tested; the head is taken and unlinked; len-- is a load and a store.
threadCheck(t) ==
    /\ tpc[t] = "check"
    /\ \/ /\ len = 0
          /\ tpc' = [tpc EXCEPT ![t] = "exit_load"]
          /\ UNCHANGED <<nodes, tc, treg>>
       \/ /\ len # 0 /\ nodes # << >>
          /\ tc' = [tc EXCEPT ![t] = Head(nodes)]
          /\ nodes' = Tail(nodes)
          /\ treg' = [treg EXCEPT ![t] = len]
          /\ tpc' = [tpc EXCEPT ![t] = "del_store"]
    /\ UNCHANGED <<len, io_processed, io_mutex, pipe, io_active_threads>>
    /\ UNCHANGED clientVars /\ UNCHANGED mainVars

\* listFirst is NULL although len is not 0.
threadCrash(t) ==
    /\ tpc[t] = "check" /\ len # 0 /\ nodes = << >>
    /\ crash

threadGot(t) ==
    /\ tpc[t] = "del_store"
    /\ len' = treg[t] - 1
    /\ io_mutex' = NoOne
    /\ tpc' = [tpc EXCEPT ![t] = "proc"]
    /\ UNCHANGED <<nodes, io_processed, pipe, io_active_threads, tc, treg>>
    /\ UNCHANGED clientVars /\ UNCHANGED mainVars

\* Mutant of threadExit: io_active_threads is decremented as a signed number.
threadExitSigned(t) ==
    /\ \/ /\ tpc[t] = "exit_load"
          /\ treg' = [treg EXCEPT ![t] = io_active_threads]
          /\ tpc' = [tpc EXCEPT ![t] = "exit_store"]
          /\ UNCHANGED <<io_active_threads, io_mutex>>
       \/ /\ tpc[t] = "exit_store"
          /\ io_active_threads' = treg[t] - 1
          /\ io_mutex' = NoOne
          /\ tpc' = [tpc EXCEPT ![t] = "dead"]
          /\ treg' = [treg EXCEPT ![t] = 0]
    /\ UNCHANGED <<nodes, len, io_processed, pipe, tc>>
    /\ UNCHANGED clientVars /\ UNCHANGED mainVars

threadExit(t) ==
    /\ \/ /\ tpc[t] = "exit_load"
          /\ treg' = [treg EXCEPT ![t] = io_active_threads]
          /\ tpc' = [tpc EXCEPT ![t] = "exit_store"]
          /\ UNCHANGED <<io_active_threads, io_mutex>>
       \/ /\ tpc[t] = "exit_store"
          /\ io_active_threads' = (treg[t] - 1) % UIntMod
          /\ io_mutex' = NoOne
          /\ tpc' = [tpc EXCEPT ![t] = "dead"]
          /\ treg' = [treg EXCEPT ![t] = 0]
    /\ UNCHANGED <<nodes, len, io_processed, pipe, tc>>
    /\ UNCHANGED clientVars /\ UNCHANGED mainVars

\* The extension copies rbuf to wbuf, in whatever structure c is by now; a
\* freed one may end the process.
processCommand(t) ==
    /\ tpc[t] = "proc"
    /\ \/ /\ tpc' = [tpc EXCEPT ![t] = "done_lock"]
          /\ UNCHANGED <<tc, treg>>
          /\ UNCHANGED clientVars /\ UNCHANGED ioVars /\ UNCHANGED mainVars
       \/ tc[t] \notin live /\ crash

threadDone(t) ==
    /\ tpc[t] = "done_add"
    /\ io_processed' = Append(io_processed, tc[t])
    /\ io_mutex' = NoOne
    /\ tpc' = [tpc EXCEPT ![t] = "pipe"]
    /\ tc' = [tc EXCEPT ![t] = NoOne]
    /\ UNCHANGED <<nodes, len, pipe, io_active_threads, treg>>
    /\ UNCHANGED clientVars /\ UNCHANGED mainVars

pipeWrite(t) ==
    /\ tpc[t] = "pipe"
    /\ pipe' = pipe + 1
    /\ tpc' = [tpc EXCEPT ![t] = "lock"]
    /\ UNCHANGED <<nodes, len, io_processed, io_mutex, io_active_threads, tc, treg>>
    /\ UNCHANGED clientVars /\ UNCHANGED mainVars

IOThreadEntryPoint(t) ==
    \/ threadLock(t) \/ threadCheck(t) \/ threadCrash(t) \/ threadGot(t)
    \/ threadExit(t) \/ processCommand(t) \/ threadDone(t) \/ pipeWrite(t)

vmThreadedIOCompletedJob ==
    pipeReadable \/ pipeRead \/ completedLock \/ completedPop \/ completedEvent

Running == mpc \notin {"crashed", "aborted"}

ioNext ==
    \/ \E c \in Clients :
         acceptHandler(c) \/ readQueryFromClient(c) \/ sendReplyToClient(c)
    \/ queueIOJob
    \/ spawn
    \/ vmThreadedIOCompletedJob
    \/ \E t \in Threads : Running /\ IOThreadEntryPoint(t)

ioSpec == ioInit /\ [][ioNext]_ioThreadVars

-----------------------------------------------------------------------------
ioTypeOK ==
    /\ live \in SUBSET Clients /\ cmask \in [Clients -> SUBSET {AE_READABLE, AE_WRITABLE}]
    /\ full \in SUBSET Clients
    /\ nodes \in Seq(Clients) /\ len \in Nat
    /\ io_processed \in Seq(Clients)
    /\ io_mutex \in Threads \cup {Main, NoOne} /\ pipe \in Nat
    /\ io_active_threads \in 0 .. UIntMod - 1
    /\ mpc \in MainPC /\ mc \in Clients \cup {NoOne} /\ mreg \in Nat
    /\ tpc \in [Threads -> ThreadPC] /\ tc \in [Threads -> Clients \cup {NoOne}]
    /\ treg \in [Threads -> Nat]

(***************************************************************************)
(* io_processed and the pipe, which are used under the lock and in the     *)
(* right order, stay in step whatever happens to io_newjobs, as long as    *)
(* the process has not been ended by a bad pointer: the assertion on the   *)
(* length of io_processed cannot fail.                                     *)
(***************************************************************************)
PipeAccounts ==
    mpc # "crashed" =>
      Len(io_processed) =
        pipe + Cardinality({t \in Threads : tpc[t] = "pipe"})
             + (IF mpc \in {"p_lock", "p_pop"} THEN 1 ELSE 0)

(***************************************************************************)
(* "This function must be called while with threaded IO locked": what the  *)
(* lock would give queueIOJob is that a job it has queued finds a thread.  *)
(* When the main thread is back in its loop and a node is linked in        *)
(* io_newjobs, some I/O thread is still running.                           *)
(***************************************************************************)
NoStrandedJob ==
    mpc = "loop" /\ nodes # << >> => \E t \in Threads : tpc[t] # "dead"

(***************************************************************************)
(* "Post process it in the main thread, as there are things we can do just *)
(* here to avoid race conditions": a client that a list or an I/O thread   *)
(* holds is still allocated.                                               *)
(***************************************************************************)
NoUseAfterFree ==
    /\ \A i \in DOMAIN nodes : nodes[i] \in live
    /\ \A i \in DOMAIN io_processed : io_processed[i] \in live
    /\ \A t \in Threads : tpc[t] = "proc" => tc[t] \in live

=============================================================================
