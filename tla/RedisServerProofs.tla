------------------------- MODULE RedisServerProofs -------------------------
(***************************************************************************)
(* Proofs about redis-server's threaded I/O, for any number of clients and *)
(* threads and any width of the thread counter, and about the socket calls *)
(* of anet.c, for any number of calling threads and of descriptors.        *)
(*                                                                         *)
(* Of the threads: what io_newjobs loses without the lock never reaches    *)
(* the completion path, whose account (completed jobs = bytes in the pipe  *)
(* + threads that owe one + the byte in hand) is inductive by itself.      *)
(*                                                                         *)
(* Of the sockets: a call's frame says how far it has come (Frames); each  *)
(* descriptor has one owner, the call that opened it or the caller it was  *)
(* returned to (Owners); and no step of another thread changes the state   *)
(* of a socket that was returned (Promises).                               *)
(***************************************************************************)
EXTENDS OnDemandIO, Anet, FiniteSetTheorems, TLAPS

-----------------------------------------------------------------------------
(* Threaded I/O. *)

\* What listFirst, listDelNode and listAddNodeTail do to a list's length.
LEMMA ListLengths ==
    ASSUME NEW S, NEW s \in Seq(S)
    PROVE  /\ Len(s) \in Nat
           /\ s # << >> => Head(s) \in S /\ Tail(s) \in Seq(S)
                           /\ Len(s) > 0 /\ Len(Tail(s)) = Len(s) - 1
           /\ \A e \in S : Append(s, e) \in Seq(S) /\ Len(Append(s, e)) = Len(s) + 1
OBVIOUS

\* Whoever is about to put a client into a list has one, and a thread that
\* has unlinked a node has seen a len of one at least.
HandsOK ==
    /\ mpc \in {"q_len", "q_link", "q_load", "q_store", "p_event"} => mc \in Clients
    /\ \A t \in Threads :
         /\ tpc[t] \in {"del_store", "proc", "done_lock", "done_add"} => tc[t] \in Clients
         /\ tpc[t] = "del_store" => treg[t] > 0

\* Threads about to write their byte, and the byte the main thread has read.
Writers    == {t \in Threads : tpc[t] = "pipe"}
ByteInHand == IF mpc \in {"p_lock", "p_pop"} THEN 1 ELSE 0

\* The inductive invariant of the completion path.
PipeInv == ioTypeOK /\ HandsOK /\ PipeAccounts /\ mpc # "aborted"

\* io_active_threads stays an unsigned number.
LEMMA UIntRange == ASSUME NEW n \in Int PROVE n % UIntMod \in 0 .. UIntMod - 1
BY OnDemandIOAssumption

\* initServer leaves empty lists and no thread.
LEMMA InitPipeInv == ioInit => PipeInv
<1> SUFFICES ASSUME ioInit PROVE PipeInv
  OBVIOUS
<1> USE OnDemandIOAssumption DEF ioInit
<1>1. ioTypeOK
  BY DEF ioTypeOK, MainPC, ThreadPC
<1>2. HandsOK
  BY DEF HandsOK
<1>3. Writers = {}
  BY DEF Writers
<1>4. Cardinality(Writers) = 0 /\ Len(io_processed) = 0
  BY <1>3, FS_EmptySet
<1>5. PipeAccounts
  BY <1>4 DEF PipeAccounts, Writers
<1> QED
  BY <1>1, <1>2, <1>5 DEF PipeInv

-----------------------------------------------------------------------------
(* Types. *)

\* The end of the process changes nothing else.
LEMMA CrashTypes == ioTypeOK /\ HandsOK /\ crash => ioTypeOK' /\ HandsOK'
BY DEF crash, clientVars, threadVars, ioTypeOK, HandsOK, MainPC

\* The handlers of client events keep the types.
LEMMA ClientTypes ==
    ASSUME ioTypeOK, HandsOK, NEW c \in Clients,
           acceptHandler(c) \/ readQueryFromClient(c) \/ sendReplyToClient(c)
    PROVE  ioTypeOK' /\ HandsOK'
<1> USE DEF ioTypeOK, HandsOK, ioVars, threadVars, MainPC, createClient, freeClient, resetClient
<1>1. CASE acceptHandler(c)
  BY <1>1 DEF acceptHandler
<1>2. CASE readQueryFromClient(c)
  BY <1>2 DEF readQueryFromClient
<1>3. CASE sendReplyToClient(c)
  BY <1>3 DEF sendReplyToClient
<1> QED
  BY <1>1, <1>2, <1>3

\* queueIOJob and spawnIOThread, without the lock, keep the types.
LEMMA QueueTypes ==
    ASSUME ioTypeOK, HandsOK, queueIOJob \/ spawn
    PROVE  ioTypeOK' /\ HandsOK'
<1> USE DEF clientVars, threadVars, MainPC
<1>1. CASE listAddNodeTail /\ queueIOJob
  <2>1. mc \in Clients => <<mc>> \in Seq(Clients) /\ Append(nodes, mc) \in Seq(Clients)
    BY DEF ioTypeOK
  <2>2. UNCHANGED <<io_processed, io_mutex, pipe, io_active_threads, mc, live, cmask, full, tpc, tc, treg>>
    BY <1>1 DEF queueIOJob, listAddNodeTail, crash
  <2>3. mpc \in {"q_len", "q_link", "q_load", "q_store"}
        /\ mpc' \in {"q_link", "q_load", "q_store", "s_test"}
    BY <1>1 DEF listAddNodeTail
  <2>4. nodes' \in {nodes, <<mc>>, Append(nodes, mc)} /\ len' \in {len, mreg + 1}
        /\ mreg' \in {len, mreg}
    BY <1>1 DEF listAddNodeTail
  <2>5. mc \in Clients /\ nodes \in Seq(Clients) /\ len \in Nat /\ mreg \in Nat
    BY <2>3 DEF ioTypeOK, HandsOK
  <2>6. nodes' \in Seq(Clients)
    BY <2>1, <2>4, <2>5
  <2>7. len' \in Nat /\ mreg' \in Nat
    BY <2>4, <2>5
  <2> QED
    BY <2>2, <2>3, <2>5, <2>6, <2>7 DEF ioTypeOK, HandsOK
<1>2. CASE crash
  BY <1>2, CrashTypes
<1>3. CASE spawn
  <2>1. mpc = "s_store" => io_active_threads' \in 0 .. UIntMod - 1
    BY <1>3, UIntRange DEF spawn, spawnIOThread, ioTypeOK
  <2>2. tpc' = tpc \/ \E t \in Threads : tpc' = [tpc EXCEPT ![t] = "lock"]
    BY <1>3 DEF spawn, spawnIOThread
  <2>3. tpc' \in [Threads -> ThreadPC]
        /\ \A t \in Threads : tpc'[t] \in {tpc[t], "lock"}
    BY <2>2 DEF ioTypeOK, ThreadPC
  <2>4. mreg' \in Nat /\ io_active_threads' \in 0 .. UIntMod - 1
        /\ mpc' \in {"s_load", "s_store", "loop"}
    BY <1>3, <2>1, OnDemandIOAssumption DEF spawn, spawnIOThread, ioTypeOK
  <2>5. UNCHANGED <<live, cmask, full, nodes, len, io_processed, io_mutex, pipe, mc, tc, treg>>
    BY <1>3 DEF spawn
  <2> QED
    BY <2>3, <2>4, <2>5 DEF ioTypeOK, HandsOK
<1> QED
  BY <1>1, <1>2, <1>3 DEF queueIOJob

\* The completion handler keeps the types.
LEMMA JobTypes ==
    ASSUME ioTypeOK, HandsOK, vmThreadedIOCompletedJob
    PROVE  ioTypeOK' /\ HandsOK'
<1> USE DEF clientVars, threadVars, ioVars, MainPC, ioTypeOK, HandsOK
<1>1. CASE pipeReadable
  BY <1>1 DEF pipeReadable
<1>2. CASE pipeRead
  BY <1>2 DEF pipeRead
<1>3. CASE completedLock
  BY <1>3 DEF completedLock
<1>4. CASE completedPop
  BY <1>4, ListLengths DEF completedPop
<1>5. CASE completedEvent
  BY <1>5 DEF completedEvent
<1> QED
  BY <1>1, <1>2, <1>3, <1>4, <1>5 DEF vmThreadedIOCompletedJob

\* The I/O threads keep the types; the len a thread stores is one less than the one it saw.
LEMMA ThreadTypes ==
    ASSUME ioTypeOK, HandsOK, NEW t \in Threads, IOThreadEntryPoint(t)
    PROVE  ioTypeOK' /\ HandsOK'
<1> USE DEF clientVars, mainVars, ioVars, ThreadPC, ioTypeOK, HandsOK
<1>1. CASE threadLock(t)
  BY <1>1 DEF threadLock
<1>2. CASE threadCheck(t)
  <2>1. nodes # << >> => Head(nodes) \in Clients /\ Tail(nodes) \in Seq(Clients)
    BY ListLengths
  <2>2. CASE len = 0
    BY <1>2, <2>2 DEF threadCheck
  <2>3. CASE len # 0
    <3>1. UNCHANGED <<live, cmask, full, len, io_processed, io_mutex, pipe, io_active_threads, mpc, mc, mreg>>
      BY <1>2 DEF threadCheck
    <3>2. nodes' \in Seq(Clients)
      BY <1>2, <2>1, <2>3 DEF threadCheck
    <3>3. PICK c \in Clients : tc' = [tc EXCEPT ![t] = c]
      BY <1>2, <2>1, <2>3 DEF threadCheck
    <3>4. treg' = [treg EXCEPT ![t] = len] /\ tpc' = [tpc EXCEPT ![t] = "del_store"]
      BY <1>2, <2>3 DEF threadCheck
    <3>5. /\ tc' \in [Threads -> Clients \cup {NoOne}] /\ treg' \in [Threads -> Nat]
          /\ tpc' \in [Threads -> ThreadPC] /\ len > 0
      BY <2>3, <3>3, <3>4
    <3> HIDE DEF ThreadPC
    <3> QED
      BY <3>1, <3>2, <3>3, <3>4, <3>5
  <2> QED
    BY <2>2, <2>3
<1>3. CASE crash
  BY <1>3, CrashTypes
<1>4. CASE threadGot(t)
  BY <1>4 DEF threadGot
<1>5. CASE threadExit(t)
  <2>1. CASE tpc[t] = "exit_load"
    <3>1. io_active_threads \in Nat
      BY OnDemandIOAssumption
    <3> QED
      BY <1>5, <2>1, <3>1 DEF threadExit
  <2>2. CASE tpc[t] = "exit_store"
    <3>1. io_active_threads' \in 0 .. UIntMod - 1
      BY <1>5, <2>2, UIntRange DEF threadExit
    <3>2. UNCHANGED <<live, cmask, full, nodes, len, io_processed, pipe, mpc, mc, mreg, tc>>
          /\ io_mutex' = NoOne
      BY <1>5 , <2>2 DEF threadExit
    <3>3. tpc' = [tpc EXCEPT ![t] = "dead"] /\ treg' = [treg EXCEPT ![t] = 0]
      BY <1>5, <2>2 DEF threadExit
    <3>4. treg' \in [Threads -> Nat] /\ tpc' \in [Threads -> ThreadPC]
      BY <3>3
    <3> HIDE DEF ThreadPC
    <3> QED
      BY <3>1, <3>2, <3>3, <3>4
  <2> QED
    BY <1>5, <2>1, <2>2 DEF threadExit
<1>6. CASE processCommand(t) /\ ~crash
  BY <1>6 DEF processCommand
<1>7. CASE threadDone(t)
  <2>1. Append(io_processed, tc[t]) \in Seq(Clients)
    BY <1>7, ListLengths DEF threadDone
  <2> QED
    BY <1>7, <2>1 DEF threadDone
<1>8. CASE pipeWrite(t)
  BY <1>8 DEF pipeWrite
<1> QED
  BY <1>1, <1>2, <1>3, <1>4, <1>5, <1>6, <1>7, <1>8
     DEF IOThreadEntryPoint, threadCrash, processCommand

-----------------------------------------------------------------------------
(* The account of io_processed and the pipe. *)

\* The threads that owe the pipe a byte can be counted.
LEMMA WritersFinite == IsFiniteSet(Writers) /\ Cardinality(Writers) \in Nat
<1>1. Writers \in SUBSET Threads
  BY DEF Writers
<1> QED
  BY <1>1, OnDemandIOAssumption, FS_Subset, FS_CardinalityType

\* The account as a sum of four numbers.
LEMMA PipeStep ==
    ASSUME ioTypeOK, PipeAccounts, mpc # "crashed",
           NEW n \in Int, NEW w \in Int, NEW b \in Int, NEW p \in Int,
           Len(io_processed') = Len(io_processed) + n,
           Cardinality(Writers') = Cardinality(Writers) + w,
           ByteInHand' = ByteInHand + b,
           pipe' = pipe + p,
           n = p + w + b
    PROVE  PipeAccounts'
<1>1. Len(io_processed) \in Nat /\ pipe \in Nat /\ ByteInHand \in Nat
  BY DEF ioTypeOK, ByteInHand
<1>2. Len(io_processed) = pipe + Cardinality(Writers) + ByteInHand
  BY DEF PipeAccounts, Writers, ByteInHand
<1>3. Len(io_processed') = pipe' + Cardinality(Writers') + ByteInHand'
  BY <1>1, <1>2, WritersFinite
<1> QED
  BY <1>3 DEF PipeAccounts, Writers, ByteInHand

\* A step that leaves the four numbers alone keeps the account.
LEMMA PipeFrame ==
    ASSUME ioTypeOK, PipeAccounts, mpc # "crashed", Writers' = Writers,
           ByteInHand' = ByteInHand, UNCHANGED <<io_processed, pipe>>
    PROVE  PipeAccounts'
BY DEF PipeAccounts, Writers, ByteInHand

\* The steps of the main thread that are not about the pipe.
LEMMA EventPipe ==
    ASSUME PipeInv,
           \/ \E c \in Clients :
                acceptHandler(c) \/ readQueryFromClient(c) \/ sendReplyToClient(c)
           \/ queueIOJob \/ spawn
    PROVE  PipeAccounts' /\ mpc' # "aborted"
<1> USE DEF PipeInv, ByteInHand, ioVars, threadVars
<1>1. CASE crash
  BY <1>1 DEF crash, PipeAccounts
<1>2. ASSUME NEW c \in Clients,
             acceptHandler(c) \/ readQueryFromClient(c) \/ sendReplyToClient(c)
      PROVE  PipeAccounts' /\ mpc' # "aborted"
  <2>1. Writers' = Writers
    BY <1>2 DEF acceptHandler, readQueryFromClient, sendReplyToClient, Writers
  <2>2. ByteInHand' = ByteInHand /\ mpc # "crashed" /\ mpc' # "aborted"
        /\ UNCHANGED <<io_processed, pipe>>
    BY <1>2 DEF acceptHandler, readQueryFromClient, sendReplyToClient
  <2> QED
    BY <2>1, <2>2, PipeFrame
<1>3. CASE queueIOJob /\ ~crash
  <2>1. Writers' = Writers
    BY <1>3 DEF queueIOJob, Writers
  <2>2. ByteInHand' = ByteInHand /\ mpc # "crashed" /\ mpc' # "aborted"
        /\ UNCHANGED <<io_processed, pipe>>
    BY <1>3 DEF queueIOJob, listAddNodeTail
  <2> QED
    BY <2>1, <2>2, PipeFrame
<1>4. CASE spawn
  <2>1. Writers' = Writers
    BY <1>4 DEF spawn, spawnIOThread, Writers, ioTypeOK
  <2>2. ByteInHand' = ByteInHand /\ mpc # "crashed" /\ mpc' # "aborted"
        /\ UNCHANGED <<io_processed, pipe>>
    BY <1>4 DEF spawn, spawnIOThread
  <2> QED
    BY <2>1, <2>2, PipeFrame
<1> QED
  BY <1>1, <1>2, <1>3, <1>4

\* The completion handler: a byte leaves the pipe into its hand, and from there
\* a client leaves io_processed, which therefore is not empty.
LEMMA JobPipe ==
    ASSUME PipeInv, vmThreadedIOCompletedJob
    PROVE  PipeAccounts' /\ mpc' # "aborted"
<1> USE DEF PipeInv, ioVars, threadVars
<1>1. Writers' = Writers /\ mpc # "crashed"
  <2>1. tpc' = tpc /\ mpc # "crashed"
    BY DEF vmThreadedIOCompletedJob, pipeReadable, pipeRead, completedLock,
           completedPop, completedEvent
  <2> QED
    BY <2>1 DEF Writers
<1>2. CASE pipeReadable
  BY <1>1, <1>2, PipeFrame DEF pipeReadable, ByteInHand
<1>3. CASE pipeRead
  <2>1. CASE pipe > 0
    <3>1. pipe' = pipe + (-1) /\ ByteInHand' = ByteInHand + 1 /\ mpc' # "aborted"
      BY <1>3, <2>1 DEF pipeRead, ByteInHand, ioTypeOK
    <3>2. Len(io_processed') = Len(io_processed) + 0
      BY <1>3 DEF pipeRead, ioTypeOK
    <3> QED
      BY <1>1, <3>1, <3>2, WritersFinite, PipeStep
  <2>2. CASE ~(pipe > 0)
    BY <1>1, <1>3, <2>2, PipeFrame DEF pipeRead, ByteInHand
  <2> QED
    BY <2>1, <2>2
<1>4. CASE completedLock
  BY <1>1, <1>4, PipeFrame DEF completedLock, ByteInHand
<1>5. CASE completedPop
  <2>1. Len(io_processed) = pipe + Cardinality(Writers) + 1 /\ pipe \in Nat
    BY <1>5 DEF completedPop, PipeAccounts, Writers, ioTypeOK
  <2>2. io_processed # << >>
    BY <2>1, WritersFinite
  <2>3. Len(Tail(io_processed)) = Len(io_processed) - 1 /\ Len(io_processed) \in Nat
    BY <2>2, ListLengths DEF ioTypeOK
  <2>4. Len(io_processed') = Len(io_processed) + (-1) /\ mpc' # "aborted"
    BY <1>5, <2>2, <2>3 DEF completedPop
  <2>5. pipe' = pipe + 0 /\ ByteInHand' = ByteInHand + (-1)
    BY <1>5, <2>1, <2>2 DEF completedPop, ByteInHand
  <2> QED
    BY <1>1, <2>4, <2>5, WritersFinite, PipeStep
<1>6. CASE completedEvent
  BY <1>1, <1>6, PipeFrame DEF completedEvent, ByteInHand
<1> QED
  BY <1>2, <1>3, <1>4, <1>5, <1>6 DEF vmThreadedIOCompletedJob

\* The threads: a client enters io_processed and its thread owes a byte; the
\* byte enters the pipe and the thread owes nothing.
LEMMA ThreadPipe ==
    ASSUME PipeInv, Running, NEW t \in Threads, IOThreadEntryPoint(t)
    PROVE  PipeAccounts' /\ mpc' # "aborted"
<1> USE DEF PipeInv
<1>1. mpc # "crashed"
  BY DEF Running
<1>2. ASSUME mpc' = mpc PROVE ByteInHand' = ByteInHand /\ mpc' # "aborted"
  BY <1>2 DEF ByteInHand
<1>3. CASE crash
  BY <1>3 DEF crash, PipeAccounts
<1>4. CASE threadLock(t) \/ threadCheck(t) \/ threadGot(t) \/ threadExit(t)
           \/ (processCommand(t) /\ ~crash)
  <2>1. Writers' = Writers
    BY <1>4 DEF threadLock, threadCheck, threadGot, threadExit, processCommand,
                Writers, ioTypeOK
  <2>2. mpc' = mpc /\ UNCHANGED <<io_processed, pipe>>
    BY <1>4 DEF threadLock, threadCheck, threadGot, threadExit, processCommand,
                mainVars, ioVars
  <2> QED
    BY <1>1, <1>2, <2>1, <2>2, PipeFrame
<1>5. CASE threadDone(t)
  <2>1. Writers' = Writers \cup {t} /\ t \notin Writers
    BY <1>5 DEF threadDone, Writers, ioTypeOK
  <2>2. Cardinality(Writers') = Cardinality(Writers) + 1
    BY <2>1, WritersFinite, FS_AddElement
  <2>3. mpc' = mpc /\ pipe' = pipe + 0
    BY <1>5 DEF threadDone, mainVars, ioTypeOK
  <2>4. tc[t] \in Clients
    BY <1>5 DEF threadDone, HandsOK
  <2>5. Len(io_processed') = Len(io_processed) + 1
    BY <1>5, <2>4, ListLengths DEF threadDone, ioTypeOK
  <2>6. ByteInHand' = ByteInHand + 0
    BY <1>2, <2>3 DEF ByteInHand
  <2> QED
    BY <1>1, <1>2, <2>2, <2>3, <2>5, <2>6, PipeStep
<1>6. CASE pipeWrite(t)
  <2>1. Writers' = Writers \ {t} /\ t \in Writers
    BY <1>6 DEF pipeWrite, Writers, ioTypeOK
  <2>2. Cardinality(Writers') = Cardinality(Writers) + (-1)
    BY <2>1, WritersFinite, FS_RemoveElement
  <2>3. mpc' = mpc /\ pipe' = pipe + 1
    BY <1>6 DEF pipeWrite, mainVars
  <2>4. Len(io_processed') = Len(io_processed) + 0
    BY <1>6 DEF pipeWrite, ioTypeOK
  <2>5. ByteInHand' = ByteInHand + 0
    BY <1>2, <2>3 DEF ByteInHand
  <2> QED
    BY <1>1, <1>2, <2>2, <2>3, <2>4, <2>5, PipeStep
<1> QED
  BY <1>3, <1>4, <1>5, <1>6
     DEF IOThreadEntryPoint, threadCrash, processCommand

\* Every step keeps the types and the account.
LEMMA NextPipeInv == PipeInv /\ [ioNext]_ioThreadVars => PipeInv'
<1> SUFFICES ASSUME PipeInv, [ioNext]_ioThreadVars PROVE PipeInv'
  OBVIOUS
<1>1. ASSUME NEW c \in Clients,
             acceptHandler(c) \/ readQueryFromClient(c) \/ sendReplyToClient(c)
      PROVE  PipeInv'
  BY <1>1, ClientTypes, EventPipe DEF PipeInv
<1>2. CASE queueIOJob \/ spawn
  BY <1>2, QueueTypes, EventPipe DEF PipeInv
<1>3. CASE vmThreadedIOCompletedJob
  BY <1>3, JobTypes, JobPipe DEF PipeInv
<1>4. ASSUME NEW t \in Threads, Running, IOThreadEntryPoint(t) PROVE PipeInv'
  BY <1>4, ThreadTypes, ThreadPipe DEF PipeInv
<1>5. CASE UNCHANGED ioThreadVars
  BY <1>5 DEF ioThreadVars, PipeInv, ioTypeOK, HandsOK, PipeAccounts
<1> QED
  BY <1>1, <1>2, <1>3, <1>4, <1>5 DEF ioNext

\* The types and the account hold of every behaviour.
LEMMA PipeInvAlways == ioSpec => []PipeInv
BY InitPipeInv, NextPipeInv, PTL DEF ioSpec

(***************************************************************************)
(* Under redis-server's unlocked queueing too, the completed jobs, the     *)
(* bytes in the pipe, the threads about to write one and the byte in the   *)
(* main thread's hand stay in step, for any number of clients and threads. *)
(***************************************************************************)
THEOREM PipeStaysInStep == ioSpec => []PipeAccounts
BY PipeInvAlways, PTL DEF PipeInv

(***************************************************************************)
(* redisAssert(listLength(server.io_processed) != 0) in                    *)
(* vmThreadedIOCompletedJob never fails.                                   *)
(***************************************************************************)
THEOREM CompletionNeverAborts == ioSpec => [](mpc # "aborted")
BY PipeInvAlways, PTL DEF PipeInv

-----------------------------------------------------------------------------
(* Socket calls. *)

States == {"closed", "new", "bound", "listening", "connecting", "connected"}
Steps  == {"idle", "set", "move", "socket", "resolve", "nonblock", "connect", "options", "listen", "accept"}
Calls  == Creators \cup Setters \cup Movers

\* The steps of a creator that has opened its socket, and the state it is in then.
Underway == {"resolve", "nonblock", "connect", "options", "listen"}

\* A thread's place in a call.
Frame == [fn : Calls \cup {"none"}, at : Steps, s : Descriptors \cup {ANET_ERR}, totlen : Nat]

\* The thread is in a creator that has opened d.
Works(t, d) == frame[t].fn \in Creators /\ frame[t].s = d

SocketTypes ==
    /\ sockets \in [Descriptors -> States] /\ nonblocking \in SUBSET Descriptors
    /\ frame \in [Callers -> Frame]
    /\ held \in [Callers -> SUBSET Descriptors]
    /\ maker \in [Descriptors -> Calls \cup {"none"}] /\ stray \in Nat

\* What the step a function is at says of the function, and of its socket.
Fits(t) ==
    /\ frame[t].at = "idle" => frame[t].fn \notin Creators
    /\ frame[t].at \in {"set", "move"} => frame[t].fn \notin Creators /\ frame[t].s # ANET_ERR
    /\ frame[t].at \in Underway => frame[t].fn \in Creators /\ frame[t].s # ANET_ERR
    /\ frame[t].at \in {"socket", "accept"} => frame[t].s = ANET_ERR
    /\ frame[t].at = "socket" => frame[t].fn \in {"anetTcpServer", "anetTcpConnect", "anetTcpNonBlockConnect"}
    /\ frame[t].at = "accept" => frame[t].fn = "anetAccept"
    /\ frame[t].at \in {"options", "listen"} => frame[t].fn = "anetTcpServer"
    /\ frame[t].at \in {"resolve", "nonblock", "connect"} => frame[t].fn \in {"anetTcpConnect", "anetTcpNonBlockConnect"}
    /\ frame[t].at = "connect" /\ frame[t].fn = "anetTcpNonBlockConnect" => frame[t].s \in nonblocking

\* Every thread's frame is one a call can be in.
Frames == \A t \in Callers : Fits(t)

\* Open descriptors that no thread knows.
Strays == {d \in Open : \A t \in Callers : d \notin held[t] /\ ~Works(t, d)}

\* One thread owns a descriptor, as its caller or inside a creator, and the
\* rest of the open ones are counted.
Owners ==
    /\ \A d \in Descriptors : \A t, u \in Callers :
         (d \in held[t] \/ Works(t, d)) /\ (d \in held[u] \/ Works(u, d)) => t = u
    /\ \A d \in Descriptors : \A t \in Callers : d \in held[t] \/ Works(t, d) => d \in Open
    /\ \A d \in Descriptors : \A t \in Callers : ~(d \in held[t] /\ Works(t, d))
    /\ Cardinality(Strays) = stray

\* What a caller was given is in the promised state.
Promises == \A t \in Callers : \A d \in held[t] : Made(d)

\* The inductive invariant of the socket calls.
AInv == SocketTypes /\ Frames /\ Owners /\ Promises

\* Only open descriptors can be strays.
LEMMA StraysFinite == IsFiniteSet(Strays)
  BY AnetAssumption, FS_Subset DEF Strays, Open

\* A step that concerns one thread and one descriptor, which was the thread's
\* or closed: ownership stays unique, and the account of strays is off by one
\* exactly when the descriptor is left open and unowned.
LEMMA OnePair ==
    ASSUME Owners, NEW t \in Callers, NEW d \in Descriptors, stray \in Nat,
           \A e \in Descriptors : \A u \in Callers : u # t \/ e # d =>
             /\ e \in held'[u] <=> e \in held[u]
             /\ Works(u, e)' <=> Works(u, e),
           \A e \in Descriptors \ {d} : e \in Open' <=> e \in Open,
           d \in held[t] \/ Works(t, d) \/ d \notin Open,
           ~(d \in held'[t] /\ Works(t, d)'),
           d \in held'[t] \/ Works(t, d)' => d \in Open',
           d \in Open' /\ d \notin held'[t] /\ ~Works(t, d)' => stray' = stray + 1,
           d \notin Open' \/ d \in held'[t] \/ Works(t, d)' => stray' = stray
    PROVE  Owners'
<1>1. \A u \in Callers : u # t => ~(d \in held[u] \/ Works(u, d))
  BY DEF Owners
<1>2. Strays' \in {Strays, Strays \cup {d}} /\ d \notin Strays
  BY <1>1 DEF Strays, Open
<1>3. Cardinality(Strays') = stray'
  <2>1. CASE d \in Open' /\ d \notin held'[t] /\ ~Works(t, d)'
    <3>1. Strays' = Strays \cup {d}
      BY <2>1, <1>1, <1>2 DEF Strays, Open
    <3> QED
      BY <2>1, <3>1, <1>2, StraysFinite, FS_AddElement DEF Owners
  <2>2. CASE d \notin Open' \/ d \in held'[t] \/ Works(t, d)'
    <3>1. Strays' = Strays
      BY <2>2, <1>2 DEF Strays, Open
    <3> QED
      BY <2>2, <3>1 DEF Owners
  <2> QED
    BY <2>1, <2>2
<1> QED
  BY <1>1, <1>3 DEF Owners

\* A step that changes which call a thread is in and no owner of a descriptor.
LEMMA NoPair ==
    ASSUME Owners, \A t \in Callers, d \in Descriptors :
             (d \in held'[t] <=> d \in held[t]) /\ (Works(t, d)' <=> Works(t, d)),
           Open' = Open, stray' = stray
    PROVE  Owners'
<1>1. Strays' = Strays
  BY DEF Strays, Open
<1> QED
  BY <1>1 DEF Owners

\* The sockets a thread was given keep what their functions promised when another changes.
LEMMA KeepsPromises ==
    ASSUME SocketTypes, Promises, NEW d \in Descriptors, \A t \in Callers : d \notin held'[t],
           \A t \in Callers : held'[t] \subseteq held[t],
           \A e \in Descriptors \ {d} : sockets'[e] = sockets[e] /\ maker'[e] = maker[e],
           nonblocking \subseteq nonblocking' \cup {d}
    PROVE  Promises'
<1> SUFFICES ASSUME NEW t \in Callers, NEW e \in held'[t] PROVE Made(e)'
  BY DEF Promises
<1>1. e \in held[t] /\ e \in Descriptors \ {d}
  BY DEF SocketTypes, Frame
<1>2. Made(e) /\ sockets'[e] = sockets[e] /\ maker'[e] = maker[e] /\ (e \in nonblocking => e \in nonblocking')
  BY <1>1 DEF Promises
<1> QED
  BY <1>2 DEF Made

\* A step that gives, closes and changes no socket keeps what was promised.
LEMMA SamePromises ==
    ASSUME Promises, held' = held, sockets' = sockets, maker' = maker, nonblocking \subseteq nonblocking'
    PROVE  Promises'
  BY DEF Promises, Made

\* close(fd) by the thread that owns the descriptor, as a caller or inside a call.
LEMMA Closes ==
    ASSUME AInv, NEW t \in Callers, NEW d \in Descriptors, d \in held[t] \/ Works(t, d),
           close(d), stray' = stray, held' \in [Callers -> SUBSET Descriptors], Frames',
           frame' \in [Callers -> Frame],
           held'[t] = held[t] \ {d}, ~Works(t, d)',
           \A e \in Descriptors : e # d => (Works(t, e)' <=> Works(t, e)),
           \A u \in Callers \ {t} : held'[u] = held[u] /\ frame'[u] = frame[u]
    PROVE  AInv'
<1>1. SocketTypes'
  BY DEF AInv, SocketTypes, Frame, close, States
<1>2. Open' = Open \ {d}
  BY DEF AInv, SocketTypes, Frame, close, Open
<1>3. Owners'
  BY <1>2, OnePair DEF AInv, SocketTypes, Frame, Works
<1>4. \A u \in Callers : held'[u] \subseteq held[u] /\ d \notin held'[u]
  BY DEF AInv, Owners
<1>5. Promises'
  BY <1>4, KeepsPromises DEF AInv, SocketTypes, Frame, close
<1> QED
  BY <1>1, <1>3, <1>5 DEF AInv

\* An error path that closes the socket the function has opened.
LEMMA FailCloses ==
    ASSUME AInv, NEW t \in Callers, frame[t].at \in Underway, closeAndFail(t)
    PROVE  AInv'
<1> PICK d \in Descriptors : d = frame[t].s
  BY DEF AInv, SocketTypes, Frame, Frames, Fits
<1>1. Works(t, d) /\ d \notin held[t]
  BY DEF AInv, SocketTypes, Frame, Frames, Fits, Owners, Works
<1>2. frame' = [frame EXCEPT ![t] = NoCall] /\ close(d) /\ held' = held /\ stray' = stray
  BY DEF closeAndFail, leave
<1>3. NoCall \in Frame
  BY DEF NoCall, Frame, Steps
<1>4. frame' \in [Callers -> Frame]
  BY <1>2, <1>3 DEF AInv, SocketTypes, Frame
<1>5. \A e \in Descriptors : e # d => (Works(t, e)' <=> Works(t, e))
  BY <1>2, AnetAssumption DEF AInv, SocketTypes, Frame, Works, NoCall, Creators
<1>6. ~Works(t, d)'
  BY <1>2 DEF AInv, SocketTypes, Frame, Works, NoCall, Creators
<1>7. nonblocking' = nonblocking \ {d} /\ \A u \in Callers \ {t} : frame[u].at \in Underway => frame[u].s # d
  BY <1>1, <1>2 DEF AInv, Owners, Frames, Fits, SocketTypes, Frame, close, Works
<1>8. Frames'
  BY <1>2, <1>7 DEF AInv, Frames, Fits, SocketTypes, Frame, NoCall, Creators, Underway
<1>9. \A u \in Callers \ {t} : held'[u] = held[u] /\ frame'[u] = frame[u]
  BY <1>2 DEF AInv, SocketTypes, Frame
<1>10. held' \in [Callers -> SUBSET Descriptors] /\ held'[t] = held[t] \ {d}
  BY <1>1, <1>2 DEF AInv, SocketTypes, Frame
<1> QED
  BY <1>1, <1>2, <1>4, <1>5, <1>6, <1>8, <1>9, <1>10, Closes

\* A creator hands its socket, in the state it promises, to the caller.
LEMMA Gives ==
    ASSUME AInv, NEW t \in Callers, NEW d \in Descriptors, NEW state \in States \ {"closed"},
           Works(t, d) \/ (d \notin Open /\ frame[t].s = ANET_ERR), frame[t].fn \in Creators,
           IF frame[t].fn = "anetTcpServer" THEN state = "listening"
           ELSE IF frame[t].fn = "anetTcpNonBlockConnect"
           THEN d \in nonblocking /\ state \in {"connecting", "connected"} ELSE state = "connected",
           give(t, d, state)
    PROVE  AInv'
<1>1. /\ frame' = [frame EXCEPT ![t] = NoCall] /\ sockets' = [sockets EXCEPT ![d] = state]
      /\ maker' = [maker EXCEPT ![d] = frame[t].fn] /\ held' = [held EXCEPT ![t] = @ \cup {d}]
      /\ nonblocking' = nonblocking /\ stray' = stray
  BY DEF give, leave
<1>2. NoCall \in Frame
  BY DEF NoCall, Frame, Steps
<1>3. SocketTypes'
  BY <1>1, <1>2 DEF AInv, SocketTypes, Frame, Calls
<1>4. Frames'
  BY <1>1 DEF AInv, Frames, Fits, SocketTypes, Frame, NoCall, Creators, Underway
<1>5. /\ Open' = Open \cup {d} /\ d \notin held[t]
      /\ \A u \in Callers \ {t} : d \notin held[u]
  BY <1>1 DEF AInv, SocketTypes, Frame, Owners, Open, Works
<1>6. \A e \in Descriptors : \A u \in Callers : u # t \/ e # d =>
         (e \in held'[u] <=> e \in held[u]) /\ (Works(u, e)' <=> Works(u, e))
  BY <1>1, AnetAssumption DEF AInv, SocketTypes, Frame, Works, NoCall, Creators, ANET_ERR
<1>7. d \in held'[t] /\ ~Works(t, d)'
  BY <1>1 DEF AInv, SocketTypes, Frame, Works, NoCall, Creators
<1>8. Owners'
  BY <1>1, <1>5, <1>6, <1>7, OnePair DEF AInv, SocketTypes, Frame
<1>9. Promises'
  <2> SUFFICES ASSUME NEW u \in Callers, NEW e \in held'[u] PROVE Made(e)'
    BY DEF Promises
  <2>1. CASE e = d
    <3>1. maker'[d] = frame[t].fn /\ sockets'[d] = state
      BY <1>1 DEF AInv, SocketTypes, Frame
    <3> QED
      BY <1>1, <2>1, <3>1 DEF Made
  <2>2. CASE e # d
    <3>1. e \in held[u] /\ e \in Descriptors
      BY <1>1, <2>2 DEF AInv, SocketTypes, Frame
    <3>2. Made(e) /\ sockets'[e] = sockets[e] /\ maker'[e] = maker[e]
      BY <1>1, <2>2, <3>1 DEF AInv, SocketTypes, Frame, Promises
    <3> QED
      BY <1>1, <3>2 DEF Made
  <2> QED
    BY <2>1, <2>2
<1> QED
  BY <1>3, <1>4, <1>8, <1>9 DEF AInv

\* A step after which a thread's call works on the same socket as before.
LEMMA StaysAInv ==
    ASSUME AInv, NEW t \in Callers, NEW f \in Frame, frame' = [frame EXCEPT ![t] = f],
           \A d \in Descriptors : (f.fn \in Creators /\ f.s = d) <=> Works(t, d),
           UNCHANGED <<sockets, held, maker, stray>>,
           nonblocking' \in SUBSET Descriptors, nonblocking \subseteq nonblocking', Frames'
    PROVE  AInv'
<1>1. SocketTypes'
  BY DEF AInv, SocketTypes, Frame
<1>2. \A u \in Callers, d \in Descriptors : Works(u, d)' <=> Works(u, d)
  BY DEF AInv, SocketTypes, Frame, Works
<1>3. Owners'
  BY <1>2, NoPair DEF AInv, Open
<1>4. Promises'
  BY SamePromises DEF AInv
<1> QED
  BY <1>1, <1>3, <1>4 DEF AInv

\* A step of one thread does not change what the frames of the others say.
LEMMA OtherFits ==
    ASSUME AInv, NEW t \in Callers, NEW u \in Callers, u # t,
           frame'[u] = frame[u], nonblocking \subseteq nonblocking'
    PROVE  Fits(u)'
  BY DEF AInv, Frames, Fits

\* A caller starts a call, or closes a descriptor it was given.
LEMMA IdleStep ==
    ASSUME AInv, NEW t \in Callers, call(t) \/ callerCloses(t)
    PROVE  AInv'
<1>1. CASE call(t)
  <2>1. PICK fn \in Creators \cup Setters \cup Movers, d \in held[t] \cup {ANET_ERR} :
          /\ fn \in Setters \cup Movers <=> d # ANET_ERR
          /\ frame' = [frame EXCEPT ![t] = [fn |-> fn, at |-> FirstStep(fn), s |-> d, totlen |-> 0]]
    BY <1>1 DEF call
  <2> DEFINE f == [fn |-> fn, at |-> FirstStep(fn), s |-> d, totlen |-> 0]
  <2>2. FirstStep(fn) = IF fn \in Setters THEN "set" ELSE IF fn \in Movers THEN "move"
                        ELSE IF fn = "anetAccept" THEN "accept" ELSE "socket"
    BY <2>1 DEF FirstStep, Setters, Movers
  <2>3. f \in Frame /\ d \in Descriptors \cup {ANET_ERR}
    BY <2>2 DEF AInv, SocketTypes, Frame, Calls, Steps
  <2>4. fn \in Creators => d = ANET_ERR /\ ANET_ERR \notin Descriptors
    BY <2>1, AnetAssumption DEF Creators, Setters, Movers, ANET_ERR
  <2>5. frame[t].fn \notin Creators
    BY <1>1 DEF AInv, Frames, Fits, call
  <2>6. \A e \in Descriptors : (f.fn \in Creators /\ f.s = e) <=> Works(t, e)
    BY <2>4, <2>5 DEF Works
  <2>7. Frames'
    <3> SUFFICES ASSUME NEW u \in Callers PROVE Fits(u)'
      BY DEF Frames
    <3>1. CASE u = t
      <4>1. frame'[u] = f /\ f.fn = fn /\ f.at = FirstStep(fn) /\ f.s = d
        BY <2>1, <3>1 DEF AInv, SocketTypes, Frame
      <4> HIDE DEF f
      <4> QED
        BY <4>1, <2>1, <2>2, <2>4 DEF Fits, Underway, Creators, Setters, Movers
    <3>2. CASE u # t
      BY <2>1, <3>2, <1>1, OtherFits DEF AInv, SocketTypes, call, socketVars
    <3> QED
      BY <3>1, <3>2
  <2> HIDE DEF f
  <2> QED
    BY <1>1, <2>1, <2>3, <2>6, <2>7, StaysAInv DEF AInv, SocketTypes, Frame, call, socketVars, f
<1>2. CASE callerCloses(t)
  <2>1. PICK d \in held[t] : close(d) /\ held' = [held EXCEPT ![t] = @ \ {d}]
    BY <1>2 DEF callerCloses
  <2>2. frame' = frame /\ stray' = stray /\ d \in Descriptors
    BY <1>2, <2>1 DEF AInv, SocketTypes, Frame, callerCloses
  <2>3. \A u \in Callers : \A e \in Descriptors : Works(u, e)' <=> Works(u, e)
    BY <2>2 DEF Works
  <2>4. ~Works(t, d)
    BY <2>1, <2>2 DEF AInv, Owners
  <2>5. nonblocking' = nonblocking \ {d} /\ \A u \in Callers : frame[u].at \in Underway => frame[u].s # d
    BY <2>1, <2>2, <2>4 DEF AInv, Owners, Frames, Fits, SocketTypes, Frame, close, Works
  <2>6. Frames'
    BY <2>2, <2>5 DEF AInv, Frames, Fits, Underway
  <2>7. held' \in [Callers -> SUBSET Descriptors] /\ held'[t] = held[t] \ {d}
    BY <2>1, <2>2 DEF AInv, SocketTypes, Frame
  <2>8. \A u \in Callers \ {t} : held'[u] = held[u] /\ frame'[u] = frame[u]
    BY <2>1, <2>2 DEF AInv, SocketTypes, Frame
  <2>9. frame' \in [Callers -> Frame]
    BY <2>2 DEF AInv, SocketTypes, Frame
  <2> QED
    BY <2>1, <2>2, <2>3, <2>4, <2>6, <2>7, <2>8, <2>9, Closes
<1> QED
  BY <1>1, <1>2

\* Between calls a frame names no creator.
LEMMA NoCallFits == NoCall \in Frame /\ NoCall.fn \notin Creators
  BY DEF NoCall, Frame, Steps, Creators

\* A call returns without having a socket of its own.
LEMMA Leaves ==
    ASSUME AInv, NEW t \in Callers, leave(t), UNCHANGED <<sockets, held, maker, stray>>,
           frame[t].fn \notin Creators \/ frame[t].s = ANET_ERR,
           nonblocking' \in SUBSET Descriptors, nonblocking \subseteq nonblocking'
    PROVE  AInv'
<1>1. frame' = [frame EXCEPT ![t] = NoCall]
  BY DEF leave
<1>2. \A d \in Descriptors : ~Works(t, d)
  BY AnetAssumption DEF Works, ANET_ERR
<1>3. Frames'
  <2> SUFFICES ASSUME NEW u \in Callers PROVE Fits(u)'
    BY DEF Frames
  <2>1. CASE u = t
    <3>1. frame'[u] = NoCall
      BY <1>1, <2>1 DEF AInv, SocketTypes
    <3> QED
      BY <3>1 DEF Fits, NoCall, Creators, Underway
  <2>2. CASE u # t
    BY <1>1, <2>2, OtherFits DEF AInv, SocketTypes
  <2> QED
    BY <2>1, <2>2
<1> QED
  BY <1>1, <1>2, <1>3, NoCallFits, StaysAInv

\* A connecting call goes on to the next step with the same socket.
LEMMA Goes ==
    ASSUME AInv, NEW t \in Callers, NEW step \in Steps, goto(t, step), UNCHANGED <<sockets, held, maker, stray>>,
           frame[t].at \in Underway, step \in {"connect", "nonblock"}, frame[t].fn \in {"anetTcpConnect", "anetTcpNonBlockConnect"},
           step = "connect" /\ frame[t].fn = "anetTcpNonBlockConnect" => frame[t].s \in nonblocking',
           nonblocking' \in SUBSET Descriptors, nonblocking \subseteq nonblocking'
    PROVE  AInv'
<1> PICK f \in Frame : f = [frame[t] EXCEPT !.at = step]
  BY DEF AInv, SocketTypes, Frame
<1>1. f.fn = frame[t].fn /\ f.s = frame[t].s /\ f.at = step
  BY DEF AInv, SocketTypes, Frame
<1>2. frame' = [frame EXCEPT ![t] = f]
  BY DEF goto
<1>3. Frames'
  <2> SUFFICES ASSUME NEW u \in Callers PROVE Fits(u)'
    BY DEF Frames
  <2>1. CASE u = t
    <3>1. frame'[u] = f
      BY <1>2, <2>1 DEF AInv, SocketTypes
    <3> QED
      BY <1>1, <3>1 DEF AInv, Frames, Fits, Creators, Underway
  <2>2. CASE u # t
    BY <1>2, <2>2, OtherFits DEF AInv, SocketTypes
  <2> QED
    BY <2>1, <2>2
<1> QED
  BY <1>1, <1>2, <1>3, StaysAInv DEF Works

\* The calls that set an option on a descriptor of the caller.
LEMMA OptionStep ==
    ASSUME AInv, NEW t \in Callers, setOption(t)
    PROVE  AInv'
<1>1. nonblocking' \in SUBSET Descriptors /\ nonblocking \subseteq nonblocking'
  BY AnetAssumption DEF AInv, SocketTypes, Frame, Frames, Fits, setOption
<1> QED
  BY <1>1, Leaves DEF AInv, Frames, Fits, setOption

\* socket(2) fails, or gives a descriptor that nobody knew.
LEMMA SocketStep ==
    ASSUME AInv, NEW t \in Callers, socket(t)
    PROVE  AInv'
<1>1. frame[t].at = "socket" /\ frame[t].s = ANET_ERR /\ nonblocking' = nonblocking
      /\ frame[t].fn \in {"anetTcpServer", "anetTcpConnect", "anetTcpNonBlockConnect"}
      /\ UNCHANGED <<held, maker, stray>>
  BY DEF AInv, Frames, Fits, socket
<1>2. CASE leave(t) /\ UNCHANGED sockets
  BY <1>1, <1>2, Leaves DEF AInv, SocketTypes
<1>3. ASSUME NEW d \in Descriptors, Lowest(d), sockets' = [sockets EXCEPT ![d] = "new"],
             frame' = [frame EXCEPT ![t].s = d,
               ![t].at = IF frame[t].fn = "anetTcpServer" THEN "options" ELSE "resolve"]
      PROVE  AInv'
  <2>1. /\ frame'[t].fn = frame[t].fn /\ frame'[t].s = d
        /\ frame'[t].at = IF frame[t].fn = "anetTcpServer" THEN "options" ELSE "resolve"
        /\ \A u \in Callers \ {t} : frame'[u] = frame[u]
    BY <1>3 DEF AInv, SocketTypes, Frame
  <2>2. frame' \in [Callers -> Frame]
    BY <1>1, <1>3 DEF AInv, SocketTypes, Frame, Steps
  <2>3. SocketTypes'
    BY <1>1, <1>3, <2>2 DEF AInv, SocketTypes, States
  <2>4. Frames'
    <3> SUFFICES ASSUME NEW u \in Callers PROVE Fits(u)'
      BY DEF Frames
    <3>1. CASE u = t
      BY <1>1, <2>1, <3>1, AnetAssumption DEF Fits, Creators, Underway, ANET_ERR
    <3>2. CASE u # t
      BY <1>1, <2>1, <3>2, OtherFits
    <3> QED
      BY <3>1, <3>2
  <2>5. d \notin Open /\ Open' = Open \cup {d}
    BY <1>3 DEF AInv, SocketTypes, Open, Lowest
  <2>6. \A e \in Descriptors : Works(t, e) = FALSE /\ (Works(t, e)' <=> e = d)
    BY <1>1, <2>1, AnetAssumption DEF Works, Creators, ANET_ERR
  <2>7. d \notin held[t] /\ \A u \in Callers : d \notin held[u]
    BY <2>5 DEF AInv, Owners
  <2>8. \A e \in Descriptors : \A u \in Callers : u # t \/ e # d =>
          (e \in held'[u] <=> e \in held[u]) /\ (Works(u, e)' <=> Works(u, e))
    BY <1>1, <2>1, <2>6 DEF Works
  <2>9. Owners'
    BY <1>1, <2>5, <2>6, <2>7, <2>8, OnePair DEF AInv, SocketTypes
  <2>10. Promises'
    BY <1>1, <1>3, <2>7, KeepsPromises DEF AInv, SocketTypes
  <2> QED
    BY <2>3, <2>4, <2>9, <2>10 DEF AInv
<1> QED
  BY <1>2, <1>3 DEF socket

\* The name is resolved and connect(2) is called.
LEMMA ConnectStep ==
    ASSUME AInv, NEW t \in Callers, resolve(t) \/ connect(t)
    PROVE  AInv'
<1>1. frame[t].at \in Underway /\ frame[t].fn \in {"anetTcpConnect", "anetTcpNonBlockConnect"}
  BY DEF AInv, Frames, Fits, resolve, connect, Underway
<1>2. CASE closeAndFail(t)
  BY <1>1, <1>2, FailCloses
<1>3. CASE resolve(t) /\ ~closeAndFail(t)
  <2> PICK step \in {"connect", "nonblock"} :
         step = IF frame[t].fn = "anetTcpNonBlockConnect" THEN "nonblock" ELSE "connect"
    OBVIOUS
  <2>1. goto(t, step) /\ UNCHANGED <<sockets, held, maker, stray, nonblocking>>
    BY <1>3 DEF resolve, socketVars
  <2> QED
    BY <1>1, <2>1, Goes DEF AInv, SocketTypes, Steps
<1>4. CASE connect(t) /\ ~closeAndFail(t)
  <2> PICK d \in Descriptors : d = frame[t].s
    BY <1>1 DEF AInv, SocketTypes, Frame, Frames, Fits
  <2>1. PICK state \in States \ {"closed"} :
          /\ give(t, d, state)
          /\ \/ state = "connected"
             \/ frame[t].fn = "anetTcpNonBlockConnect" /\ state = "connecting"
    BY <1>4 DEF connect, States
  <2>2. Works(t, d) /\ frame[t].fn \in Creators
    BY <1>1 DEF Works, Creators
  <2>3. frame[t].fn = "anetTcpNonBlockConnect" => d \in nonblocking
    BY <1>4 DEF AInv, Frames, Fits, connect
  <2> QED
    BY <1>1, <2>1, <2>2, <2>3, Gives
<1> QED
  BY <1>2, <1>3, <1>4

\* anetNonBlock inside a connecting call: where it fails, the function returns
\* without closing the socket, and the count of strays goes up with it.
LEMMA NonBlockStep ==
    ASSUME AInv, NEW t \in Callers, makeNonBlock(t)
    PROVE  AInv'
<1>1. /\ frame[t].at = "nonblock" /\ frame[t].at \in Underway /\ UNCHANGED <<sockets, held, maker>>
      /\ frame[t].fn \in {"anetTcpConnect", "anetTcpNonBlockConnect"}
  BY DEF AInv, Frames, Fits, makeNonBlock, Underway
<1> PICK d \in Descriptors : d = frame[t].s
  BY <1>1 DEF AInv, SocketTypes, Frame, Frames, Fits
<1>2. CASE nonblocking' = nonblocking \cup {d} /\ goto(t, "connect") /\ UNCHANGED stray
  BY <1>1, <1>2, Goes DEF AInv, SocketTypes, Steps
<1>3. CASE leave(t) /\ stray' = stray + 1 /\ UNCHANGED nonblocking
  <2>1. frame' = [frame EXCEPT ![t] = NoCall]
    BY <1>3 DEF leave
  <2>2. SocketTypes'
    BY <1>1, <1>3, <2>1, NoCallFits DEF AInv, SocketTypes
  <2>3. Frames'
    <3> SUFFICES ASSUME NEW u \in Callers PROVE Fits(u)'
      BY DEF Frames
    <3>1. CASE u = t
      <4>1. frame'[u] = NoCall
        BY <2>1, <3>1 DEF AInv, SocketTypes
      <4> QED
        BY <4>1 DEF Fits, NoCall, Creators, Underway
    <3>2. CASE u # t
      BY <1>3, <2>1, <3>2, OtherFits DEF AInv, SocketTypes
    <3> QED
      BY <3>1, <3>2
  <2>4. Works(t, d) /\ d \in Open /\ d \notin held[t] /\ Open' = Open
    BY <1>1 DEF AInv, Owners, Works, Open, Creators
  <2>5. \A e \in Descriptors : ~Works(t, e)' /\ (Works(t, e) => e = d)
    BY <2>1, NoCallFits DEF AInv, SocketTypes, Works
  <2>6. \A e \in Descriptors : \A u \in Callers : u # t \/ e # d =>
          (e \in held'[u] <=> e \in held[u]) /\ (Works(u, e)' <=> Works(u, e))
    BY <1>1, <2>1, <2>5 DEF AInv, SocketTypes, Works
  <2>7. Owners'
    BY <1>1, <1>3, <2>4, <2>5, <2>6, OnePair DEF AInv, SocketTypes
  <2>8. Promises'
    BY <1>1, <1>3, SamePromises DEF AInv
  <2> QED
    BY <2>2, <2>3, <2>7, <2>8 DEF AInv
<1> QED
  BY <1>2, <1>3 DEF makeNonBlock

\* bind, listen and accept.
LEMMA ServerStep ==
    ASSUME AInv, NEW t \in Callers, anetTcpServer(t) \/ anetAccept(t)
    PROVE  AInv'
<1>1. CASE closeAndFail(t) /\ frame[t].at \in {"options", "listen"}
  BY <1>1, FailCloses DEF Underway
<1>2. ASSUME frame[t].at = "options", goto(t, "listen"), sockets' = [sockets EXCEPT ![frame[t].s] = "bound"],
             UNCHANGED <<nonblocking, held, maker, stray>>
      PROVE  AInv'
  <2> PICK d \in Descriptors : d = frame[t].s
    BY <1>2 DEF AInv, SocketTypes, Frame, Frames, Fits, Underway
  <2>1. Works(t, d) /\ d \in Open /\ \A u \in Callers : d \notin held[u]
    BY <1>2 DEF AInv, Frames, Fits, Owners, Works, Underway
  <2>2. /\ frame'[t].fn = frame[t].fn /\ frame'[t].s = d /\ frame'[t].at = "listen"
        /\ \A u \in Callers \ {t} : frame'[u] = frame[u]
    BY <1>2 DEF AInv, SocketTypes, Frame, goto
  <2>3. SocketTypes'
    BY <1>2 DEF AInv, SocketTypes, Frame, States, Steps, goto
  <2>4. Frames'
    <3> SUFFICES ASSUME NEW u \in Callers PROVE Fits(u)'
      BY DEF Frames
    <3>1. CASE u = t
      BY <1>2, <2>2, <3>1, AnetAssumption DEF AInv, Frames, Fits, Creators, Underway, ANET_ERR
    <3>2. CASE u # t
      BY <1>2, <2>2, <3>2, OtherFits
    <3> QED
      BY <3>1, <3>2
  <2>5. Open' = Open
    BY <1>2, <2>1 DEF AInv, SocketTypes, Open
  <2>6. \A u \in Callers, e \in Descriptors : Works(u, e)' <=> Works(u, e)
    BY <2>2 DEF Works
  <2>7. Owners'
    BY <1>2, <2>5, <2>6, NoPair DEF AInv
  <2>8. Promises'
    BY <1>2, <2>1, KeepsPromises DEF AInv, SocketTypes
  <2> QED
    BY <2>3, <2>4, <2>7, <2>8 DEF AInv
<1>3. CASE frame[t].at = "listen" /\ give(t, frame[t].s, "listening")
  <2> PICK d \in Descriptors : d = frame[t].s
    BY <1>3 DEF AInv, SocketTypes, Frame, Frames, Fits, Underway
  <2>1. Works(t, d) /\ frame[t].fn = "anetTcpServer" /\ frame[t].fn \in Creators
    BY <1>3 DEF AInv, Frames, Fits, Works, Creators
  <2> PICK state \in States \ {"closed"} : state = "listening"
    BY DEF States
  <2> QED
    BY <1>3, <2>1, Gives
<1>4. CASE anetAccept(t)
  <2>1. frame[t].fn = "anetAccept" /\ frame[t].fn \in Creators /\ frame[t].s = ANET_ERR
    BY <1>4 DEF AInv, Frames, Fits, anetAccept, Creators
  <2>2. CASE leave(t) /\ UNCHANGED <<held, stray, socketVars>>
    BY <2>1, <2>2, Leaves DEF AInv, SocketTypes, socketVars
  <2>3. ASSUME NEW d \in Descriptors, Lowest(d), give(t, d, "connected") PROVE AInv'
    <3> PICK state \in States \ {"closed"} : state = "connected"
      BY DEF States
    <3>1. d \notin Open
      BY <2>3 DEF Lowest
    <3> QED
      BY <2>1, <2>3, <3>1, Gives
  <2> QED
    BY <1>4, <2>2, <2>3 DEF anetAccept
<1> QED
  BY <1>1, <1>2, <1>3, <1>4 DEF anetTcpServer

\* One read or write of anetRead and anetWrite.
LEMMA TransferStep ==
    ASSUME AInv, NEW t \in Callers, transfer(t)
    PROVE  AInv'
<1>1. frame[t].at = "move" /\ frame[t].fn \notin Creators /\ UNCHANGED <<sockets, held, maker, stray, nonblocking>>
  BY DEF AInv, Frames, Fits, transfer, socketVars
<1>2. ASSUME NEW n \in 1 .. Asked - frame[t].totlen, frame' = [frame EXCEPT ![t].totlen = @ + n] PROVE AInv'
  <2>4. frame[t] \in Frame /\ frame[t].totlen \in Nat
    BY DEF AInv, SocketTypes, Frame
  <2>5. frame[t].totlen + n \in Nat
    BY <2>4, AnetAssumption
  <2> PICK f \in Frame : f = [frame[t] EXCEPT !.totlen = @ + n]
    BY <2>4, <2>5 DEF Frame
  <2>1. frame' = [frame EXCEPT ![t] = f]
    BY <1>2
  <2>3. f.fn = frame[t].fn /\ f.at = frame[t].at /\ f.s = frame[t].s
    BY DEF AInv, SocketTypes, Frame
  <2>2. Frames'
    <3> SUFFICES ASSUME NEW u \in Callers PROVE Fits(u)'
      BY DEF Frames
    <3>1. CASE u = t
      BY <1>1, <2>1, <2>3, <3>1 DEF AInv, SocketTypes, Frames, Fits
    <3>2. CASE u # t
      BY <1>1, <2>1, <3>2, OtherFits DEF AInv, SocketTypes
    <3> QED
      BY <3>1, <3>2
  <2> QED
    BY <1>1, <2>1, <2>2, <2>3, StaysAInv DEF AInv, SocketTypes, Works
<1> QED
  BY <1>1, <1>2, Leaves DEF AInv, SocketTypes, transfer

\* A connection in progress is made.
LEMMA ProgressStep ==
    ASSUME AInv, connectEnds
    PROVE  AInv'
<1>1. PICK d \in Open : sockets[d] = "connecting" /\ sockets' = [sockets EXCEPT ![d] = "connected"]
  BY DEF connectEnds
<1>2. UNCHANGED <<nonblocking, frame, held, maker, stray>> /\ d \in Descriptors
  BY <1>1 DEF connectEnds, Open
<1>3. SocketTypes' /\ Open' = Open
  BY <1>1, <1>2 DEF AInv, SocketTypes, Open, States
<1>4. Frames'
  BY <1>2 DEF AInv, Frames, Fits
<1>5. Owners'
  BY <1>2, <1>3, NoPair DEF AInv, Works
<1>6. Promises'
  <2> SUFFICES ASSUME NEW u \in Callers, NEW e \in held[u] PROVE Made(e)'
    BY <1>2 DEF Promises
  <2>1. Made(e) /\ e \in Descriptors
    BY DEF AInv, SocketTypes, Promises
  <2> QED
    BY <1>1, <1>2, <2>1 DEF AInv, SocketTypes, Made
<1> QED
  BY <1>3, <1>4, <1>5, <1>6 DEF AInv

\* No socket is open and no call is under way.
LEMMA InitAInv == anetInit => AInv
<1> SUFFICES ASSUME anetInit PROVE AInv
  OBVIOUS
<1>1. SocketTypes /\ Frames /\ Promises
  BY NoCallFits DEF anetInit, SocketTypes, Frames, Fits, Promises, NoCall, States, Underway, Creators
<1>2. Strays = {} /\ Cardinality({}) = 0
  BY FS_EmptySet DEF anetInit, Strays, Open
<1>3. Owners
  BY <1>2, NoCallFits DEF anetInit, Owners, Works
<1> QED
  BY <1>1, <1>3 DEF AInv

\* Every step of the calls, their callers and the kernel keeps the invariant.
LEMMA NextAInv == AInv /\ [anetNext]_anetVars => AInv'
<1> SUFFICES ASSUME AInv, [anetNext]_anetVars PROVE AInv'
  OBVIOUS
<1>1. CASE UNCHANGED anetVars
  <2>1. UNCHANGED <<sockets, nonblocking, frame, held, maker, stray>>
    BY <1>1 DEF anetVars
  <2>2. SocketTypes' /\ Frames' /\ Promises'
    BY <2>1 DEF AInv, SocketTypes, Frames, Fits, Promises, Made
  <2>3. Owners'
    BY <2>1, NoPair DEF AInv, Open, Works
  <2> QED
    BY <2>2, <2>3 DEF AInv
<1> QED
  BY <1>1, ProgressStep, IdleStep, OptionStep, SocketStep, ConnectStep, NonBlockStep, ServerStep, TransferStep
  DEF anetNext

\* The invariant speaks of owners one by one, the property of sets of users.
LEMMA UsersAccounted == AInv => SocketsAccounted
<1> SUFFICES ASSUME AInv PROVE SocketsAccounted
  OBVIOUS
<1>1. \A d \in Descriptors : Users(d) = {t \in Callers : d \in held[t] \/ Works(t, d)}
  BY DEF Users, Works
<1>2. Strays = {d \in Open : Users(d) = {}}
  BY <1>1 DEF Strays, Open
<1>3. \A d \in Descriptors : \A t, u \in Users(d) : t = u
  BY <1>1 DEF AInv, Owners
<1>4. \A d \in Descriptors \ Open : Users(d) = {}
  BY <1>1 DEF AInv, Owners
<1> QED
  BY <1>2, <1>3, <1>4 DEF AInv, Owners, Promises, SocketsAccounted

(***************************************************************************)
(* For any number of threads and descriptors, through every failing call   *)
(* of anet.c: a descriptor has one user at most and only while it is open, *)
(* the ones nobody knows are those of connects that ended at a failing     *)
(* fcntl, and a socket keeps the state its function promised.              *)
(***************************************************************************)
THEOREM SocketsAlwaysAccounted == anetSpec => []SocketsAccounted
<1>1. anetSpec => []AInv
  BY InitAInv, NextAInv, PTL DEF anetSpec
<1> QED
  BY <1>1, UsersAccounted, PTL
=============================================================================
