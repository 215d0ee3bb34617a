-------------------------- MODULE ThreadedIOProofs --------------------------
(***************************************************************************)
(* Proofs about ThreadedIO, for any finite sets of clients and I/O threads, *)
(* any pipe capacity, any limit on clients and any reply length.           *)
(***************************************************************************)
EXTENDS ThreadedIO, FiniteSetTheorems, TLAPS

-----------------------------------------------------------------------------
(* The job lists: what a pop from the head and a push at the tail do. *)

\* Whatever listFirst and listDelNode leave, the list held one element more.
LEMMA ListPop ==
    ASSUME NEW S, NEW s \in Seq(S), s # << >>
    PROVE  /\ Head(s) \in S /\ Tail(s) \in Seq(S)
           /\ Len(s) \in Nat /\ Len(s) > 0 /\ Len(Tail(s)) = Len(s) - 1
           /\ \A c : InList(s, c) <=> c = Head(s) \/ InList(Tail(s), c)
           /\ NoDuplicates(s) =>
                NoDuplicates(Tail(s)) /\ ~InList(Tail(s), Head(s))
<1>1. /\ Head(s) \in S /\ Tail(s) \in Seq(S) /\ Head(s) = s[1]
      /\ Len(s) \in Nat /\ Len(s) > 0 /\ Len(Tail(s)) = Len(s) - 1
      /\ DOMAIN s = 1 .. Len(s) /\ DOMAIN Tail(s) = 1 .. Len(s) - 1
      /\ \A i \in 1 .. Len(s) - 1 : Tail(s)[i] = s[i + 1]
  OBVIOUS
<1>2. ASSUME NEW c PROVE InList(s, c) <=> c = Head(s) \/ InList(Tail(s), c)
  <2>1. ASSUME InList(s, c), c # Head(s) PROVE InList(Tail(s), c)
    <3>1. PICK i \in DOMAIN s : s[i] = c
      BY <2>1 DEF InList
    <3>2. i - 1 \in DOMAIN Tail(s) /\ Tail(s)[i - 1] = c
      BY <1>1, <2>1, <3>1
    <3> QED
      BY <3>2 DEF InList
  <2>2. ASSUME InList(Tail(s), c) PROVE InList(s, c)
    <3>1. PICK i \in DOMAIN Tail(s) : Tail(s)[i] = c
      BY <2>2 DEF InList
    <3>2. i + 1 \in DOMAIN s /\ s[i + 1] = c
      BY <1>1, <3>1
    <3> QED
      BY <3>2 DEF InList
  <2>3. InList(s, Head(s))
    BY <1>1 DEF InList
  <2> QED
    BY <2>1, <2>2, <2>3
<1>3. ASSUME NoDuplicates(s)
      PROVE  NoDuplicates(Tail(s)) /\ ~InList(Tail(s), Head(s))
  BY <1>1, <1>3 DEF NoDuplicates, InList
<1> QED
  BY <1>1, <1>2, <1>3

\* listAddNodeTail adds its value and nothing else.
LEMMA ListPush ==
    ASSUME NEW S, NEW s \in Seq(S), NEW e \in S
    PROVE  /\ Append(s, e) \in Seq(S)
           /\ Len(s) \in Nat /\ Len(Append(s, e)) = Len(s) + 1
           /\ \A c : InList(Append(s, e), c) <=> c = e \/ InList(s, c)
           /\ NoDuplicates(s) /\ ~InList(s, e) => NoDuplicates(Append(s, e))
<1>1. /\ Append(s, e) \in Seq(S)
      /\ Len(s) \in Nat /\ Len(Append(s, e)) = Len(s) + 1
      /\ DOMAIN s = 1 .. Len(s) /\ DOMAIN Append(s, e) = 1 .. Len(s) + 1
      /\ \A i \in 1 .. Len(s) : Append(s, e)[i] = s[i]
      /\ Append(s, e)[Len(s) + 1] = e
  OBVIOUS
<1>2. \A c : InList(Append(s, e), c) <=> c = e \/ InList(s, c)
  BY <1>1 DEF InList
<1>3. NoDuplicates(s) /\ ~InList(s, e) => NoDuplicates(Append(s, e))
  BY <1>1 DEF NoDuplicates, InList
<1> QED
  BY <1>1, <1>2, <1>3

-----------------------------------------------------------------------------
(* Types.  Whoever is between taking a client and passing it on has one in *)
(* hand; without this a list could be given NoOne.                         *)

HandsOK ==
    /\ mpc \in {"q_lock", "q_add", "p_event"} => mc \in Clients
    /\ \A t \in Threads : tpc[t] \in HoldingPC => tc[t] \in Clients

TInv == TypeOK /\ HandsOK

\* initServer leaves empty lists, no client and threads at their start.
LEMMA InitTInv == Init => TInv
<1> SUFFICES ASSUME Init PROVE TInv
  OBVIOUS
<1> USE ThreadedIOAssumption DEF Init
<1>1. mask \in [Clients -> Masks]
  BY DEF Masks
<1>2. TypeOK
  BY <1>1 DEF TypeOK, MainPC, ThreadPC
<1>3. HandsOK
  BY DEF HandsOK, HoldingPC
<1> QED
  BY <1>2, <1>3 DEF TInv

\* What the handlers do to a mask gives a mask.
LEMMA MaskTypes ==
    /\ {} \in Masks /\ {R} \in Masks
    /\ \A m \in Masks : m \ {R} \in Masks /\ m \cup {W} \in Masks
BY DEF Masks

LEMMA MaskUpdate ==
    ASSUME mask \in [Clients -> Masks], NEW c \in Clients
    PROVE  /\ \A m \in Masks : [mask EXCEPT ![c] = m] \in [Clients -> Masks]
           /\ [mask EXCEPT ![c] = @ \ {R}] \in [Clients -> Masks]
           /\ [mask EXCEPT ![c] = @ \cup {W}] \in [Clients -> Masks]
<1>1. \A m \in Masks : [mask EXCEPT ![c] = m] \in [Clients -> Masks]
  OBVIOUS
<1>2. mask[c] \ {R} \in Masks /\ mask[c] \cup {W} \in Masks
  BY MaskTypes
<1> QED
  BY <1>1, <1>2

\* createClient, freeClient and resetClient keep the types of the client.
LEMMA ClientTypes ==
    ASSUME TypeOK, NEW c \in Clients,
           createClient(c) \/ freeClient(c) \/ resetClient(c)
    PROVE  /\ live' \in SUBSET Clients /\ clients' \in Int
           /\ mask' \in [Clients -> Masks]
           /\ rbuf' \in [Clients -> {"null", "partial", "full"}]
           /\ wlen' \in [Clients -> 0 .. MaxReply]
           /\ wpos' \in [Clients -> 0 .. MaxReply]
<1> USE ThreadedIOAssumption, MaskTypes DEF TypeOK
<1>1. CASE createClient(c)
  BY <1>1 DEF createClient
<1>2. CASE freeClient(c)
  BY <1>2 DEF freeClient
<1>3. CASE resetClient(c)
  <2>1. mask' \in [Clients -> Masks]
    <3>1. mask' = [mask EXCEPT ![c] = {R}] \/ mask' = [mask EXCEPT ![c] = {}]
      BY <1>3 DEF resetClient
    <3>2. CASE mask' = [mask EXCEPT ![c] = {R}]
      BY <3>2, MaskUpdate
    <3>3. CASE mask' = [mask EXCEPT ![c] = {}]
      BY <3>3, MaskUpdate
    <3> QED
      BY <3>1, <3>2, <3>3
  <2> QED
    BY <1>3, <2>1 DEF resetClient
<1> QED
  BY <1>1, <1>2, <1>3

\* The handlers of client events keep the types.
LEMMA ClientTInv ==
    ASSUME TInv, NEW c \in Clients, clientHandler(c)
    PROVE  TInv'
<1> USE ThreadedIOAssumption DEF TInv, TypeOK, HandsOK, HoldingPC, MainPC, ioVars
<1>1. CASE acceptHandler(c)
  BY <1>1, ClientTypes DEF acceptHandler
<1>2. CASE readQueryFromClient(c)
  <2>1. PICK verdict \in {"close", "more", "full"} : processInputBuffer(c, verdict)
    BY <1>2 DEF readQueryFromClient
  <2>2. CASE verdict = "close"
    BY <1>2, <2>1, <2>2, ClientTypes DEF readQueryFromClient, processInputBuffer
  <2>3. CASE verdict = "more"
    BY <1>2, <2>1, <2>3 DEF readQueryFromClient, processInputBuffer
  <2>4. CASE verdict = "full"
    <3>0. mask' = [mask EXCEPT ![c] = @ \ {R}]
      BY <2>1, <2>4 DEF processInputBuffer
    <3>1. mask' \in [Clients -> Masks]
      BY <3>0, MaskUpdate
    <3> QED
      BY <1>2, <2>1, <2>4, <3>1 DEF readQueryFromClient, processInputBuffer
  <2> QED
    BY <2>1, <2>2, <2>3, <2>4
<1>3. CASE sendReplyToClient(c)
  <2>1. CASE freeClient(c)
    BY <1>3, <2>1, ClientTypes DEF sendReplyToClient
  <2>2. CASE resetClient(c)
    BY <1>3, <2>2, ClientTypes DEF sendReplyToClient
  <2>3. CASE \E n \in 0 .. wlen[c] - wpos[c] :
               /\ wpos[c] + n # wlen[c]
               /\ wpos' = [wpos EXCEPT ![c] = @ + n]
               /\ UNCHANGED <<live, clients, mask, rbuf, wlen>>
    <3>1. wpos' \in [Clients -> 0 .. MaxReply]
      BY <2>3
    <3> QED
      BY <1>3, <2>3, <3>1 DEF sendReplyToClient
  <2> QED
    BY <1>3, <2>1, <2>2, <2>3 DEF sendReplyToClient
<1> QED
  BY <1>1, <1>2, <1>3 DEF clientHandler

\* queueIOJob and vmThreadedIOCompletedJob keep the types.
LEMMA MainTInv ==
    ASSUME TInv, queueIOJob \/ vmThreadedIOCompletedJob
    PROVE  TInv'
<1> USE ThreadedIOAssumption
    DEF TInv, TypeOK, HandsOK, HoldingPC, MainPC, ThreadPC, ioVars, clientVars
<1>1. CASE queueLock
  BY <1>1 DEF queueLock
<1>2. CASE queueAdd
  <2>1. Append(io_newjobs, mc) \in Seq(Clients)
    BY <1>2, ListPush DEF queueAdd
  <2> QED
    BY <1>2, <2>1 DEF queueAdd
<1>3. CASE noticeThreadedIO
  BY <1>3 DEF noticeThreadedIO, Waiting
<1>4. CASE pipeReadable
  BY <1>4 DEF pipeReadable
<1>5. CASE pipeRead
  BY <1>5 DEF pipeRead
<1>6. CASE completedLock
  BY <1>6 DEF completedLock
<1>7. CASE completedPop
  <2>1. CASE io_processed = << >>
    BY <1>7, <2>1 DEF completedPop
  <2>2. CASE io_processed # << >>
    <3>1. Head(io_processed) \in Clients /\ Tail(io_processed) \in Seq(Clients)
      BY <2>2, ListPop
    <3> QED
      BY <1>7, <2>2, <3>1 DEF completedPop
  <2> QED
    BY <2>1, <2>2
<1>8. CASE completedEvent
  <2>1. mask' \in [Clients -> Masks]
    <3>1. mc \in Clients
      BY <1>8 DEF completedEvent
    <3>2. mask' = [mask EXCEPT ![mc] = @ \cup {W}] \/ mask' = mask
      BY <1>8 DEF completedEvent
    <3>3. CASE mask' = [mask EXCEPT ![mc] = @ \cup {W}]
      BY <3>1, <3>3, MaskUpdate
    <3> QED
      BY <3>2, <3>3
  <2> QED
    BY <1>8, <2>1 DEF completedEvent
<1> QED
  BY <1>1, <1>2, <1>3, <1>4, <1>5, <1>6, <1>7, <1>8
     DEF queueIOJob, vmThreadedIOCompletedJob

\* The I/O threads keep the types.
LEMMA ThreadTInv ==
    ASSUME TInv, NEW t \in Threads, IOThreadEntryPoint(t) \/ spuriousWakeup(t)
    PROVE  TInv'
<1> USE ThreadedIOAssumption
    DEF TInv, TypeOK, HandsOK, HoldingPC, ThreadPC, clientVars
<1>1. CASE threadInit(t)
  BY <1>1 DEF threadInit
<1>2. CASE threadLock(t)
  BY <1>2 DEF threadLock
<1>3. CASE waitThreadedIO(t)
  BY <1>3 DEF waitThreadedIO
<1>4. CASE threadGet(t)
  <2>1. Head(io_newjobs) \in Clients /\ Tail(io_newjobs) \in Seq(Clients)
    BY <1>4, ListPop DEF threadGet
  <2> QED
    BY <1>4, <2>1 DEF threadGet
<1>5. CASE extCmdProc(t)
  BY <1>5 DEF extCmdProc
<1>6. CASE threadDone(t)
  <2>1. Append(io_processed, tc[t]) \in Seq(Clients)
    BY <1>6, ListPush DEF threadDone
  <2> QED
    BY <1>6, <2>1 DEF threadDone
<1>7. CASE pipeWrite(t)
  BY <1>7 DEF pipeWrite
<1>8. CASE spuriousWakeup(t)
  BY <1>8 DEF spuriousWakeup
<1> QED
  BY <1>1, <1>2, <1>3, <1>4, <1>5, <1>6, <1>7, <1>8 DEF IOThreadEntryPoint

\* Every step keeps the types.
LEMMA NextTInv == TInv /\ [Next]_vars => TInv'
<1> SUFFICES ASSUME TInv, [Next]_vars PROVE TInv'
  OBVIOUS
<1>1. CASE UNCHANGED vars
  BY <1>1 DEF vars, TInv, TypeOK, HandsOK
<1> QED
  BY <1>1, ClientTInv, MainTInv, ThreadTInv DEF Next

\* Every variable of the threaded server keeps its type, and the pipe never
\* holds more than its capacity.
THEOREM TypeCorrect == Spec => []TypeOK
<1>1. TInv => TypeOK
  BY DEF TInv
<1> QED
  BY InitTInv, NextTInv, <1>1, PTL DEF Spec

-----------------------------------------------------------------------------
(* The completion pipe.  PipeAccounts is inductive with the types: every   *)
(* step moves one unit between the threads that owe a byte, the pipe, the  *)
(* main thread's hand and io_processed.                                    *)

PInv == TInv /\ PipeAccounts /\ AssertHolds

LEMMA WritersFinite ==
    IsFiniteSet(Writers) /\ Cardinality(Writers) \in Nat
<1>1. Writers \in SUBSET Threads
  BY DEF Writers
<1> QED
  BY <1>1, ThreadedIOAssumption, FS_Subset, FS_CardinalityType

\* A step that moves no thread into or out of "pipe" and neither touches
\* io_processed nor the pipe nor the main thread's byte keeps the account.
LEMMA PipeFrame ==
    ASSUME PInv, TInv', Writers' = Writers, ByteInHand' = ByteInHand,
           mpc' # "aborted", UNCHANGED <<io_processed, pipe>>
    PROVE  PInv'
BY DEF PInv, PipeAccounts, AssertHolds

\* The account as a sum of four numbers.
LEMMA PipeStep ==
    ASSUME TInv, PipeAccounts, NEW n \in Int, NEW w \in Int, NEW b \in Int, NEW p \in Int,
           Len(io_processed') = Len(io_processed) + n,
           Cardinality(Writers') = Cardinality(Writers) + w,
           ByteInHand' = ByteInHand + b,
           pipe' = pipe + p,
           n = p + w + b
    PROVE  PipeAccounts'
<1>1. Len(io_processed) \in Nat /\ pipe \in Nat /\ ByteInHand \in Nat
  BY ThreadedIOAssumption DEF TInv, TypeOK, ByteInHand
<1>2. Len(io_processed) = pipe + Cardinality(Writers) + ByteInHand
  BY DEF PipeAccounts
<1>3. Len(io_processed') = pipe' + Cardinality(Writers') + ByteInHand'
  BY <1>1, <1>2, WritersFinite
<1> QED
  BY <1>3 DEF PipeAccounts

\* The main thread's steps: a byte leaves the pipe into its hand, and from
\* there a client leaves io_processed, which therefore is not empty.
LEMMA MainPInv ==
    ASSUME PInv, TInv', queueIOJob \/ vmThreadedIOCompletedJob
    PROVE  PInv'
<1> USE DEF PInv
<1>1. ASSUME tpc' = tpc PROVE Writers' = Writers
  BY <1>1 DEF Writers
<1>2. CASE queueLock
  BY <1>1, <1>2, PipeFrame DEF queueLock, ByteInHand
<1>3. CASE queueAdd
  BY <1>1, <1>3, PipeFrame DEF queueAdd, ByteInHand
<1>4. CASE noticeThreadedIO
  <2>1. Writers' = Writers
    BY <1>4 DEF noticeThreadedIO, Writers, Waiting, TInv, TypeOK
  <2> QED
    BY <1>4, <2>1, PipeFrame DEF noticeThreadedIO, ByteInHand
<1>5. CASE pipeReadable
  BY <1>1, <1>5, PipeFrame DEF pipeReadable, ByteInHand, ioVars
<1>6. CASE pipeRead
  <2>1. Writers' = Writers
    BY <1>1, <1>6 DEF pipeRead
  <2>2. PipeAccounts'
    <3>1. CASE pipe > 0
      <4>1. pipe' = pipe + (-1) /\ ByteInHand' = ByteInHand + 1
        BY <1>6, <3>1 DEF pipeRead, ByteInHand, TInv, TypeOK
      <4>2. Len(io_processed') = Len(io_processed) + 0
        BY <1>6 DEF pipeRead, TInv, TypeOK
      <4> QED
        BY <4>1, <4>2, <2>1, WritersFinite, PipeStep
    <3>2. CASE ~(pipe > 0)
      BY <1>6, <2>1, <3>2, PipeFrame DEF pipeRead, ByteInHand
    <3> QED
      BY <3>1, <3>2
  <2>3. AssertHolds'
    BY <1>6 DEF pipeRead, AssertHolds
  <2> QED
    BY <2>2, <2>3
<1>7. CASE completedLock
  BY <1>1, <1>7, PipeFrame DEF completedLock, ByteInHand
<1>8. CASE completedPop
  <2>1. Writers' = Writers
    BY <1>1, <1>8 DEF completedPop
  <2>2. io_processed # << >>
    BY <1>8, WritersFinite
       DEF completedPop, PipeAccounts, ByteInHand, TInv, TypeOK
  <2>3. Len(Tail(io_processed)) = Len(io_processed) - 1 /\ Len(io_processed) \in Nat
    BY <2>2, ListPop DEF TInv, TypeOK
  <2>4. PipeAccounts'
    <3>1. Len(io_processed') = Len(io_processed) + (-1)
      BY <1>8, <2>2, <2>3 DEF completedPop
    <3>2. pipe' = pipe + 0 /\ ByteInHand' = ByteInHand + (-1)
      BY <1>8, <2>2 DEF completedPop, ByteInHand, TInv, TypeOK
    <3> QED
      BY <2>1, <3>1, <3>2, WritersFinite, PipeStep
  <2>5. AssertHolds'
    BY <1>8, <2>2 DEF completedPop, AssertHolds
  <2> QED
    BY <2>4, <2>5
<1>9. CASE completedEvent
  BY <1>1, <1>9, PipeFrame DEF completedEvent, ByteInHand, ioVars
<1> QED
  BY <1>2, <1>3, <1>4, <1>5, <1>6, <1>7, <1>8, <1>9
     DEF queueIOJob, vmThreadedIOCompletedJob

\* The threads' steps: a client enters io_processed and its thread owes a
\* byte; the byte enters the pipe and the thread owes nothing.
LEMMA ThreadPInv ==
    ASSUME PInv, TInv', NEW t \in Threads, IOThreadEntryPoint(t) \/ spuriousWakeup(t)
    PROVE  PInv'
<1> USE DEF PInv
<1>1. ASSUME mpc' = mpc PROVE ByteInHand' = ByteInHand /\ mpc' # "aborted"
  BY <1>1 DEF ByteInHand, AssertHolds
<1>2. CASE threadInit(t) \/ threadLock(t) \/ spuriousWakeup(t)
  <2>1. Writers' = Writers
    BY <1>2 DEF threadInit, threadLock, spuriousWakeup, Writers, TInv, TypeOK
  <2> QED
    BY <1>1, <1>2, <2>1, PipeFrame DEF threadInit, threadLock, spuriousWakeup
<1>3. CASE waitThreadedIO(t) \/ threadGet(t) \/ extCmdProc(t)
  <2>1. Writers' = Writers
    BY <1>3 DEF waitThreadedIO, threadGet, extCmdProc, Writers, TInv, TypeOK
  <2> QED
    BY <1>1, <1>3, <2>1, PipeFrame DEF waitThreadedIO, threadGet, extCmdProc
<1>4. CASE threadDone(t)
  <2>1. Writers' = Writers \cup {t} /\ t \notin Writers
    BY <1>4 DEF threadDone, Writers, TInv, TypeOK
  <2>2. Cardinality(Writers') = Cardinality(Writers) + 1
    BY <2>1, WritersFinite, FS_AddElement
  <2>3. tc[t] \in Clients
    BY <1>4 DEF threadDone, TInv, HandsOK, HoldingPC
  <2>4. Len(Append(io_processed, tc[t])) = Len(io_processed) + 1
    BY <2>3, ListPush DEF TInv, TypeOK
  <2>5. io_processed' = Append(io_processed, tc[t]) /\ pipe' = pipe /\ mpc' = mpc
    BY <1>4 DEF threadDone
  <2>6. PipeAccounts'
    <3>1. Len(io_processed') = Len(io_processed) + 1
      BY <2>4, <2>5
    <3>2. pipe' = pipe + 0 /\ ByteInHand' = ByteInHand + 0
      BY <2>5 DEF ByteInHand, TInv, TypeOK
    <3> QED
      BY <2>2, <3>1, <3>2, PipeStep
  <2> QED
    BY <2>5, <2>6 DEF AssertHolds
<1>5. CASE pipeWrite(t)
  <2>1. Writers' = Writers \ {t} /\ t \in Writers
    BY <1>5 DEF pipeWrite, Writers, TInv, TypeOK
  <2>2. Cardinality(Writers') = Cardinality(Writers) - 1
    BY <2>1, WritersFinite, FS_RemoveElement
  <2> QED
    BY <1>1, <1>5, <2>2, WritersFinite, SMTT(30)
       DEF pipeWrite, PipeAccounts, AssertHolds, ByteInHand, TInv, TypeOK
<1> QED
  BY <1>2, <1>3, <1>4, <1>5 DEF IOThreadEntryPoint

LEMMA InitPInv == Init => PInv
<1> SUFFICES ASSUME Init PROVE PInv
  OBVIOUS
<1>1. Writers = {}
  BY DEF Init, Writers
<1>2. Cardinality(Writers) = 0
  BY <1>1, FS_EmptySet
<1> QED
  BY <1>2, InitTInv DEF Init, PInv, PipeAccounts, AssertHolds, ByteInHand

\* Handlers of client events touch neither the pipe nor the threads.
LEMMA ClientPInv ==
    ASSUME PInv, TInv', NEW c \in Clients, clientHandler(c)
    PROVE  PInv'
<1>1. UNCHANGED ioVars
  BY DEF clientHandler, acceptHandler, readQueryFromClient, sendReplyToClient
<1>2. mpc = "loop" /\ mpc' \in {"loop", "q_lock"}
  BY DEF clientHandler, acceptHandler, readQueryFromClient, sendReplyToClient,
         processInputBuffer
<1>3. Writers' = Writers /\ ByteInHand' = ByteInHand
  BY <1>1, <1>2 DEF ioVars, Writers, ByteInHand
<1> QED
  BY <1>1, <1>2, <1>3, PipeFrame DEF ioVars

\* Every step keeps the account.
LEMMA NextPInv == PInv /\ [Next]_vars => PInv'
<1> SUFFICES ASSUME PInv, [Next]_vars PROVE PInv'
  OBVIOUS
<1>1. TInv'
  BY NextTInv DEF PInv
<1>2. CASE UNCHANGED vars
  BY <1>1, <1>2 DEF vars, PInv, PipeAccounts, AssertHolds, Writers, ByteInHand
<1> QED
  BY <1>1, <1>2, ClientPInv, MainPInv, ThreadPInv DEF Next

\* One byte per finished job: the bytes in the pipe, those owed by threads and
\* the one in the main thread's hand add up to the length of io_processed.
THEOREM PipeAlwaysAccounts == Spec => []PipeAccounts
<1>1. PInv => PipeAccounts
  BY DEF PInv
<1> QED
  BY InitPInv, NextPInv, <1>1, PTL DEF Spec

\* assert(listLength(server.io_processed) != 0) in vmThreadedIOCompletedJob
\* never fails, with any number of threads and any pipe.
THEOREM AssertNeverFails == Spec => []AssertHolds
<1>1. PInv => AssertHolds
  BY DEF PInv
<1> QED
  BY InitPInv, NextPInv, <1>1, PTL DEF Spec

-----------------------------------------------------------------------------
(* The lock. *)

\* Taking, releasing and waiting keep io_mutex with the one that is in a
\* critical section.
LEMMA NextMutex == TInv /\ MutualExclusion /\ [Next]_vars => MutualExclusion'
<1> SUFFICES ASSUME TInv, MutualExclusion, [Next]_vars PROVE MutualExclusion'
  OBVIOUS
<1> USE ThreadedIOAssumption DEF TInv, TypeOK, MutualExclusion
<1>1. ASSUME NEW c \in Clients, clientHandler(c) PROVE MutualExclusion'
  <2>1. UNCHANGED ioVars
    BY <1>1 DEF clientHandler, acceptHandler, readQueryFromClient, sendReplyToClient
  <2>2. mpc = "loop" /\ mpc' \in {"loop", "q_lock"}
    BY <1>1 DEF clientHandler, acceptHandler, readQueryFromClient,
                sendReplyToClient, processInputBuffer
  <2> QED
    BY <2>1, <2>2 DEF ioVars
<1>2. CASE queueIOJob
  BY <1>2 DEF queueIOJob, queueLock, queueAdd, noticeThreadedIO, Waiting
<1>3. CASE vmThreadedIOCompletedJob
  <2>1. CASE pipeReadable \/ pipeRead \/ completedEvent
    BY <2>1 DEF pipeReadable, pipeRead, completedEvent, ioVars
  <2>2. CASE completedLock
    BY <2>2 DEF completedLock
  <2>3. CASE completedPop
    BY <2>3 DEF completedPop
  <2> QED
    BY <1>3, <2>1, <2>2, <2>3 DEF vmThreadedIOCompletedJob
<1>4. ASSUME NEW t \in Threads, IOThreadEntryPoint(t) \/ spuriousWakeup(t)
      PROVE  MutualExclusion'
  <2>1. CASE threadInit(t) \/ extCmdProc(t) \/ pipeWrite(t) \/ spuriousWakeup(t)
    BY <2>1 DEF threadInit, extCmdProc, pipeWrite, spuriousWakeup
  <2>2. CASE threadLock(t)
    BY <2>2 DEF threadLock
  <2>3. CASE waitThreadedIO(t)
    BY <2>3 DEF waitThreadedIO
  <2>4. CASE threadGet(t)
    BY <2>4 DEF threadGet
  <2>5. CASE threadDone(t)
    BY <2>5 DEF threadDone
  <2> QED
    BY <1>4, <2>1, <2>2, <2>3, <2>4, <2>5 DEF IOThreadEntryPoint
<1>5. CASE UNCHANGED vars
  BY <1>5 DEF vars
<1> QED
  BY <1>1, <1>2, <1>3, <1>4, <1>5 DEF Next

\* Every access to a job list in IOThreadEntryPoint, queueIOJob and
\* vmThreadedIOCompletedJob is made by the one holder of io_mutex.
THEOREM ListsAreLocked == Spec => []MutualExclusion
<1>1. Init => MutualExclusion
  BY ThreadedIOAssumption DEF Init, MutualExclusion
<1> QED
  BY <1>1, InitTInv, NextTInv, NextMutex, PTL DEF Spec

-----------------------------------------------------------------------------
(* Ownership.  SingleOwner is inductive once a mask is known to hold at    *)
(* most one event: deleting AE_READABLE before queueIOJob then leaves the  *)
(* client with none.                                                       *)

OneEvent == \A c \in Clients : R \in mask[c] => mask[c] = {R}

SInv == TInv /\ SingleOwner /\ OneEvent

LEMMA InitSInv == Init => SInv
<1> SUFFICES ASSUME Init PROVE SInv
  OBVIOUS
<1>1. \A c : ~Queued(c) /\ ~Processed(c) /\ ~HeldByMain(c)
  BY DEF Init, Queued, Processed, InList, HeldByMain
<1>2. \A c : \A t \in Threads : ~HeldByThread(c, t)
  BY DEF Init, HeldByThread, HoldingPC
<1>3. NoDuplicates(io_newjobs) /\ NoDuplicates(io_processed)
  BY DEF Init, NoDuplicates
<1>4. \A c \in Clients : ~Pending(c)
  BY <1>1, <1>2 DEF Pending
<1>5. \A c \in Clients : mask[c] = {}
  BY DEF Init
<1> QED
  BY <1>1, <1>2, <1>3, <1>4, <1>5, InitTInv DEF SInv, SingleOwner, OneEvent

\* Steps of the main thread that leave lists and threads alone.
LEMMA FrameSame ==
    ASSUME UNCHANGED <<io_newjobs, io_processed, tpc, tc>>
    PROVE  /\ \A c : Queued(c)' = Queued(c) /\ Processed(c)' = Processed(c)
           /\ \A c, t : HeldByThread(c, t)' = HeldByThread(c, t)
           /\ NoDuplicates(io_newjobs)' = NoDuplicates(io_newjobs)
           /\ NoDuplicates(io_processed)' = NoDuplicates(io_processed)
BY DEF Queued, Processed, InList, HeldByThread, NoDuplicates

\* A step that changes neither lists nor threads nor the client in the main
\* thread's hand, and gives events only to clients that nobody holds.
LEMMA FrameSInv ==
    ASSUME SInv, TInv', UNCHANGED <<io_newjobs, io_processed, tpc, tc>>,
           \A c \in Clients : HeldByMain(c)' => HeldByMain(c),
           \A c \in Clients : Pending(c) => c \in live' /\ mask'[c] = {},
           \A c \in Clients : mask'[c] # {} => c \in live',
           \A c \in Clients : R \in mask'[c] => mask'[c] = {R}
    PROVE  SInv'
<1>1. \A c : Queued(c)' = Queued(c) /\ Processed(c)' = Processed(c)
  BY FrameSame
<1>2. \A c, t : HeldByThread(c, t)' = HeldByThread(c, t)
  BY FrameSame
<1>3. \A c \in Clients : Pending(c)' => Pending(c)
  BY <1>1, <1>2 DEF Pending
<1>4. SingleOwner'
  BY <1>1, <1>2, <1>3, FrameSame DEF SInv, SingleOwner
<1> QED
  BY <1>4 DEF SInv, OneEvent

\* acceptHandler, readQueryFromClient and sendReplyToClient only handle
\* clients that nobody holds, and readQueryFromClient takes one in hand after
\* deleting its only event.
LEMMA ClientSInv ==
    ASSUME SInv, TInv', NEW c \in Clients, clientHandler(c)
    PROVE  SInv'
<1>0. mpc = "loop" /\ UNCHANGED <<io_newjobs, io_processed, tpc, tc>>
  BY DEF clientHandler, acceptHandler, readQueryFromClient, sendReplyToClient, ioVars
<1>1. mask \in [Clients -> Masks] /\ live \in SUBSET Clients
  BY DEF SInv, TInv, TypeOK
<1>2. \A d \in Clients : Pending(d) => d \in live /\ mask[d] = {}
  BY DEF SInv, SingleOwner
<1>3. \A d \in Clients : mask[d] # {} => d \in live
  BY DEF SInv, SingleOwner
<1>4. \A d \in Clients : R \in mask[d] => mask[d] = {R}
  BY DEF SInv, OneEvent
<1>5. ~Pending(c)
  BY <1>2 DEF clientHandler, acceptHandler, readQueryFromClient, sendReplyToClient
<1>6. CASE createClient(c) /\ mpc' = "loop"
  <2>1. \A d \in Clients : HeldByMain(d)' => HeldByMain(d)
    BY <1>6 DEF HeldByMain
  <2>2. live' = live \cup {c} /\ mask' = [mask EXCEPT ![c] = {R}]
    BY <1>6 DEF createClient
  <2> QED
    BY <1>0, <1>1, <1>2, <1>3, <1>4, <1>5, <2>1, <2>2, FrameSInv
<1>7. CASE freeClient(c) /\ mpc' = "loop"
  <2>1. \A d \in Clients : HeldByMain(d)' => HeldByMain(d)
    BY <1>7 DEF HeldByMain
  <2>2. live' = live \ {c} /\ mask' = [mask EXCEPT ![c] = {}]
    BY <1>7 DEF freeClient
  <2> QED
    BY <1>0, <1>1, <1>2, <1>3, <1>4, <1>5, <2>1, <2>2, FrameSInv
<1>8. CASE resetClient(c) /\ mpc' = "loop" /\ c \in live
  <2>1. \A d \in Clients : HeldByMain(d)' => HeldByMain(d)
    BY <1>8 DEF HeldByMain
  <2>2. live' = live
    BY <1>8 DEF resetClient
  <2>3. mask' = [mask EXCEPT ![c] = {R}] \/ mask' = [mask EXCEPT ![c] = {}]
    BY <1>8 DEF resetClient
  <2>4. CASE mask' = [mask EXCEPT ![c] = {R}]
    BY <1>0, <1>1, <1>2, <1>3, <1>4, <1>5, <1>8, <2>1, <2>2, <2>4, FrameSInv
  <2>5. CASE mask' = [mask EXCEPT ![c] = {}]
    BY <1>0, <1>1, <1>2, <1>3, <1>4, <1>5, <2>1, <2>2, <2>5, FrameSInv
  <2> QED
    BY <2>3, <2>4, <2>5
<1>9. CASE mpc' = "loop" /\ UNCHANGED <<live, mask>>
  <2>1. \A d \in Clients : HeldByMain(d)' => HeldByMain(d)
    BY <1>9 DEF HeldByMain
  <2> QED
    BY <1>0, <1>2, <1>3, <1>4, <1>9, <2>1, FrameSInv
<1>10. CASE /\ R \in mask[c] /\ mpc' = "q_lock" /\ mc' = c
            /\ live' = live /\ mask' = [mask EXCEPT ![c] = @ \ {R}]
  <2>1. \A d \in Clients : HeldByMain(d)' <=> d = c
    BY <1>10 DEF HeldByMain
  <2>2. \A d : Queued(d)' = Queued(d) /\ Processed(d)' = Processed(d)
    BY <1>0, FrameSame
  <2>3. \A d, t : HeldByThread(d, t)' = HeldByThread(d, t)
    BY <1>0, FrameSame
  <2>4. \A d \in Clients : Pending(d)' => Pending(d) \/ d = c
    BY <2>1, <2>2, <2>3 DEF Pending
  <2>5. c \in live /\ mask'[c] = {} /\ \A d \in Clients : d # c => mask'[d] = mask[d]
    BY <1>1, <1>3, <1>4, <1>10
  <2>6. \A d \in Clients :
          /\ Pending(d)' => d \in live' /\ mask'[d] = {}
          /\ mask'[d] # {} => d \in live'
    BY <1>2, <1>3, <1>10, <2>4, <2>5
  <2>7. ~Queued(c) /\ ~Processed(c) /\ \A t \in Threads : ~HeldByThread(c, t)
    BY <1>5 DEF Pending
  <2>8. SingleOwner'
    BY <1>0, <2>1, <2>2, <2>3, <2>6, <2>7, FrameSame DEF SInv, SingleOwner
  <2>9. OneEvent'
    BY <1>4, <2>5 DEF OneEvent
  <2> QED
    BY <2>8, <2>9 DEF SInv
<1>11. CASE acceptHandler(c)
  BY <1>0, <1>6, <1>11 DEF acceptHandler
<1>12. CASE readQueryFromClient(c)
  BY <1>0, <1>7, <1>9, <1>10, <1>12 DEF readQueryFromClient, processInputBuffer
<1>13. CASE sendReplyToClient(c)
  <2>1. c \in live
    BY <1>3, <1>13 DEF sendReplyToClient
  <2> QED
    BY <1>0, <1>7, <1>8, <1>9, <1>13, <2>1 DEF sendReplyToClient
<1> QED
  BY <1>11, <1>12, <1>13 DEF clientHandler

\* queueIOJob moves the client from the main thread's hand to io_newjobs;
\* vmThreadedIOCompletedJob takes one from io_processed and gives it an event.
LEMMA MainSInv ==
    ASSUME SInv, TInv', queueIOJob \/ vmThreadedIOCompletedJob
    PROVE  SInv'
<1>1. \A d \in Clients :
        /\ Pending(d) => d \in live /\ mask[d] = {}
        /\ mask[d] # {} => d \in live
        /\ R \in mask[d] => mask[d] = {R}
  BY DEF SInv, SingleOwner, OneEvent
<1>2. CASE queueLock \/ pipeReadable \/ pipeRead \/ completedLock
  <2>1. /\ UNCHANGED <<io_newjobs, io_processed, tpc, tc>>
        /\ UNCHANGED <<live, mask>>
    BY <1>2 DEF queueLock, pipeReadable, pipeRead, completedLock, clientVars, ioVars
  <2>2. \A d \in Clients : HeldByMain(d)' => HeldByMain(d)
    BY <1>2 DEF queueLock, pipeReadable, pipeRead, completedLock, HeldByMain
  <2> QED
    BY <1>1, <2>1, <2>2, FrameSInv
<1>3. CASE queueAdd
  <2>1. mc \in Clients /\ HeldByMain(mc)
    BY <1>3 DEF queueAdd, HeldByMain, SInv, TInv, HandsOK
  <2>2. /\ \A d : Queued(d)' <=> d = mc \/ Queued(d)
        /\ NoDuplicates(io_newjobs) /\ ~Queued(mc) => NoDuplicates(io_newjobs)'
    <3>1. io_newjobs \in Seq(Clients) /\ io_newjobs' = Append(io_newjobs, mc)
      BY <1>3 DEF queueAdd, SInv, TInv, TypeOK
    <3> QED
      BY <2>1, <3>1, ListPush DEF Queued
  <2>3. /\ \A d : Processed(d)' = Processed(d)
        /\ NoDuplicates(io_processed)' = NoDuplicates(io_processed)
    BY <1>3 DEF queueAdd, Processed, InList, NoDuplicates
  <2>4. \A d, t : HeldByThread(d, t)' = HeldByThread(d, t)
    BY <1>3 DEF queueAdd, HeldByThread
  <2>5. \A d : ~HeldByMain(d)'
    BY <1>3 DEF queueAdd, HeldByMain
  <2>6. \A d \in Clients : Pending(d)' => Pending(d)
    BY <2>1, <2>2, <2>3, <2>4, <2>5 DEF Pending
  <2>7. UNCHANGED <<live, mask>>
    BY <1>3 DEF queueAdd, clientVars
  <2>8. SingleOwner'
    BY <1>1, <2>1, <2>2, <2>3, <2>4, <2>5, <2>6, <2>7 DEF SInv, SingleOwner
  <2> QED
    BY <1>1, <2>7, <2>8 DEF SInv, OneEvent
<1>4. CASE noticeThreadedIO
  <2>2. \A d : \A t \in Threads : HeldByThread(d, t)' = HeldByThread(d, t)
    BY <1>4 DEF noticeThreadedIO, HeldByThread, HoldingPC, Waiting, SInv, TInv, TypeOK
  <2>3. /\ \A d : Queued(d)' = Queued(d) /\ Processed(d)' = Processed(d)
        /\ NoDuplicates(io_newjobs)' = NoDuplicates(io_newjobs)
        /\ NoDuplicates(io_processed)' = NoDuplicates(io_processed)
    BY <1>4 DEF noticeThreadedIO, Queued, Processed, InList, NoDuplicates
  <2>4. \A d : ~HeldByMain(d)'
    BY <1>4 DEF noticeThreadedIO, HeldByMain
  <2>5. \A d \in Clients : Pending(d)' => Pending(d)
    BY <2>2, <2>3, <2>4 DEF Pending
  <2>6. UNCHANGED <<live, mask>>
    BY <1>4 DEF noticeThreadedIO, clientVars
  <2>7. SingleOwner'
    BY <1>1, <2>2, <2>3, <2>4, <2>5, <2>6 DEF SInv, SingleOwner
  <2> QED
    BY <1>1, <2>6, <2>7 DEF SInv, OneEvent
<1>5. CASE completedPop
  <2>1. CASE io_processed = << >>
    <3>1. UNCHANGED <<io_newjobs, io_processed, tpc, tc, live, mask>>
      BY <1>5, <2>1 DEF completedPop, clientVars
    <3>2. \A d \in Clients : HeldByMain(d)' => HeldByMain(d)
      BY <1>5, <2>1 DEF completedPop, HeldByMain
    <3> QED
      BY <1>1, <3>1, <3>2, FrameSInv
  <2>2. CASE io_processed # << >>
    <3>1. io_processed \in Seq(Clients) /\ io_processed' = Tail(io_processed)
      BY <1>5, <2>2 DEF completedPop, SInv, TInv, TypeOK
    <3>0. PICK x \in Clients : x = Head(io_processed)
      BY <2>2, <3>1, ListPop
    <3>2. /\ \A d : Processed(d) <=> d = x \/ Processed(d)'
          /\ NoDuplicates(io_processed) =>
               NoDuplicates(io_processed)' /\ ~Processed(x)'
      BY <2>2, <3>0, <3>1, ListPop DEF Processed
    <3>3. /\ \A d : Queued(d)' = Queued(d)
          /\ NoDuplicates(io_newjobs)' = NoDuplicates(io_newjobs)
      BY <1>5 DEF completedPop, Queued, InList, NoDuplicates
    <3>4. \A d, t : HeldByThread(d, t)' = HeldByThread(d, t)
      BY <1>5 DEF completedPop, HeldByThread
    <3>5. \A d : HeldByMain(d)' <=> d = x
      BY <1>5, <2>2, <3>0 DEF completedPop, HeldByMain
    <3>6. \A d \in Clients : Pending(d)' => Pending(d)
      BY <3>2, <3>3, <3>4, <3>5 DEF Pending
    <3>7. UNCHANGED <<live, mask>>
      BY <1>5 DEF completedPop, clientVars
    <3>8. SingleOwner'
      BY <1>1, <3>2, <3>3, <3>4, <3>5, <3>6, <3>7 DEF SInv, SingleOwner
    <3> QED
      BY <1>1, <3>7, <3>8 DEF SInv, OneEvent
  <2> QED
    BY <2>1, <2>2
<1>6. CASE completedEvent
  <2>1. mc \in Clients /\ HeldByMain(mc)
    BY <1>6 DEF completedEvent, HeldByMain, SInv, TInv, HandsOK
  <2>2. mc \in live /\ mask[mc] = {}
    BY <1>1, <2>1 DEF Pending
  <2>3. UNCHANGED <<io_newjobs, io_processed, tpc, tc>> /\ live' = live
    BY <1>6 DEF completedEvent, ioVars
  <2>4. \A d : ~HeldByMain(d)'
    BY <1>6 DEF completedEvent, HeldByMain
  <2>5. /\ ~Queued(mc) /\ ~Processed(mc)
        /\ \A t \in Threads : ~HeldByThread(mc, t)
    BY <2>1 DEF SInv, SingleOwner
  <2>6. \A d : Queued(d)' = Queued(d) /\ Processed(d)' = Processed(d)
    BY <2>3, FrameSame
  <2>7. \A d, t : HeldByThread(d, t)' = HeldByThread(d, t)
    BY <2>3, FrameSame
  <2>8. \A d \in Clients : Pending(d)' => Pending(d) /\ d # mc
    BY <2>4, <2>5, <2>6, <2>7 DEF Pending
  <2>9. /\ \A d \in Clients : d # mc => mask'[d] = mask[d]
        /\ mask'[mc] = {} \/ mask'[mc] = {W}
    BY <1>6, <2>1, <2>2 DEF completedEvent, SInv, TInv, TypeOK
  <2>10. SingleOwner'
    BY <1>1, <2>2, <2>3, <2>4, <2>6, <2>7, <2>8, <2>9, FrameSame DEF SInv, SingleOwner
  <2>11. OneEvent'
    BY <1>1, <2>9 DEF OneEvent, R, W
  <2> QED
    BY <2>10, <2>11 DEF SInv
<1> QED
  BY <1>2, <1>3, <1>4, <1>5, <1>6 DEF queueIOJob, vmThreadedIOCompletedJob

\* A step of thread t that leaves the lists and the clients in hand alone.
LEMMA ThreadFrameSInv ==
    ASSUME SInv, TInv', UNCHANGED <<live, mask, io_newjobs, io_processed, mpc, mc>>,
           \A c \in Clients, t \in Threads : HeldByThread(c, t)' => HeldByThread(c, t)
    PROVE  SInv'
<1>1. /\ \A c : Queued(c)' = Queued(c) /\ Processed(c)' = Processed(c)
      /\ \A c : HeldByMain(c)' = HeldByMain(c)
      /\ NoDuplicates(io_newjobs)' = NoDuplicates(io_newjobs)
      /\ NoDuplicates(io_processed)' = NoDuplicates(io_processed)
  BY DEF Queued, Processed, InList, HeldByMain, NoDuplicates
<1>2. \A c \in Clients : Pending(c)' => Pending(c)
  BY <1>1 DEF Pending
<1>3. SingleOwner'
  BY <1>1, <1>2 DEF SInv, SingleOwner
<1> QED
  BY <1>3 DEF SInv, OneEvent

\* An I/O thread takes the oldest client of io_newjobs in hand, and passes it
\* on to io_processed.
LEMMA ThreadSInv ==
    ASSUME SInv, TInv', NEW t \in Threads, IOThreadEntryPoint(t) \/ spuriousWakeup(t)
    PROVE  SInv'
<1>0. tpc \in [Threads -> ThreadPC] /\ tc \in [Threads -> Clients \cup {NoOne}]
  BY DEF SInv, TInv, TypeOK
<1>1. CASE threadInit(t) \/ threadLock(t) \/ spuriousWakeup(t)
  <2>1. UNCHANGED <<live, mask, io_newjobs, io_processed, mpc, mc>>
    BY <1>1 DEF threadInit, threadLock, spuriousWakeup, clientVars
  <2>2. \A c \in Clients, u \in Threads : HeldByThread(c, u)' => HeldByThread(c, u)
    BY <1>0, <1>1 DEF threadInit, threadLock, spuriousWakeup, HeldByThread, HoldingPC
  <2> QED
    BY <2>1, <2>2, ThreadFrameSInv
<1>2. CASE waitThreadedIO(t) \/ extCmdProc(t) \/ pipeWrite(t)
  <2>1. UNCHANGED <<live, mask, io_newjobs, io_processed, mpc, mc>>
    BY <1>2 DEF waitThreadedIO, extCmdProc, pipeWrite, clientVars
  <2>2. \A c \in Clients, u \in Threads : HeldByThread(c, u)' => HeldByThread(c, u)
    BY <1>0, <1>2 DEF waitThreadedIO, extCmdProc, pipeWrite, HeldByThread, HoldingPC
  <2> QED
    BY <2>1, <2>2, ThreadFrameSInv
<1>3. CASE threadGet(t)
  <2>1. io_newjobs \in Seq(Clients) /\ io_newjobs # << >> /\ io_newjobs' = Tail(io_newjobs)
    BY <1>3 DEF threadGet, SInv, TInv, TypeOK
  <2>2. PICK x \in Clients : x = Head(io_newjobs)
    BY <2>1, ListPop
  <2>3. /\ \A d : Queued(d) <=> d = x \/ Queued(d)'
        /\ NoDuplicates(io_newjobs) => NoDuplicates(io_newjobs)' /\ ~Queued(x)'
    BY <2>1, <2>2, ListPop DEF Queued
  <2>4. /\ \A d : Processed(d)' = Processed(d) /\ HeldByMain(d)' = HeldByMain(d)
        /\ NoDuplicates(io_processed)' = NoDuplicates(io_processed)
    BY <1>3 DEF threadGet, Processed, InList, HeldByMain, NoDuplicates
  <2>5. \A d \in Clients, u \in Threads :
          HeldByThread(d, u)' <=> (HeldByThread(d, u) \/ (d = x /\ u = t))
    BY <1>0, <1>3, <2>2 DEF threadGet, HeldByThread, HoldingPC
  <2>6. \A d \in Clients : Pending(d)' => Pending(d)
    BY <2>3, <2>4, <2>5 DEF Pending
  <2>7. UNCHANGED <<live, mask>>
    BY <1>3 DEF threadGet, clientVars
  <2>8. SingleOwner'
    BY <2>3, <2>4, <2>5, <2>6, <2>7 DEF SInv, SingleOwner
  <2> QED
    BY <2>7, <2>8 DEF SInv, OneEvent
<1>4. CASE threadDone(t)
  <2>1. PICK x \in Clients : x = tc[t]
    BY <1>4 DEF threadDone, SInv, TInv, HandsOK, HoldingPC
  <2>2. HeldByThread(x, t)
    BY <1>4, <2>1 DEF threadDone, HeldByThread, HoldingPC
  <2>3. io_processed \in Seq(Clients) /\ io_processed' = Append(io_processed, x)
    BY <1>4, <2>1 DEF threadDone, SInv, TInv, TypeOK
  <2>4. /\ \A d : Processed(d)' <=> d = x \/ Processed(d)
        /\ NoDuplicates(io_processed) /\ ~Processed(x) => NoDuplicates(io_processed)'
    BY <2>3, ListPush DEF Processed
  <2>5. /\ \A d : Queued(d)' = Queued(d) /\ HeldByMain(d)' = HeldByMain(d)
        /\ NoDuplicates(io_newjobs)' = NoDuplicates(io_newjobs)
    BY <1>4 DEF threadDone, Queued, InList, HeldByMain, NoDuplicates
  <2>6. \A d \in Clients, u \in Threads :
          HeldByThread(d, u)' <=> HeldByThread(d, u) /\ u # t
    BY <1>0, <1>4 DEF threadDone, HeldByThread, HoldingPC
  <2>7. \A d \in Clients : Pending(d)' => Pending(d)
    BY <2>2, <2>4, <2>5, <2>6 DEF Pending
  <2>8. UNCHANGED <<live, mask>>
    BY <1>4 DEF threadDone, clientVars
  <2>9. SingleOwner'
    BY <2>2, <2>4, <2>5, <2>6, <2>7, <2>8 DEF SInv, SingleOwner
  <2> QED
    BY <2>8, <2>9 DEF SInv, OneEvent
<1> QED
  BY <1>1, <1>2, <1>3, <1>4 DEF IOThreadEntryPoint

\* Every step keeps ownership single.
LEMMA NextSInv == SInv /\ [Next]_vars => SInv'
<1> SUFFICES ASSUME SInv, [Next]_vars PROVE SInv'
  OBVIOUS
<1>1. TInv'
  BY NextTInv DEF SInv
<1>2. CASE UNCHANGED vars
  <2>1. UNCHANGED <<live, mask, io_newjobs, io_processed, mpc, mc, tpc, tc>>
    BY <1>2 DEF vars
  <2>2. \A c \in Clients, t \in Threads : HeldByThread(c, t)' => HeldByThread(c, t)
    BY <2>1 DEF HeldByThread
  <2> QED
    BY <1>1, <2>1, <2>2, ThreadFrameSInv
<1> QED
  BY <1>1, <1>2, ClientSInv, MainSInv, ThreadSInv DEF Next

\* From queueIOJob to sendReplyToClient a client is in one list, one thread or
\* the main thread's hand, is allocated, and has no event: no handler frees it
\* or reads into its buffers while a thread works on it.
THEOREM OwnershipIsSingle == Spec => []SingleOwner
<1>1. SInv => SingleOwner
  BY DEF SInv
<1> QED
  BY InitSInv, NextSInv, <1>1, PTL DEF Spec

=============================================================================
