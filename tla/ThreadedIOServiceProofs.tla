----------------------- MODULE ThreadedIOServiceProofs -----------------------
(***************************************************************************)
(* Further proofs about ThreadedIO, on top of the types and the ownership  *)
(* of ThreadedIOProofs: no job waits for a thread that sleeps, a job       *)
(* carries nothing over from the last one, and the server implements       *)
(* RequestService.                                                         *)
(***************************************************************************)
EXTENDS ThreadedIOProofs

-----------------------------------------------------------------------------
(* Wake-ups.  WorkConserving is inductive with the types: each step moves  *)
(* one unit between the list, the threads that are awake and the signal    *)
(* that is still to come, or lets the last thread fall asleep in front of  *)
(* an empty list.                                                          *)

SignalToCome == IF mpc = "q_signal" THEN 1 ELSE 0

LEMMA AwakeFinite ==
    IsFiniteSet(Awake) /\ Cardinality(Awake) \in Nat
<1>1. Awake \in SUBSET Threads
  BY DEF Awake
<1> QED
  BY <1>1, ThreadedIOAssumption, FS_Subset, FS_CardinalityType

\* The list grows by no more than those who will serve it.
LEMMA WorkStep ==
    ASSUME TInv, WorkConserving, Waiting' # {} => Waiting # {},
           Len(io_newjobs') \in Nat, Cardinality(Awake') \in Nat, SignalToCome' \in Nat,
           Len(io_newjobs') + Cardinality(Awake) + SignalToCome
             <= Len(io_newjobs) + Cardinality(Awake') + SignalToCome'
    PROVE  WorkConserving'
<1>1. Len(io_newjobs) \in Nat /\ SignalToCome \in Nat
  BY DEF TInv, TypeOK, SignalToCome
<1>2. Waiting # {} => Len(io_newjobs) <= Cardinality(Awake) + SignalToCome
  BY DEF WorkConserving, SignalToCome
<1>3. Waiting' # {} => Len(io_newjobs') <= Cardinality(Awake') + SignalToCome'
  BY <1>1, <1>2, AwakeFinite
<1> QED
  BY <1>3 DEF WorkConserving, SignalToCome

\* A step that touches neither the list nor the threads that are awake or
\* asleep, nor the signal.
LEMMA WorkFrame ==
    ASSUME TInv, WorkConserving, io_newjobs' = io_newjobs,
           Awake' = Awake, Waiting' = Waiting, SignalToCome' = SignalToCome
    PROVE  WorkConserving'
BY DEF WorkConserving, SignalToCome

\* The main thread adds a job with its signal to come, and pays it by waking
\* a thread, unless none sleeps.
LEMMA MainWork ==
    ASSUME TInv, WorkConserving, queueIOJob \/ vmThreadedIOCompletedJob
    PROVE  WorkConserving'
<1>1. ASSUME tpc' = tpc PROVE Awake' = Awake /\ Waiting' = Waiting
  BY <1>1 DEF Awake, Waiting
<1>2. CASE queueAdd
  <2>1. mc \in Clients /\ io_newjobs \in Seq(Clients)
    BY <1>2 DEF queueAdd, TInv, TypeOK, HandsOK
  <2>2. /\ Len(io_newjobs') = Len(io_newjobs) + 1
        /\ SignalToCome' = SignalToCome + 1
        /\ Awake' = Awake /\ Waiting' = Waiting
    BY <1>1, <1>2, <2>1, ListPush DEF queueAdd, SignalToCome
  <2>3. Len(io_newjobs) \in Nat /\ SignalToCome \in Nat
    BY <2>1 DEF SignalToCome
  <2> QED
    BY <2>2, <2>3, AwakeFinite, WorkStep
<1>3. CASE noticeThreadedIO
  <2>1. /\ io_newjobs' = io_newjobs /\ Len(io_newjobs) \in Nat
        /\ SignalToCome = 1 /\ SignalToCome' = 0
    BY <1>3 DEF noticeThreadedIO, SignalToCome, TInv, TypeOK
  <2>2. CASE Waiting = {}
    <3>1. tpc' = tpc
      BY <1>3, <2>2 DEF noticeThreadedIO
    <3> QED
      BY <1>1, <2>2, <3>1 DEF WorkConserving
  <2>3. CASE Waiting # {}
    <3>1. PICK t \in Waiting : tpc' = [tpc EXCEPT ![t] = "lock"]
      BY <1>3, <2>3 DEF noticeThreadedIO
    <3>2. Awake' = Awake \cup {t} /\ t \notin Awake
      BY <3>1 DEF Awake, Waiting, TInv, TypeOK
    <3>3. Cardinality(Awake') = Cardinality(Awake) + 1
      BY <3>2, AwakeFinite, FS_AddElement
    <3> QED
      BY <2>1, <2>3, <3>3, AwakeFinite, WorkStep
  <2> QED
    BY <2>2, <2>3
<1>4. CASE queueLock
  BY <1>1, <1>4, WorkFrame DEF queueLock, SignalToCome
<1>5. CASE pipeReadable
  BY <1>1, <1>5, WorkFrame DEF pipeReadable, ioVars, SignalToCome
<1>6. CASE pipeRead
  BY <1>1, <1>6, WorkFrame DEF pipeRead, SignalToCome
<1>7. CASE completedLock
  BY <1>1, <1>7, WorkFrame DEF completedLock, SignalToCome
<1>8. CASE completedPop
  BY <1>1, <1>8, WorkFrame DEF completedPop, SignalToCome
<1>9. CASE completedEvent
  BY <1>1, <1>9, WorkFrame DEF completedEvent, ioVars, SignalToCome
<1> QED
  BY <1>2, <1>3, <1>4, <1>5, <1>6, <1>7, <1>8, <1>9
     DEF queueIOJob, vmThreadedIOCompletedJob

\* A thread takes a job and is busy; it falls asleep only when there is none.
LEMMA ThreadWork ==
    ASSUME TInv, WorkConserving, NEW t \in Threads, IOThreadEntryPoint(t) \/ spuriousWakeup(t)
    PROVE  WorkConserving'
<1>0. tpc \in [Threads -> ThreadPC] /\ io_newjobs \in Seq(Clients) /\ Len(io_newjobs) \in Nat
  BY DEF TInv, TypeOK
<1>1. ASSUME mpc' = mpc PROVE SignalToCome' = SignalToCome /\ SignalToCome \in Nat
  BY <1>1 DEF SignalToCome
<1>2. CASE threadInit(t) \/ threadLock(t) \/ extCmdProc(t) \/ threadDone(t)
  <2>1. Awake' = Awake /\ Waiting' = Waiting
    BY <1>0, <1>2 DEF threadInit, threadLock, extCmdProc, threadDone, Awake, Waiting
  <2> QED
    BY <1>1, <1>2, <2>1, WorkFrame DEF threadInit, threadLock, extCmdProc, threadDone
<1>3. CASE waitThreadedIO(t)
  <2>1. Len(io_newjobs') = 0 /\ SignalToCome' \in Nat
    BY <1>3 DEF waitThreadedIO, SignalToCome
  <2>2. Awake' = Awake \ {t}
    BY <1>0, <1>3 DEF waitThreadedIO, Awake
  <2>3. Cardinality(Awake') \in Nat
    BY <2>2, AwakeFinite, FS_RemoveElement, FS_CardinalityType
  <2> QED
    BY <2>1, <2>3 DEF WorkConserving, SignalToCome
<1>4. CASE threadGet(t)
  <2>1. Awake' = Awake \ {t} /\ t \in Awake /\ Waiting' = Waiting
    BY <1>0, <1>4 DEF threadGet, Awake, Waiting
  <2>2. Cardinality(Awake') = Cardinality(Awake) - 1 /\ Cardinality(Awake') \in Nat
    <3>1. IsFiniteSet(Awake') /\ Cardinality(Awake') = Cardinality(Awake) - 1
      BY <2>1, AwakeFinite, FS_RemoveElement
    <3> QED
      BY <3>1, FS_CardinalityType
  <2>3. Len(io_newjobs') = Len(io_newjobs) - 1 /\ Len(io_newjobs') \in Nat
    BY <1>0, <1>4, ListPop DEF threadGet
  <2>4. mpc' = mpc
    BY <1>4 DEF threadGet
  <2> QED
    BY <1>0, <1>1, <2>1, <2>2, <2>3, <2>4, AwakeFinite, WorkStep
<1>5. CASE pipeWrite(t) \/ spuriousWakeup(t)
  <2>1. Awake' = Awake \cup {t} /\ t \notin Awake /\ (Waiting' # {} => Waiting # {})
    BY <1>0, <1>5 DEF pipeWrite, spuriousWakeup, Awake, Waiting
  <2>2. Cardinality(Awake') = Cardinality(Awake) + 1
    BY <2>1, AwakeFinite, FS_AddElement
  <2>3. io_newjobs' = io_newjobs /\ mpc' = mpc
    BY <1>5 DEF pipeWrite, spuriousWakeup
  <2> QED
    BY <1>0, <1>1, <2>1, <2>2, <2>3, AwakeFinite, WorkStep
<1> QED
  BY <1>2, <1>3, <1>4, <1>5 DEF IOThreadEntryPoint

\* As long as some thread sleeps, every queued job has an awake thread on its
\* way to the list or the signal still to come, although queueIOJob signals
\* after it has unlocked and only one thread.
THEOREM WorkAlwaysConserved == Spec => []WorkConserving
<1>1. Init => WorkConserving
  BY DEF Init, WorkConserving, Waiting
<1>2. TInv /\ WorkConserving /\ [Next]_vars => WorkConserving'
  <2> SUFFICES ASSUME TInv, WorkConserving, [Next]_vars
               PROVE  WorkConserving'
    OBVIOUS
  <2>1. ASSUME NEW c \in Clients, clientHandler(c)
        PROVE  WorkConserving'
    <3>1. UNCHANGED ioVars /\ mpc = "loop" /\ mpc' \in {"loop", "q_lock"}
      BY <2>1 DEF clientHandler, acceptHandler, readQueryFromClient, sendReplyToClient,
                  processInputBuffer
    <3> QED
      BY <3>1, WorkFrame DEF ioVars, Awake, Waiting, SignalToCome
  <2>2. CASE UNCHANGED vars
    BY <2>2, WorkFrame DEF vars, Awake, Waiting, SignalToCome
  <2> QED
    BY <2>1, <2>2, MainWork, ThreadWork DEF Next
<1> QED
  BY <1>1, <1>2, InitTInv, NextTInv, PTL DEF Spec

-----------------------------------------------------------------------------
(* Buffers.  JobBuffers is inductive with ownership and one more fact: the *)
(* buffers are reset before the next request of a connection can be read.  *)

Fresh == \A c \in Clients : R \in mask[c] => wlen[c] = 0 /\ wpos[c] = 0

\* Clients whose request still waits for its reply, and those that have one.
Unanswered(c) ==
    \/ Queued(c)
    \/ HeldByMain(c) /\ mpc # "p_event"
    \/ \E t \in Threads : HeldByThread(c, t) /\ tpc[t] = "proc"
Answered(c) ==
    \/ Processed(c)
    \/ HeldByMain(c) /\ mpc = "p_event"
    \/ \E t \in Threads : HeldByThread(c, t) /\ tpc[t] # "proc"

JInv == SInv /\ JobBuffers /\ Fresh

LEMMA PendingParts ==
    /\ \A c : Pending(c) <=> Unanswered(c) \/ Answered(c)
    /\ \A c : Pending(c)' <=> Unanswered(c)' \/ Answered(c)'
BY DEF Pending, Unanswered, Answered

\* JobBuffers in terms of the two kinds of clients.
LEMMA BuffersOf ==
    /\ JobBuffers <=>
         \A c \in Clients :
           /\ Unanswered(c) \/ Answered(c) => rbuf[c] = "full" /\ wpos[c] = 0
           /\ Unanswered(c) => wlen[c] = 0
           /\ Answered(c) => wlen[c] > 0
           /\ W \in mask[c] => wpos[c] < wlen[c]
    /\ JobBuffers' <=>
         \A c \in Clients :
           /\ Unanswered(c)' \/ Answered(c)' => rbuf'[c] = "full" /\ wpos'[c] = 0
           /\ Unanswered(c)' => wlen'[c] = 0
           /\ Answered(c)' => wlen'[c] > 0
           /\ W \in mask'[c] => wpos'[c] < wlen'[c]
<1>1. JobBuffers <=>
         \A c \in Clients :
           /\ Pending(c) => rbuf[c] = "full" /\ wpos[c] = 0
           /\ Unanswered(c) => wlen[c] = 0
           /\ Answered(c) => wlen[c] > 0
           /\ W \in mask[c] => wpos[c] < wlen[c]
  BY DEF JobBuffers, Unanswered, Answered
<1>2. JobBuffers' <=>
         \A c \in Clients :
           /\ Pending(c)' => rbuf'[c] = "full" /\ wpos'[c] = 0
           /\ Unanswered(c)' => wlen'[c] = 0
           /\ Answered(c)' => wlen'[c] > 0
           /\ W \in mask'[c] => wpos'[c] < wlen'[c]
  BY DEF JobBuffers, Unanswered, Answered
<1> QED
  BY <1>1, <1>2, PendingParts

\* A step that hands clients on within their kind and leaves their buffers and
\* events alone.
LEMMA BufferFrame ==
    ASSUME JInv, SInv', UNCHANGED <<mask, rbuf, wlen, wpos>>,
           \A c \in Clients : Unanswered(c)' => Unanswered(c),
           \A c \in Clients : Answered(c)' => Answered(c)
    PROVE  JInv'
BY BuffersOf DEF JInv, Fresh

\* The handlers of client events work on a client that nobody holds.
LEMMA ClientJInv ==
    ASSUME JInv, SInv', NEW c \in Clients, clientHandler(c)
    PROVE  JInv'
<1>1. /\ mpc = "loop" /\ UNCHANGED <<io_newjobs, io_processed, tpc, tc>>
  BY DEF clientHandler, acceptHandler, readQueryFromClient, sendReplyToClient, ioVars
<1>2. /\ mask \in [Clients -> Masks] /\ rbuf \in [Clients -> {"null", "partial", "full"}]
      /\ wlen \in [Clients -> 0 .. MaxReply] /\ wpos \in [Clients -> 0 .. MaxReply]
  BY DEF JInv, SInv, TInv, TypeOK
<1>3. \A d : Queued(d)' = Queued(d) /\ Processed(d)' = Processed(d)
  BY <1>1, FrameSame
<1>4. \A d, t : HeldByThread(d, t)' = HeldByThread(d, t)
  BY <1>1, FrameSame
<1>5. \A d : ~HeldByMain(d)
  BY <1>1 DEF HeldByMain
<1>6. ~Pending(c) /\ ~Unanswered(c) /\ ~Answered(c)
  <2>1. ~Pending(c)
    BY DEF JInv, SInv, SingleOwner, clientHandler, acceptHandler, readQueryFromClient,
           sendReplyToClient
  <2> QED
    BY <2>1, PendingParts
<1>7. \A d \in Clients : ~HeldByMain(d)' =>
        (Unanswered(d)' <=> Unanswered(d)) /\ (Answered(d)' <=> Answered(d))
  BY <1>1, <1>3, <1>4, <1>5 DEF Unanswered, Answered
<1>8. \A d \in Clients : R \in mask[d] => mask[d] = {R}
  BY DEF JInv, SInv, OneEvent
<1>9. CASE mpc' = "loop" /\ \A d \in Clients \ {c} : /\ mask'[d] = mask[d] /\ rbuf'[d] = rbuf[d]
                                                   /\ wlen'[d] = wlen[d] /\ wpos'[d] = wpos[d]
  <2>1. \A d \in Clients : (Unanswered(d)' <=> Unanswered(d)) /\ (Answered(d)' <=> Answered(d))
    BY <1>7, <1>9 DEF HeldByMain
  <2>2. ASSUME /\ W \in mask'[c] => wpos'[c] < wlen'[c]
               /\ R \in mask'[c] => wlen'[c] = 0 /\ wpos'[c] = 0
        PROVE  JInv'
    <3>1. \A d \in Clients \ {c} :
            /\ Unanswered(d)' \/ Answered(d)' => rbuf'[d] = "full" /\ wpos'[d] = 0
            /\ Unanswered(d)' => wlen'[d] = 0
            /\ Answered(d)' => wlen'[d] > 0
            /\ W \in mask'[d] => wpos'[d] < wlen'[d]
            /\ R \in mask'[d] => wlen'[d] = 0 /\ wpos'[d] = 0
      BY <1>9, <2>1, BuffersOf DEF JInv, Fresh
    <3>2. JobBuffers'
      BY <1>6, <2>1, <2>2, <3>1, BuffersOf
    <3>3. Fresh'
      BY <2>2, <3>1 DEF Fresh
    <3> QED
      BY <3>2, <3>3 DEF JInv
  <2>3. CASE createClient(c) \/ freeClient(c) \/ resetClient(c)
    <3>1. /\ wlen'[c] = 0 /\ wpos'[c] = 0
          /\ mask'[c] = {R} \/ mask'[c] = {}
      BY <1>2, <2>3 DEF createClient, freeClient, resetClient
    <3> QED
      BY <2>2, <3>1 DEF R, W
  <2>4. CASE UNCHANGED <<mask, wlen, wpos>>
    BY <2>2, <2>4, BuffersOf DEF JInv, Fresh
  <2>5. CASE \E n \in 0 .. wlen[c] - wpos[c] :
               /\ W \in mask[c] /\ wpos[c] + n # wlen[c]
               /\ wpos' = [wpos EXCEPT ![c] = @ + n] /\ UNCHANGED <<mask, wlen>>
    <3>1. wpos'[c] < wlen'[c] /\ W \in mask[c]
      BY <1>2, <2>5
    <3>2. R \notin mask'[c]
      BY <1>8, <2>5 DEF R, W
    <3> QED
      BY <2>2, <3>1, <3>2
  <2> QED
    BY <1>1, <1>9, <2>3, <2>4, <2>5
       DEF clientHandler, acceptHandler, readQueryFromClient, sendReplyToClient, processInputBuffer
<1>10. CASE /\ R \in mask[c] /\ mpc' = "q_lock" /\ mc' = c
            /\ rbuf' = [rbuf EXCEPT ![c] = "full"] /\ mask' = [mask EXCEPT ![c] = @ \ {R}]
            /\ UNCHANGED <<wlen, wpos>>
  <2>1. \A d : HeldByMain(d)' <=> d = c
    BY <1>10 DEF HeldByMain
  <2>2. Unanswered(c)' /\ ~Answered(c)'
    BY <1>3, <1>4, <1>1, <1>6, <1>10, <2>1 DEF Unanswered, Answered
  <2>3. wlen'[c] = 0 /\ wpos'[c] = 0 /\ rbuf'[c] = "full" /\ mask'[c] = {}
    BY <1>2, <1>8, <1>10 DEF JInv, Fresh
  <2>4. \A d \in Clients \ {c} :
          /\ Unanswered(d)' \/ Answered(d)' => rbuf'[d] = "full" /\ wpos'[d] = 0
          /\ Unanswered(d)' => wlen'[d] = 0
          /\ Answered(d)' => wlen'[d] > 0
          /\ W \in mask'[d] => wpos'[d] < wlen'[d]
          /\ R \in mask'[d] => wlen'[d] = 0 /\ wpos'[d] = 0
    BY <1>2, <1>7, <1>10, <2>1, BuffersOf DEF JInv, Fresh
  <2>5. JobBuffers'
    BY <2>2, <2>3, <2>4, BuffersOf
  <2>6. Fresh'
    BY <2>3, <2>4 DEF Fresh
  <2> QED
    BY <2>5, <2>6 DEF JInv
<1>11. CASE acceptHandler(c)
  BY <1>1, <1>2, <1>9, <1>11 DEF acceptHandler, createClient
<1>12. CASE readQueryFromClient(c)
  BY <1>1, <1>2, <1>9, <1>10, <1>12 DEF readQueryFromClient, processInputBuffer, freeClient
<1>13. CASE sendReplyToClient(c)
  BY <1>1, <1>2, <1>9, <1>13 DEF sendReplyToClient, freeClient, resetClient
<1> QED
  BY <1>11, <1>12, <1>13 DEF clientHandler

\* The main thread moves clients within their kind, and gives a client with a
\* reply its write event.
LEMMA MainJInv ==
    ASSUME JInv, SInv', queueIOJob \/ vmThreadedIOCompletedJob
    PROVE  JInv'
<1>0. TInv /\ tpc \in [Threads -> ThreadPC]
  BY DEF JInv, SInv, TInv, TypeOK
<1>1. CASE queueLock \/ pipeReadable \/ pipeRead \/ completedLock
  <2>1. UNCHANGED <<io_newjobs, io_processed, tpc, tc, mask, rbuf, wlen, wpos>>
    BY <1>1 DEF queueLock, pipeReadable, pipeRead, completedLock, clientVars, ioVars
  <2>2. \A d : Queued(d)' = Queued(d) /\ Processed(d)' = Processed(d)
    BY <2>1, FrameSame
  <2>3. \A d, t : HeldByThread(d, t)' = HeldByThread(d, t)
    BY <2>1, FrameSame
  <2>4. \A d : HeldByMain(d)' => HeldByMain(d) /\ mpc # "p_event" /\ mpc' # "p_event"
    BY <1>1 DEF queueLock, pipeReadable, pipeRead, completedLock, HeldByMain
  <2>5. \A d \in Clients : (Unanswered(d)' => Unanswered(d)) /\ (Answered(d)' => Answered(d))
    BY <2>1, <2>2, <2>3, <2>4 DEF Unanswered, Answered
  <2> QED
    BY <2>1, <2>5, BufferFrame
<1>2. CASE queueAdd
  <2>1. /\ HeldByMain(mc) /\ mpc # "p_event" /\ mc \in Clients
        /\ UNCHANGED <<io_processed, tpc, tc, mask, rbuf, wlen, wpos>>
        /\ io_newjobs \in Seq(Clients) /\ io_newjobs' = Append(io_newjobs, mc)
    BY <1>0, <1>2 DEF queueAdd, HeldByMain, clientVars, TInv, TypeOK, HandsOK
  <2>2. \A d : Queued(d)' <=> d = mc \/ Queued(d)
    BY <2>1, ListPush DEF Queued
  <2>3. \A d : Processed(d)' = Processed(d) /\ ~HeldByMain(d)'
    BY <1>2 DEF queueAdd, Processed, InList, HeldByMain
  <2>4. \A d, t : HeldByThread(d, t)' = HeldByThread(d, t)
    BY <2>1 DEF HeldByThread
  <2>5. \A d \in Clients : (Unanswered(d)' => Unanswered(d)) /\ (Answered(d)' => Answered(d))
    BY <2>1, <2>2, <2>3, <2>4 DEF Unanswered, Answered
  <2> QED
    BY <2>1, <2>5, BufferFrame
<1>3. CASE noticeThreadedIO
  <2>1. UNCHANGED <<io_newjobs, io_processed, mask, rbuf, wlen, wpos>>
    BY <1>3 DEF noticeThreadedIO, clientVars
  <2>2. \A d : Queued(d)' = Queued(d) /\ Processed(d)' = Processed(d) /\ ~HeldByMain(d)'
    BY <1>3 DEF noticeThreadedIO, Queued, Processed, InList, HeldByMain
  <2>3. \A d : \A t \in Threads : HeldByThread(d, t)' => HeldByThread(d, t) /\ tpc'[t] = tpc[t]
    BY <1>0, <1>3 DEF noticeThreadedIO, HeldByThread, HoldingPC, Waiting
  <2>4. \A d \in Clients : (Unanswered(d)' => Unanswered(d)) /\ (Answered(d)' => Answered(d))
    BY <2>2, <2>3 DEF Unanswered, Answered
  <2> QED
    BY <2>1, <2>4, BufferFrame
<1>4. CASE completedPop
  <2>1. UNCHANGED <<io_newjobs, tpc, tc, mask, rbuf, wlen, wpos>>
    BY <1>4 DEF completedPop, clientVars
  <2>2. \A d : Queued(d)' = Queued(d)
    BY <1>4 DEF completedPop, Queued, InList
  <2>3. \A d, t : HeldByThread(d, t)' = HeldByThread(d, t)
    BY <2>1 DEF HeldByThread
  <2>4. \A d : (Processed(d)' => Processed(d)) /\ (HeldByMain(d)' => mpc' = "p_event" /\ Processed(d))
    <3>1. CASE io_processed = << >>
      BY <1>4, <3>1 DEF completedPop, HeldByMain, Processed, InList
    <3>2. CASE io_processed # << >>
      <4>1. io_processed \in Seq(Clients) /\ io_processed' = Tail(io_processed) /\ mc' = Head(io_processed)
            /\ mpc' = "p_event"
        BY <1>0, <1>4, <3>2 DEF completedPop, TInv, TypeOK
      <4>2. \A d : Processed(d) <=> d = mc' \/ Processed(d)'
        BY <3>2, <4>1, ListPop DEF Processed
      <4> QED
        BY <4>1, <4>2 DEF HeldByMain
    <3> QED
      BY <3>1, <3>2
  <2>5. \A d \in Clients : (Unanswered(d)' => Unanswered(d)) /\ (Answered(d)' => Answered(d))
    BY <2>1, <2>2, <2>3, <2>4 DEF Unanswered, Answered
  <2> QED
    BY <2>1, <2>5, BufferFrame
<1>5. CASE completedEvent
  <2>1. /\ mc \in Clients /\ HeldByMain(mc) /\ mpc = "p_event"
        /\ UNCHANGED <<io_newjobs, io_processed, tpc, tc, rbuf, wlen, wpos>>
    BY <1>0, <1>5 DEF completedEvent, HeldByMain, ioVars, TInv, HandsOK
  <2>2. \A d : Queued(d)' = Queued(d) /\ Processed(d)' = Processed(d)
    BY <2>1, FrameSame
  <2>3. \A d, t : HeldByThread(d, t)' = HeldByThread(d, t)
    BY <2>1, FrameSame
  <2>4. \A d : ~HeldByMain(d)'
    BY <1>5 DEF completedEvent, HeldByMain
  <2>5. \A d \in Clients : (Unanswered(d)' => Unanswered(d)) /\ (Answered(d)' => Answered(d))
    BY <2>1, <2>2, <2>3, <2>4 DEF Unanswered, Answered
  <2>6. Answered(mc)
    BY <2>1 DEF Answered
  <2>7. mask[mc] = {} /\ mask \in [Clients -> Masks]
    BY <2>1 DEF JInv, SInv, TInv, TypeOK, SingleOwner, Pending
  <2>8. /\ \A d \in Clients \ {mc} : mask'[d] = mask[d]
        /\ R \notin mask'[mc]
    BY <1>5, <2>1, <2>7 DEF completedEvent, R, W
  <2>9. wpos[mc] < wlen[mc]
    <3>1. wpos[mc] = 0 /\ wlen[mc] > 0
      BY <2>1, <2>6, BuffersOf DEF JInv
    <3> QED
      BY <3>1
  <2>10. JobBuffers'
    BY <2>1, <2>5, <2>8, <2>9, BuffersOf DEF JInv
  <2>11. Fresh'
    BY <2>1, <2>8 DEF JInv, Fresh
  <2> QED
    BY <2>10, <2>11 DEF JInv
<1> QED
  BY <1>1, <1>2, <1>3, <1>4, <1>5 DEF queueIOJob, vmThreadedIOCompletedJob

\* The extension's procedure turns an unanswered client into an answered one;
\* the other steps of a thread move clients within their kind.
LEMMA ThreadJInv ==
    ASSUME JInv, SInv', NEW t \in Threads, IOThreadEntryPoint(t) \/ spuriousWakeup(t)
    PROVE  JInv'
<1>0. /\ TInv /\ tpc \in [Threads -> ThreadPC] /\ tc \in [Threads -> Clients \cup {NoOne}]
      /\ io_newjobs \in Seq(Clients) /\ io_processed \in Seq(Clients)
      /\ wlen \in [Clients -> 0 .. MaxReply]
  BY DEF JInv, SInv, TInv, TypeOK
<1>1. UNCHANGED <<mask, rbuf, wpos, mpc, mc>>
  BY DEF IOThreadEntryPoint, threadInit, threadLock, waitThreadedIO, threadGet, extCmdProc,
         threadDone, pipeWrite, spuriousWakeup, clientVars
<1>2. \A d : HeldByMain(d)' = HeldByMain(d)
  BY <1>1 DEF HeldByMain
<1>3. CASE threadInit(t) \/ threadLock(t) \/ waitThreadedIO(t) \/ pipeWrite(t) \/ spuriousWakeup(t)
  <2>1. UNCHANGED <<io_newjobs, io_processed, tc, wlen>>
    BY <1>3 DEF threadInit, threadLock, waitThreadedIO, pipeWrite, spuriousWakeup, clientVars
  <2>2. \A d : Queued(d)' = Queued(d) /\ Processed(d)' = Processed(d)
    BY <2>1 DEF Queued, Processed, InList
  <2>3. \A d : \A u \in Threads : HeldByThread(d, u)' =>
          HeldByThread(d, u) /\ (tpc'[u] = "proc" <=> tpc[u] = "proc")
    BY <1>0, <1>3, <2>1 DEF threadInit, threadLock, waitThreadedIO, pipeWrite, spuriousWakeup,
       HeldByThread, HoldingPC
  <2>4. \A d \in Clients : (Unanswered(d)' => Unanswered(d)) /\ (Answered(d)' => Answered(d))
    BY <1>1, <1>2, <2>2, <2>3 DEF Unanswered, Answered
  <2> QED
    BY <1>1, <2>1, <2>4, BufferFrame
<1>4. CASE threadGet(t)
  <2>1. /\ UNCHANGED <<io_processed, wlen>> /\ io_newjobs # << >> /\ io_newjobs' = Tail(io_newjobs)
        /\ tc' = [tc EXCEPT ![t] = Head(io_newjobs)] /\ tpc' = [tpc EXCEPT ![t] = "proc"]
    BY <1>4 DEF threadGet, clientVars
  <2>2. \A d : Queued(d) <=> d = Head(io_newjobs) \/ Queued(d)'
    BY <1>0, <2>1, ListPop DEF Queued
  <2>3. \A d : Processed(d)' = Processed(d)
    BY <2>1 DEF Processed, InList
  <2>4. \A d : \A u \in Threads : HeldByThread(d, u)' =>
          \/ u # t /\ HeldByThread(d, u) /\ tpc'[u] = tpc[u]
          \/ u = t /\ d = Head(io_newjobs) /\ tpc'[u] = "proc"
    BY <1>0, <2>1 DEF HeldByThread
  <2>5. \A d \in Clients : (Unanswered(d)' => Unanswered(d)) /\ (Answered(d)' => Answered(d))
    BY <1>1, <1>2, <2>2, <2>3, <2>4 DEF Unanswered, Answered
  <2> QED
    BY <1>1, <2>1, <2>5, BufferFrame
<1>5. CASE threadDone(t)
  <2>1. /\ UNCHANGED <<io_newjobs, wlen>> /\ io_processed' = Append(io_processed, tc[t])
        /\ tpc[t] = "done_add" /\ tpc' = [tpc EXCEPT ![t] = "pipe"] /\ tc' = [tc EXCEPT ![t] = NoOne]
        /\ tc[t] \in Clients
    BY <1>0, <1>5 DEF threadDone, clientVars, TInv, HandsOK, HoldingPC
  <2>2. \A d : Processed(d)' <=> d = tc[t] \/ Processed(d)
    BY <1>0, <2>1, ListPush DEF Processed
  <2>3. \A d : Queued(d)' = Queued(d)
    BY <2>1 DEF Queued, InList
  <2>4. \A d : \A u \in Threads : HeldByThread(d, u)' => HeldByThread(d, u) /\ tpc'[u] = tpc[u]
    BY <1>0, <2>1 DEF HeldByThread, HoldingPC
  <2>5. HeldByThread(tc[t], t) /\ tpc[t] # "proc"
    BY <2>1 DEF HeldByThread, HoldingPC
  <2>6. \A d \in Clients : (Unanswered(d)' => Unanswered(d)) /\ (Answered(d)' => Answered(d))
    BY <1>1, <1>2, <2>2, <2>3, <2>4, <2>5 DEF Unanswered, Answered
  <2> QED
    BY <1>1, <2>1, <2>6, BufferFrame
<1>6. CASE extCmdProc(t)
  <2>0. PICK x \in Clients : x = tc[t]
    BY <1>0, <1>6 DEF extCmdProc, TInv, HandsOK, HoldingPC
  <2>1. /\ UNCHANGED <<io_newjobs, io_processed, tc>>
        /\ tpc[t] = "proc" /\ tpc' = [tpc EXCEPT ![t] = "done_lock"]
        /\ \E n \in 1 .. MaxReply : wlen' = [wlen EXCEPT ![x] = n]
    BY <1>6, <2>0 DEF extCmdProc
  <2>2. HeldByThread(x, t) /\ Pending(x) /\ Unanswered(x)
    BY <2>0, <2>1 DEF HeldByThread, HoldingPC, Pending, Unanswered
  <2>3. /\ \A d \in Clients \ {x} : wlen'[d] = wlen[d]
        /\ wlen'[x] > 0
    BY <1>0, <2>1
  <2>4. \A d : Queued(d)' = Queued(d) /\ Processed(d)' = Processed(d)
    BY <2>1 DEF Queued, Processed, InList
  <2>5. \A d : \A u \in Threads : HeldByThread(d, u)' =>
          HeldByThread(d, u) /\ (u # t => tpc'[u] = tpc[u]) /\ (u = t => d = x /\ tpc'[u] = "done_lock")
    BY <1>0, <2>0, <2>1 DEF HeldByThread, HoldingPC
  <2>6. /\ ~Queued(x) /\ ~HeldByMain(x) /\ mask[x] = {}
        /\ \A u \in Threads : HeldByThread(x, u) => u = t
    BY <2>1, <2>2 DEF JInv, SInv, SingleOwner
  <2>7. ~Unanswered(x)'
    BY <1>1, <1>2, <2>4, <2>5, <2>6 DEF Unanswered
  <2>8. \A d \in Clients \ {x} : (Unanswered(d)' => Unanswered(d)) /\ (Answered(d)' => Answered(d))
    BY <1>1, <1>2, <2>4, <2>5 DEF Unanswered, Answered
  <2>9. JobBuffers'
    BY <1>1, <2>1, <2>2, <2>3, <2>6, <2>7, <2>8, BuffersOf DEF JInv
  <2>10. Fresh'
    BY <1>1, <2>3, <2>6 DEF JInv, Fresh
  <2> QED
    BY <2>9, <2>10 DEF JInv
<1> QED
  BY <1>3, <1>4, <1>5, <1>6 DEF IOThreadEntryPoint

LEMMA InitJInv == Init => JInv
<1> SUFFICES ASSUME Init PROVE JInv
  OBVIOUS
<1>1. \A c \in Clients : ~Pending(c) /\ mask[c] = {}
  BY DEF Init, Pending, Queued, Processed, InList, HeldByMain, HeldByThread, HoldingPC
<1>2. JobBuffers
  BY <1>1, BuffersOf, PendingParts
<1> QED
  BY <1>1, <1>2, InitSInv DEF JInv, Fresh

LEMMA NextJInv == JInv /\ [Next]_vars => JInv'
<1> SUFFICES ASSUME JInv, [Next]_vars PROVE JInv'
  OBVIOUS
<1>1. SInv'
  BY NextSInv DEF JInv
<1>2. CASE UNCHANGED vars
  <2>1. UNCHANGED <<mask, rbuf, wlen, wpos, io_newjobs, io_processed, mpc, mc, tpc, tc>>
    BY <1>2 DEF vars
  <2>2. \A d \in Clients : (Unanswered(d)' => Unanswered(d)) /\ (Answered(d)' => Answered(d))
    BY <2>1 DEF Unanswered, Answered, Queued, Processed, InList, HeldByMain, HeldByThread
  <2> QED
    BY <1>1, <2>1, <2>2, BufferFrame
<1> QED
  BY <1>1, <1>2, ClientJInv, MainJInv, ThreadJInv DEF Next

\* From queueIOJob on a client's request is complete; its reply is empty until
\* the command procedure appends one and is not empty and unsent until the
\* write handler starts: nothing is left of the connection's last request.
THEOREM BuffersAlwaysFit == Spec => []JobBuffers
<1>1. JInv => JobBuffers
  BY DEF JInv
<1> QED
  BY InitJInv, NextJInv, <1>1, PTL DEF Spec

-----------------------------------------------------------------------------
(* Refinement.  With single ownership the state of a connection in the     *)
(* request service can be read off its place and its event; a step moves   *)
(* one connection or none.                                                 *)

LEMMA StateOf ==
    /\ SInv => \A c \in Clients :
         /\ c \notin live => serviceState[c] = "absent"
         /\ Pending(c) => serviceState[c] = "pending"
         /\ W \in mask[c] => serviceState[c] = "replying"
         /\ R \in mask[c] => serviceState[c] = "idle"
         /\ c \in live /\ ~Pending(c) /\ mask[c] = {} => serviceState[c] = "stranded"
    /\ SInv' => \A c \in Clients :
         /\ c \notin live' => serviceState'[c] = "absent"
         /\ Pending(c)' => serviceState'[c] = "pending"
         /\ W \in mask'[c] => serviceState'[c] = "replying"
         /\ R \in mask'[c] => serviceState'[c] = "idle"
         /\ c \in live' /\ ~Pending(c)' /\ mask'[c] = {} => serviceState'[c] = "stranded"
<1>1. SInv => \A c \in Clients :
        /\ Pending(c) => c \in live /\ mask[c] = {}
        /\ mask[c] # {} => c \in live
        /\ R \in mask[c] => mask[c] = {R}
  BY DEF SInv, SingleOwner, OneEvent
<1>2. SInv' => \A c \in Clients :
        /\ Pending(c)' => c \in live' /\ mask'[c] = {}
        /\ mask'[c] # {} => c \in live'
        /\ R \in mask'[c] => mask'[c] = {R}
  BY DEF SInv, SingleOwner, OneEvent
<1> QED
  BY <1>1, <1>2 DEF serviceState, stateOf, R, W

\* What the service sees of client d does not change.
Same(d) ==
    /\ d \in live' <=> d \in live
    /\ mask'[d] = mask[d]
    /\ Pending(d)' <=> Pending(d)

\* A step that changes one connection at most is one move of the service.
LEMMA OneMove ==
    ASSUME NEW c \in Clients, \A d \in Clients \ {c} : Same(d),
           NEW from, NEW to, serviceState[c] = from, serviceState'[c] = to
    PROVE  Service!Move(c, from, to)
<1>1. \A d \in Clients \ {c} : serviceState'[d] = serviceState[d]
  BY DEF serviceState, stateOf, Same
<1>2. /\ serviceState = [d \in Clients |-> serviceState[d]]
      /\ serviceState' = [d \in Clients |-> serviceState'[d]]
  BY DEF serviceState
<1>3. serviceState' = [serviceState EXCEPT ![c] = to]
  BY <1>1, <1>2
<1> QED
  BY <1>3 DEF Service!Move

LEMMA NoMove ==
    ASSUME \A d \in Clients : Same(d)
    PROVE  serviceState' = serviceState
BY DEF serviceState, stateOf, Same

\* A step is a move of the service or invisible to it.
Moves == Service!Next \/ UNCHANGED serviceState

\* The handlers of client events connect, submit, deliver and close.
LEMMA ClientMoves ==
    ASSUME SInv, SInv', NEW c \in Clients, clientHandler(c)
    PROVE  Moves
<1>1. /\ mpc = "loop" /\ UNCHANGED <<io_newjobs, io_processed, tpc, tc>>
      /\ mask \in [Clients -> Masks] /\ live \in SUBSET Clients
  BY DEF clientHandler, acceptHandler, readQueryFromClient, sendReplyToClient, ioVars,
         SInv, TInv, TypeOK
<1>2. \A d : Queued(d)' = Queued(d) /\ Processed(d)' = Processed(d)
  BY <1>1, FrameSame
<1>3. \A d, t : HeldByThread(d, t)' = HeldByThread(d, t)
  BY <1>1, FrameSame
<1>4. \A d : ~HeldByMain(d)
  BY <1>1 DEF HeldByMain
<1>5. \A d \in Clients : ~HeldByMain(d)' => (Pending(d)' <=> Pending(d))
  BY <1>2, <1>3, <1>4 DEF Pending
<1>6. /\ ~Pending(c)
      /\ mask[c] # {} => c \in live
  BY DEF SInv, SingleOwner, clientHandler, acceptHandler, readQueryFromClient, sendReplyToClient
<1>7. ASSUME mpc' = "loop" PROVE \A d \in Clients : Pending(d)' <=> Pending(d)
  BY <1>5, <1>7 DEF HeldByMain
<1>8. CASE acceptHandler(c)
  <2>1. c \notin live /\ mpc' = "loop" /\ live' = live \cup {c} /\ mask' = [mask EXCEPT ![c] = {R}]
    BY <1>1, <1>8 DEF acceptHandler, createClient
  <2>2. \A d \in Clients \ {c} : Same(d)
    BY <1>1, <1>7, <2>1 DEF Same
  <2>3. serviceState[c] = "absent" /\ serviceState'[c] = "idle"
    BY <1>1, <2>1, StateOf
  <2> QED
    BY <2>2, <2>3, OneMove DEF Moves, Service!Next, Service!Connect
<1>9. CASE freeClient(c) /\ mpc' = "loop" /\ (R \in mask[c] \/ W \in mask[c])
  <2>1. live' = live \ {c} /\ mask' = [mask EXCEPT ![c] = {}]
    BY <1>9 DEF freeClient
  <2>2. \A d \in Clients \ {c} : Same(d)
    BY <1>1, <1>7, <1>9, <2>1 DEF Same
  <2>3. serviceState[c] \in {"idle", "replying"} /\ serviceState'[c] = "absent"
    BY <1>9, <2>1, StateOf
  <2> QED
    BY <2>2, <2>3, OneMove DEF Moves, Service!Next, Service!Close
<1>10. CASE resetClient(c) /\ mpc' = "loop" /\ W \in mask[c]
  <2>1. live' = live
    BY <1>10 DEF resetClient
  <2>2. \/ mask' = [mask EXCEPT ![c] = {R}]
        \/ EpollMayFail /\ mask' = [mask EXCEPT ![c] = {}]
    BY <1>10 DEF resetClient
  <2>3. \A d \in Clients \ {c} : Same(d)
    BY <1>1, <1>7, <1>10, <2>1, <2>2 DEF Same
  <2>4. serviceState[c] = "replying" /\ c \in live' /\ ~Pending(c)'
    BY <1>6, <1>7, <1>10, <2>1, StateOf
  <2>5. CASE mask' = [mask EXCEPT ![c] = {R}]
    <3>1. serviceState'[c] = "idle"
      BY <1>1, <2>5, StateOf
    <3> QED
      BY <2>3, <2>4, <3>1, OneMove DEF Moves, Service!Next, Service!Deliver
  <2>6. CASE EpollMayFail /\ mask' = [mask EXCEPT ![c] = {}]
    <3>1. serviceState'[c] = "stranded"
      BY <1>1, <2>4, <2>6, StateOf
    <3> QED
      BY <2>3, <2>4, <2>6, <3>1, OneMove DEF Moves, Service!Next, Service!Strand
  <2> QED
    BY <2>2, <2>5, <2>6
<1>11. CASE mpc' = "loop" /\ UNCHANGED <<live, mask>>
  BY <1>7, <1>11, NoMove DEF Same, Moves
<1>12. CASE /\ R \in mask[c] /\ mpc' = "q_lock" /\ mc' = c
            /\ live' = live /\ mask' = [mask EXCEPT ![c] = @ \ {R}]
  <2>1. \A d : HeldByMain(d)' <=> d = c
    BY <1>12 DEF HeldByMain
  <2>2. \A d \in Clients \ {c} : Same(d)
    BY <1>1, <1>5, <1>12, <2>1 DEF Same
  <2>3. Pending(c)'
    BY <2>1 DEF Pending
  <2>4. serviceState[c] = "idle" /\ serviceState'[c] = "pending"
    BY <1>12, <2>3, StateOf
  <2> QED
    BY <2>2, <2>4, OneMove DEF Moves, Service!Next, Service!Submit
<1>13. CASE readQueryFromClient(c)
  BY <1>1, <1>9, <1>11, <1>12, <1>13 DEF readQueryFromClient, processInputBuffer
<1>14. CASE sendReplyToClient(c)
  BY <1>1, <1>9, <1>10, <1>11, <1>14 DEF sendReplyToClient
<1> QED
  BY <1>8, <1>13, <1>14 DEF clientHandler

\* queueIOJob and vmThreadedIOCompletedJob pass clients on, up to the one that
\* gets its event, and so its reply.
LEMMA MainMoves ==
    ASSUME SInv, SInv', queueIOJob \/ vmThreadedIOCompletedJob
    PROVE  Moves
<1>0. /\ mask \in [Clients -> Masks] /\ live' = live
      /\ tpc \in [Threads -> ThreadPC]
      /\ io_newjobs \in Seq(Clients) /\ io_processed \in Seq(Clients)
  BY DEF SInv, TInv, TypeOK, queueIOJob, vmThreadedIOCompletedJob, queueLock, queueAdd,
         noticeThreadedIO, pipeReadable, pipeRead, completedLock, completedPop, completedEvent,
         clientVars
<1>1. ASSUME mask' = mask, \A d \in Clients : Pending(d)' <=> Pending(d) PROVE Moves
  BY <1>0, <1>1, NoMove DEF Same, Moves
<1>2. CASE queueLock \/ pipeReadable \/ pipeRead \/ completedLock
  <2>1. UNCHANGED <<io_newjobs, io_processed, tpc, tc, mask>>
    BY <1>2 DEF queueLock, pipeReadable, pipeRead, completedLock, clientVars, ioVars
  <2>2. \A d : HeldByMain(d)' <=> HeldByMain(d)
    BY <1>2 DEF queueLock, pipeReadable, pipeRead, completedLock, HeldByMain
  <2>3. \A d \in Clients : Pending(d)' <=> Pending(d)
    BY <2>1, <2>2 DEF Pending, Queued, Processed, InList, HeldByThread
  <2> QED
    BY <1>1, <2>1, <2>3
<1>3. CASE queueAdd
  <2>1. mc \in Clients /\ io_newjobs' = Append(io_newjobs, mc)
    BY <1>3 DEF queueAdd, SInv, TInv, HandsOK
  <2>2. \A d : Queued(d)' <=> d = mc \/ Queued(d)
    BY <1>0, <2>1, ListPush DEF Queued
  <2>3. UNCHANGED <<io_processed, tpc, tc, mask>>
    BY <1>3 DEF queueAdd, clientVars
  <2>4. \A d : (HeldByMain(d) <=> d = mc) /\ ~HeldByMain(d)'
    BY <1>3 DEF queueAdd, HeldByMain
  <2>5. \A d \in Clients : Pending(d)' <=> Pending(d)
    BY <2>2, <2>3, <2>4 DEF Pending, Processed, InList, HeldByThread
  <2> QED
    BY <1>1, <2>3, <2>5
<1>4. CASE noticeThreadedIO
  <2>1. UNCHANGED <<io_newjobs, io_processed, tc, mask>>
    BY <1>4 DEF noticeThreadedIO, clientVars
  <2>2. \A d : \A t \in Threads : HeldByThread(d, t)' <=> HeldByThread(d, t)
    BY <1>0, <1>4 DEF noticeThreadedIO, HeldByThread, HoldingPC, Waiting
  <2>3. \A d : ~HeldByMain(d) /\ ~HeldByMain(d)'
    BY <1>4 DEF noticeThreadedIO, HeldByMain
  <2>4. \A d \in Clients : Pending(d)' <=> Pending(d)
    BY <2>1, <2>2, <2>3 DEF Pending, Queued, Processed, InList
  <2> QED
    BY <1>1, <2>1, <2>4
<1>5. CASE completedPop
  <2>1. UNCHANGED <<io_newjobs, tpc, tc, mask>> /\ \A d : ~HeldByMain(d)
    BY <1>5 DEF completedPop, clientVars, HeldByMain
  <2>2. CASE io_processed = << >>
    <3>1. io_processed' = io_processed /\ \A d : ~HeldByMain(d)'
      BY <1>5, <2>2 DEF completedPop, HeldByMain
    <3>2. \A d \in Clients : Pending(d)' <=> Pending(d)
      BY <2>1, <3>1 DEF Pending, Queued, Processed, InList, HeldByThread
    <3> QED
      BY <1>1, <2>1, <3>2
  <2>3. CASE io_processed # << >>
    <3>1. \A d : Processed(d) <=> d = Head(io_processed) \/ Processed(d)'
      BY <1>0, <1>5, <2>3, ListPop DEF completedPop, Processed
    <3>2. \A d : HeldByMain(d)' <=> d = Head(io_processed)
      BY <1>5, <2>3 DEF completedPop, HeldByMain
    <3>3. \A d \in Clients : Pending(d)' <=> Pending(d)
      BY <2>1, <3>1, <3>2 DEF Pending, Queued, InList, HeldByThread
    <3> QED
      BY <1>1, <2>1, <3>3
  <2> QED
    BY <2>2, <2>3
<1>6. CASE completedEvent
  <2>0. PICK x \in Clients : x = mc
    BY <1>6 DEF completedEvent, SInv, TInv, HandsOK
  <2>1. \A d : (HeldByMain(d) <=> d = x) /\ ~HeldByMain(d)'
    BY <1>6, <2>0 DEF completedEvent, HeldByMain
  <2>2. UNCHANGED <<io_newjobs, io_processed, tpc, tc>>
    BY <1>6 DEF completedEvent, ioVars
  <2>3. \/ mask' = [mask EXCEPT ![x] = @ \cup {W}]
        \/ EpollMayFail /\ mask' = mask
    BY <1>6, <2>0 DEF completedEvent
  <2>4. \A d \in Clients \ {x} : Same(d)
    BY <1>0, <2>1, <2>2, <2>3 DEF Same, Pending, Queued, Processed, InList, HeldByThread
  <2>5. /\ Pending(x) /\ x \in live /\ mask[x] = {}
        /\ ~Queued(x) /\ ~Processed(x) /\ \A t \in Threads : ~HeldByThread(x, t)
    <3>1. HeldByMain(x) /\ Pending(x)
      BY <2>1 DEF Pending
    <3> QED
      BY <3>1 DEF SInv, SingleOwner
  <2>6. ~Pending(x)'
    BY <2>1, <2>2, <2>5 DEF Pending, Queued, Processed, InList, HeldByThread
  <2>7. serviceState[x] = "pending"
    BY <2>5, StateOf
  <2>8. CASE mask' = [mask EXCEPT ![x] = @ \cup {W}]
    <3>1. serviceState'[x] = "replying"
      BY <1>0, <2>8, StateOf
    <3> QED
      BY <2>4, <2>7, <3>1, OneMove DEF Moves, Service!Next, Service!Answer
  <2>9. CASE EpollMayFail /\ mask' = mask
    <3>1. serviceState'[x] = "stranded"
      BY <1>0, <2>5, <2>6, <2>9, StateOf
    <3> QED
      BY <2>4, <2>7, <2>9, <3>1, OneMove DEF Moves, Service!Next, Service!Strand
  <2> QED
    BY <2>3, <2>8, <2>9
<1> QED
  BY <1>2, <1>3, <1>4, <1>5, <1>6 DEF queueIOJob, vmThreadedIOCompletedJob

\* What the I/O threads do is invisible to the connections.
LEMMA ThreadMoves ==
    ASSUME SInv, SInv', NEW t \in Threads, IOThreadEntryPoint(t) \/ spuriousWakeup(t)
    PROVE  Moves
<1>0. /\ TInv /\ tpc \in [Threads -> ThreadPC] /\ tc \in [Threads -> Clients \cup {NoOne}]
      /\ io_newjobs \in Seq(Clients) /\ io_processed \in Seq(Clients)
  BY DEF SInv, TInv, TypeOK
<1>1. UNCHANGED <<live, mask, mpc, mc>>
  BY DEF IOThreadEntryPoint, threadInit, threadLock, waitThreadedIO, threadGet, extCmdProc,
         threadDone, pipeWrite, spuriousWakeup, clientVars
<1>2. ASSUME \A d \in Clients : Pending(d)' <=> Pending(d) PROVE Moves
  BY <1>1, <1>2, NoMove DEF Same, Moves
<1>3. \A d : HeldByMain(d)' <=> HeldByMain(d)
  BY <1>1 DEF HeldByMain
<1>4. CASE \/ threadInit(t) \/ threadLock(t) \/ waitThreadedIO(t) \/ extCmdProc(t)
           \/ pipeWrite(t) \/ spuriousWakeup(t)
  <2>1. UNCHANGED <<io_newjobs, io_processed, tc>>
    BY <1>4 DEF threadInit, threadLock, waitThreadedIO, extCmdProc, pipeWrite, spuriousWakeup
  <2>2. \A u \in Threads : tpc'[u] \in HoldingPC <=> tpc[u] \in HoldingPC
    BY <1>0, <1>4 DEF threadInit, threadLock, waitThreadedIO, extCmdProc, pipeWrite,
                      spuriousWakeup, HoldingPC
  <2>3. \A d \in Clients : Pending(d)' <=> Pending(d)
    BY <1>3, <2>1, <2>2 DEF Pending, Queued, Processed, InList, HeldByThread
  <2> QED
    BY <1>2, <2>3
<1>5. CASE threadGet(t)
  <2>1. \A d : Queued(d) <=> d = Head(io_newjobs) \/ Queued(d)'
    BY <1>0, <1>5, ListPop DEF threadGet, Queued
  <2>2. \A d : \A u \in Threads :
          HeldByThread(d, u)' <=> HeldByThread(d, u) \/ (d = Head(io_newjobs) /\ u = t)
    BY <1>0, <1>5 DEF threadGet, HeldByThread, HoldingPC
  <2>3. \A d : Processed(d)' <=> Processed(d)
    BY <1>5 DEF threadGet, Processed, InList
  <2>4. \A d \in Clients : Pending(d)' <=> Pending(d)
    BY <1>3, <2>1, <2>2, <2>3 DEF Pending
  <2> QED
    BY <1>2, <2>4
<1>6. CASE threadDone(t)
  <2>0. PICK x \in Clients : x = tc[t]
    BY <1>0, <1>6 DEF threadDone, TInv, HandsOK, HoldingPC
  <2>1. \A d : Processed(d)' <=> d = x \/ Processed(d)
    BY <1>0, <1>6, <2>0, ListPush DEF threadDone, Processed
  <2>2. \A d : \A u \in Threads : HeldByThread(d, u) <=> HeldByThread(d, u)' \/ (d = x /\ u = t)
    BY <1>0, <1>6, <2>0 DEF threadDone, HeldByThread, HoldingPC
  <2>3. \A d : Queued(d)' <=> Queued(d)
    BY <1>6 DEF threadDone, Queued, InList
  <2>4. \A d \in Clients : Pending(d)' <=> Pending(d)
    BY <1>3, <2>1, <2>2, <2>3 DEF Pending
  <2> QED
    BY <1>2, <2>4
<1> QED
  BY <1>4, <1>5, <1>6 DEF IOThreadEntryPoint

\* Lists, threads, pipe and events together give every connection what
\* RequestService promises: at most one request in the server's hands, no
\* close while it is there, its answer before the next request is read.
THEOREM ServiceImplemented == Spec => ImplementsService
<1>1. Init => Service!Init
  BY DEF Init, serviceState, stateOf, Service!Init
<1>2. SInv /\ SInv' /\ [Next]_vars => [Service!Next]_serviceState
  <2> SUFFICES ASSUME SInv, SInv', [Next]_vars PROVE Moves
    BY DEF Moves
  <2>1. CASE UNCHANGED vars
    <3>1. \A d \in Clients : Same(d)
      BY <2>1 DEF vars, Same, Pending, Queued, Processed, InList, HeldByMain, HeldByThread
    <3> QED
      BY <3>1, NoMove DEF Moves
  <2> QED
    BY <2>1, ClientMoves, MainMoves, ThreadMoves DEF Next
<1> QED
  BY <1>1, <1>2, InitSInv, NextSInv, PTL DEF Spec, ImplementsService, Service!Spec

=============================================================================
