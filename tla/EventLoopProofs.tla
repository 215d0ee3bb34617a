-------------------------- MODULE EventLoopProofs --------------------------
(***************************************************************************)
(* Proofs about ae.c: file events for any number of descriptors, any       *)
(* AE_SETSIZE and any set of handlers, and time events for any number of   *)
(* timers, any periods and any length of a second.                         *)
(*                                                                         *)
(* The two invariants of AeFileEvents are proved together: a close keeps  *)
(* InterestMatches because only a descriptor without events is closed, and *)
(* the scan that computes maxfd finds the highest registered descriptor    *)
(* because the old maxfd bounded them all.                                 *)
(***************************************************************************)
EXTENDS AeFileEvents, AeTimeEvents, SequenceTheorems, WellFoundedInduction, TLAPS

\* What has a handler is open and within the events array; InterestMatches needs it.
RegisteredOpen == \A f \in Fds : mask[f] # {} => f \in open /\ f < SetSize

IInv == TypeOK /\ InterestMatches /\ RegisteredOpen /\ MaxFdCorrect

\* aeCreateEventLoop: nothing is registered and maxfd is -1.
LEMMA InitIInv == Init => IInv
<1> SUFFICES ASSUME Init PROVE IInv
  OBVIOUS
<1>1. cur \in Entries
  BY AeAssumption DEF Init, Entries, Fds, Masks
<1>2. mask \in [Fds -> Masks] /\ epoll \in [Fds -> Masks]
  BY DEF Init, Masks
<1>3. maxfd \in -1 .. NFds - 1
  BY AeAssumption DEF Init
<1>4. TypeOK
  BY <1>1, <1>2, <1>3 DEF Init, TypeOK
<1> QED
  BY <1>4 DEF Init, IInv, InterestMatches, RegisteredOpen, MaxFdCorrect

\* aeCreateFileEvent merges the new events into both masks and may raise maxfd.
LEMMA CreateIInv ==
    ASSUME IInv, NEW f \in Fds, NEW m \in Masks \ {{}}, NEW p \in Procs,
           aeCreateFileEvent(f, m, p)
    PROVE  IInv'
<1> USE AeAssumption DEF Fds, Masks
<1>1. TypeOK'
  BY DEF IInv, TypeOK, aeCreateFileEvent, aeApiAddEvent, loopVars
<1>2. InterestMatches'
  BY DEF IInv, TypeOK, InterestMatches, aeCreateFileEvent, aeApiAddEvent
<1>3. RegisteredOpen'
  BY DEF IInv, TypeOK, RegisteredOpen, aeCreateFileEvent
<1>4. MaxFdCorrect'
  BY DEF IInv, TypeOK, MaxFdCorrect, aeCreateFileEvent
<1> QED
  BY <1>1, <1>2, <1>3, <1>4 DEF IInv

\* The scan of aeDeleteFileEvent leaves maxfd at the highest registered
\* descriptor.
LEMMA DeleteMaxFd ==
    ASSUME IInv, NEW f \in Fds, NEW m \in Masks, aeDeleteFileEvent(f, m)
    PROVE  maxfd' \in -1 .. NFds - 1 /\ MaxFdCorrect'
<1> USE AeAssumption DEF Fds, Masks
<1>1. mask' \in [Fds -> Masks] /\ \A g \in Fds : g # f => mask'[g] = mask[g]
  BY DEF IInv, TypeOK, aeDeleteFileEvent
<1>2. mask'[f] = mask[f] \ m
  BY DEF IInv, TypeOK, aeDeleteFileEvent
<1>3. CASE f = maxfd /\ mask'[f] = {}
  <2>1. PICK n \in -1 .. maxfd - 1 :
          /\ maxfd' = n /\ (n # -1 => mask'[n] # {})
          /\ \A k \in n + 1 .. maxfd - 1 : mask'[k] = {}
    BY <1>3 DEF aeDeleteFileEvent, newMaxFd
  <2>2. maxfd \in 0 .. NFds - 1
    BY <1>3 DEF IInv, TypeOK
  <2>3. \A g \in Fds : mask'[g] # {} => g < maxfd
    BY <1>1, <1>3 DEF IInv, TypeOK, MaxFdCorrect
  <2>4. \A g \in Fds : mask'[g] # {} => g <= n
    BY <2>1, <2>2, <2>3
  <2> QED
    BY <2>1, <2>2, <2>4 DEF MaxFdCorrect
<1>4. CASE ~(f = maxfd /\ mask'[f] = {})
  <2>1. maxfd' = maxfd
    BY <1>4 DEF aeDeleteFileEvent
  <2>2. \A g \in Fds : mask'[g] # {} => mask[g] # {}
    BY <1>1, <1>2
  <2>3. maxfd # -1 => mask'[maxfd] # {}
    BY <1>1, <1>4 DEF IInv, TypeOK, MaxFdCorrect
  <2> QED
    BY <2>1, <2>2, <2>3 DEF IInv, TypeOK, MaxFdCorrect
<1> QED
  BY <1>3, <1>4

\* aeDeleteFileEvent takes the same events from the mask and from the kernel.
LEMMA DeleteIInv ==
    ASSUME IInv, NEW f \in Fds, NEW m \in Masks, aeDeleteFileEvent(f, m)
    PROVE  IInv'
<1> USE AeAssumption
<1>1. maxfd' \in -1 .. NFds - 1 /\ MaxFdCorrect'
  BY DeleteMaxFd
<1>2. mask' \in [Fds -> Masks] /\ epoll' \in [Fds -> Masks]
  BY DEF IInv, TypeOK, aeDeleteFileEvent, aeApiDelEvent, Masks
<1>3. TypeOK'
  BY <1>1, <1>2 DEF IInv, TypeOK, aeDeleteFileEvent, loopVars
<1>4. InterestMatches'
  BY DEF IInv, TypeOK, InterestMatches, aeDeleteFileEvent, aeApiDelEvent
<1>5. RegisteredOpen'
  BY DEF IInv, TypeOK, RegisteredOpen, aeDeleteFileEvent
<1> QED
  BY <1>1, <1>3, <1>4, <1>5 DEF IInv

\* A close drops a descriptor that has no events left from the epoll set.
LEMMA CloseIInv ==
    ASSUME IInv, NEW f \in Fds, closeFd(f)
    PROVE  IInv'
<1>1. TypeOK'
  BY DEF IInv, TypeOK, closeFd, loopVars, Masks
<1>2. InterestMatches'
  BY DEF IInv, TypeOK, InterestMatches, closeFd
<1>3. RegisteredOpen' /\ MaxFdCorrect'
  BY DEF IInv, TypeOK, RegisteredOpen, MaxFdCorrect, closeFd
<1> QED
  BY <1>1, <1>2, <1>3 DEF IInv

\* Steps that leave the registrations alone.
LEMMA LoopIInv ==
    ASSUME IInv, UNCHANGED regVars, open \subseteq open', TypeOK'
    PROVE  IInv'
BY DEF IInv, InterestMatches, RegisteredOpen, MaxFdCorrect, regVars

\* Every step of the library, the handlers and the kernel keeps the invariant.
LEMMA NextIInv == IInv /\ [Next]_vars => IInv'
<1> SUFFICES ASSUME IInv, [Next]_vars PROVE IInv'
  OBVIOUS
<1>1. ASSUME NEW f \in Fds, NEW m \in Masks \ {{}}, NEW p \in Procs,
             aeCreateFileEvent(f, m, p)
      PROVE  IInv'
  BY <1>1, CreateIInv
<1>2. ASSUME NEW f \in Fds, NEW m \in Masks \ {{}}, aeDeleteFileEvent(f, m)
      PROVE  IInv'
  BY <1>2, DeleteIInv
<1>3. ASSUME NEW f \in Fds, openFd(f) PROVE IInv'
  <2>1. TypeOK'
    BY <1>3 DEF IInv, TypeOK, openFd, regVars, loopVars
  <2> QED
    BY <1>3, <2>1, LoopIInv DEF openFd
<1>4. ASSUME NEW f \in Fds, closeFd(f) PROVE IInv'
  BY <1>4, CloseIInv
<1>5. CASE handlerReturns
  <2>1. TypeOK'
    BY <1>5 DEF IInv, TypeOK, handlerReturns, regVars
  <2> QED
    BY <1>5, <2>1, LoopIInv DEF handlerReturns
<1>6. CASE poll
  <2>1. fired' \in SUBSET Entries
    BY <1>6 DEF poll, Entries
  <2>2. TypeOK'
    BY <1>6, <2>1 DEF IInv, TypeOK, poll, regVars
  <2> QED
    BY <1>6, <2>2, LoopIInv DEF poll
<1>7. CASE dispatchRead
  <2>1. TypeOK'
    BY <1>7 DEF IInv, TypeOK, dispatchRead, regVars
  <2> QED
    BY <1>7, <2>1, LoopIInv DEF dispatchRead
<1>8. CASE dispatchWrite
  <2>1. TypeOK'
    BY <1>8 DEF IInv, TypeOK, dispatchWrite, regVars
  <2> QED
    BY <1>8, <2>1, LoopIInv DEF dispatchWrite
<1>9. CASE UNCHANGED vars
  BY <1>9 DEF vars, IInv, TypeOK, InterestMatches, RegisteredOpen, MaxFdCorrect
<1> QED
  BY <1>1, <1>2, <1>3, <1>4, <1>5, <1>6, <1>7, <1>8, <1>9 DEF Next

\* The kernel watches exactly what the library has registered
\* (aeApiAddEvent, aeApiDelEvent), for every number of descriptors.
THEOREM InterestAlwaysMatches == Spec => []InterestMatches
<1>1. IInv => InterestMatches
  BY DEF IInv
<1> QED
  BY InitIInv, NextIInv, <1>1, PTL DEF Spec

\* maxfd is the highest registered descriptor, or -1 when there is none, after
\* every scan of aeDeleteFileEvent.
THEOREM MaxFdAlwaysCorrect == Spec => []MaxFdCorrect
<1>1. IInv => MaxFdCorrect
  BY DEF IInv
<1> QED
  BY InitIInv, NextIInv, <1>1, PTL DEF Spec

-----------------------------------------------------------------------------
(***************************************************************************)
(* Time events.  The list is sorted by id, youngest first, because timers  *)
(* are inserted at the head and never move; that makes a walk which begins *)
(* again at the head find all that is left.                                *)
(***************************************************************************)

TimerIds == 0 .. MaxId - 1
Timer == [id : TimerIds, when : Nat]

\* Later timers come first: timers are inserted at the head and never move.
Sorted == \A i, j \in DOMAIN timers : i < j => timers[i].id > timers[j].id

LEMMA TimerTypes ==
    ASSUME NEW q \in Seq(Timer)
    PROVE  /\ Len(q) \in Nat /\ DOMAIN q = 1 .. Len(q)
           /\ \A i \in 1 .. Len(q) : q[i] \in Timer /\ q[i].id \in Nat
<1>1. Len(q) \in Nat /\ DOMAIN q = 1 .. Len(q)
  OBVIOUS
<1>2. \A i \in 1 .. Len(q) : q[i] \in Timer
  BY <1>1
<1> QED
  BY <1>1, <1>2, TimersAssumption DEF Timer, TimerIds

LEMMA ListTypes ==
    ASSUME timers \in Seq(Timer)
    PROVE  /\ Len(timers) \in Nat /\ DOMAIN timers = 1 .. Len(timers)
           /\ \A i \in 1 .. Len(timers) : /\ timers[i] \in Timer /\ timers[i].id \in Nat
                                          /\ timers[i].id \in TimerIds /\ timers[i].when \in Nat
<1>1. Len(timers) \in Nat /\ DOMAIN timers = 1 .. Len(timers)
  OBVIOUS
<1>2. \A i \in 1 .. Len(timers) : timers[i] \in Timer
  BY <1>1
<1> QED
  BY <1>1, <1>2, TimersAssumption DEF Timer, TimerIds

\* The index of a timer of the list, and the timer there.
LEMMA IndexOf ==
    ASSUME timers \in Seq(Timer), Sorted, NEW i \in DOMAIN timers
    PROVE  Index(timers[i].id) = i /\ When(timers[i].id) = timers[i].when /\ timers[i].id \in Ids
<1>1. \A j \in DOMAIN timers : timers[j].id = timers[i].id => j = i
  BY ListTypes DEF Sorted
<1>2. Index(timers[i].id) = i
  BY <1>1 DEF Index
<1> QED
  BY <1>2 DEF When, Ids

LEMMA IndexIn ==
    ASSUME timers \in Seq(Timer), Sorted, NEW id \in Ids
    PROVE  /\ Index(id) \in DOMAIN timers /\ timers[Index(id)].id = id
           /\ timers[Index(id)].when = When(id) /\ id \in TimerIds /\ When(id) \in Nat
<1>1. PICK i \in DOMAIN timers : timers[i].id = id
  BY DEF Ids
<1> QED
  BY <1>1, IndexOf, ListTypes

\* The head is the youngest timer.
LEMMA HeadLeads ==
    ASSUME timers \in Seq(Timer), Sorted
    PROVE  /\ timers = << >> <=> Ids = {}
           /\ timers # << >> => Head_id(timers) \in Ids
           /\ \A id \in Ids : Head_id(timers) # -1 /\ id <= Head_id(timers)
<1>1. timers = << >> <=> Len(timers) = 0
  OBVIOUS
<1>2. timers # << >> => 1 \in DOMAIN timers /\ Head_id(timers) = timers[1].id
  BY <1>1, ListTypes DEF Head_id
<1>3. ASSUME NEW id \in Ids PROVE Head_id(timers) # -1 /\ id <= Head_id(timers)
  <2>1. PICK i \in DOMAIN timers : timers[i].id = id
    BY DEF Ids
  <2>2. i = 1 \/ 1 < i
    BY ListTypes
  <2> QED
    BY <2>1, <2>2, <1>1, <1>2, ListTypes DEF Sorted
<1>4. timers # << >> => timers[1].id \in Ids
  BY <1>2 DEF Ids
<1>5. timers = << >> => Ids = {}
  BY <1>1, ListTypes DEF Ids
<1> QED
  BY <1>2, <1>3, <1>4, <1>5

\* The timer after one of the list is the oldest but younger.
LEMMA NextFollows ==
    ASSUME timers \in Seq(Timer), Sorted, NEW id \in Ids
    PROVE  /\ Next_id(id) \in Ids \cup {-1}
           /\ \A k \in Ids : k < id => Next_id(id) # -1 /\ k <= Next_id(id)
<1> DEFINE n == Index(id)
<1>1. n \in 1 .. Len(timers) /\ timers[n].id = id
  BY IndexIn, ListTypes
<1>2. CASE n = Len(timers)
  <2>1. Next_id(id) = -1
    BY <1>2 DEF Next_id
  <2>2. ASSUME NEW k \in Ids, k < id PROVE FALSE
    <3>1. PICK i \in DOMAIN timers : timers[i].id = k
      BY DEF Ids
    <3>2. i = n \/ i < n
      BY <1>2, ListTypes
    <3> HIDE DEF n
    <3> QED
      BY <1>1, <2>2, <3>1, <3>2, ListTypes DEF Sorted
  <2> QED
    BY <2>1, <2>2
<1>3. CASE n # Len(timers)
  <2>1. Next_id(id) = timers[n + 1].id /\ n + 1 \in 1 .. Len(timers)
    BY <1>1, <1>3, ListTypes DEF Next_id
  <2>2. ASSUME NEW k \in Ids, k < id PROVE Next_id(id) # -1 /\ k <= Next_id(id)
    <3>1. PICK i \in DOMAIN timers : timers[i].id = k
      BY DEF Ids
    <3> HIDE DEF n
    <3>2. i \in 1 .. Len(timers) /\ n + 1 \in 1 .. Len(timers) /\ Len(timers) \in Nat
      BY <2>1, <3>1, ListTypes
    <3>3. i = n \/ i < n \/ i = n + 1 \/ n + 1 < i
      BY <3>2, <1>1
    <3> QED
      BY <1>1, <2>1, <2>2, <3>1, <3>2, <3>3, ListTypes, SMTT(30) DEF Sorted
  <2> HIDE DEF n
  <2> QED
    BY <2>1, <2>2, ListTypes DEF Ids
<1> QED
  BY <1>2, <1>3

-----------------------------------------------------------------------------
(* What the three changes of the list do to the timers in it. *)

\* The timers of another list are those of this one, by id and time.
LEMMA SameTimers ==
    ASSUME timers \in Seq(Timer), Sorted, timers' \in Seq(Timer), Sorted',
           NEW K, \A i \in DOMAIN timers : timers[i].id \in K => \E j \in DOMAIN timers' : timers'[j] = timers[i],
           NEW k \in Ids, k \in K
    PROVE  k \in Ids' /\ When(k)' = When(k)
<1>1. PICK i \in DOMAIN timers : timers[i].id = k
  BY DEF Ids
<1>2. PICK j \in DOMAIN timers' : timers'[j] = timers[i]
  BY <1>1
<1>3. When(k) = timers[i].when
  BY <1>1, IndexOf
<1>4. \A m \in DOMAIN timers' : timers'[m].id = k => m = j
  <2>1. Len(timers') \in Nat /\ DOMAIN timers' = 1 .. Len(timers') /\ \A m \in DOMAIN timers' : timers'[m].id \in Nat
    BY TimerTypes
  <2> QED
    BY <1>1, <1>2, <2>1 DEF Sorted
<1>5. Index(k)' = j
  BY <1>1, <1>2, <1>4 DEF Index
<1> QED
  BY <1>1, <1>2, <1>3, <1>5 DEF When, Ids

LEMMA Inserts ==
    ASSUME timers \in Seq(Timer), Sorted, NEW e \in Timer, \A k \in Ids : k < e.id,
           timers' = << e >> \o timers
    PROVE  /\ timers' \in Seq(Timer) /\ Sorted' /\ Ids' = Ids \cup {e.id}
           /\ \A k \in Ids : When(k)' = When(k)
<1>1. /\ Len(timers') = Len(timers) + 1 /\ timers' \in Seq(Timer)
      /\ DOMAIN timers' = 1 .. Len(timers) + 1 /\ timers'[1] = e
      /\ \A i \in 1 .. Len(timers) : timers'[i + 1] = timers[i]
      /\ Len(timers) \in Nat /\ DOMAIN timers = 1 .. Len(timers)
  OBVIOUS
<1>2. \A i \in 2 .. Len(timers) + 1 : i - 1 \in DOMAIN timers /\ timers'[i] = timers[i - 1]
  BY <1>1
<1>3. \A i \in DOMAIN timers : timers[i].id \in Ids
  BY DEF Ids
<1>4. Sorted'
  <2> SUFFICES ASSUME NEW i \in DOMAIN timers', NEW j \in DOMAIN timers', i < j
               PROVE  timers'[i].id > timers'[j].id
    BY DEF Sorted
  <2>1. j - 1 \in DOMAIN timers /\ timers'[j] = timers[j - 1]
    BY <1>1, <1>2
  <2>2. CASE i = 1
    BY <1>1, <1>3, <2>1, <2>2
  <2>3. CASE i # 1
    <3>1. i - 1 \in DOMAIN timers /\ timers'[i] = timers[i - 1] /\ i - 1 < j - 1
      BY <1>1, <1>2, <2>3
    <3> QED
      BY <2>1, <3>1 DEF Sorted
  <2> QED
    BY <2>2, <2>3
<1>5. ASSUME NEW i \in DOMAIN timers PROVE \E j \in DOMAIN timers' : timers'[j] = timers[i]
  <2>1. i + 1 \in DOMAIN timers' /\ timers'[i + 1] = timers[i]
    BY <1>1
  <2> QED
    BY <2>1
<1>6. \A j \in DOMAIN timers' : timers'[j] = e \/ \E i \in DOMAIN timers : timers'[j] = timers[i]
  BY <1>1, <1>2
<1>7. Ids' = Ids \cup {e.id}
  <2>1. \A k \in Ids' : k \in Ids \cup {e.id}
    BY <1>6 DEF Ids
  <2>2. \A k \in Ids : k \in Ids'
    BY <1>5 DEF Ids
  <2>3. 1 \in DOMAIN timers'
    BY <1>1
  <2>4. e.id \in Ids'
    BY <1>1, <2>3 DEF Ids
  <2> QED
    BY <2>1, <2>2, <2>4
<1>8. \A k \in Ids : When(k)' = When(k)
  BY <1>1, <1>4, <1>5, SameTimers
<1> QED
  BY <1>1, <1>4, <1>7, <1>8

LEMMA Unlinks ==
    ASSUME timers \in Seq(Timer), Sorted, NEW id \in Ids, timers' = Without(id)
    PROVE  /\ timers' \in Seq(Timer) /\ Sorted' /\ Ids' = Ids \ {id}
           /\ \A k \in Ids \ {id} : When(k)' = When(k)
<1> PICK n \in 1 .. Len(timers) : n = Index(id) /\ timers[n].id = id
  BY IndexIn, ListTypes
<1> DEFINE a == SubSeq(timers, 1, n - 1)
           b == SubSeq(timers, n + 1, Len(timers))
<1>1. Len(timers) \in Nat /\ DOMAIN timers = 1 .. Len(timers) /\ \A i \in 1 .. Len(timers) : timers[i] \in Timer
  BY ListTypes
<1>2. a \in Seq(Timer) /\ Len(a) = n - 1 /\ \A i \in 1 .. n - 1 : a[i] = timers[i]
  BY <1>1
<1>3. b \in Seq(Timer) /\ Len(b) = Len(timers) - n /\ \A i \in 1 .. Len(timers) - n : b[i] = timers[i + n]
  BY <1>1
<1>4. timers' = a \o b
  BY DEF Without
<1> HIDE DEF a, b
<1>5. /\ timers' \in Seq(Timer) /\ Len(timers') = Len(timers) - 1 /\ DOMAIN timers' = 1 .. Len(timers) - 1
      /\ \A i \in 1 .. Len(timers) - 1 : timers'[i] = IF i < n THEN timers[i] ELSE timers[i + 1]
  <2>1. /\ timers' \in Seq(Timer) /\ Len(timers') = Len(a) + Len(b) /\ DOMAIN timers' = 1 .. Len(timers')
        /\ \A i \in 1 .. Len(a) + Len(b) : timers'[i] = IF i <= Len(a) THEN a[i] ELSE b[i - Len(a)]
    <3>1. /\ a \o b \in Seq(Timer) /\ Len(a \o b) = Len(a) + Len(b)
          /\ \A i \in 1 .. Len(a) + Len(b) : (a \o b)[i] = IF i <= Len(a) THEN a[i] ELSE b[i - Len(a)]
      BY <1>2, <1>3, ConcatProperties
    <3>2. DOMAIN (a \o b) = 1 .. Len(a \o b)
      BY <3>1, LenProperties
    <3> QED
      BY <1>4, <3>1, <3>2
  <2>2. ASSUME NEW i \in 1 .. Len(timers) - 1 PROVE timers'[i] = IF i < n THEN timers[i] ELSE timers[i + 1]
    <3>1. CASE i < n
      <4>1. i \in 1 .. Len(a) + Len(b) /\ i <= Len(a) /\ i \in 1 .. n - 1
        BY <1>1, <1>2, <1>3, <3>1
      <4> QED
        BY <1>2, <2>1, <3>1, <4>1
    <3>2. CASE ~(i < n)
      <4>1. /\ i \in 1 .. Len(a) + Len(b) /\ ~(i <= Len(a))
            /\ i - Len(a) \in 1 .. Len(timers) - n /\ i - Len(a) + n = i + 1
        BY <1>1, <1>2, <1>3, <3>2, SMTT(30)
      <4>2. timers'[i] = b[i - Len(a)]
        BY <2>1, <4>1
      <4>3. b[i - Len(a)] = timers[i + 1]
        BY <1>3, <4>1
      <4> QED
        BY <3>2, <4>2, <4>3
    <3> QED
      BY <3>1, <3>2
  <2> QED
    BY <1>1, <1>2, <1>3, <2>1, <2>2
<1>6. Sorted'
  <2> SUFFICES ASSUME NEW i \in DOMAIN timers', NEW j \in DOMAIN timers', i < j
               PROVE  timers'[i].id > timers'[j].id
    BY DEF Sorted
  <2>1. PICK p \in DOMAIN timers, q \in DOMAIN timers : p < q /\ timers'[i] = timers[p] /\ timers'[j] = timers[q]
    <3>1. i \in 1 .. Len(timers) - 1 /\ j \in 1 .. Len(timers) - 1
      BY <1>5
    <3>2. CASE j < n
      <4>1. i \in DOMAIN timers /\ j \in DOMAIN timers /\ timers'[i] = timers[i] /\ timers'[j] = timers[j]
        BY <1>1, <1>5, <3>1, <3>2
      <4> QED
        BY <4>1
    <3>3. CASE ~(i < n)
      <4>1. /\ i + 1 \in DOMAIN timers /\ j + 1 \in DOMAIN timers /\ i + 1 < j + 1
            /\ timers'[i] = timers[i + 1] /\ timers'[j] = timers[j + 1]
        BY <1>1, <1>5, <3>1, <3>3
      <4> QED
        BY <4>1
    <3>4. CASE i < n /\ ~(j < n)
      <4>1. /\ i \in DOMAIN timers /\ j + 1 \in DOMAIN timers /\ i < j + 1
            /\ timers'[i] = timers[i] /\ timers'[j] = timers[j + 1]
        BY <1>1, <1>5, <3>1, <3>4
      <4> QED
        BY <4>1
    <3> QED
      BY <3>1, <3>2, <3>3, <3>4
  <2> QED
    BY <2>1 DEF Sorted
<1>7. ASSUME NEW i \in DOMAIN timers, timers[i].id # id
      PROVE  \E j \in DOMAIN timers' : timers'[j] = timers[i]
  <2>1. i # n
    BY <1>7
  <2>2. CASE i < n
    BY <1>1, <1>5, <2>2
  <2>3. CASE i > n
    <3>1. i - 1 \in DOMAIN timers' /\ timers'[i - 1] = timers[i]
      BY <1>1, <1>5, <2>3
    <3> QED
      BY <3>1
  <2> QED
    BY <1>1, <2>1, <2>2, <2>3
<1>8. ASSUME NEW j \in DOMAIN timers'
      PROVE  timers'[j].id # id /\ \E i \in DOMAIN timers : timers'[j] = timers[i]
  <2>1. PICK i \in DOMAIN timers : i # n /\ timers'[j] = timers[i]
    <3>1. CASE j < n
      <4>1. j \in DOMAIN timers /\ j # n /\ timers'[j] = timers[j]
        BY <1>1, <1>5, <3>1
      <4> QED
        BY <4>1
    <3>2. CASE ~(j < n)
      <4>1. j + 1 \in DOMAIN timers /\ j + 1 # n /\ timers'[j] = timers[j + 1]
        BY <1>1, <1>5, <3>2
      <4> QED
        BY <4>1
    <3> QED
      BY <3>1, <3>2
  <2>2. timers[i].id # timers[n].id
    BY <1>1, <2>1, IndexOf
  <2> QED
    BY <2>1, <2>2
<1>9. Ids' = Ids \ {id}
  BY <1>7, <1>8 DEF Ids
<1>10. \A k \in Ids \ {id} : When(k)' = When(k)
  <2>1. \A i \in DOMAIN timers : timers[i].id \in Int \ {id} => \E j \in DOMAIN timers' : timers'[j] = timers[i]
    BY <1>7
  <2>2. \A k \in Ids : k \in Int
    BY IndexIn, TimersAssumption DEF TimerIds
  <2> QED
    BY <1>5, <1>6, <2>1, <2>2, SameTimers
<1> QED
  BY <1>5, <1>6, <1>9, <1>10

LEMMA Rearms ==
    ASSUME timers \in Seq(Timer), Sorted, NEW id \in Ids, NEW e \in Timer, e.id = id,
           timers' = [timers EXCEPT ![Index(id)] = e]
    PROVE  /\ timers' \in Seq(Timer) /\ Sorted' /\ Ids' = Ids
           /\ \A k \in Ids \ {id} : When(k)' = When(k)
<1> PICK n \in 1 .. Len(timers) : n = Index(id) /\ timers[n].id = id
  BY IndexIn, ListTypes
<1>1. Len(timers) \in Nat /\ DOMAIN timers = 1 .. Len(timers)
  BY ListTypes
<1>2. /\ timers' \in Seq(Timer) /\ DOMAIN timers' = 1 .. Len(timers)
      /\ \A i \in 1 .. Len(timers) : timers'[i] = IF i = n THEN e ELSE timers[i]
  BY <1>1
<1>3. \A i \in 1 .. Len(timers) : timers'[i].id = timers[i].id
  BY <1>2
<1>4. Sorted' /\ Ids' = Ids
  BY <1>1, <1>2, <1>3 DEF Sorted, Ids
<1>5. \A i \in DOMAIN timers : timers[i].id \in Int \ {id} => \E j \in DOMAIN timers' : timers'[j] = timers[i]
  BY <1>1, <1>2
<1>6. \A k \in Ids : k \in Int
  BY IndexIn, TimersAssumption DEF TimerIds
<1>7. ASSUME NEW k \in Ids \ {id} PROVE When(k)' = When(k)
  <2>1. k \in Ids /\ k \in Int \ {id}
    BY <1>6
  <2> QED
    BY <1>2, <1>4, <1>5, <2>1, SameTimers
<1> QED
  BY <1>2, <1>4, <1>7

-----------------------------------------------------------------------------
(***************************************************************************)
(* The walk.  Sorted by id, what is still due lies at the position te or   *)
(* behind it, because every return to the head passes the younger timers   *)
(* again; a timer that is run again is the only one whose time changes.    *)
(***************************************************************************)
Listed == /\ timers \in Seq(Timer) /\ Sorted
          /\ nextId \in 0 .. MaxId /\ \A id \in Ids : id < nextId

Pending(id) == id \in Ids /\ id <= maxId /\ When(id) <= now

Walk ==
    /\ now \in Nat /\ maxId \in Int /\ te \in Int
    /\ tphase \in {"enter", "sleep", "files", "scan", "run"}
    /\ tphase \in {"scan", "run"} =>
         /\ maxId < nextId
         /\ \A id \in due \ ran : Pending(id)
    /\ tphase = "scan" => \A id \in due \ ran : te # -1 /\ id <= te
    /\ tphase = "run" => te \in ran /\ te # -1
    /\ WalkInList
    /\ tphase = "enter" => due \subseteq ran
    /\ \A id \in ran : id <= maxId

TimerInv == Listed /\ Walk

HeadLeading ==
    /\ timers # << >> => Head_id(timers) \in Ids
    /\ \A id \in Ids : Head_id(timers) # -1 /\ id <= Head_id(timers)

LEMMA HeadLeadsAlways == Listed => HeadLeading
  BY HeadLeads DEF HeadLeading, Listed

LEMMA IdsNat == Listed => \A id \in Ids : id \in Nat
  BY IndexIn, TimersAssumption DEF Listed, TimerIds

\* A handler's changes of the list, and the clock, keep what is pending.
LEMMA StillPending ==
    ASSUME TimerInv, Listed', nextId' >= nextId, now' \in Nat, now' >= now,
           UNCHANGED <<tphase, te, maxId, ran>>, due' \subseteq due, WalkInList',
           \A id \in (due' \ ran) \cap Ids : id \in Ids' /\ When(id)' = When(id),
           tphase = "enter" => due' = due
    PROVE  TimerInv'
<1>1. nextId \in Nat /\ nextId' \in Nat
  BY TimersAssumption DEF TimerInv, Listed
<1>2. tphase \in {"scan", "run"} => \A id \in due' \ ran : Pending(id)'
  <2> SUFFICES ASSUME tphase \in {"scan", "run"}, NEW id \in due' \ ran PROVE Pending(id)'
    OBVIOUS
  <2>1. Pending(id)
    BY DEF TimerInv, Walk
  <2>2. id \in Ids' /\ When(id)' = When(id) /\ When(id) \in Nat
    BY <2>1, IndexIn DEF Pending, TimerInv, Listed
  <2> QED
    BY <2>1, <2>2 DEF Pending, TimerInv, Walk
<1> QED
  BY <1>1, <1>2 DEF TimerInv, Walk

LEMMA CreateTimer ==
    ASSUME TimerInv, NEW d \in Periods, aeCreateTimeEvent(d)
    PROVE  TimerInv'
<1>0. now \in Nat /\ nextId \in TimerIds /\ d \in Nat /\ now + d \in Nat
  BY TimersAssumption DEF TimerInv, Listed, Walk, aeCreateTimeEvent, TimerIds
<1> PICK e \in Timer : e = [id |-> nextId, when |-> now + d]
  BY <1>0 DEF Timer
<1>1. e.id = nextId /\ \A k \in Ids : k < e.id
  BY DEF TimerInv, Listed
<1>2. timers' = << e >> \o timers /\ nextId' = nextId + 1 /\ nextId' \in 0 .. MaxId /\ nextId \in Nat
  BY TimersAssumption DEF TimerInv, Listed, aeCreateTimeEvent
<1>3. /\ timers' \in Seq(Timer) /\ Sorted' /\ Ids' = Ids \cup {nextId}
      /\ \A k \in Ids : When(k)' = When(k)
  BY <1>1, <1>2, Inserts DEF TimerInv, Listed
<1>4. Ids \subseteq Int
  BY IndexIn, TimersAssumption DEF TimerIds, TimerInv, Listed
<1>5. Listed'
  BY <1>2, <1>3, <1>4 DEF TimerInv, Listed
<1>6. /\ UNCHANGED <<now, tphase, te, maxId, ran, due>> /\ tphase \in {"files", "run"}
      /\ inHand' = inHand \/ inHand' = nextId
  BY DEF aeCreateTimeEvent
<1>7. WalkInList'
  BY <1>2, <1>3, <1>6 DEF TimerInv, Walk, WalkInList
<1> QED
  BY <1>2, <1>3, <1>5, <1>6, <1>7, StillPending DEF TimerInv, Walk

LEMMA DeleteTimer ==
    ASSUME TimerInv, NEW id \in Ids, aeDeleteTimeEvent(id)
    PROVE  TimerInv'
<1>1. /\ timers' \in Seq(Timer) /\ Sorted' /\ Ids' = Ids \ {id}
      /\ \A k \in Ids \ {id} : When(k)' = When(k)
  BY Unlinks DEF TimerInv, Listed, aeDeleteTimeEvent
<1>2. Listed' /\ nextId' >= nextId
  BY <1>1, TimersAssumption DEF TimerInv, Listed, aeDeleteTimeEvent
<1>3. /\ due' = due \ {id} /\ UNCHANGED <<now, tphase, te, maxId, ran>>
      /\ tphase \in {"files", "run"} /\ inHand' = IF id = inHand THEN -1 ELSE inHand
  BY DEF aeDeleteTimeEvent
<1>4. WalkInList'
  BY <1>1, <1>3 DEF TimerInv, Walk, WalkInList
<1> QED
  BY <1>1, <1>2, <1>3, <1>4, StillPending DEF TimerInv, Walk

LEMMA TimerLoop ==
    ASSUME TimerInv, enterPoll \/ wakeUp \/ endPass \/ tick
    PROVE  TimerInv'
<1>1. UNCHANGED <<timers, nextId, te, maxId, inHand, due, ran>>
  BY DEF enterPoll, wakeUp, endPass, tick
<1>2. Listed' /\ Ids' = Ids /\ \A id \in Ids : When(id)' = When(id)
  BY <1>1 DEF TimerInv, Listed, Sorted, Ids, When, Index
<1>3. CASE tick
  <2>1. now' \in Nat /\ now' >= now /\ tphase' = tphase /\ nextId' >= nextId
    BY <1>1, <1>3, TimersAssumption DEF tick, TimerInv, Walk, Listed
  <2> QED
    BY <1>1, <1>2, <2>1, StillPending DEF TimerInv, Walk, WalkInList
<1>4. CASE enterPoll
  BY <1>1, <1>2, <1>4 DEF enterPoll, TimerInv, Walk, WalkInList
<1>5. CASE wakeUp
  <2>1. now' \in Nat
    BY <1>5, TimersAssumption DEF wakeUp, TimerInv, Walk, WalkInList
  <2> QED
    BY <1>1, <1>2, <1>5, <2>1 DEF wakeUp, TimerInv, Walk, WalkInList
<1>6. CASE endPass
  BY <1>1, <1>2, <1>6 DEF endPass, TimerInv, Walk, WalkInList
<1> QED
  BY <1>3, <1>4, <1>5, <1>6

LEMMA TimerPass ==
    ASSUME TimerInv, startPass \/ skipTimer \/ callTimer
    PROVE  TimerInv'
<1>1. UNCHANGED <<timers, nextId, now>>
  BY DEF startPass, skipTimer, callTimer
<1>2. Listed' /\ Ids' = Ids /\ \A id \in Ids : When(id)' = When(id)
  BY <1>1 DEF TimerInv, Listed, Sorted, Ids, When, Index
<1>3. Ids \subseteq Int /\ nextId \in Nat /\ now \in Nat /\ \A id \in Ids : When(id) \in Nat
  BY IndexIn, TimersAssumption DEF TimerIds, TimerInv, Listed, Walk
<1>4. CASE startPass
  <2>1. /\ te' = Head_id(timers) /\ maxId' = nextId - 1 /\ due' = {id \in Ids : When(id) <= now}
        /\ ran' = {} /\ tphase' = "scan"
    BY <1>4 DEF startPass
  <2>2. \A id \in Ids : te' # -1 /\ id <= te' /\ id <= maxId'
    BY <1>3, <2>1, HeadLeads DEF TimerInv, Listed
  <2>3. te' # -1 => te' \in Ids
    BY <2>1, HeadLeads DEF TimerInv, Listed, Head_id
  <2>4. te' \in Int
    <3>1. te' = -1 \/ te' \in Ids
      BY <2>3
    <3>2. \A id \in Ids : id \in Nat
      BY IdsNat DEF TimerInv
    <3> QED
      BY <3>1, <3>2
  <2> QED
    BY <1>1, <1>2, <1>3, <2>1, <2>2, <2>3, <2>4 DEF TimerInv, Walk, WalkInList, Pending
<1>5. CASE skipTimer
  <2>1. /\ tphase = "scan" /\ te # -1 /\ te \in Ids /\ (te > maxId \/ now < When(te)) /\ te' = Next_id(te)
        /\ UNCHANGED <<tphase, maxId, due, ran>>
    BY <1>5 DEF skipTimer, TimerInv, Walk, WalkInList
  <2>2. ASSUME NEW id \in due \ ran PROVE Pending(id) /\ id \in Ids /\ id < te
    <3>1. Pending(id) /\ id <= te
      BY <2>1 DEF TimerInv, Walk, WalkInList
    <3>2. id \in Ids /\ id \in Int /\ te \in Int /\ maxId \in Int /\ When(id) \in Nat /\ id <= maxId /\ When(id) <= now
      BY <1>3, <2>1, <3>1 DEF Pending, TimerInv, Walk
    <3>3. id # te
      BY <1>3, <2>1, <3>2
    <3> QED
      BY <3>1, <3>2, <3>3
  <2>3. te' \in Ids \cup {-1} /\ \A k \in Ids : k < te => te' # -1 /\ k <= te'
    BY <2>1, NextFollows DEF TimerInv, Listed
  <2>4. \A id \in due \ ran : Pending(id)' /\ te' # -1 /\ id <= te'
    BY <1>1, <1>2, <2>1, <2>2, <2>3 DEF Pending
  <2> QED
    BY <1>1, <1>2, <1>3, <2>1, <2>3, <2>4 DEF TimerInv, Walk, WalkInList
<1>6. CASE callTimer
  <2>1. \A id \in due \ ran' : Pending(id)'
    BY <1>1, <1>2, <1>6 DEF callTimer, TimerInv, Walk, WalkInList, Pending
  <2> QED
    BY <1>1, <1>2, <1>3, <1>6, <2>1 DEF callTimer, TimerInv, Walk, WalkInList
<1> QED
  BY <1>4, <1>5, <1>6

LEMMA TimerReturns ==
    ASSUME TimerInv, timerReturns
    PROVE  TimerInv'
<1>1. /\ tphase = "run" /\ te \in ran /\ tphase' = "scan" /\ te' = Head_id(timers)'
      /\ inHand' = -1 /\ UNCHANGED <<now, nextId, maxId, due, ran>>
  BY DEF timerReturns, TimerInv, Walk, Head_id
<1>2. te \in Int /\ now \in Nat /\ maxId \in Int /\ maxId < nextId /\ \A k \in ran : k <= maxId
  BY <1>1 DEF TimerInv, Walk
<1> DEFINE Kept == /\ timers' \in Seq(Timer) /\ Sorted' /\ Ids' \subseteq Ids
                   /\ \A k \in due \ ran : k \in Ids' /\ When(k)' = When(k)
<1>3. Kept
  <2>1. \A k \in due \ ran : k \in Ids /\ k <= maxId /\ k # te
    BY <1>1 DEF TimerInv, Walk, Pending
  <2>2. CASE te \in Ids /\ timers' = Without(te)
    <3> PICK id \in Ids : id = te
      BY <2>2
    <3> QED
      BY <2>1, <2>2, Unlinks DEF TimerInv, Listed
  <2>3. CASE timers' = timers
    BY <2>1, <2>3 DEF TimerInv, Listed, Sorted, Ids, When, Index
  <2>4. ASSUME inHand \in Ids, NEW retval \in Periods,
               timers' = [timers EXCEPT ![Index(inHand)] = [id |-> inHand, when |-> now + retval]]
        PROVE  Kept
    <3> PICK id \in Ids : id = inHand
      BY <2>4
    <3>1. retval \in Nat /\ now + retval \in Nat /\ id \in TimerIds
      BY <1>2, TimersAssumption, IndexIn DEF TimerInv, Listed
    <3> PICK e \in Timer : e = [id |-> id, when |-> now + retval]
      BY <3>1 DEF Timer
    <3>2. timers' = [timers EXCEPT ![Index(id)] = e] /\ e.id = id
      BY <2>4
    <3>3. timers' \in Seq(Timer) /\ Sorted' /\ Ids' = Ids /\ \A k \in Ids \ {id} : When(k)' = When(k)
      BY <3>2, Rearms DEF TimerInv, Listed
    <3>4. \A k \in due \ ran : k # id
      <4>1. id = te \/ id > maxId
        BY <1>1, IdsNat DEF TimerInv, Walk, WalkInList
      <4>2. \A k \in Ids : k \in Nat
        BY IdsNat DEF TimerInv
      <4> QED
        BY <1>2, <2>1, <4>1, <4>2
    <3> QED
      BY <2>1, <3>3, <3>4
  <2>5. \/ te \in Ids /\ timers' = Without(te)
        \/ timers' = timers
        \/ inHand \in Ids /\ \E retval \in Periods :
              timers' = [timers EXCEPT ![Index(inHand)] = [id |-> inHand, when |-> now + retval]]
    BY DEF timerReturns, Rearmed
  <2> HIDE DEF Kept
  <2> QED
    BY <2>2, <2>3, <2>4, <2>5
<1>4. Listed'
  BY <1>1, <1>3 DEF TimerInv, Listed
<1>5. \A k \in due \ ran : Pending(k)'
  BY <1>1, <1>3 DEF TimerInv, Walk, Pending
<1>6. (te' # -1 => te' \in Ids') /\ \A k \in Ids' : te' # -1 /\ k <= te'
  <2>1. HeadLeading'
    BY <1>4, HeadLeadsAlways, PTL
  <2> QED
    BY <1>1, <2>1 DEF HeadLeading, Head_id
<1>7. te' \in Int
  <2>1. te' = -1 \/ te' \in Ids
    BY <1>3, <1>6
  <2>2. \A k \in Ids : k \in Nat
    BY IdsNat DEF TimerInv
  <2> QED
    BY <2>1, <2>2
<1>8. \A k \in due' \ ran' : te' # -1 /\ k <= te' /\ Pending(k)'
  BY <1>1, <1>5, <1>6 DEF Pending
<1>9. WalkInList'
  BY <1>1, <1>6 DEF WalkInList
<1> QED
  BY <1>1, <1>2, <1>4, <1>7, <1>8, <1>9 DEF TimerInv, Walk

LEMMA InitTimerInv == timersInit => TimerInv
<1> SUFFICES ASSUME timersInit PROVE TimerInv
  OBVIOUS
<1>1. timers = << >> /\ nextId = 0 /\ tphase = "files" /\ now = 0 /\ te = -1 /\ maxId = -1 /\ ran = {} /\ due = {}
  BY DEF timersInit
<1>2. timers \in Seq(Timer) /\ DOMAIN timers = {}
  BY <1>1
<1> QED
  BY <1>1, <1>2, TimersAssumption DEF TimerInv, Listed, Sorted, Ids, Walk, WalkInList

LEMMA NextTimerInv == TimerInv /\ [timersNext]_timerVars => TimerInv'
<1> SUFFICES ASSUME TimerInv, [timersNext]_timerVars PROVE TimerInv'
  OBVIOUS
<1>1. CASE UNCHANGED timerVars
  BY <1>1 DEF timerVars, TimerInv, Listed, Sorted, Ids, Walk, WalkInList, Pending, When, Index
<1> QED
  BY <1>1, CreateTimer, DeleteTimer, TimerLoop, TimerPass, TimerReturns DEF timersNext

\* The walk of processTimeEvents stands on a timer of the list; during a handler its
\* pointer is that timer, nothing, or one created since, never one still to be run.
THEOREM WalkAlwaysInList == timersSpec => []WalkInList
<1>1. TimerInv => WalkInList
  BY DEF TimerInv, Walk, WalkInList
<1> QED
  BY <1>1, InitTimerInv, NextTimerInv, PTL DEF timersSpec

\* A pass runs all that was due.
THEOREM PassAlwaysComplete == timersSpec => []PassComplete
<1>1. TimerInv => PassComplete
  BY DEF TimerInv, Walk, PassComplete
<1> QED
  BY <1>1, InitTimerInv, NextTimerInv, PTL DEF timersSpec

-----------------------------------------------------------------------------
(* The sleep of aeProcessEvents. *)

LEMMA Least ==
    ASSUME NEW T \in SUBSET Nat, T # {}
    PROVE  \E m \in T : \A x \in T : m <= x
<1> DEFINE Less == {ss \in Nat \X Nat : ss[1] < ss[2]}
<1>1. IsWellFoundedOn(Less, Nat)
  BY NatLessThanWellFounded, Zenon DEF OpToRel
<1>2. \A x, y \in Nat : ~(<<y, x>> \in Less) => x <= y
  OBVIOUS
<1> HIDE DEF Less
<1>3. PICK m \in T : \A x \in T : ~(<<x, m>> \in Less)
  BY <1>1, WFMin, Zenon
<1> QED
  BY <1>2, <1>3

LEMMA NearestIsATime ==
    ASSUME Listed, timers # << >>
    PROVE  aeSearchNearestTimer \in Nat
<1>1. Len(timers) \in Nat \ {0} /\ DOMAIN timers = 1 .. Len(timers) /\ \A i \in DOMAIN timers : timers[i].when \in Nat
  BY ListTypes DEF Listed
<1> DEFINE Times == {timers[i].when : i \in DOMAIN timers}
<1>2. Times \in SUBSET Nat /\ Times # {}
  BY <1>1
<1> HIDE DEF Times
<1>3. PICK w \in Times : \A x \in Times : w <= x
  BY <1>2, Least
<1> DEFINE T == {i \in DOMAIN timers : timers[i].when = w}
<1>4. T \in SUBSET Nat /\ T # {}
  BY <1>1, <1>3 DEF Times
<1>5. PICK i \in T : \A x \in T : i <= x
  BY <1>4, Least
<1>6. i \in DOMAIN timers /\ timers[i].when = w /\ \A j \in DOMAIN timers : timers[i].when <= timers[j].when
  BY <1>3 DEF Times
<1>7. ASSUME NEW j \in 1 .. i - 1 PROVE timers[i].when < timers[j].when
  <2>1. j \in DOMAIN timers /\ j < i
    BY <1>1, <1>6
  <2>2. timers[j].when # w
    BY <1>5, <2>1, <1>1, <1>6
  <2> QED
    BY <1>1, <1>6, <2>1, <2>2
<1>8. \E k \in DOMAIN timers : /\ \A j \in DOMAIN timers : timers[k].when <= timers[j].when
                              /\ \A j \in 1 .. k - 1 : timers[k].when < timers[j].when
  BY <1>6, <1>7
<1> QED
  BY <1>1, <1>8 DEF aeSearchNearestTimer

LEMMA Digits ==
    ASSUME NEW t \in Nat
    PROVE  Sec_of(t) \in Nat /\ Ms_of(t) \in 0 .. Sec - 1 /\ t = Sec * Sec_of(t) + Ms_of(t)
  BY TimersAssumption DEF Sec_of, Ms_of

\* With the borrow the two parts have the sign of the difference: neither is cut
\* at zero when the timer is not overdue.
LEMMA TimeoutExact ==
    ASSUME NEW w \in Nat, NEW n \in Nat, now = n, w >= n
    PROVE  timeout(w) = w - n
<1> DEFINE b == IF Ms_of(w) < Ms_of(n) THEN 1 ELSE 0
           d == Sec_of(w) - Sec_of(n) - b
           m == Ms_of(w) - Ms_of(n) + b * Sec
<1>1. Sec \in Nat \ {0} /\ b \in {0, 1} /\ d \in Int
  BY TimersAssumption, Digits
<1>2. m \in 0 .. Sec - 1
  <2>1. Ms_of(w) \in 0 .. Sec - 1 /\ Ms_of(n) \in 0 .. Sec - 1
    BY Digits
  <2>2. CASE Ms_of(w) < Ms_of(n)
    <3>1. b * Sec = Sec
      BY <1>1, <2>2
    <3> QED
      BY <1>1, <2>1, <2>2, <3>1
  <2>3. CASE ~(Ms_of(w) < Ms_of(n))
    <3>1. b * Sec = 0
      BY <1>1, <2>3
    <3> QED
      BY <1>1, <2>1, <2>3, <3>1
  <2> QED
    BY <2>2, <2>3
<1>3. timeout(w) = Clamp(d) * Sec + m
  BY <1>1, <1>2, Digits DEF timeout, Clamp
<1>4. w - n = d * Sec + m
  <2>1. Sec_of(w) = d + Sec_of(n) + b /\ Sec_of(w) \in Nat /\ Sec_of(n) \in Nat
    BY <1>1, Digits
  <2>2. Sec * Sec_of(w) = d * Sec + Sec * Sec_of(n) + b * Sec
    BY <1>1, <2>1
  <2>3. w = Sec * Sec_of(w) + Ms_of(w) /\ n = Sec * Sec_of(n) + Ms_of(n) /\ Ms_of(w) \in Int /\ Ms_of(n) \in Int
    BY Digits
  <2>4. m = Ms_of(w) - Ms_of(n) + b * Sec
    OBVIOUS
  <2> HIDE DEF b, d, m
  <2>5. d * Sec \in Int /\ b * Sec \in Int /\ Sec * Sec_of(n) \in Int
    BY <1>1, <2>1
  <2> QED
    BY <2>2, <2>3, <2>4, <2>5
<1> HIDE DEF b, d, m
<1>5. d >= 0
  <2>1. SUFFICES ASSUME d <= -1 PROVE FALSE
    BY <1>1
  <2>2. d * Sec <= -Sec
    <3>1. \A x \in Int, y \in Nat : x <= -1 => x * y <= -y
      OBVIOUS
    <3> QED
      BY <1>1, <2>1, <3>1
  <2>3. d * Sec \in Int
    BY <1>1
  <2> QED
    BY <1>1, <1>2, <1>4, <2>2, <2>3
<1> QED
  BY <1>1, <1>3, <1>4, <1>5 DEF Clamp

LEMMA SleepStep ==
    ASSUME TimerInv, SleepExact, [timersNext]_timerVars
    PROVE  SleepExact'
<1> SUFFICES ASSUME tphase' = "sleep", timers' # << >>, (aeSearchNearestTimer >= now)'
             PROVE  sleep' = (aeSearchNearestTimer - now)'
  BY DEF SleepExact
<1>1. CASE enterPoll
  <2>1. timers' = timers /\ now' = now /\ timers # << >> /\ sleep' = timeout(aeSearchNearestTimer)
    BY <1>1 DEF enterPoll
  <2>2. PICK w \in Nat : w = aeSearchNearestTimer
    BY <2>1, NearestIsATime DEF TimerInv
  <2>3. PICK n \in Nat : n = now
    BY DEF TimerInv, Walk
  <2>4. aeSearchNearestTimer' = w
    BY <2>1, <2>2 DEF aeSearchNearestTimer
  <2> QED
    BY <2>1, <2>2, <2>3, <2>4, TimeoutExact
<1>2. CASE ~enterPoll
  <2>1. UNCHANGED <<timers, now, sleep, tphase>>
    BY <1>2 DEF timersNext, timerVars, aeCreateTimeEvent, aeDeleteTimeEvent, wakeUp, startPass, skipTimer, callTimer,
                timerReturns, endPass, tick
  <2> QED
    BY <2>1 DEF SleepExact, aeSearchNearestTimer
<1> QED
  BY <1>1, <1>2

\* The loop sleeps exactly until the nearest timer, unless that is overdue.
THEOREM SleepAlwaysExact == timersSpec => []SleepExact
<1>1. timersInit => SleepExact
  BY DEF timersInit, SleepExact
<1> QED
  BY <1>1, SleepStep, InitTimerInv, NextTimerInv, PTL DEF timersSpec
=============================================================================
