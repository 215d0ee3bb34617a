---------------------------- MODULE AeTimeEvents ----------------------------
(***************************************************************************)
(* Time events of the ae library (ae.c), with AE_ALL_EVENTS as redis-server *)
(* runs it: aeProcessEvents computes how long it may sleep, polls, runs    *)
(* the handlers of file events, then processTimeEvents walks the list of   *)
(* timers, starting again from the head after each timer it runs.          *)
(*                                                                         *)
(* gettimeofday is the variable now, in milliseconds; Sec of them make a   *)
(* second.  A handler may create timers, delete any, its own included, and  *)
(* returns AE_NOMORE or a period.  A handler that deletes its own timer    *)
(* leaves processTimeEvents a pointer to freed memory, which the next      *)
(* timer that is created may get; the period is written there all the same. *)
(***************************************************************************)
EXTENDS Integers, Sequences

CONSTANTS Sec,        \* milliseconds in a second (1000 in the code)
          MaxNow,     \* bound: the clock stops here
          MaxId,      \* bound: timers ever created
          Periods     \* delays and periods handlers use, in milliseconds

ASSUME TimersAssumption ==
    /\ Sec \in Nat \ {0} /\ MaxNow \in Nat /\ MaxId \in Nat /\ Periods \subseteq Nat

VARIABLES
    now,
    timers,       \* the list, head first: [id, when]
    nextId,       \* timeEventNextId
    tphase,       \* "enter", "sleep", "files", "scan", "run"
    sleep,        \* milliseconds epoll_wait may block; -1 for ever
    te,           \* id of the timer the walk is at; -1 at the end of the list
    maxId,        \* last id processTimeEvents will run in this pass
    inHand,         \* the timer in the memory te points at while its handler runs; -1 if freed
    due,          \* ids that were due when the pass began (history)
    ran           \* ids run in this pass (history)

timerVars == <<now, timers, nextId, tphase, sleep, te, maxId, inHand, due, ran>>

Sec_of(t) == t \div Sec
Ms_of(t)  == t % Sec
Clamp(x)  == IF x < 0 THEN 0 ELSE x

Ids       == {timers[i].id : i \in DOMAIN timers}
Index(id) == CHOOSE i \in DOMAIN timers : timers[i].id = id
When(id)  == timers[Index(id)].when
Head_id(s)  == IF s = << >> THEN -1 ELSE Head(s).id
Next_id(id) == IF Index(id) = Len(timers) THEN -1 ELSE timers[Index(id) + 1].id

timersInit ==
    /\ now = 0 /\ timers = << >> /\ nextId = 0
    /\ tphase = "files" /\ sleep = -1 /\ te = -1 /\ maxId = -1
    /\ inHand = -1 /\ due = {} /\ ran = {}

-----------------------------------------------------------------------------
(* The interface, called before the loop starts and from handlers. *)

\* malloc may return the memory of the running timer, if its handler has freed it.
aeCreateTimeEvent(d) ==
    /\ tphase \in {"files", "run"} /\ nextId < MaxId
    /\ timers' = << [id |-> nextId, when |-> now + d] >> \o timers
    /\ nextId' = nextId + 1
    /\ inHand' \in IF tphase = "run" /\ inHand = -1 THEN {-1, nextId} ELSE {inHand}
    /\ UNCHANGED <<now, tphase, sleep, te, maxId, due, ran>>

\* The node is unlinked from the list.
Without(id) ==
    SubSeq(timers, 1, Index(id) - 1) \o SubSeq(timers, Index(id) + 1, Len(timers))

aeDeleteTimeEvent(id) ==
    /\ tphase \in {"files", "run"}
    /\ id \in Ids
    /\ timers' = Without(id)
    /\ inHand' = IF id = inHand THEN -1 ELSE inHand
    /\ due' = due \ {id}
    /\ UNCHANGED <<now, nextId, tphase, sleep, te, maxId, ran>>

-----------------------------------------------------------------------------
(* One round of aeMain. *)

\* The first timer to fire; of two at the same time, the one nearer the head.
aeSearchNearestTimer ==
    timers[CHOOSE i \in DOMAIN timers :
             /\ \A j \in DOMAIN timers : timers[i].when <= timers[j].when
             /\ \A j \in 1 .. i - 1 : timers[i].when < timers[j].when].when

\* Mutant of timeout: the borrowed second is not taken from the seconds.
timeoutNoBorrow(when) ==
    LET borrow == Ms_of(when) < Ms_of(now)
        sec == Sec_of(when) - Sec_of(now)
        ms  == Ms_of(when) - Ms_of(now) + (IF borrow THEN Sec ELSE 0)
    IN  Clamp(sec) * Sec + Clamp(ms)

\* The time left, as the code computes it: seconds and milliseconds apart,
\* with a borrow, and each of the two parts cut at zero.
timeout(when) ==
    LET borrow == Ms_of(when) < Ms_of(now)
        sec == Sec_of(when) - Sec_of(now) - (IF borrow THEN 1 ELSE 0)
        ms  == Ms_of(when) - Ms_of(now) + (IF borrow THEN Sec ELSE 0)
    IN  Clamp(sec) * Sec + Clamp(ms)

enterPoll ==
    /\ tphase = "enter"
    /\ sleep' = IF timers = << >> THEN -1 ELSE timeout(aeSearchNearestTimer)
    /\ tphase' = "sleep"
    /\ UNCHANGED <<now, timers, nextId, te, maxId, inHand, due, ran>>

\* epoll_wait returns after the timeout, or earlier for a file event; the
\* handlers of file events run in phase "files".
wakeUp ==
    /\ tphase = "sleep"
    /\ \E d \in 0 .. MaxNow - now :
         /\ sleep = -1 \/ d <= sleep
         /\ now' = now + d
    /\ tphase' = "files"
    /\ UNCHANGED <<timers, nextId, sleep, te, maxId, inHand, due, ran>>

startPass ==
    /\ tphase = "files"
    /\ tphase' = "scan"
    /\ te' = Head_id(timers)
    /\ maxId' = nextId - 1
    /\ due' = {id \in Ids : When(id) <= now}
    /\ ran' = {}
    /\ UNCHANGED <<now, timers, nextId, sleep, inHand>>

\* Mutant of skipTimer: the last timer known to the pass is taken for a new one.
skipTimerOffByOne ==
    /\ tphase = "scan" /\ te # -1
    /\ te >= maxId \/ now < When(te)
    /\ te' = Next_id(te)
    /\ UNCHANGED <<now, timers, nextId, tphase, sleep, maxId, inHand, due, ran>>

skipTimer ==
    /\ tphase = "scan" /\ te # -1
    /\ te > maxId \/ now < When(te)
    /\ te' = Next_id(te)
    /\ UNCHANGED <<now, timers, nextId, tphase, sleep, maxId, inHand, due, ran>>

callTimer ==
    /\ tphase = "scan" /\ te # -1
    /\ te <= maxId /\ now >= When(te)
    /\ tphase' = "run"
    /\ inHand' = te
    /\ ran' = ran \cup {te}
    /\ UNCHANGED <<now, timers, nextId, sleep, te, maxId, due>>

\* Mutant of timerReturns: the walk goes on from the timer that was run, also
\* when it has been deleted.
timerReturnsKeepsTe ==
    /\ tphase = "run" /\ te \in Ids
    /\ timers' = Without(te)
    /\ tphase' = "scan" /\ inHand' = -1
    /\ UNCHANGED <<now, nextId, sleep, te, maxId, due, ran>>

\* aeAddMillisecondsToNow on the memory te points at: a timer's, or nobody's.
Rearmed(retval) ==
    IF inHand \in Ids THEN [timers EXCEPT ![Index(inHand)] = [id |-> inHand, when |-> now + retval]]
                    ELSE timers

\* timeProc returns: arm again or delete by id, then start from the head.
timerReturns ==
    /\ tphase = "run"
    /\ \/ timers' = IF te \in Ids THEN Without(te) ELSE timers
       \/ \E retval \in Periods : timers' = Rearmed(retval)
    /\ te' = Head_id(timers')
    /\ tphase' = "scan" /\ inHand' = -1
    /\ UNCHANGED <<now, nextId, sleep, maxId, due, ran>>

endPass ==
    /\ tphase = "scan" /\ te = -1
    /\ tphase' = "enter"
    /\ UNCHANGED <<now, timers, nextId, sleep, te, maxId, inHand, due, ran>>

tick ==
    /\ tphase # "sleep" /\ now < MaxNow
    /\ now' = now + 1
    /\ UNCHANGED <<timers, nextId, tphase, sleep, te, maxId, inHand, due, ran>>

timersNext ==
    \/ \E d \in Periods : aeCreateTimeEvent(d)
    \/ \E id \in Ids : aeDeleteTimeEvent(id)
    \/ enterPoll \/ wakeUp
    \/ startPass \/ skipTimer \/ callTimer \/ timerReturns \/ endPass
    \/ tick

timersSpec == timersInit /\ [][timersNext]_timerVars

-----------------------------------------------------------------------------
timersTypeOK ==
    /\ now \in 0 .. MaxNow
    /\ timers \in Seq([id : 0 .. MaxId - 1, when : Nat])
    /\ nextId \in 0 .. MaxId
    /\ tphase \in {"enter", "sleep", "files", "scan", "run"}
    /\ sleep \in Nat \cup {-1}
    /\ te \in -1 .. MaxId - 1 /\ maxId \in -1 .. MaxId - 1
    /\ inHand \in -1 .. MaxId - 1
    /\ due \in SUBSET (0 .. MaxId - 1) /\ ran \in SUBSET (0 .. MaxId - 1)

(***************************************************************************)
(* Between handlers the walk's position is a timer of the list, although   *)
(* handlers insert at the head and delete anywhere.  While a handler runs  *)
(* te is its timer as long as the handler has not deleted it; then te      *)
(* points at nothing, or at a timer that the same handler has created, and  *)
(* never at one the pass may still have to run.                            *)
(***************************************************************************)
WalkInList ==
    /\ tphase = "scan" /\ te # -1 => te \in Ids
    /\ tphase = "run" /\ inHand = te => te \in Ids
    /\ tphase = "run" /\ inHand \notin {te, -1} => inHand \in Ids /\ inHand > maxId

(***************************************************************************)
(* A pass runs every timer that was due when it began and was not deleted  *)
(* meanwhile, and ("to don't loop forever") none that was created during   *)
(* the pass.                                                               *)
(***************************************************************************)
PassComplete ==
    /\ tphase = "enter" => due \subseteq ran
    /\ \A id \in ran : id <= maxId

(***************************************************************************)
(* The wait that aeProcessEvents puts together from seconds and            *)
(* milliseconds is exactly the time left, for a timer that is not overdue. *)
(***************************************************************************)
SleepExact ==
    tphase = "sleep" /\ timers # << >> /\ aeSearchNearestTimer >= now =>
        sleep = aeSearchNearestTimer - now

(***************************************************************************)
(* What the code does not keep: "sleeps until some file event fires, or    *)
(* when the next time event occurrs" (ae.c:251-252).  The loop does not    *)
(* sleep beyond the nearest timer, overdue ones included.                  *)
(***************************************************************************)
SleepEndsInTime ==
    tphase = "sleep" /\ timers # << >> => sleep <= Clamp(aeSearchNearestTimer - now)

=============================================================================
