---------------------------- MODULE AeFileEvents ----------------------------
(***************************************************************************)
(* File events of the ae library over epoll (ae.c, ae_epoll.c; the copies  *)
(* in redis-proxy, redis-server, redis-uuid and redis-ckw agree on all of  *)
(* this).                                                                  *)
(*                                                                         *)
(* The library keeps a mask and two handlers per descriptor, and maxfd;    *)
(* the kernel keeps its own interest mask per descriptor in the epoll set. *)
(* aeProcessEvents polls once, then walks the fired entries; a handler may *)
(* register, delete, close and open descriptors, including ones whose      *)
(* fired entry has not been walked yet.                                    *)
(*                                                                         *)
(* A descriptor is closed only after its events are deleted, as freeClient *)
(* does in every server of the repository.  epoll returns its entries in   *)
(* an arbitrary order, so the fired array is a set here.  A registration   *)
(* that fails (fd >= AE_SETSIZE, or epoll_ctl) changes nothing and is not  *)
(* a step.                                                                 *)
(***************************************************************************)
EXTENDS Integers, FiniteSets

CONSTANTS NFds,      \* descriptors 0 .. NFds-1 exist
          SetSize,   \* AE_SETSIZE
          Procs      \* handler functions

ASSUME AeAssumption ==
    /\ NFds \in Nat \ {0} /\ SetSize \in Nat

Fds   == 0 .. NFds - 1
R     == "R"      \* AE_READABLE / EPOLLIN
W     == "W"      \* AE_WRITABLE / EPOLLOUT
Masks == SUBSET {R, W}

VARIABLES
    open,        \* descriptors the process has open
    mask,        \* events[fd].mask
    rfileProc, wfileProc,
    maxfd,
    epoll,       \* the kernel's interest mask; {} when not in the set
    phase,       \* where aeProcessEvents is
    fired,       \* entries of the last poll not walked yet
    cur,         \* the entry being walked
    rfired,
    closed       \* descriptors closed since the last poll (history)

vars == <<open, mask, rfileProc, wfileProc, maxfd, epoll, phase, fired, cur,
          rfired, closed>>

loopVars == <<phase, fired, cur, rfired>>
regVars  == <<mask, rfileProc, wfileProc, maxfd, epoll>>

Entries == [fd : Fds, mask : Masks]

Init ==
    /\ open \in SUBSET Fds
    /\ mask = [f \in Fds |-> {}]
    /\ rfileProc \in [Fds -> Procs] /\ wfileProc = rfileProc
    /\ maxfd = -1
    /\ epoll = [f \in Fds |-> {}]
    /\ phase = "app"
    /\ fired = {} /\ cur = [fd |-> 0, mask |-> {}] /\ rfired = FALSE
    /\ closed = {}

-----------------------------------------------------------------------------
(* Application code: before aeMain, and in handlers. *)

InApp == phase \in {"app", "inR", "inW"}

\* aeApiAddEvent: EPOLL_CTL_ADD or MOD, with the old events merged in.
aeApiAddEvent(f, m) ==
    epoll' = [epoll EXCEPT ![f] = mask[f] \cup m]

\* Mutant of aeApiDelEvent: always EPOLL_CTL_DEL.
aeApiDelAll(f, m) ==
    epoll' = [epoll EXCEPT ![f] = {}]

\* aeApiDelEvent runs after the mask is updated: EPOLL_CTL_MOD or DEL.
aeApiDelEvent(f, m) ==
    epoll' = [epoll EXCEPT ![f] = mask'[f] \ m]

aeCreateFileEvent(f, m, proc) ==
    /\ InApp
    /\ f < SetSize /\ f \in open
    /\ aeApiAddEvent(f, m)
    /\ mask' = [mask EXCEPT ![f] = @ \cup m]
    /\ rfileProc' = IF R \in m THEN [rfileProc EXCEPT ![f] = proc] ELSE rfileProc
    /\ wfileProc' = IF W \in m THEN [wfileProc EXCEPT ![f] = proc] ELSE wfileProc
    /\ maxfd' = IF f > maxfd THEN f ELSE maxfd
    /\ UNCHANGED <<open, closed>> /\ UNCHANGED loopVars

\* Mutant of newMaxFd: no scan at all.
newMaxFdNoScan(msk) == {maxfd - 1}

\* Scan down from maxfd - 1 for a descriptor that still has events; -1 if none.
newMaxFd(msk) ==
    {j \in -1 .. maxfd - 1 :
        /\ j # -1 => msk[j] # {}
        /\ \A k \in j + 1 .. maxfd - 1 : msk[k] = {}}

aeDeleteFileEvent(f, m) ==
    /\ InApp
    /\ f < SetSize
    /\ mask[f] # {}
    /\ mask' = [mask EXCEPT ![f] = @ \ m]
    /\ IF f = maxfd /\ mask'[f] = {}
       THEN maxfd' \in newMaxFd(mask')
       ELSE maxfd' = maxfd
    /\ aeApiDelEvent(f, m)
    /\ UNCHANGED <<open, closed, rfileProc, wfileProc>> /\ UNCHANGED loopVars

\* socket, accept, pipe: external to the library.
openFd(f) ==
    /\ InApp
    /\ f \notin open
    /\ open' = open \cup {f}
    /\ UNCHANGED closed /\ UNCHANGED regVars /\ UNCHANGED loopVars

\* close(2) after the deletion of the events; the kernel drops the
\* descriptor from the epoll set.
closeFd(f) ==
    /\ InApp
    /\ f \in open /\ mask[f] = {}
    /\ open' = open \ {f}
    /\ closed' = closed \cup {f}
    /\ epoll' = [epoll EXCEPT ![f] = {}]
    /\ UNCHANGED <<mask, rfileProc, wfileProc, maxfd>> /\ UNCHANGED loopVars

-----------------------------------------------------------------------------
(* aeProcessEvents. *)

\* The handler returns to the loop (or main enters it): on to the write test
\* of the same entry, or to the next entry.
handlerReturns ==
    /\ InApp
    /\ phase' = IF phase = "inR" THEN "write" ELSE "next"
    /\ UNCHANGED <<open, closed, fired, cur, rfired>> /\ UNCHANGED regVars

\* aeApiPoll, when every entry has been walked: each descriptor in the epoll
\* set may be reported, with any of its events, or with none (EPOLLERR only).
poll ==
    /\ phase = "next" /\ fired = {}
    /\ maxfd # -1
    /\ \E F \in SUBSET {f \in Fds : epoll[f] # {}} :
         /\ F # {}
         /\ \E m \in [F -> Masks] :
              /\ \A f \in F : m[f] \subseteq epoll[f]
              /\ fired' = {[fd |-> f, mask |-> m[f]] : f \in F}
    /\ closed' = {}
    /\ UNCHANGED <<open, phase, cur, rfired>> /\ UNCHANGED regVars

dispatchRead ==
    /\ phase = "next"
    /\ \E e \in fired :
         /\ fired' = fired \ {e}
         /\ cur' = e
         /\ rfired' = (R \in mask[e.fd] \cap e.mask)
         /\ phase' = IF R \in mask[e.fd] \cap e.mask THEN "inR" ELSE "write"
    /\ UNCHANGED <<open, closed>> /\ UNCHANGED regVars

dispatchWrite ==
    /\ phase = "write"
    /\ phase' = IF /\ W \in mask[cur.fd] \cap cur.mask
                   /\ ~rfired \/ wfileProc[cur.fd] # rfileProc[cur.fd]
                THEN "inW" ELSE "next"
    /\ UNCHANGED <<open, closed, fired, cur, rfired>> /\ UNCHANGED regVars

Next ==
    \/ \E f \in Fds, m \in Masks \ {{}}, p \in Procs : aeCreateFileEvent(f, m, p)
    \/ \E f \in Fds, m \in Masks \ {{}} : aeDeleteFileEvent(f, m)
    \/ \E f \in Fds : openFd(f) \/ closeFd(f)
    \/ handlerReturns
    \/ poll
    \/ dispatchRead
    \/ dispatchWrite

Spec == Init /\ [][Next]_vars

-----------------------------------------------------------------------------
TypeOK ==
    /\ open \in SUBSET Fds /\ closed \in SUBSET Fds
    /\ mask \in [Fds -> Masks] /\ epoll \in [Fds -> Masks]
    /\ rfileProc \in [Fds -> Procs] /\ wfileProc \in [Fds -> Procs]
    /\ maxfd \in -1 .. NFds - 1
    /\ phase \in {"app", "next", "inR", "write", "inW"}
    /\ fired \in SUBSET Entries /\ cur \in Entries
    /\ rfired \in BOOLEAN

(***************************************************************************)
(* The kernel watches exactly what the library believes it watches, for    *)
(* every descriptor, through any sequence of registrations, partial        *)
(* deletions, closes and reuses: no handler waits for an event nobody      *)
(* reports, and no event is reported that nobody handles.                  *)
(***************************************************************************)
InterestMatches == \A f \in Fds : epoll[f] = mask[f]

(***************************************************************************)
(* maxfd is the highest registered descriptor, or -1 when there is none    *)
(* (aeProcessEvents does not poll at all when it is -1).                   *)
(***************************************************************************)
MaxFdCorrect ==
    /\ maxfd # -1 => maxfd \in Fds /\ mask[maxfd] # {}
    /\ \A f \in Fds : mask[f] # {} => f <= maxfd

(***************************************************************************)
(* "maybe an already processed event removed an element that fired and we  *)
(* still didn't processed, so we check if the event is still valid": a     *)
(* handler that is called for a fired entry belongs to the descriptor that *)
(* fired, not to one that has taken its number since the poll.             *)
(***************************************************************************)
EventStillValid ==
    [][phase' \in {"inR", "inW"} /\ phase' # phase => cur'.fd \notin closed]_vars

=============================================================================
