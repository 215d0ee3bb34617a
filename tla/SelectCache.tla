---------------------------- MODULE SelectCache ----------------------------
(***************************************************************************)
(* mybalancer (DB.py): a select is answered from memcached, or by the one  *)
(* of several server threads that gets the lock of its statement; the      *)
(* others look again every tenth of a second and give up after ten times.  *)
(* The lock is a key of memcached with a time to live, which goes away by  *)
(* itself while its owner still waits for MySQL, and which is deleted by   *)
(* name, whoever set it last.                                              *)
(*                                                                         *)
(* One statement and the connection its hash value leads to are modelled;  *)
(* statements share nothing but the connections.  The rows are the number  *)
(* of the last update.                                                     *)
(***************************************************************************)
EXTENDS Integers, FiniteSets

CONSTANTS Callers,     \* threads of the Ice server
          Absent,      \* None: no value, no lock
          LockTime,    \* one second, in tenths
          Expire,      \* the expire argument of a caching select, in tenths
          Tries,       \* 10
          MaxUpdate    \* bound: the updates made

VARIABLES
    conns,          \* connections connect_mysqls could make for the table
    rows,           \* what the connection sees: the number of the last update
    cache, cacheLeft,   \* and the tenths of a second until memcached drops it
    lock, lockLeft,     \* the caller whose add succeeded
    cpc, tries, res,
    wake,           \* whether the caller still sleeps
    lost,           \* callers whose lock went away under them (history)
    saved           \* rows of the last save by a caller that kept its lock

cacheVars == <<cache, cacheLeft>>
lockVars  == <<lock, lockLeft>>
callVars  == <<cpc, tries, res, wake>>
selectVars == <<conns, rows, cacheVars, lockVars, callVars, lost, saved>>

selectInit ==
    /\ conns \in 0 .. 1 /\ rows = 0
    /\ cache = Absent /\ cacheLeft = 0 /\ lock = Absent /\ lockLeft = 0
    /\ cpc = [c \in Callers |-> "idle"] /\ tries = [c \in Callers |-> 0]
    /\ res = [c \in Callers |-> Absent] /\ wake = [c \in Callers |-> TRUE]
    /\ lost = {} /\ saved = 0

Holders == {c \in Callers : cpc[c] \in {"locked", "save", "unlock"}}

callerTo(c, to) == cpc' = [cpc EXCEPT ![c] = to]

-----------------------------------------------------------------------------
(* memcached *)

\* The lock key disappears: by its time, by a delete, by a restart.
dropLock(by) ==
    /\ lock' = Absent
    /\ lost' = ((lost \cup {lock}) \cap Holders) \ {by}

\* A tenth of a second passes.
Less(n) == IF n = 0 THEN 0 ELSE n - 1

tick ==
    /\ cacheLeft' = Less(cacheLeft) /\ lockLeft' = Less(lockLeft)
    /\ cache' = IF cacheLeft' = 0 THEN Absent ELSE cache
    /\ IF lock # Absent /\ lockLeft' = 0 THEN dropLock(Absent) ELSE UNCHANGED <<lock, lost>>
    /\ wake' = [c \in Callers |-> TRUE]
    /\ UNCHANGED <<conns, rows, cpc, tries, res, saved>>

memcacheRestart ==
    /\ dropLock(Absent)
    /\ cache' = Absent /\ cacheLeft' = 0 /\ lockLeft' = 0
    /\ UNCHANGED <<conns, rows, saved>> /\ UNCHANGED callVars

-----------------------------------------------------------------------------
(* sql_select *)

sql_select(c) ==
    /\ cpc[c] = "idle"
    /\ callerTo(c, "look")
    /\ UNCHANGED <<conns, rows, tries, res, wake, lost, saved>>
    /\ UNCHANGED cacheVars /\ UNCHANGED lockVars

\* The loop's condition and get_from_cache.  A result is a pair of the row
\* count and the rows, so that it is never taken for a miss; False after the
\* last try.
get_from_cache(c) ==
    /\ cpc[c] = "look" /\ wake[c]
    /\ IF tries[c] = Tries \/ cache # Absent
       THEN callerTo(c, "idle") /\ tries' = [tries EXCEPT ![c] = 0]
       ELSE callerTo(c, "lock") /\ UNCHANGED tries
    /\ UNCHANGED <<conns, rows, res, wake, lost, saved>>
    /\ UNCHANGED cacheVars /\ UNCHANGED lockVars

\* Mutant of lock_cache: set instead of add.
lock_cacheSet(c) ==
    /\ cpc[c] = "lock"
    /\ lock' = c /\ lockLeft' = LockTime
    /\ callerTo(c, "locked")
    /\ lost' = lost \ {c}
    /\ tries' = [tries EXCEPT ![c] = 0]
    /\ UNCHANGED <<conns, rows, res, wake, saved>> /\ UNCHANGED cacheVars

\* add(key, 0, 1): only one add succeeds; the others sleep 0.1 s.
lock_cache(c) ==
    /\ cpc[c] = "lock"
    /\ IF lock = Absent
       THEN /\ lock' = c /\ lockLeft' = LockTime
            /\ lost' = lost \ {c}
            /\ callerTo(c, "locked")
            /\ tries' = [tries EXCEPT ![c] = 0]
            /\ UNCHANGED wake
       ELSE /\ callerTo(c, "look")
            /\ tries' = [tries EXCEPT ![c] = @ + 1]
            /\ wake' = [wake EXCEPT ![c] = FALSE]
            /\ UNCHANGED <<lock, lockLeft, lost>>
    /\ UNCHANGED <<conns, rows, res, saved>> /\ UNCHANGED cacheVars

\* The rows are those of one moment.  Any exception - no connection at all is
\* a division by zero - leaves sql_select and the lock behind.
sql_execute(c) ==
    /\ cpc[c] = "locked"
    /\ \/ /\ conns > 0
          /\ res' = [res EXCEPT ![c] = rows]
          /\ callerTo(c, "save")
          /\ UNCHANGED lost
       \/ callerTo(c, "idle") /\ UNCHANGED res /\ lost' = lost \ {c}
    /\ UNCHANGED <<conns, rows, tries, wake, saved>>
    /\ UNCHANGED cacheVars /\ UNCHANGED lockVars

save_to_cache(c) ==
    /\ cpc[c] = "save"
    /\ cache' = res[c] /\ cacheLeft' = Expire
    /\ saved' = IF c \in lost THEN saved ELSE res[c]
    /\ callerTo(c, "unlock")
    /\ UNCHANGED <<conns, rows, tries, res, wake, lost>> /\ UNCHANGED lockVars

\* delete(key): whoever holds it.
unlock_cache(c) ==
    /\ cpc[c] = "unlock"
    /\ dropLock(c)
    /\ callerTo(c, "idle")
    /\ lockLeft' = 0
    /\ res' = [res EXCEPT ![c] = Absent]
    /\ UNCHANGED <<conns, rows, tries, wake, saved>> /\ UNCHANGED cacheVars

\* sql_insert, sql_update, sql_delete: no lock, and the cache stays; a select
\* with a negative expire changes nothing.
sql_common(c) ==
    /\ cpc[c] = "idle" /\ conns > 0 /\ rows < MaxUpdate
    /\ rows' = rows + 1
    /\ UNCHANGED <<conns, lost, saved>>
    /\ UNCHANGED cacheVars /\ UNCHANGED lockVars /\ UNCHANGED callVars

selectNext ==
    \/ tick \/ memcacheRestart
    \/ \E c \in Callers :
          \/ sql_select(c) \/ get_from_cache(c) \/ lock_cache(c) \/ sql_execute(c)
          \/ save_to_cache(c) \/ unlock_cache(c) \/ sql_common(c)

selectSpec == selectInit /\ [][selectNext]_selectVars

(***************************************************************************)
(* The cache never goes back to older rows by the saves of callers that    *)
(* kept the lock from the add to the save: rows that are older than what   *)
(* was there come only from a caller whose lock expired, was deleted by    *)
(* another that had lost its own, or went with memcached.                  *)
(***************************************************************************)
SavesInOrder == [][saved' >= saved]_selectVars

=============================================================================
