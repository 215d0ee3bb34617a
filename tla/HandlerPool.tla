---------------------------- MODULE HandlerPool ----------------------------
(***************************************************************************)
(* The connections of mysqlhandler (handler.cpp): a thread of the thrift   *)
(* server takes a MYSQL handle with an open HANDLER from the queue, or     *)
(* makes one, and puts it back after mysql_store_result, before it looks   *)
(* whether there is a result.  A handle whose query failed is closed       *)
(* instead.  When mysqld restarts, the handles of that moment are cut.     *)
(***************************************************************************)
EXTENDS Integers, Sequences, FiniteSets

CONSTANTS Threads,        \* 16 workers of the thread pool
          Handles,        \* addresses calloc may return
          NULL,
          MaxRestarts, MaxLeaked  \* bounds: restarts of mysqld, handles leaked

VARIABLES
    mysqld,          \* does mysqld run?
    restarts,
    alive, cut,      \* allocated handles; those a restart has disconnected
    leaked,          \* allocated and known to no thread (history)
    mysql_handler_queue,
    hpc, mysql,      \* each thread: position, its handle
    killed, midway,  \* connections ever cut; those of them whose result was awaited (history)
    failed           \* reads that failed on a connection that was cut (history)

handlerVars == <<mysqld, restarts, alive, cut, leaked, mysql_handler_queue, hpc, mysql,
                 killed, midway, failed>>
serverVars  == <<mysqld, restarts, killed, midway>>

handlerInit ==
    /\ mysqld = TRUE /\ restarts = 0
    /\ alive = {} /\ cut = {} /\ leaked = {} /\ mysql_handler_queue = << >>
    /\ hpc = [t \in Threads |-> "idle"] /\ mysql = [t \in Threads |-> NULL]
    /\ killed = 0 /\ midway = 0 /\ failed = 0

threadTo(t, to) == hpc' = [hpc EXCEPT ![t] = to]
Awaited == {mysql[t] : t \in {u \in Threads : hpc[u] = "store"}}
Connected == {h \in alive \ (cut \cup leaked) :
                \A t \in Threads : mysql[t] = h => hpc[t] # "connect"}

-----------------------------------------------------------------------------
(* mysqld *)

mysqldStops ==
    /\ mysqld /\ restarts < MaxRestarts
    /\ mysqld' = FALSE
    /\ cut' = cut \cup Connected
    /\ killed' = killed + Cardinality(Connected)
    /\ midway' = midway + Cardinality(Connected \cap Awaited)
    /\ UNCHANGED <<restarts, alive, leaked, mysql_handler_queue, hpc, mysql, failed>>

mysqldStarts ==
    /\ ~mysqld
    /\ mysqld' = TRUE /\ restarts' = restarts + 1
    /\ UNCHANGED <<alive, cut, leaked, mysql_handler_queue, hpc, mysql, killed, midway, failed>>

-----------------------------------------------------------------------------
(* handler.cpp *)

\* The front of the queue, or calloc and mysql_init outside the lock.
get_mysql_handler(t) ==
    /\ hpc[t] = "idle"
    /\ IF mysql_handler_queue = << >>
       THEN /\ \E h \in Handles \ alive :
                 /\ alive' = alive \cup {h}
                 /\ mysql' = [mysql EXCEPT ![t] = h]
            /\ threadTo(t, "connect")
            /\ UNCHANGED mysql_handler_queue
       ELSE /\ mysql' = [mysql EXCEPT ![t] = Head(mysql_handler_queue)]
            /\ mysql_handler_queue' = Tail(mysql_handler_queue)
            /\ threadTo(t, "query")
            /\ UNCHANGED alive
    /\ UNCHANGED <<cut, leaked, failed>> /\ UNCHANGED serverVars

\* mysql_real_connect; a failure returns NULL without a free.
mysql_real_connect(t) ==
    /\ hpc[t] = "connect"
    /\ IF mysqld
       THEN threadTo(t, "open") /\ UNCHANGED <<leaked, mysql>>
       ELSE /\ Cardinality(leaked) < MaxLeaked
            /\ leaked' = leaked \cup {mysql[t]}
            /\ mysql' = [mysql EXCEPT ![t] = NULL]
            /\ threadTo(t, "idle")
    /\ UNCHANGED <<alive, cut, mysql_handler_queue, failed>> /\ UNCHANGED serverVars

close_mysql_handler(t) ==
    /\ alive' = alive \ {mysql[t]}
    /\ cut' = cut \ {mysql[t]}
    /\ mysql' = [mysql EXCEPT ![t] = NULL]
    /\ threadTo(t, "idle")

\* Mutant of queryFails: the handle goes back to the queue after an error too.
queryFailsKeeps(t) ==
    /\ mysql_handler_queue' = Append(mysql_handler_queue, mysql[t])
    /\ mysql' = [mysql EXCEPT ![t] = NULL]
    /\ threadTo(t, "idle")
    /\ UNCHANGED <<alive, cut>>

\* After an error the handle is closed and freed, and the call answers with an
\* empty value: it is not tried again.
queryFails(t) ==
    /\ close_mysql_handler(t)
    /\ UNCHANGED mysql_handler_queue

\* HANDLER OPEN on a new handle, HANDLER READ on any; either may also fail for
\* a reason of its own.
mysql_query(t) ==
    /\ hpc[t] \in {"open", "query"}
    /\ \/ /\ queryFails(t)
          /\ failed' = IF mysql[t] \in cut THEN failed + 1 ELSE failed
       \/ /\ mysql[t] \notin cut
          /\ threadTo(t, IF hpc[t] = "open" THEN "query" ELSE "store")
          /\ UNCHANGED <<alive, cut, mysql, mysql_handler_queue, failed>>
    /\ UNCHANGED leaked /\ UNCHANGED serverVars

\* mysql_store_result on a connection cut since may fail, or find the result
\* already received.  The handle is put back before the result is looked at;
\* without one handler_read runs off its end, whose value the server ignores.
put_mysql_handler(t) ==
    /\ hpc[t] = "store"
    /\ mysql_handler_queue' = Append(mysql_handler_queue, mysql[t])
    /\ mysql' = [mysql EXCEPT ![t] = NULL]
    /\ threadTo(t, "idle")
    /\ failed' \in IF mysql[t] \in cut THEN {failed, failed + 1} ELSE {failed}
    /\ UNCHANGED <<alive, cut, leaked>> /\ UNCHANGED serverVars

handler_read(t) ==
    \/ get_mysql_handler(t) \/ mysql_real_connect(t)
    \/ mysql_query(t) \/ put_mysql_handler(t)

handlerNext ==
    \/ mysqldStops \/ mysqldStarts
    \/ \E t \in Threads : handler_read(t)

handlerSpec == handlerInit /\ [][handlerNext]_handlerVars

-----------------------------------------------------------------------------
Queued(h) == {i \in DOMAIN mysql_handler_queue : mysql_handler_queue[i] = h}
HeldBy(h) == {t \in Threads : mysql[t] = h}

(***************************************************************************)
(* A handle that has not been freed is in one place - once in the queue,   *)
(* or with one thread, or leaked by a failed connect - and no freed handle *)
(* is in any.  A connection that mysqld cut costs one read; one that was   *)
(* cut while its result was awaited goes back to the queue dead and costs  *)
(* a second.  No handle goes back once a query on it has failed.           *)
(***************************************************************************)
PoolSound ==
    /\ \A h \in Handles :
          Cardinality(Queued(h)) + Cardinality(HeldBy(h)) + (IF h \in leaked THEN 1 ELSE 0)
          = IF h \in alive THEN 1 ELSE 0
    /\ failed + Cardinality(cut) <= killed + midway

=============================================================================
