------------------------------ MODULE IcqQueue ------------------------------
(***************************************************************************)
(* The message queue of icq (ehaildb.cpp): a table of HailDB with the      *)
(* message's number, pos, as its key.  The number comes from cur_id, which *)
(* is kept in the process only and starts at 0 in every process; a         *)
(* consumer starts at the oldest message and asks for the next one after   *)
(* the number it has.                                                      *)
(*                                                                         *)
(* A method is a series of engine calls, each of which may fail; most      *)
(* failures return without closing the cursor or ending the transaction,   *)
(* which then stay open until the process ends.  icqServer.cpp, which      *)
(* would call the methods for its clients, is an unfinished stub, so they  *)
(* are called here in any order, by one thread.                            *)
(***************************************************************************)
EXTENDS Integers, FiniteSets, FiniteSetsExt

CONSTANTS MaxStarts, MaxPos, MaxOpen, Nowhere
          \* bounds: starts of the process, inserts in one, transactions left open

VARIABLES
    running, starts,  \* the process, and how often it was started
    database, table,  \* whether they exist
    messages,      \* the committed ones: [pos, boot]
    pending,       \* inserted by a transaction that was left open
    cur_id,        \* tinfo[name].cur_id
    trxs,          \* transactions left open
    schemaLocked,  \* one of them holds the exclusive schema lock
    consumer, seen, \* the consumer: its row's position, the messages it has read
    unread,        \* messages its row was moved to by a call that failed (history)
    astray         \* messages skipped because the position was gone (history)

icqVars == <<running, starts, database, table, messages, pending, cur_id, trxs, schemaLocked, consumer, seen, unread, astray>>
processVars  == <<running, starts, database, table>>
consumerVars == <<consumer, seen, unread, astray>>

Positions == {r.pos : r \in messages}
At(p) == CHOOSE r \in messages : r.pos = p

icqInit ==
    /\ running = FALSE /\ starts = 0 /\ database = FALSE /\ table = FALSE
    /\ messages = {} /\ pending = {} /\ cur_id = 0 /\ trxs = 0 /\ schemaLocked = FALSE
    /\ consumer = Nowhere /\ seen = {} /\ unread = {} /\ astray = {}

-----------------------------------------------------------------------------
(* The process and its tables.                                             *)

\* ehaildb::init with its settings; a failure ends main.
init ==
    /\ ~running /\ starts < MaxStarts
    /\ running' = TRUE /\ starts' = starts + 1
    /\ cur_id' = 0
    /\ UNCHANGED <<database, table, messages, pending, trxs, schemaLocked>>
    /\ UNCHANGED consumerVars

\* The process ends or is killed: open transactions are rolled back.
deinit ==
    /\ running
    /\ running' = FALSE
    /\ pending' = {} /\ trxs' = 0 /\ schemaLocked' = FALSE
    /\ UNCHANGED <<starts, database, table, messages, cur_id>> /\ UNCHANGED consumerVars

\* A database that exists is an error and changes nothing.
create_database ==
    /\ running /\ ~database
    /\ database' = TRUE
    /\ UNCHANGED <<running, starts, table, messages, pending, cur_id, trxs, schemaLocked>>
    /\ UNCHANGED consumerVars

drop_database ==
    /\ running /\ database /\ trxs = 0
    /\ database' = FALSE /\ table' = FALSE /\ messages' = {}
    /\ UNCHANGED <<running, starts, pending, cur_id, trxs, schemaLocked>>
    /\ UNCHANGED consumerVars

\* A return that leaves its transaction open.
Abandon == trxs < MaxOpen /\ trxs' = trxs + 1

\* create_table and drop_table: the schema lock is taken, and every error
\* after that returns with the lock; who asks for it then waits for ever.
schemaChange(done) ==
    /\ running /\ ~schemaLocked
    /\ \/ done /\ UNCHANGED <<trxs, schemaLocked>>
       \/ Abandon /\ schemaLocked' \in BOOLEAN /\ UNCHANGED <<table, messages>>
    /\ UNCHANGED <<running, starts, database, pending, cur_id>> /\ UNCHANGED consumerVars

create_table == schemaChange(database /\ ~table /\ table' = TRUE /\ UNCHANGED messages)

\* An open transaction has the table in use.
drop_table == schemaChange(table /\ trxs = 0 /\ table' = FALSE /\ messages' = {})

\* cur_id is not reset.
truncate_table ==
    /\ running /\ table /\ trxs = 0
    /\ messages' = {}
    /\ UNCHANGED <<pending, cur_id, trxs, schemaLocked>>
    /\ UNCHANGED processVars /\ UNCHANGED consumerVars

-----------------------------------------------------------------------------
(* Messages *)

Used == Positions \cup {r.pos : r \in pending}

\* ib_cursor_open_table fails, before a number is taken.
insertRefused ==
    /\ running
    /\ Abandon
    /\ UNCHANGED <<messages, pending, cur_id, schemaLocked>>
    /\ UNCHANGED processVars /\ UNCHANGED consumerVars

\* The number is gone; a number that is in the table already, also one that
\* an open transaction holds, is refused.  When ib_cursor_close or
\* ib_trx_commit fails the row stays in the open transaction.
insert ==
    /\ running /\ table /\ cur_id < MaxPos
    /\ cur_id' = cur_id + 1
    /\ LET r == [pos |-> cur_id, boot |-> starts]
       IN  \/ /\ cur_id \notin Used
              /\ messages' = messages \cup {r}
              /\ UNCHANGED <<pending, trxs>>
           \/ /\ cur_id \notin Used
              /\ pending' = pending \cup {r}
              /\ Abandon /\ UNCHANGED messages
           \/ Abandon /\ UNCHANGED <<messages, pending>>
    /\ UNCHANGED schemaLocked /\ UNCHANGED processVars /\ UNCHANGED consumerVars

\* get_next, get_latest and get_oldest leave their transaction behind when a
\* call fails; get ends it on every path.  Here the row was not written yet.
readFails ==
    /\ running
    /\ Abandon
    /\ UNCHANGED <<messages, pending, cur_id, schemaLocked>>
    /\ UNCHANGED processVars /\ UNCHANGED consumerVars

\* get_next and get_oldest write the caller's row, data and position, before
\* the cursor is closed and the transaction committed: a failure of these
\* returns false with the row moved to r.
consumes(r) ==
    /\ consumer' = r.pos
    /\ \/ seen' = seen \cup {r} /\ UNCHANGED <<unread, trxs>>
       \/ unread' = unread \cup {r} /\ Abandon /\ UNCHANGED seen
    /\ UNCHANGED <<messages, pending, cur_id, schemaLocked>> /\ UNCHANGED processVars

\* Asked again while nothing has been read.
get_oldest ==
    /\ running /\ table /\ seen = {} /\ messages # {}
    /\ consumes(At(Min(Positions)))
    /\ UNCHANGED astray

\* get with the consumer's position reads its message again, that of a later
\* process under the same number, or the one that a failed call moved to.
get ==
    /\ running /\ table /\ consumer # Nowhere /\ consumer \in Positions
    /\ seen' = seen \cup {At(consumer)}
    /\ UNCHANGED <<messages, pending, cur_id, trxs, schemaLocked, consumer, unread, astray>>
    /\ UNCHANGED processVars

\* Mutant of FirstFrom: the cursor goes behind the number (IB_CUR_G).
FirstFromG(p) == {q \in Positions : q > p}

\* IB_CUR_GE
FirstFrom(p) == {q \in Positions : q >= p}

\* The cursor goes to the first message from the position on, then to the next
\* one, without a look at what it was placed on: when the position itself is
\* gone, one message is jumped over.
get_next ==
    /\ running /\ table /\ consumer # Nowhere
    /\ LET from == FirstFrom(consumer)
           rest == from \ {Min(from)}
       IN  /\ from # {} /\ rest # {}
           /\ consumes(At(Min(rest)))
           /\ astray' = IF consumer \in Positions THEN astray ELSE astray \cup {At(Min(from))}

icqNext ==
    \/ init \/ deinit \/ create_database \/ drop_database
    \/ create_table \/ drop_table \/ truncate_table
    \/ insertRefused \/ insert
    \/ readFails \/ get_oldest \/ get \/ get_next

icqSpec == icqInit /\ [][icqNext]_icqVars

(***************************************************************************)
(* A message the consumer has passed without reading it                    *)
(*   - was moved to by a call that returned false: the row is written before *)
(*     the engine calls that can still fail, and the next get_next goes on   *)
(*     behind it;                                                            *)
(*   - or was jumped over because the consumer's position had been removed;  *)
(*   - or was written by a process started after the one that wrote some     *)
(*     message the consumer had reached: within a process, whatever fails    *)
(*     and stays open, messages become visible in the order of their numbers.*)
(***************************************************************************)
Reached == seen \cup unread

SkipsExplained ==
    consumer # Nowhere =>
      \A r \in messages \ (Reached \cup astray) :
         r.pos <= consumer => \E s \in Reached : s.boot < r.boot

=============================================================================
