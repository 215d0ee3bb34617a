--------------------------- MODULE BinlogListener ---------------------------
(***************************************************************************)
(* ebinlog: a listener thread reads a master's binlog event by event and   *)
(* puts the rows of each row event, with their places, into a queue; the   *)
(* main thread hands them to a business module.  A place is the log's      *)
(* name, the offset of the table map in front of the row, and the row's    *)
(* index behind that map.  The parser has no offset from the master: it    *)
(* adds up the lengths of the events it has seen, artificial ones too; and *)
(* it has one table map, the last one it saw, with whose columns it reads   *)
(* the rows of every event, whatever table's they are.                      *)
(*                                                                         *)
(* Nothing is stored by ebinlog; the business module supplies the place to *)
(* start from.  Here it keeps the place behind the last row it was given.  *)
(***************************************************************************)
EXTENDS Integers, Sequences, SequencesExt

CONSTANTS Masters,    \* the logs of a master: sequences of sequences of events:
                        \* [t, table, n, other], n rows, or as many as other when
                        \* taken apart with the columns of another table
          Sizes,      \* the length of an event of each type, at least 1
          QueueSize,  \* Queue(options.queue_size)
          MaxRuns,    \* bound: starts of the program
          None

VARIABLES
    master, origin,  \* the master's logs; the place of the first start
    saved,           \* the business module's place: [name, pos, index]
    runs, conn,      \* starts so far; "none" (no program), "ok", or "lost"
    next,            \* the master's next event: [name, i, pre]
    P,               \* the parser's fields
    hand,            \* rows the listener has not put yet
    queue, current,  \* msg_queue, and the list the main thread walks
    processed        \* rows given to the business module (history)

listenerVars == <<master, origin, saved, runs, conn, next, P, hand, queue, current, processed>>
streamVars == <<master, origin, saved, runs, processed>>

-----------------------------------------------------------------------------
(* The master                                                              *)

\* The offset of event i of log f.
Offset(f, i) == FoldLeft(LAMBDA o, e : o + Sizes[e.t], 4, SubSeq(master[f], 1, i - 1))

Boundary(f, pos) == {i \in 1..(Len(master[f]) + 1) : Offset(f, i) = pos}

\* A dump from inside of a log begins with an artificial rotate event and an
\* artificial format description, one from the start of a log with the rotate
\* event only.
serve(f, i) == [name |-> f, i |-> i, pre |-> "rotate"]

\* The event the master sends, with what it sends after it.
Sent ==
    CASE next.pre = "rotate" ->
           [e |-> [t |-> "rotate", to |-> next.name],
            then |-> [next EXCEPT !.pre = IF next.i > 1 THEN "fde" ELSE "none"]]
      [] next.pre = "fde" ->
           [e |-> [t |-> "fde"], then |-> [next EXCEPT !.pre = "none"]]
      [] OTHER ->
           LET ev == master[next.name][next.i]
           IN  [e |-> [t |-> ev.t, to |-> next.name + 1, table |-> ev.table, n |-> ev.n, other |-> ev.other,
                       row |-> <<next.name, next.i>>],
                then |-> IF ev.t = "rotate" THEN serve(next.name + 1, 1) ELSE [next EXCEPT !.i = next.i + 1]]

HasMore == next.pre # "none" \/ next.i <= Len(master[next.name])

-----------------------------------------------------------------------------
(* CMyRowLogParser                                                         *)

\* Init: a new program, so the fields and the table map are those of a new
\* object.  The name is copied without a terminator, here and at a rotate
\* event: it ends with the memory the object got, which may hold zeros.
parserInit(place, zeros) ==
    [szCurLogName |-> place.name, ended |-> zeros, nTablePos |-> 0, nCurPos |-> 0, nStartPos |-> place.pos,
     nCurStat |-> 0, nItemIndex |-> 0, nStartIndex |-> place.index, tableMap |-> None]

\* Mutant of tableMapEvent: the rows to be skipped are those of every table map.
tableMapEventSkips(q, len, tbl) ==
    [q EXCEPT
       !.nTablePos = IF q.nCurStat # 0 THEN q.nTablePos + (q.nCurPos - len)
                     ELSE IF q.nStartPos > 4 THEN q.nStartPos
                     ELSE IF q.nStartPos = 4 THEN 4 + (q.nCurPos - len) ELSE q.nTablePos,
       !.nStartPos = IF q.nCurStat = 0 /\ q.nStartPos = 4 THEN 0 ELSE q.nStartPos,
       !.nCurStat = 1, !.nItemIndex = 0, !.nCurPos = len, !.tableMap = tbl]

\* TABLE_MAP_EVENT of processRowEvent.  The first table map is taken for the
\* event that the dump was asked to start from.
tableMapEvent(q, len, tbl) ==
    [q EXCEPT
       !.nTablePos = IF q.nCurStat # 0 THEN q.nTablePos + (q.nCurPos - len)
                     ELSE IF q.nStartPos > 4 THEN q.nStartPos
                     ELSE IF q.nStartPos = 4 THEN 4 + (q.nCurPos - len) ELSE q.nTablePos,
       !.nStartIndex = IF q.nCurStat # 0 THEN 0 ELSE q.nStartIndex,
       !.nStartPos = IF q.nCurStat = 0 /\ q.nStartPos = 4 THEN 0 ELSE q.nStartPos,
       !.nCurStat = 1, !.nItemIndex = 0, !.nCurPos = len, !.tableMap = tbl]

\* ROTATE_EVENT
rotateEvent(q, name) == [q EXCEPT !.szCurLogName = name, !.nCurPos = 0, !.nTablePos = 4]

\* The rows that come out of an event: the loop goes on to the end of its
\* bytes, in steps as long as the columns of the table map make them.
Taken(q, e) == IF q.tableMap = e.table THEN e.n ELSE e.other

\* WRITE_ROWS_EVENT and its like; every event here ends its statement.
rowsEvent(q, e) == [q EXCEPT !.nCurStat = 2, !.nItemIndex = q.nItemIndex + Taken(q, e)]

\* _getEvent and processRowEvent: the fields afterwards.
processRowEvent(q0, e) ==
    LET q == [q0 EXCEPT !.nCurPos = @ + Sizes[e.t]]
    IN  CASE e.t = "map" -> tableMapEvent(q, Sizes[e.t], e.table)
          [] e.t = "rotate" -> rotateEvent(q, e.to)
          [] e.t = "rows" -> rowsEvent(q, e)
          [] OTHER -> q

\* _decodeEvent: the rows from nStartIndex on, with the place of each.  A row
\* taken apart with another table's columns is none that was written.
decodeEvent(q, e) ==
    LET all == [k \in 1..Taken(q, e) |->
                  [row |-> IF q.tableMap = e.table THEN Append(e.row, k) ELSE None,
                   name |-> IF q.ended THEN q.szCurLogName ELSE None,
                   pos |-> q.nTablePos, index |-> q.nItemIndex + k - 1]]
    IN  SelectSeq(all, LAMBDA r : r.index >= q.nStartIndex)

\* process: what Process(event) does to the fields and gives back.  A buffer
\* is one event, and an empty list of rows is not put into the queue.
parserProcess(q, e) ==
    [fields |-> processRowEvent(q, e),
     rows   |-> IF e.t = "rows" THEN decodeEvent(q, e) ELSE <<>>]

-----------------------------------------------------------------------------
Init ==
    /\ master \in Masters
    /\ origin \in UNION {{[name |-> f, pos |-> Offset(f, i), index |-> 0] : i \in DOMAIN master[f]} :
                          f \in DOMAIN master}
    /\ saved = origin
    /\ runs = 0 /\ conn = "none"
    /\ next = [name |-> 1, i |-> 1, pre |-> "none"]
    /\ P = parserInit(origin, TRUE)
    /\ hand = <<>> /\ queue = <<>> /\ current = <<>> /\ processed = <<>>

\* main, BinlogListener.start: a connection that fails is not noticed, and the
\* parser is initialised all the same.  A master refuses a name that is no
\* log's and a position that is no event's; its error is taken for an event
\* that never gets complete.
start ==
    /\ conn = "none" /\ runs < MaxRuns
    /\ runs' = runs + 1
    /\ \E zeros \in BOOLEAN : P' = parserInit(saved, zeros)
    /\ \/ conn' = "lost" /\ UNCHANGED next
       \/ /\ saved.name # None
          /\ \E i \in Boundary(saved.name, saved.pos) :
            conn' = "ok" /\ next' = serve(saved.name, i)
    /\ UNCHANGED <<master, origin, saved, hand, queue, current, processed>>

\* get_event: Recv and Process.  Rows without a table map have no columns,
\* and the parser's loop over them does not end.
get_event ==
    /\ conn = "ok" /\ hand = <<>> /\ HasMore
    /\ next' = Sent.then
    /\ IF Sent.e.t = "rows" /\ P.tableMap = None
       THEN conn' = "lost" /\ UNCHANGED <<P, hand>>
       ELSE /\ P' = parserProcess(P, Sent.e).fields
            /\ hand' = parserProcess(P, Sent.e).rows
            /\ UNCHANGED conn
    /\ UNCHANGED streamVars /\ UNCHANGED <<queue, current>>

\* Every later get_event raises again: the loop around it does not connect anew.
loseConnection ==
    /\ conn = "ok" /\ hand = <<>>
    /\ conn' = "lost"
    /\ UNCHANGED streamVars /\ UNCHANGED <<next, P, hand, queue, current>>

\* msg_queue.put; the listener waits while the queue is full.
put ==
    /\ hand # <<>> /\ Len(queue) < QueueSize
    /\ queue' = Append(queue, hand) /\ hand' = <<>>
    /\ UNCHANGED streamVars /\ UNCHANGED <<conn, next, P, current>>

\* msg_queue.get
get ==
    /\ current = <<>> /\ queue # <<>>
    /\ current' = Head(queue) /\ queue' = Tail(queue)
    /\ UNCHANGED streamVars /\ UNCHANGED <<conn, next, P, hand>>

\* business.process of one row.
process ==
    /\ current # <<>>
    /\ LET r == Head(current)
       IN  /\ processed' = Append(processed, r.row)
           /\ saved' = [name |-> r.name, pos |-> r.pos, index |-> r.index + 1]
    /\ current' = Tail(current)
    /\ UNCHANGED <<master, origin, runs, conn, next, P, hand, queue>>

\* The program is killed with whatever is in its queue.
kill ==
    /\ conn # "none"
    /\ conn' = "none"
    /\ hand' = <<>> /\ queue' = <<>> /\ current' = <<>>
    /\ UNCHANGED streamVars /\ UNCHANGED <<next, P>>

Next == start \/ get_event \/ loseConnection \/ put \/ get \/ process \/ kill

-----------------------------------------------------------------------------
\* The last table map in front of event i is that of its table.
OwnMap(f, i) ==
    \E m \in 1..(i - 1) :
       /\ master[f][m].t = "map" /\ master[f][m].table = master[f][i].table
       /\ \A h \in (m + 1)..(i - 1) : master[f][h].t # "map"

\* The rows the logs hold from a place on, of the events behind their own map.
RowsFrom(place) ==
    FlattenSeq([f \in DOMAIN master |->
      FlattenSeq([i \in DOMAIN master[f] |->
        IF /\ master[f][i].t = "rows" /\ OwnMap(f, i)
           /\ f > place.name \/ (f = place.name /\ Offset(f, i) >= place.pos)
        THEN [k \in 1..master[f][i].n |-> <<f, i, k>>] ELSE <<>>])])

\* A first place the parser's arithmetic is made for: the start of a log, or a
\* table map.
GoodOrigin ==
    \/ origin.pos = 4
    \/ \E i \in Boundary(origin.name, origin.pos) :
         i <= Len(master[origin.name]) /\ master[origin.name][i].t = "map"

(***************************************************************************)
(* Started at the head of a log or at a table map, and restarted behind    *)
(* the last row that was processed after any number of kills and lost      *)
(* connections, ebinlog hands over every row that follows the map of its    *)
(* own table once and in the order of the logs: the places it computes are *)
(* those of the master, across rotations, statements over several tables   *)
(* and statements of several row events.  The rows of a statement's other   *)
(* tables, whose maps come before the last one, are lost: what it hands     *)
(* over in their place is none of them, and does not disturb the places.    *)
(***************************************************************************)
ResumeExact ==
    GoodOrigin => IsPrefix(SelectSeq(processed, LAMBDA r : r # None), RowsFrom(origin))

=============================================================================
