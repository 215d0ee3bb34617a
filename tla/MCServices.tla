---------------------------- MODULE MCServices ----------------------------
(* The services that share no state, checked by one run: redis-uuid, and    *)
(* the programs that keep data in MySQL or HailDB, or read MySQL's binlog.  *)
(* A behaviour is one of a single part; the variables of the others keep    *)
(* their initial values.                                                    *)
EXTENDS UuidServer, SelectCache, HandlerPool, IcqQueue, Replicator, TLC

CONSTANTS Parts,         \* the parts a run is about
          s1, s2, s3,    \* hosts of redis-uuid
          MaxImages, QueueSize,
          Members, Scores, Width, MaxObjs, MaxRank

VARIABLES part,
          kind, columns, images, szType, szMeta, nPos, image, column, nulls,
          master, origin, place, launches, conn, next, P, hand, queue, current, processed,
          vector, zset, refused, wide

uuidVars  == vars
rowVars   == <<kind, columns, images, szType, szMeta, nPos, image, column, nulls>>
listenerVars == <<master, origin, place, launches, conn, next, P, hand, queue, current, processed>>
vectorVars == <<vector, zset, refused, wide>>

\* redis-uuid: server ids 0 and 1 fit the field of the small instance, 2 does not.
MCMid == s1 :> 0 @@ s2 :> 1 @@ s3 :> 2

-----------------------------------------------------------------------------
(* myreplicator: the logs of the server and the options of the command line. *)

E(t, id, db, end) == [t |-> t, id |-> id, db |-> db, end |-> end, when |-> 1, srv |-> 1]
Log(ver, evs) == [ver |-> ver, evs |-> evs]
fd == E("fd", NoName, NoName, FALSE)
rotate == E("rotate", NoName, NoName, FALSE)
query(db) == E("query", NoName, db, FALSE)
late(e) == [e EXCEPT !.when = 2, !.srv = 2]

\* Two logs with queries; a row statement over two tables of which one may
\* be filtered out; a LOAD DATA of each kind; logs of a 3.23 server.
MCHistories ==
    { << Log(4, <<fd, query("d"), query("x"), rotate>>), Log(4, <<fd, query(NoName), late(query("d"))>>) >>,
      << Log(4, <<fd, E("map", 1, "d", FALSE), E("map", 2, "x", FALSE), E("rows", 1, "d", FALSE),
                  E("rows", 2, "x", TRUE), query("d"), rotate>>), Log(4, <<[fd EXCEPT !.end = TRUE], query("d")>>) >>,
      << Log(4, <<fd, E("begin", 1, NoName, FALSE), E("append", 1, NoName, FALSE), E("execq", 1, "d", FALSE), rotate>>),
         Log(4, <<fd, E("begin", 1, NoName, FALSE), E("execq", 1, "x", FALSE)>>) >>,
      << Log(3, <<E("create", 1, "d", FALSE), E("create", 2, "x", FALSE), E("append", 1, NoName, FALSE),
                  E("append", 2, NoName, FALSE), E("exec", 1, "d", FALSE), E("exec", 2, "x", FALSE)>>) >>,
      << Log(1, <<query("d"), E("load", NoName, "d", FALSE), E("create", 1, "x", FALSE), query("d")>>) >> }

opts ==
    [remote |-> TRUE, toLast |-> TRUE, database |-> NoName, base64 |-> "auto", short |-> FALSE,
     force |-> TRUE, server |-> 0, offset |-> 0, startTime |-> 0, stopTime |-> 1000, stop |-> 1000,
     toFile |-> FALSE, savable |-> TRUE, full |-> FALSE]

MCOptions ==
    { opts, [opts EXCEPT !.toLast = FALSE, !.database = "d", !.full = TRUE], [opts EXCEPT !.short = TRUE],
      [opts EXCEPT !.remote = FALSE, !.database = "d", !.toFile = TRUE],
      [opts EXCEPT !.database = "d", !.force = FALSE, !.base64 = "always", !.toFile = TRUE, !.full = TRUE],
      [opts EXCEPT !.remote = FALSE, !.base64 = "never", !.offset = 2, !.stop = 4],
      [opts EXCEPT !.toLast = FALSE, !.startTime = 2, !.short = TRUE],
      [opts EXCEPT !.toLast = FALSE, !.server = 1, !.stopTime = 2, !.savable = FALSE] }

-----------------------------------------------------------------------------
(* ebinlog: a column at each boundary of its encoding with another one      *)
(* behind it, and a table whose NULL bitmap has two bytes.                  *)

Col(t, a) == [type |-> t, a |-> a, b |-> 0]
MCColumns ==
    {Col("LONG", 0), Col("DOUBLE", 0), Col("VARCHAR", 255), Col("VARCHAR", 256), Col("VARCHAR", 40000),
     Col("STRING", 255), Col("STRING", 256), Col("STRING", 513), Col("STRING", 770), Col("ENUM", 2),
     Col("SET", 8), Col("BIT", 9), Col("BIT", 8), Col("BIT", 5), [Col("NEWDECIMAL", 12) EXCEPT !.b = 2],
     [Col("NEWDECIMAL", 4) EXCEPT !.b = 4], [Col("NEWDECIMAL", 22) EXCEPT !.b = 12],
     Col("BLOB", 1), Col("BLOB", 4), Col("GEOMETRY", 4)}
MCTables ==
    {<<c, Col("VARCHAR", 256)>> : c \in MCColumns}
    \cup {<<Col("VARCHAR", 10), Col("TINY", 0), Col("SHORT", 0), Col("LONGLONG", 0), Col("INT24", 0),
            Col("TIME", 0), Col("DATE", 0), Col("YEAR", 0), Col("TIMESTAMP", 0), Col("DATETIME", 0),
            Col("FLOAT", 0)>>}
MCRowsOf(n) ==
    IF n = 2 THEN [1..n -> {None, 7}]
    ELSE {[i \in 1..n |-> IF i \in z THEN None ELSE 7] : z \in {{}, {1}, {9}, {2, n}}}

\* A log with two statements and its successor; statements over two tables,
\* the rows of the first one taken for more or fewer with the columns of the
\* second; a log without rows, and a statement of two row events.
ev(t) == [t |-> t, table |-> 0, n |-> 0, other |-> 0]
map(tbl) == [ev("map") EXCEPT !.table = tbl]
rowsOf(tbl, n, other) == [t |-> "rows", table |-> tbl, n |-> n, other |-> other]
MCMasters ==
    { << <<ev("fde"), ev("other"), map(1), rowsOf(1, 2, 1), ev("other"), map(2), rowsOf(2, 1, 1), ev("rotate")>>,
         <<ev("fde"), ev("other"), map(1), rowsOf(1, 1, 1)>> >>,
      << <<ev("fde"), map(1), map(2), rowsOf(1, 1, 2), rowsOf(2, 2, 1), ev("rotate")>>,
         <<ev("fde"), ev("rotate")>>,
         <<ev("fde"), map(1), map(2), rowsOf(2, 1, 3), rowsOf(2, 1, 2), rowsOf(1, 2, 1)>> >> }
MCSizes == [fde |-> 3, other |-> 2, map |-> 2, rows |-> 3, rotate |-> 1]

-----------------------------------------------------------------------------
(* vector_udf: an empty column, bytes that are no pairs, one pair too many.  *)

Pair(m, s) == [member |-> m, score |-> s]
MCVectors ==
    {[objs |-> <<>>, odd |-> 0], [objs |-> <<Pair(1, 4)>>, odd |-> 3],
     [objs |-> <<Pair(1, 0), Pair(2, 2), Pair(3, 2), Pair(4, 3)>>, odd |-> 0]}

-----------------------------------------------------------------------------
Rows   == INSTANCE RowImage WITH
    Tables <- MCTables, RowsOf <- MCRowsOf, Null <- None, table <- columns
Listener == INSTANCE BinlogListener WITH
    Masters <- MCMasters, Sizes <- MCSizes, saved <- place, runs <- launches
Udf    == INSTANCE VectorUdf WITH
    Columns <- MCVectors, column <- vector, missed <- refused

Symmetry == Permutations(Conns)

\* The options and logs of a run that is not about myreplicator do not matter.
MCInit ==
    /\ part \in Parts
    /\ part # "rows" => /\ kind = "write" /\ columns = CHOOSE t \in MCTables : TRUE
                        /\ images = <<CHOOSE r \in MCRowsOf(Len(columns)) : TRUE>>
    /\ part # "listener" => /\ master = CHOOSE m \in MCMasters : TRUE
                            /\ origin = [name |-> 1, pos |-> 4, index |-> 0]
    /\ part # "vector" => vector = [objs |-> <<>>, odd |-> 0]
    /\ Rows!Init /\ Listener!Init /\ Udf!Init
    /\ Init /\ binlogInit /\ selectInit /\ handlerInit /\ icqInit
    /\ part # "binlog" => opt = opts /\ logs = CHOOSE h \in MCHistories : TRUE
    /\ part # "uuid" => clock = 0
    /\ part # "cache" => conns = 0

MCNext ==
    /\ UNCHANGED part
    /\ \/ part = "uuid" /\ Next
          /\ UNCHANGED <<binlogVars, selectVars, handlerVars, icqVars, rowVars, listenerVars, vectorVars>>
       \/ part = "binlog" /\ binlogNext
          /\ UNCHANGED <<uuidVars, selectVars, handlerVars, icqVars, rowVars, listenerVars, vectorVars>>
       \/ part = "cache" /\ selectNext
          /\ UNCHANGED <<uuidVars, binlogVars, handlerVars, icqVars, rowVars, listenerVars, vectorVars>>
       \/ part = "pool" /\ handlerNext
          /\ UNCHANGED <<uuidVars, binlogVars, selectVars, icqVars, rowVars, listenerVars, vectorVars>>
       \/ part = "icq" /\ icqNext
          /\ UNCHANGED <<uuidVars, binlogVars, selectVars, handlerVars, rowVars, listenerVars, vectorVars>>
       \/ part = "rows" /\ Rows!Next
          /\ UNCHANGED <<uuidVars, binlogVars, selectVars, handlerVars, icqVars, listenerVars, vectorVars>>
       \/ part = "listener" /\ Listener!Next
          /\ UNCHANGED <<uuidVars, binlogVars, selectVars, handlerVars, icqVars, rowVars, vectorVars>>
       \/ part = "vector" /\ Udf!Next
          /\ UNCHANGED <<uuidVars, binlogVars, selectVars, handlerVars, icqVars, rowVars, listenerVars>>

allVars == <<part, uuidVars, binlogVars, selectVars, handlerVars, icqVars, rowVars, listenerVars, vectorVars>>
MCSpec == MCInit /\ [][MCNext]_allVars

-----------------------------------------------------------------------------
\* ebinlog: a row is read where it was written, but for misread columns.
RowsExact == part = "rows" => Rows!RowsExact
\* ebinlog: restarted behind its last row, it hands over every row once.
ResumeExact == part = "listener" => Listener!ResumeExact
\* vector_udf: the column is the sorted set that its calls describe.
VectorExact == part = "vector" => Udf!VectorExact
=============================================================================
