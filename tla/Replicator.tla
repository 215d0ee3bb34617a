----------------------------- MODULE Replicator -----------------------------
(***************************************************************************)
(* myreplicator (myreplicator/src/myreplicator.cc): mysqlbinlog with one   *)
(* addition, the file name_and_pos.  A run of the program prints the       *)
(* events of the logs it is given, from a server or from files, and after  *)
(* every event rewrites the file with current_log_name and the position at *)
(* which the event ends, so that the next run can be started there.  What  *)
(* outlives a crash is that file and the temporary files of LOAD DATA.     *)
(*                                                                         *)
(* Positions count events: event i of a log starts at i and ends at i + 1. *)
(* An event is a record                                                    *)
(*   t     its type                  db    its database, or NoName         *)
(*   id    file or table id          end   STMT_END_F, or "in use" of "fd" *)
(*   when  its timestamp             srv   the server that made it         *)
(* and reading it adds log, pos and ends, the log_pos of its header, and   *)
(* the log a Rotate names, to.  A transaction keyword has db = NoName: no  *)
(* filter applies to it.                                                   *)
(***************************************************************************)
EXTENDS Integers, Sequences, FiniteSets, FiniteSetsExt

CONSTANTS
    Histories,   \* sequences of logs; a log is [ver, evs]
    Options,     \* the command lines: see get_one_option
    FileIds,     \* ids of LOAD DATA files and of tables
    Versions,    \* names create_unique_file tries, 1000
    NoName,      \* no database, no log, no record
    MaxRuns      \* bound: runs of the program

\* What a log holds.
Starts   == {"begin", "create"}
Executes == {"exec", "execq"}
Kinds    == {"query", "append", "fd", "map", "rows", "rotate", "load", "other"} \cup Starts \cup Executes
Events   == [t : Kinds, id : FileIds \cup {NoName}, db : {NoName, "d", "x"}, end : BOOLEAN, when : Nat, srv : Nat]

\* A record of file_names; the pair that name_and_pos holds, with the log
\* its position was taken in.
Records == [fname : FileIds \X (0 .. Versions - 1), event : BOOLEAN]
Pairs   == [name : Nat \cup {NoName}, pos : Nat, of : Nat \cup {NoName}]

\* A row statement that goes on after the event.
Open(e) == e.t = "map" \/ (e.t = "rows" /\ ~e.end)

\* The server writes a row statement in one piece, and a table id stands for
\* one table in it.
RowStatements(evs) ==
    /\ \A i \in 1 .. Len(evs) - 1 :
          Open(evs[i]) => evs[i + 1].t \in {"map", "rows"} /\ evs[i + 1].srv = evs[i].srv
    /\ \A i, j \in DOMAIN evs :
          /\ j < i /\ evs[j].t = "map" /\ evs[i].t = "rows" /\ evs[i].id = evs[j].id
          /\ \A k \in j .. i - 1 : Open(evs[k])
          => evs[i].db = evs[j].db

\* Event j begins the LOAD DATA of which event i is a block or the end.
BeginsLoad(evs, j, i) ==
    /\ evs[j].t \in Starts /\ evs[j].id = evs[i].id /\ evs[j].srv = evs[i].srv
    /\ evs[i].t = "exec" => evs[j].t = "create" /\ evs[j].db = evs[i].db
    /\ evs[i].t = "execq" => evs[j].t = "begin"
    /\ \A k \in j + 1 .. i - 1 : evs[k].id = evs[i].id => evs[k].t \notin Starts \cup Executes

\* A LOAD DATA lies in one log, and its id is free again when it is executed.
LoadStatements(evs) ==
    \A i \in DOMAIN evs :
      /\ evs[i].t \in Starts \cup Executes \cup {"append"} => evs[i].id \in FileIds
      /\ evs[i].t \in Executes \cup {"append"} => \E j \in 1 .. i - 1 : BeginsLoad(evs, j, i)
IdsReused(h) ==
    \A n, m \in DOMAIN h : \A i \in DOMAIN h[n].evs, j \in DOMAIN h[m].evs :
      /\ n < m \/ (n = m /\ i < j)
      /\ h[n].evs[i].t \in Starts /\ h[m].evs[j].t \in Starts /\ h[n].evs[i].id = h[m].evs[j].id
      => \E k \in i + 1 .. Len(h[n].evs) : /\ n = m => k < j
                                           /\ h[n].evs[k].t \in Executes /\ h[n].evs[k].id = h[n].evs[i].id

\* The logs of one server.  A log of version 4 begins with its format
\* description; a Rotate is the last event and names the log behind; only
\* the last log may be in use.  A 3.23 server has no logs of later versions
\* and knows LOAD DATA as "load" or "create" alone.
ServerLogs(h) ==
    /\ h # <<>>
    /\ \A n \in DOMAIN h :
         LET evs == h[n].evs
         IN  /\ h[n].ver > 3 /\ evs # <<>> => evs[1].t = "fd"
             /\ n < Len(h) /\ evs # <<>> => ~evs[1].end
             /\ \A i \in DOMAIN evs : evs[i].t = "rotate" => i = Len(evs) /\ n < Len(h)
             /\ RowStatements(evs) /\ LoadStatements(evs)
             /\ h[n].ver = 1 => \A i \in DOMAIN evs : evs[i].t \notin Executes \cup {"append", "begin"}
    /\ (\A n \in DOMAIN h : h[n].ver = 1) \/ (\A n \in DOMAIN h : h[n].ver # 1)
    /\ IdsReused(h)

ASSUME ReplicatorAssumption ==
    /\ Histories \subseteq Seq([ver : {1, 3, 4}, evs : Seq(Events)])
    /\ \A h \in Histories : ServerLogs(h)
    /\ Versions \in Nat /\ MaxRuns \in Nat
    /\ NoName \notin Nat \cup FileIds \cup Records \cup Pairs

VARIABLES
    logs, opt,                          \* the server's logs; the options of every run
    pc, runs,                           \* "idle", "main", "remote" or "local"; runs so far
    args, start, from,                  \* logs left to dump, --start-position; where this run began
    served, off,                        \* the server's place in its logs; old_off
    glob,                               \* binlog_version of glob_description_event
    out, missed,                        \* what has reached the result file; what has not (history)
    caches, ignored, fdp,               \* row caches, m_table_map_ignored, printed_fd_event
    rec, sought,                        \* rec_count; start_datetime and offset are still to be met
    names, dir,                         \* file_names; the temporary files
    cur, evpos,                         \* current_log_name; evpos
    npfp, disk                          \* the pair in the stdio buffer; the pair in the file

runVars   == <<logs, opt, runs, from>>
printVars == <<out, missed, caches, ignored, fdp>>
loadVars  == <<names, dir>>
saveVars  == <<evpos, npfp, disk>>
binlogVars == <<runVars, pc, args, start, served, off, glob, printVars, rec, sought, loadVars, cur, saveVars>>

HeaderSize == 1                       \* BIN_LOG_HEADER_SIZE, the first event's position
Exit_status == {"OK_CONTINUE", "ERROR_STOP", "OK_STOP"}
NoPair == [name |-> NoName, pos |-> 0, of |-> NoName]

\* The options and their defaults.  Unspecified base64 output is "auto";
\* Forever stands for a stop position or time of ~0.
Forever == 1000
my_long_options ==
    [remote |-> FALSE, toLast |-> FALSE, database |-> NoName, base64 |-> "auto", short |-> FALSE,
     force |-> TRUE, server |-> 0, offset |-> 0, startTime |-> 0, stopTime |-> Forever, stop |-> Forever,
     toFile |-> FALSE]

\* What the command line may set, toFile being -r; savable says whether /tmp
\* can be written, and full that writes of the result may fail.
get_one_option ==
    [remote : BOOLEAN, toLast : BOOLEAN, database : {NoName, "d"}, base64 : {"never", "auto", "always"},
     short : BOOLEAN, force : BOOLEAN, server : 0 .. 2, offset : Nat, startTime : Nat, stopTime : Nat,
     stop : Nat, toFile : BOOLEAN, savable : BOOLEAN, full : BOOLEAN]

LogEvents(n) == logs[n].evs
Event(n, i) ==
    LET e == LogEvents(n)[i]
    IN  [t |-> e.t, id |-> e.id, db |-> e.db, end |-> e.end, when |-> e.when, srv |-> e.srv,
         log |-> n, pos |-> i, ends |-> i + 1, to |-> n + 1, ver |-> logs[n].ver]

binlogInit ==
    /\ logs \in Histories /\ opt \in Options \cap get_one_option
    /\ pc = "idle" /\ runs = 0 /\ args = <<>> /\ start = HeaderSize /\ from = <<1, HeaderSize>>
    /\ served = [log |-> 1, idx |-> HeaderSize, ph |-> "log"] /\ off = HeaderSize
    /\ glob = 0 /\ out = <<>> /\ missed = {} /\ caches = <<>> /\ ignored = {} /\ fdp = FALSE
    /\ rec = 0 /\ sought = TRUE
    /\ names = [f \in FileIds |-> NoName] /\ dir = <<>>
    /\ cur = NoName /\ evpos = [pos |-> 0, of |-> NoName]
    /\ npfp = NoName /\ disk = NoPair

-----------------------------------------------------------------------------
(* Load_log_processor.  A temporary file is named by the file id and a     *)
(* version; its content is the sequence of events whose blocks it holds.   *)

Place(ev) == <<ev.log, ev.pos>>

\* Mutant of create_unique_file: without O_EXCL an existing file is opened.
create_unique_file_shared(id, name) == name = <<id, 0>>

\* O_CREAT|O_EXCL: the first version that no file has.  The files are the
\* ones of all runs: nothing here removes one.
create_unique_file(id, name) ==
    LET free == {v \in 0 .. Versions - 1 : <<id, v>> \notin DOMAIN dir}
    IN  free # {} /\ name = <<id, Min(free)>>

NoUniqueFile(id) == \A v \in 0 .. Versions - 1 : <<id, v>> \in DOMAIN dir

\* The temporary files with content c in the one of this name.
Stored(name, c) == [f \in {name} \cup DOMAIN dir |-> IF f = name THEN c ELSE dir[f]]

\* Creating leaves the content of a file that was there before.
Written(name, ev) ==
    LET old == IF name \in DOMAIN dir THEN dir[name] ELSE <<>>
    IN  Stored(name, Append(old, Place(ev)))

\* Writing or closing fails after the record is made.
process_first_event(ev, io, ret) ==
    \/ /\ NoUniqueFile(ev.id) /\ ret = "ERROR_STOP" /\ UNCHANGED loadVars
    \/ \E name \in {ev.id} \X (0 .. Versions - 1) :
         /\ create_unique_file(ev.id, name)
         /\ names' = [names EXCEPT ![ev.id] = [fname |-> name, event |-> ev.t = "create"]]
         /\ dir' = IF io THEN Written(name, ev) ELSE Stored(name, <<>>)
         /\ ret = IF io THEN "OK_CONTINUE" ELSE "ERROR_STOP"

\* Without a Create_file or Begin_load_query the block is ignored: the log
\* was entered in the middle of the statement.
processAppend(ev, io, ret) ==
    /\ UNCHANGED names
    /\ IF names[ev.id] = NoName
         THEN ret = "OK_CONTINUE" /\ UNCHANGED dir
         ELSE /\ ret = IF io THEN "OK_CONTINUE" ELSE "ERROR_STOP"
              /\ dir' = IF io THEN Written(names[ev.id].fname, ev) ELSE dir

\* grab_event and grab_fname: each takes only the records of its own kind,
\* and clears them.
Grabbed(ev) ==
    /\ names[ev.id] # NoName
    /\ names[ev.id].event = (ev.t = "exec")

grab(ev) == names' = IF Grabbed(ev) THEN [names EXCEPT ![ev.id] = NoName] ELSE names

-----------------------------------------------------------------------------
(* process_event: one operator for each case of its switch.  ret is the    *)
(* value returned; io is FALSE when an operation on a file fails.          *)

shall_skip_database(db) == opt.database # NoName /\ db # NoName /\ db # opt.database

Line(ev) == [log |-> ev.log, pos |-> ev.pos, blocks |-> <<>>]
Places(lines) == {<<lines[k].log, lines[k].pos>> : k \in DOMAIN lines}

\* The first n lines reach the result file, the others are lost.
Arrive(lines, n) ==
    /\ out' = out \o SubSeq(lines, 1, n)
    /\ missed' = missed \cup Places(SubSeq(lines, n + 1, Len(lines)))

\* print, whose result nobody looks at.
Output(lines) == \E n \in 0 .. Len(lines) : (n = Len(lines) \/ opt.full) /\ Arrive(lines, n)
Printed(ev) == Output(<<Line(ev)>>)

write_event_header_and_base64(ev, io, ret) ==
    IF io THEN Arrive(<<Line(ev)>>, 1) /\ ret = "OK_CONTINUE"
    ELSE ret = "ERROR_STOP" /\ UNCHANGED <<out, missed>>

\* Only with --base64-output=always does an error of the output end the run.
printAny(ev, io, ret) ==
    IF opt.base64 = "always" THEN write_event_header_and_base64(ev, io, ret)
    ELSE Printed(ev) /\ ret = "OK_CONTINUE"

queryEvent(ev, io, ret) ==
    /\ ev.t = "query"
    /\ UNCHANGED <<caches, ignored, fdp, glob>> /\ UNCHANGED loadVars
    /\ IF shall_skip_database(ev.db) THEN ret = "OK_CONTINUE" /\ UNCHANGED <<out, missed>>
       ELSE printAny(ev, io, ret)

createFileEvent(ev, io, ret) ==
    /\ ev.t = "create"
    /\ UNCHANGED <<caches, ignored, fdp, glob>>
    /\ IF shall_skip_database(ev.db)
         THEN ret = "OK_CONTINUE" /\ UNCHANGED <<out, missed, names, dir>>
         ELSE \E r \in Exit_status :
                /\ printAny(ev, io, r)
                /\ IF r = "OK_CONTINUE" /\ glob >= 3
                     THEN process_first_event(ev, io, ret)
                     ELSE ret = r /\ UNCHANGED loadVars

\* APPEND_BLOCK_EVENT prints a comment even when the block is ignored.
appendBlockEvent(ev, io, ret) ==
    /\ ev.t = "append"
    /\ Printed(ev) /\ processAppend(ev, io, ret)
    /\ UNCHANGED <<caches, ignored, fdp, glob>>

beginLoadQueryEvent(ev, io, ret) ==
    /\ ev.t = "begin"
    /\ Printed(ev) /\ process_first_event(ev, io, ret)
    /\ UNCHANGED <<caches, ignored, fdp, glob>>

\* The LOAD DATA statement, with the blocks its file holds.
LoadLine(ev) == [Line(ev) EXCEPT !.blocks = dir[names[ev.id].fname]]

\* EXEC_LOAD_EVENT is not filtered by database: its Create_file was.
execLoadEvent(ev, ret) ==
    /\ ev.t = "exec"
    /\ IF Grabbed(ev) THEN Output(<<LoadLine(ev)>>) ELSE UNCHANGED <<out, missed>>
    /\ grab(ev) /\ ret = "OK_CONTINUE"
    /\ UNCHANGED <<caches, ignored, fdp, glob, dir>>

executeLoadQueryEvent(ev, ret) ==
    /\ ev.t = "execq"
    /\ IF Grabbed(ev) /\ ~shall_skip_database(ev.db)
         THEN Output(<<LoadLine(ev)>>) ELSE UNCHANGED <<out, missed>>
    /\ grab(ev) /\ ret = "OK_CONTINUE"
    /\ UNCHANGED <<caches, ignored, fdp, glob, dir>>

\* The event becomes glob_description_event, and is an error when the log
\* was not closed and --force-if-open is off.
formatDescriptionEvent(ev, ret) ==
    /\ ev.t = "fd"
    /\ glob' = ev.ver
    /\ fdp' = (fdp \/ opt.base64 # "never")
    /\ Printed(ev)
    /\ ret = IF ev.end /\ ~opt.force THEN "ERROR_STOP" ELSE "OK_CONTINUE"
    /\ UNCHANGED <<caches, ignored>> /\ UNCHANGED loadVars

NeedsFormat == ~fdp /\ ~opt.short

tableMapEvent(ev, ret) ==
    /\ ev.t = "map"
    /\ UNCHANGED <<out, missed, fdp, glob>> /\ UNCHANGED loadVars
    /\ \/ /\ shall_skip_database(ev.db)
          /\ ignored' = ignored \cup {ev.id} /\ ret = "OK_CONTINUE" /\ UNCHANGED caches
       \/ /\ ~shall_skip_database(ev.db) /\ NeedsFormat
          /\ ret = "ERROR_STOP" /\ UNCHANGED <<caches, ignored>>
       \/ /\ ~shall_skip_database(ev.db) /\ ~NeedsFormat
          /\ caches' = Append(caches, Line(ev)) /\ ret = "OK_CONTINUE" /\ UNCHANGED ignored

\* print of a rows event: into the caches, and at the end of the statement
\* the caches go to the result file.
printRows(ev) ==
    LET all == IF opt.short THEN caches ELSE Append(caches, Line(ev))
    IN  /\ IF ev.end THEN Output(all) ELSE UNCHANGED <<out, missed>>
        /\ caches' = IF ev.end THEN <<>> ELSE all

\* Mutant of rowsEvent: a skipped last event does not flush the caches.
rowsEventKeeps(ev, ret) ==
    /\ ev.t = "rows"
    /\ UNCHANGED <<fdp, glob>> /\ UNCHANGED loadVars
    /\ ignored' = IF ev.end THEN {} ELSE ignored
    /\ \/ ev.id \in ignored /\ ret = "OK_CONTINUE" /\ UNCHANGED <<out, missed, caches>>
       \/ /\ ev.id \notin ignored /\ NeedsFormat
          /\ ret = "ERROR_STOP" /\ UNCHANGED <<out, missed, caches>>
       \/ ev.id \notin ignored /\ ~NeedsFormat /\ ret = "OK_CONTINUE" /\ printRows(ev)

\* The flush for a last event that is skipped is the one whose failure counts.
flushSkipped(ret) ==
    /\ caches' = <<>>
    /\ \E n \in 0 .. Len(caches) :
         /\ Arrive(caches, n)
         /\ IF n = Len(caches) THEN ret = "OK_CONTINUE" ELSE opt.full /\ ret = "ERROR_STOP"

rowsEvent(ev, ret) ==
    /\ ev.t = "rows"
    /\ UNCHANGED <<fdp, glob>> /\ UNCHANGED loadVars
    /\ ignored' = IF ev.end THEN {} ELSE ignored
    /\ \/ ev.id \in ignored /\ ev.end /\ flushSkipped(ret)
       \/ ev.id \in ignored /\ ~ev.end /\ ret = "OK_CONTINUE" /\ UNCHANGED <<out, missed, caches>>
       \/ /\ ev.id \notin ignored /\ NeedsFormat
          /\ ret = "ERROR_STOP" /\ UNCHANGED <<out, missed, caches>>
       \/ ev.id \notin ignored /\ ~NeedsFormat /\ ret = "OK_CONTINUE" /\ printRows(ev)

otherEvent(ev, ret) ==
    /\ ev.t \in {"rotate", "load", "other"}
    /\ Printed(ev) /\ ret = "OK_CONTINUE"
    /\ UNCHANGED <<caches, ignored, fdp, glob>> /\ UNCHANGED loadVars

\* Mutant of save_name_and_pos: an event that stops the run is saved as well.
save_name_and_pos_always(ev, kept, ret) ==
    /\ evpos' = IF kept THEN evpos ELSE [pos |-> ev.ends, of |-> ev.log]
    /\ disk' = IF npfp = NoName THEN NoPair ELSE npfp
    /\ npfp' = [name |-> cur', pos |-> evpos'.pos, of |-> evpos'.of]

\* Mutant of save_name_and_pos: evpos is set once.
save_name_and_pos_once(ev, kept, ret) ==
    /\ evpos' = IF kept \/ npfp # NoName THEN evpos ELSE [pos |-> ev.ends, of |-> ev.log]
    /\ IF ret = "OK_CONTINUE" /\ opt.savable
         THEN /\ disk' = IF npfp = NoName THEN NoPair ELSE npfp
              /\ npfp' = [name |-> cur', pos |-> evpos'.pos, of |-> evpos'.of]
         ELSE UNCHANGED <<npfp, disk>>

\* rewind writes out what was printed before; the new pair stays in the
\* buffer of the stream.  The first call opens the file with "w", which
\* empties it.  A Format_description and a stored Create_file are no longer
\* there as ev, and leave evpos as it was.
save_name_and_pos(ev, kept, ret) ==
    /\ evpos' = IF kept THEN evpos ELSE [pos |-> ev.ends, of |-> ev.log]
    /\ IF ret = "OK_CONTINUE" /\ opt.savable
         THEN /\ disk' = IF npfp = NoName THEN NoPair ELSE npfp
              /\ npfp' = [name |-> cur', pos |-> evpos'.pos, of |-> evpos'.of]
         ELSE UNCHANGED <<npfp, disk>>

StopPosition == IF Len(args) = 1 THEN opt.stop ELSE Forever

InRange(ev) == ev.t = "fd" \/ ~sought \/ (rec >= opt.offset /\ ev.when >= opt.startTime)

Stops(ev, pos) == ev.when >= opt.stopTime \/ pos >= StopPosition

OtherServer(ev) == opt.server # 0 /\ opt.server # ev.srv

process_event(ev, pos, io, ret) ==
    /\ sought' = (sought /\ (ev.t = "fd" \/ ~InRange(ev)))
    /\ rec' = rec + 1
    /\ \/ /\ ~InRange(ev) \/ OtherServer(ev)
          /\ ret = "OK_CONTINUE" /\ UNCHANGED glob /\ UNCHANGED printVars /\ UNCHANGED loadVars
          /\ save_name_and_pos(ev, FALSE, ret)
       \/ /\ InRange(ev) /\ ~OtherServer(ev) /\ Stops(ev, pos)
          /\ ret = "OK_STOP" /\ UNCHANGED glob /\ UNCHANGED printVars /\ UNCHANGED loadVars
          /\ save_name_and_pos(ev, FALSE, ret)
       \/ /\ InRange(ev) /\ ~OtherServer(ev) /\ ~Stops(ev, pos)
          /\ \/ queryEvent(ev, io, ret) \/ createFileEvent(ev, io, ret)
             \/ appendBlockEvent(ev, io, ret) \/ beginLoadQueryEvent(ev, io, ret)
             \/ execLoadEvent(ev, ret) \/ executeLoadQueryEvent(ev, ret)
             \/ formatDescriptionEvent(ev, ret) \/ tableMapEvent(ev, ret)
             \/ rowsEvent(ev, ret) \/ otherEvent(ev, ret)
          /\ save_name_and_pos(ev, ev.t = "fd" \/ (ev.t = "create" /\ glob >= 3
                                                  /\ ~shall_skip_database(ev.db)), ret)

-----------------------------------------------------------------------------
(* The run: main, dump_log_entries and the two readers.                    *)

\* After a log: main's loop goes to the next one, from its beginning, or the
\* program ends.
nextLog(ret) ==
    IF ret = "OK_CONTINUE" /\ Len(args) > 1
      THEN pc' = "main" /\ args' = Tail(args) /\ start' = HeaderSize
      ELSE pc' = "exit" /\ UNCHANGED <<args, start>>

\* The same without an event processed in this step.
leave(ret) ==
    /\ nextLog(ret)
    /\ UNCHANGED <<served, off, glob, rec, sought, cur>>
    /\ UNCHANGED <<runVars, printVars, loadVars, saveVars>>

\* Of what was printed the first n lines had left the buffer of the stream,
\* the others never do.
KeptInFile(n) ==
    /\ out' = SubSeq(out, 1, n)
    /\ missed' = missed \cup Places(SubSeq(out, n + 1, Len(out)))

\* The end of main: my_fclose may fail on what the result's buffer holds, and
\* nobody looks; exit() flushes the pair.
exitProgram ==
    /\ pc = "exit" /\ pc' = "idle"
    /\ disk' = IF npfp = NoName THEN disk ELSE npfp
    /\ \E n \in 0 .. Len(out) : (n = Len(out) \/ (opt.toFile /\ opt.full)) /\ KeptInFile(n)
    /\ UNCHANGED <<args, start, served, off, glob, rec, sought, cur, evpos, npfp, caches, ignored, fdp>>
    /\ UNCHANGED <<runVars, loadVars>>

\* A killed process flushes nothing.  The standard output has no buffer, a file
\* named with -r has one.
crash ==
    /\ pc # "idle" /\ pc' = "idle"
    /\ \E n \in 0 .. Len(out) : (n = Len(out) \/ opt.toFile) /\ KeptInFile(n)
    /\ UNCHANGED <<args, start, served, off, glob, rec, sought, cur, caches, ignored, fdp>>
    /\ UNCHANGED <<runVars, loadVars, saveVars>>

\* The operator starts the program where the file says, or from the first
\* log when the file names none.  --start-position has HeaderSize as its
\* least value.  Remote runs that follow the server name one log.
mainProgram ==
    /\ pc = "idle" /\ runs < MaxRuns
    /\ LET n == IF disk.name = NoName THEN 1 ELSE disk.name
           p == IF disk.name = NoName THEN HeaderSize ELSE Max({disk.pos, HeaderSize})
       IN  /\ args' = [k \in 1 .. (IF opt.remote /\ opt.toLast THEN 1 ELSE Len(logs) - n + 1) |-> n + k - 1]
           /\ start' = p /\ from' = <<n, p>>
    /\ pc' = "main" /\ runs' = runs + 1
    /\ out' = <<>> /\ missed' = {} /\ caches' = <<>> /\ ignored' = {} /\ fdp' = FALSE
    /\ glob' = 0 /\ rec' = 0 /\ sought' = TRUE
    /\ names' = [f \in FileIds |-> NoName]
    /\ cur' = NoName /\ evpos' = [pos |-> 0, of |-> NoName] /\ npfp' = NoName
    /\ UNCHANGED <<logs, opt, served, off, dir, disk>>

\* A fresh PRINT_EVENT_INFO for every log.
freshPrintInfo == caches' = <<>> /\ ignored' = {} /\ fdp' = FALSE

\* safe_connect, check_master_version and COM_BINLOG_DUMP: any may fail.  A
\* server of version 5 is read as one of version 4 until its first event.
connectRemote(io) ==
    /\ pc = "main" /\ opt.remote
    /\ IF ~io THEN leave("ERROR_STOP")
       ELSE /\ pc' = "remote" /\ freshPrintInfo
            /\ glob' = IF logs[Head(args)].ver = 1 THEN 1 ELSE 3
            /\ served' = [log |-> Head(args), idx |-> start, ph |-> "rotate"]
            /\ off' = start
            /\ UNCHANGED <<args, start, out, missed, rec, sought, cur>> /\ UNCHANGED <<runVars, loadVars, saveVars>>

\* The server's stream (external): a fake Rotate naming the log, a fake
\* Format_description unless the dump begins with the real one, the events,
\* and after a Rotate the next log in the same way.
Fake(t) == [t |-> t, id |-> NoName, db |-> NoName, end |-> FALSE, when |-> 0, srv |-> opt.server,
            log |-> served.log, pos |-> 0, ends |-> 0, to |-> served.log, ver |-> logs[served.log].ver]
InLog == served.idx \in DOMAIN LogEvents(served.log)
Packet == CASE served.ph = "rotate" -> Fake("rotate")
            [] served.ph = "fd" -> Fake("fd")
            [] OTHER -> Event(served.log, served.idx)
HasPacket == served.ph # "log" \/ InLog
Advance ==
    served' = CASE served.ph = "rotate" ->
                 [served EXCEPT !.ph = IF served.idx > HeaderSize /\ logs[served.log].ver > 3 THEN "fd" ELSE "log"]
            [] served.ph = "fd" -> [served EXCEPT !.ph = "log"]
            [] OTHER -> IF Packet.t = "rotate"
                        THEN [log |-> served.log + 1, idx |-> HeaderSize, ph |-> "rotate"]
                        ELSE [served EXCEPT !.idx = @ + 1]

\* A packet that cannot be read, or a position past the end of the log.
readError == pc = "remote" /\ leave("ERROR_STOP")

\* The packet that says the server has no more events.
endOfData ==
    /\ pc = "remote" /\ ~HasPacket /\ served.idx <= Len(LogEvents(served.log)) + 1
    /\ leave("OK_CONTINUE")

FakeRotate == Packet.t = "rotate" /\ Packet.when = 0

\* A fake Rotate without --to-last-log: it is about the log asked for, and
\* skipped, or it ends the dump.  Either way it sets current_log_name.
skipFakeRotate ==
    /\ pc = "remote" /\ HasPacket /\ FakeRotate /\ ~opt.toLast
    /\ cur' = Packet.to
    /\ IF Packet.to = Head(args) THEN Advance /\ UNCHANGED <<pc, args, start>>
       ELSE nextLog("OK_CONTINUE") /\ UNCHANGED served
    /\ UNCHANGED <<off, glob, rec, sought>> /\ UNCHANGED <<runVars, printVars, loadVars, saveVars>>

\* current_log_name, set by every Rotate event before it is processed.
nameOf(ev) == IF ev.t = "rotate" THEN ev.to ELSE cur

\* LOAD DATA of a 3.23 server.
OldFormat(ev) == glob < 3 /\ ev.t \in {"load", "create"}

\* Fake events do not move old_off, and a Format_description counts as fake
\* unless old_off is at the beginning.
offAfter(ev) == IF FakeRotate \/ (ev.t = "fd" /\ off # HeaderSize) THEN off ELSE off + 1

\* The body of the loop for an event that is processed.
remoteEvent(io, ret) ==
    /\ pc = "remote" /\ HasPacket /\ ~(FakeRotate /\ ~opt.toLast) /\ ~OldFormat(Packet)
    /\ cur' = nameOf(Packet)
    /\ process_event(Packet, off, io, ret)
    /\ off' = offAfter(Packet)
    /\ UNCHANGED runVars
    /\ IF ret = "OK_CONTINUE" THEN Advance /\ UNCHANGED <<pc, args, start>>
       ELSE nextLog(ret) /\ UNCHANGED served

\* The file of a 3.23 LOAD DATA is made before the event is processed ...
prepare_new_file_for_old_format ==
    /\ pc = "remote" /\ HasPacket /\ OldFormat(Packet)
    /\ \/ NoUniqueFile(NoName) /\ leave("ERROR_STOP")
       \/ \E v \in 0 .. Versions - 1 :
            /\ create_unique_file(NoName, <<NoName, v>>)
            /\ dir' = Stored(<<NoName, v>>, <<>>) /\ pc' = "old"
            /\ UNCHANGED <<args, start, served, off, glob, rec, sought, cur, names>>
            /\ UNCHANGED <<runVars, printVars, saveVars>>

remoteOldEvent(io, ret) ==
    /\ pc = "old"
    /\ UNCHANGED <<cur, served, off>> /\ UNCHANGED runVars
    /\ process_event(Packet, off, io, ret)
    /\ IF ret = "OK_CONTINUE" THEN pc' = "fetch" /\ UNCHANGED <<args, start>> ELSE nextLog(ret)

\* ... and its content is fetched from the server after it: the name is
\* sent, the packets are written, the empty one is acknowledged.
load_old_format_file(io) ==
    /\ pc = "fetch"
    /\ IF ~io THEN leave("ERROR_STOP")
       ELSE /\ dir' = [dir EXCEPT ![<<NoName, Max({v \in 0 .. Versions - 1 : <<NoName, v>> \in DOMAIN dir})>>]
                                     = Append(@, Place(Packet))]
            /\ pc' = "remote" /\ off' = off + 1 /\ Advance
            /\ UNCHANGED <<args, start, glob, rec, sought, cur, names>>
            /\ UNCHANGED <<runVars, printVars, saveVars>>

\* The file of a log is opened and its first event probed: with a later
\* --start-position its Format_description is processed here, or with
\* --base64-output=never only taken over.
check_header(io, ret) ==
    /\ pc = "main" /\ ~opt.remote
    /\ LET n == Head(args)
           fd == logs[n].ver > 3 /\ start > HeaderSize
       IN  IF ~io \/ LogEvents(n) = <<>> THEN ret = "ERROR_STOP" /\ leave(ret)
           ELSE /\ served' = [log |-> n, idx |-> start, ph |-> "log"]
                /\ pc' = IF fd /\ opt.base64 # "never" THEN "header" ELSE "local"
                /\ ret = "OK_CONTINUE" /\ freshPrintInfo
                /\ glob' = IF logs[n].ver = 1 THEN 1 ELSE IF fd THEN logs[n].ver ELSE 3
                /\ UNCHANGED <<args, start, off, out, missed, rec, sought, cur>>
                /\ UNCHANGED <<runVars, loadVars, saveVars>>

headerEvent(io, ret) ==
    /\ pc = "header"
    /\ UNCHANGED <<cur, served, off>> /\ UNCHANGED runVars
    /\ process_event(Event(served.log, HeaderSize), HeaderSize, io, ret)
    /\ IF ret = "OK_CONTINUE" THEN pc' = "local" /\ UNCHANGED <<args, start>> ELSE nextLog(ret)

\* The loop of dump_local_log_entries.
localEvent(io, ret) ==
    /\ pc = "local" /\ InLog
    /\ UNCHANGED <<cur, off>> /\ UNCHANGED runVars
    /\ process_event(Event(served.log, served.idx), served.idx, io, ret)
    /\ IF ret = "OK_CONTINUE" THEN served' = [served EXCEPT !.idx = @ + 1] /\ UNCHANGED <<pc, args, start>>
       ELSE nextLog(ret) /\ UNCHANGED served

\* The end of the file, or an event that cannot be read, which is taken for
\* the end when the log is marked as in use.
localEnd ==
    /\ pc = "local"
    /\ \/ ~InLog /\ leave("OK_CONTINUE")
       \/ InLog /\ LogEvents(served.log)[1].end /\ leave("OK_CONTINUE")
       \/ InLog /\ ~LogEvents(served.log)[1].end /\ leave("ERROR_STOP")

binlogNext ==
    \/ mainProgram \/ exitProgram \/ crash
    \/ readError \/ endOfData \/ skipFakeRotate \/ prepare_new_file_for_old_format \/ localEnd
    \/ \E io \in BOOLEAN : connectRemote(io) \/ load_old_format_file(io)
    \/ \E io \in BOOLEAN, ret \in Exit_status :
          remoteEvent(io, ret) \/ remoteOldEvent(io, ret) \/ check_header(io, ret)
          \/ headerEvent(io, ret) \/ localEvent(io, ret)

binlogSpec == binlogInit /\ [][binlogNext]_binlogVars

-----------------------------------------------------------------------------
(* Properties.                                                             *)

AllEvents == UNION {{Event(n, i) : i \in DOMAIN LogEvents(n)} : n \in DOMAIN logs}
Before(p, q) == p[1] < q[1] \/ (p[1] = q[1] /\ p[2] < q[2])

\* The events that change data, as far as the options ask for them; the short
\* form prints no row events.
Effective == {e \in AllEvents : /\ e.t \in {"query", "exec", "execq"} \/ (e.t = "rows" /\ ~opt.short)
                                /\ ~shall_skip_database(e.db) /\ ~OtherServer(e)}
InOut(e) == \E k \in DOMAIN out : out[k].log = e.log /\ out[k].pos = e.pos

\* A pair whose position was taken in another log than the one it names.
Mixed(pair) == pair.pos # 0 /\ pair.of # pair.name
Saved == <<disk.name, disk.pos>>

\* The statement of e had begun before this run's start or is not over at
\* the saved pair: the rows of one statement, the parts of one LOAD DATA.
First(e) ==
    IF e.t \notin Executes THEN e.pos
    ELSE Max({0} \cup {i \in 1 .. e.pos : LogEvents(e.log)[i].t \in Starts /\ LogEvents(e.log)[i].id = e.id})
Ended(e) == e.t = "rows" => \E i \in e.pos .. Len(LogEvents(e.log)) :
                               /\ LogEvents(e.log)[i].t = "rows" /\ LogEvents(e.log)[i].end
                               /\ Before(<<e.log, i>>, Saved)

\* Everything that changes data and lies between the start of this run and the
\* pair in the file is in the result file, so that a run started at the pair
\* leaves no gap - except where the pair is mixed; inside a statement of several
\* events, whose first part is only in this process; and for what the program
\* printed and the result did not take, because a write failed whose result
\* nobody looks at, or because a kill found it in the buffer of a file named
\* with -r.  (save at the end of process_event, the stdio buffers, the row
\* caches, Load_log_processor.)
LossExplained ==
    disk.name # NoName /\ opt.offset = 0 /\ opt.startTime = 0 =>
      \A e \in Effective :
         ~Before(Place(e), from) /\ Before(Place(e), Saved) =>
           \/ InOut(e) \/ Mixed(disk)
           \/ ~Ended(e) \/ Before(<<e.log, First(e)>>, from)
           \/ Place(e) \in missed /\ (opt.full \/ opt.toFile)

\* At most one event that changes data is both printed by this run and after
\* the pair in the file: the pair is never further behind the output.  A pair
\* before the start of the run is at position 0, which the fake Rotate at the
\* start of a dump left there, or mixed.
ReplayBounded ==
    disk.name # NoName =>
      /\ Cardinality({e \in Effective : e.t # "rows" /\ InOut(e) /\ ~Before(Place(e), Saved)}) <= 1
      /\ npfp # NoName /\ Before(Saved, from) => disk.pos = 0 \/ Mixed(disk)

\* A LOAD DATA statement is printed with a file that holds the blocks of that
\* statement, all of them, in their order and no other - also after runs that
\* left files behind.
LoadComplete ==
    \A k \in DOMAIN out :
      LET line  == out[k]
          e     == Event(line.log, line.pos)
          parts == {i \in First(e) .. e.pos - 1 : /\ LogEvents(e.log)[i].t \in Starts \cup {"append"}
                                                  /\ LogEvents(e.log)[i].id = e.id}
      IN  line.blocks # <<>> =>
            /\ {line.blocks[b] : b \in DOMAIN line.blocks} = {<<e.log, i>> : i \in parts}
            /\ \A b, c \in DOMAIN line.blocks : b < c => Before(line.blocks[b], line.blocks[c])

\* When the last rows event of a statement has been dealt with, printed or
\* filtered out, nothing of the statement waits in the caches.
RowsFlushed ==
    [][\A e \in AllEvents : (e.t = "rows" /\ e.end /\ evpos' # evpos /\ evpos' = [pos |-> e.ends, of |-> e.log]
                             /\ pc \in {"remote", "local"} /\ pc' = pc)
          => caches' = <<>> ]_binlogVars

\* "It will write the last log position and filename into /tmp/name_and_pos"
\* (myreplicator/README:4): a run that ended leaves a position in the log it names.
NameMatchesPosition == disk.name # NoName => ~Mixed(disk)

=============================================================================
