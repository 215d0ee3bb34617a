-------------------------- MODULE ReplicatorProofs --------------------------
(***************************************************************************)
(* Proofs about Replicator, for all logs that a server can write (see      *)
(* ReplicatorAssumption), all command lines and any number of runs.        *)
(*                                                                         *)
(* Base is what every proof here starts from: types, the logs main has     *)
(* left (ArgsInv), and where the reader is in them (PlaceInv).             *)
(*                                                                         *)
(* RowsFlushed speaks of the end of a row statement.  CacheInv follows the *)
(* statement to its end: as long as a cache or an ignored table waits, the *)
(* last event that was read leaves a statement open, and the log goes on   *)
(* with that statement.                                                    *)
(*                                                                         *)
(* LoadComplete needs to know what is in a file before its statement is    *)
(* executed.  FileInv says for every record in file_names from which event *)
(* on the blocks behind the reader are in its file, and BlockInv that the  *)
(* lines already printed are complete.                                     *)
(*                                                                         *)
(* ReplayBounded relates the file name_and_pos to the output.  PairInv     *)
(* follows current_log_name (NameInv), evpos and the pairs saved from it   *)
(* (EvposInv) along the reader, which FromInv keeps behind the start of    *)
(* the run, and OutInv says where the printed statements lie.              *)
(*                                                                         *)
(* LossExplained is CoverInv's last part: everything wanted between the    *)
(* start of the run and the reader is in the result, in missed (Settled)   *)
(* or in the caches, and so the pairs, which are not ahead of the reader,  *)
(* cover what lies before them; MissedInv says when something is missed.   *)
(* StatementInv says of what waits in the caches that its statement is     *)
(* open up to the reader, and why a table is ignored; NamesInv that a      *)
(* LOAD DATA the run has met from its first event on has its record, which *)
(* needs a format description that is not of a 3.23 server (GlobInv).      *)
(***************************************************************************)
EXTENDS Replicator, FiniteSetTheorems, WellFoundedInduction, TLAPS

LogNames == DOMAIN logs \cup {NoName}
Lines == [log : Nat, pos : Nat, blocks : Seq(Nat \X Nat)]
Reading == pc \in {"remote", "old", "fetch", "header", "local"}
Follows == opt.remote /\ opt.toLast

\* The temporary files, what the process has in memory, and what it prints.
FileTypes ==
    /\ names \in [FileIds -> Records \cup {NoName}]
    /\ DOMAIN dir \subseteq (FileIds \cup {NoName}) \X (0 .. Versions - 1)
    /\ \A f \in DOMAIN dir : dir[f] \in Seq(Nat \X Nat)
    /\ \A d \in FileIds : names[d] # NoName => names[d].fname \in DOMAIN dir

PrintTypes ==
    /\ glob \in Nat /\ out \in Seq(Lines) /\ caches \in Seq(Lines) /\ fdp \in BOOLEAN
    /\ FileTypes

SaveTypes ==
    /\ evpos \in [pos : Nat, of : LogNames]
    /\ npfp \in [name : LogNames, pos : Nat, of : LogNames] \cup {NoName}
    /\ disk \in [name : LogNames, pos : Nat, of : LogNames]

RunTypes ==
    /\ logs \in Histories /\ opt \in get_one_option
    /\ runs \in Nat /\ from \in (DOMAIN logs) \X (Nat \ {0})

PlaceTypes ==
    /\ args \in Seq(DOMAIN logs) /\ start \in Nat \ {0}
    /\ served \in [log : DOMAIN logs, idx : Nat \ {0}, ph : {"rotate", "fd", "log"}]

Types ==
    /\ RunTypes /\ PlaceTypes /\ PrintTypes /\ SaveTypes
    /\ pc \in {"idle", "main", "remote", "old", "fetch", "header", "local", "exit"}
    /\ sought \in BOOLEAN /\ rec \in Nat /\ cur \in LogNames

Packets ==
    [t : Kinds, id : FileIds \cup {NoName}, db : {NoName, "d", "x"}, end : BOOLEAN, when : Nat, srv : Nat,
     log : DOMAIN logs, pos : Nat, ends : Nat, to : Nat, ver : {1, 3, 4}]

(***************************************************************************)
(* What the logs and the options are.                                      *)
(***************************************************************************)
LEMMA TheLogs ==
    ASSUME RunTypes
    PROVE  /\ logs \in Seq([ver : {1, 3, 4}, evs : Seq(Events)])
           /\ ServerLogs(logs)
           /\ Len(logs) \in Nat \ {0} /\ DOMAIN logs = 1 .. Len(logs)
           /\ \A n \in DOMAIN logs : logs[n].ver \in {1, 3, 4} /\ LogEvents(n) \in Seq(Events)
<1>1. logs \in Seq([ver : {1, 3, 4}, evs : Seq(Events)]) /\ ServerLogs(logs)
  BY ReplicatorAssumption DEF RunTypes
<1>2. logs # <<>>
  BY <1>1 DEF ServerLogs
<1>3. Len(logs) \in Nat \ {0} /\ DOMAIN logs = 1 .. Len(logs)
  <2> HIDE ReplicatorAssumption
  <2> QED BY <1>1, <1>2
<1>4. \A n \in DOMAIN logs : logs[n].ver \in {1, 3, 4} /\ LogEvents(n) \in Seq(Events)
  <2> SUFFICES ASSUME NEW n \in DOMAIN logs
               PROVE  logs[n].ver \in {1, 3, 4} /\ LogEvents(n) \in Seq(Events)
    OBVIOUS
  <2>1. logs[n] \in [ver : {1, 3, 4}, evs : Seq(Events)]
    <3> DEFINE S == [ver : {1, 3, 4}, evs : Seq(Events)]
    <3>1. logs \in Seq(S)
      BY <1>1
    <3> HIDE DEF S
    <3>2. logs[n] \in S
      BY <3>1, <1>3
    <3> QED
      BY <3>2 DEF S
  <2> QED
    BY <2>1 DEF LogEvents
<1> QED
  BY <1>1, <1>3, <1>4

\* The events of one log.
LEMMA TheEvents ==
    ASSUME RunTypes, NEW n \in DOMAIN logs
    PROVE  /\ Len(LogEvents(n)) \in Nat /\ DOMAIN LogEvents(n) = 1 .. Len(LogEvents(n))
           /\ \A i \in DOMAIN LogEvents(n) : LogEvents(n)[i] \in Events /\ Event(n, i) \in Packets
<1>1. LogEvents(n) \in Seq(Events) /\ logs[n].ver \in {1, 3, 4} /\ n \in Nat
  BY TheLogs
<1>2. Len(LogEvents(n)) \in Nat /\ DOMAIN LogEvents(n) = 1 .. Len(LogEvents(n))
  BY <1>1
<1>3. ASSUME NEW i \in DOMAIN LogEvents(n)
      PROVE  LogEvents(n)[i] \in Events /\ Event(n, i) \in Packets
  <2>1. i \in Nat /\ LogEvents(n)[i] \in Events
    BY <1>1, <1>2
  <2> DEFINE e == LogEvents(n)[i]
  <2>2. /\ e.t \in Kinds /\ e.id \in FileIds \cup {NoName} /\ e.db \in {NoName, "d", "x"}
        /\ e.end \in BOOLEAN /\ e.when \in Nat /\ e.srv \in Nat
    BY <2>1 DEF Events
  <2>3. Event(n, i) = [t |-> e.t, id |-> e.id, db |-> e.db, end |-> e.end, when |-> e.when, srv |-> e.srv,
                       log |-> n, pos |-> i, ends |-> i + 1, to |-> n + 1, ver |-> logs[n].ver]
    BY DEF Event
  <2> HIDE DEF e
  <2> QED
    BY <1>1, <2>1, <2>2, <2>3 DEF Packets, e
<1> QED
  BY <1>2, <1>3

(***************************************************************************)
(* The parts of an event, and which ids it can have.                       *)
(***************************************************************************)

\* An event with a place has the type of the event there.
OfLog(ev) == ev.pos \in DOMAIN LogEvents(ev.log) => ev.t = LogEvents(ev.log)[ev.pos].t

\* An event of a LOAD DATA has an id.
IdOK(ev) == ev.t \in Starts \cup Executes \cup {"append"} => ev.id \in FileIds

\* The types of an event's parts.
LEMMA PacketParts ==
    ASSUME NEW ev \in Packets
    PROVE  /\ ev.t \in Kinds /\ ev.id \in FileIds \cup {NoName} /\ ev.end \in BOOLEAN
           /\ ev.when \in Nat /\ ev.srv \in Nat /\ ev.log \in DOMAIN logs
           /\ ev.pos \in Nat /\ ev.ends \in Nat /\ ev.to \in Nat /\ ev.ver \in {1, 3, 4}
  BY DEF Packets

\* What is printed for an event is a line.
LEMMA LineTyped ==
    ASSUME RunTypes, NEW ev \in Packets
    PROVE  Line(ev) \in Lines
<1>1. ev.log \in Nat /\ ev.pos \in Nat
  BY TheLogs, PacketParts
<1>2. <<>> \in Seq(Nat \X Nat)
  OBVIOUS
<1> QED
  BY <1>1, <1>2 DEF Line, Lines

\* The result file and the caches stay sequences of lines.
LEMMA LinesAppended ==
    ASSUME NEW s \in Seq(Lines), NEW x \in Lines
    PROVE  Append(s, x) \in Seq(Lines)
  OBVIOUS

(***************************************************************************)
(* Load_log_processor keeps its table and the files.                       *)
(***************************************************************************)
LEMMA StoredTyped ==
    ASSUME FileTypes, NEW name \in (FileIds \cup {NoName}) \X (0 .. Versions - 1),
           NEW c \in Seq(Nat \X Nat)
    PROVE  /\ DOMAIN Stored(name, c) = {name} \cup DOMAIN dir
           /\ DOMAIN Stored(name, c) \subseteq (FileIds \cup {NoName}) \X (0 .. Versions - 1)
           /\ \A f \in DOMAIN Stored(name, c) : Stored(name, c)[f] \in Seq(Nat \X Nat)
  BY DEF FileTypes, Stored

\* A file that gets a block holds places of events, as before.
LEMMA WrittenTyped ==
    ASSUME RunTypes, FileTypes, NEW ev \in Packets,
           NEW name \in (FileIds \cup {NoName}) \X (0 .. Versions - 1)
    PROVE  /\ DOMAIN Written(name, ev) = {name} \cup DOMAIN dir
           /\ DOMAIN Written(name, ev) \subseteq (FileIds \cup {NoName}) \X (0 .. Versions - 1)
           /\ \A f \in DOMAIN Written(name, ev) : Written(name, ev)[f] \in Seq(Nat \X Nat)
<1> DEFINE old == IF name \in DOMAIN dir THEN dir[name] ELSE <<>>
<1>1. Place(ev) \in Nat \X Nat
  BY TheLogs, PacketParts DEF Place
<1>2. old \in Seq(Nat \X Nat)
  BY DEF FileTypes
<1>3. Append(old, Place(ev)) \in Seq(Nat \X Nat)
  <2> HIDE DEF old
  <2> QED BY <1>1, <1>2
<1>4. Written(name, ev) = Stored(name, Append(old, Place(ev)))
  BY DEF Written
<1> QED
  <2> HIDE DEF old
  <2> QED BY <1>3, <1>4, StoredTyped

\* Create_file and Begin_load_query: a file and a record of it.
LEMMA FirstTypes ==
    ASSUME RunTypes, FileTypes, NEW ev \in Packets, ev.id \in FileIds,
           NEW io \in BOOLEAN, NEW ret, process_first_event(ev, io, ret)
    PROVE  FileTypes'
<1>1. CASE UNCHANGED loadVars
  BY <1>1 DEF loadVars, FileTypes
<1>2. CASE \E name \in {ev.id} \X (0 .. Versions - 1) :
              /\ names' = [names EXCEPT ![ev.id] = [fname |-> name, event |-> ev.t = "create"]]
              /\ dir' = IF io THEN Written(name, ev) ELSE Stored(name, <<>>)
  <2>1. PICK name \in {ev.id} \X (0 .. Versions - 1) :
              /\ names' = [names EXCEPT ![ev.id] = [fname |-> name, event |-> ev.t = "create"]]
              /\ dir' = IF io THEN Written(name, ev) ELSE Stored(name, <<>>)
    BY <1>2
  <2>2. name \in FileIds \X (0 .. Versions - 1)
    OBVIOUS
  <2>3. [fname |-> name, event |-> ev.t = "create"] \in Records
    BY <2>2 DEF Records
  <2>4. names' \in [FileIds -> Records \cup {NoName}]
    BY <2>1, <2>3 DEF FileTypes
  <2>5. <<>> \in Seq(Nat \X Nat) /\ name \in (FileIds \cup {NoName}) \X (0 .. Versions - 1)
    BY <2>2
  <2>6. /\ DOMAIN dir' = {name} \cup DOMAIN dir
        /\ DOMAIN dir' \subseteq (FileIds \cup {NoName}) \X (0 .. Versions - 1)
        /\ \A f \in DOMAIN dir' : dir'[f] \in Seq(Nat \X Nat)
    <3>1. CASE io
      BY <3>1, <2>1, <2>5, WrittenTyped
    <3>2. CASE ~io
      BY <3>2, <2>1, <2>5, StoredTyped
    <3> QED BY <3>1, <3>2
  <2>7. ASSUME NEW d \in FileIds, names'[d] # NoName
        PROVE  names'[d].fname \in DOMAIN dir'
    <3>1. CASE d = ev.id
      BY <3>1, <2>1, <2>6 DEF FileTypes
    <3>2. CASE d # ev.id
      BY <3>2, <2>1, <2>6, <2>7 DEF FileTypes
    <3> QED BY <3>1, <3>2
  <2> QED
    BY <2>4, <2>6, <2>7 DEF FileTypes
<1> QED
  BY <1>1, <1>2 DEF process_first_event

\* Append_block: into the file of the record, if there is one.
LEMMA AppendTypes ==
    ASSUME RunTypes, FileTypes, NEW ev \in Packets, ev.id \in FileIds,
           NEW io \in BOOLEAN, NEW ret, processAppend(ev, io, ret)
    PROVE  FileTypes'
<1>1. names' = names
  BY DEF processAppend
<1>2. CASE dir' = dir
  BY <1>1, <1>2 DEF FileTypes
<1>3. CASE names[ev.id] # NoName /\ dir' = Written(names[ev.id].fname, ev)
  <2>1. names[ev.id] \in Records
    BY <1>3 DEF FileTypes
  <2>2. names[ev.id].fname \in FileIds \X (0 .. Versions - 1)
    BY <2>1 DEF Records
  <2>3. PICK name \in (FileIds \cup {NoName}) \X (0 .. Versions - 1) : name = names[ev.id].fname
    BY <2>2
  <2>a. dir' = Written(name, ev)
    BY <1>3, <2>3
  <2>4. /\ DOMAIN dir \subseteq DOMAIN dir'
        /\ DOMAIN dir' \subseteq (FileIds \cup {NoName}) \X (0 .. Versions - 1)
        /\ \A f \in DOMAIN dir' : dir'[f] \in Seq(Nat \X Nat)
    <3>1. /\ DOMAIN Written(name, ev) = {name} \cup DOMAIN dir
          /\ DOMAIN Written(name, ev) \subseteq (FileIds \cup {NoName}) \X (0 .. Versions - 1)
          /\ \A f \in DOMAIN Written(name, ev) : Written(name, ev)[f] \in Seq(Nat \X Nat)
      BY <2>3, WrittenTyped
    <3>2. DOMAIN dir \subseteq DOMAIN Written(name, ev)
      BY <3>1
    <3> QED
      BY <3>1, <3>2, <2>a, Zenon
  <2> QED
    BY <1>1, <2>4 DEF FileTypes
<1> QED
  BY <1>2, <1>3 DEF processAppend

\* grab_event and grab_fname clear a record.
LEMMA GrabTypes ==
    ASSUME FileTypes, NEW ev \in Packets, grab(ev), dir' = dir
    PROVE  FileTypes'
<1>1. names' \in [FileIds -> Records \cup {NoName}]
  BY DEF grab, FileTypes
<1>2. \A d \in FileIds : names'[d] # NoName => names'[d] = names[d]
  BY DEF grab, FileTypes
<1> QED
  BY <1>1, <1>2 DEF FileTypes

(***************************************************************************)
(* process_event keeps the types, one case for each kind of event.         *)
(***************************************************************************)
LEMMA SaveKeepsTypes ==
    ASSUME RunTypes, SaveTypes, logs' = logs, NEW ev \in Packets, NEW kept \in BOOLEAN, NEW ret,
           cur' \in LogNames, save_name_and_pos(ev, kept, ret)
    PROVE  SaveTypes'
<1>1. LogNames' = LogNames
  BY DEF LogNames
<1>2. evpos' \in [pos : Nat, of : LogNames]
  BY PacketParts DEF save_name_and_pos, SaveTypes, LogNames
<1>3. [name |-> cur', pos |-> evpos'.pos, of |-> evpos'.of] \in [name : LogNames, pos : Nat, of : LogNames]
  BY <1>2
<1>4. NoPair \in [name : LogNames, pos : Nat, of : LogNames]
  BY DEF NoPair, LogNames
<1>5. CASE ret = "OK_CONTINUE" /\ opt.savable
  BY <1>1, <1>2, <1>3, <1>4, <1>5 DEF save_name_and_pos, SaveTypes
<1>6. CASE ~(ret = "OK_CONTINUE" /\ opt.savable)
  BY <1>1, <1>2, <1>6 DEF save_name_and_pos, SaveTypes
<1> QED
  BY <1>5, <1>6

\* Lines and more lines behind them.
LEMMA Joined ==
    ASSUME NEW s \in Seq(Lines), NEW u \in Seq(Lines)
    PROVE  /\ s \o u \in Seq(Lines)
           /\ \A k \in DOMAIN s : k \in DOMAIN (s \o u) /\ (s \o u)[k] = s[k]
           /\ \A k \in DOMAIN u : \E j \in DOMAIN (s \o u) : (s \o u)[j] = u[k]
           /\ \A j \in DOMAIN (s \o u) : j \in DOMAIN s \/ \E k \in DOMAIN u : (s \o u)[j] = u[k]
<1>1. s \o u \in Seq(Lines) /\ Len(s \o u) = Len(s) + Len(u) /\ Len(s) \in Nat /\ Len(u) \in Nat
  OBVIOUS
<1>2. /\ DOMAIN s = 1 .. Len(s) /\ DOMAIN u = 1 .. Len(u) /\ DOMAIN (s \o u) = 1 .. Len(s) + Len(u)
  BY <1>1
<1>3. \A k \in DOMAIN s : k \in DOMAIN (s \o u) /\ (s \o u)[k] = s[k]
  BY <1>1, <1>2
<1>4. ASSUME NEW k \in DOMAIN u
      PROVE  \E j \in DOMAIN (s \o u) : (s \o u)[j] = u[k]
  <2>1. Len(s) + k \in DOMAIN (s \o u) /\ (s \o u)[Len(s) + k] = u[k]
    BY <1>1, <1>2
  <2> QED BY <2>1
<1>5. ASSUME NEW j \in DOMAIN (s \o u), j \notin DOMAIN s
      PROVE  \E k \in DOMAIN u : (s \o u)[j] = u[k]
  <2>1. j - Len(s) \in DOMAIN u /\ (s \o u)[j] = u[j - Len(s)]
    BY <1>1, <1>2, <1>5
  <2> QED BY <2>1
<1> QED
  BY <1>1, <1>3, <1>4, <1>5

\* A sequence and one more member.
LEMMA Appended ==
    ASSUME NEW S, NEW s \in Seq(S), NEW x \in S
    PROVE  /\ Append(s, x) \in Seq(S)
           /\ \A k \in DOMAIN s : k \in DOMAIN Append(s, x) /\ Append(s, x)[k] = s[k]
           /\ \E k \in DOMAIN Append(s, x) : Append(s, x)[k] = x
           /\ \A k \in DOMAIN Append(s, x) : k \in DOMAIN s \/ Append(s, x)[k] = x
<1>1. Append(s, x) \in Seq(S) /\ Len(Append(s, x)) = Len(s) + 1 /\ Len(s) \in Nat
  OBVIOUS
<1>2. DOMAIN s = 1 .. Len(s) /\ DOMAIN Append(s, x) = 1 .. Len(s) + 1
  BY <1>1
<1>3. Len(s) + 1 \in DOMAIN Append(s, x) /\ Append(s, x)[Len(s) + 1] = x
  BY <1>1, <1>2
<1>4. \A k \in DOMAIN s : k \in DOMAIN Append(s, x) /\ Append(s, x)[k] = s[k]
  BY <1>1, <1>2
<1>5. \A k \in DOMAIN Append(s, x) : k \in DOMAIN s \/ Append(s, x)[k] = x
  BY <1>1, <1>2
<1>6. \E k \in DOMAIN Append(s, x) : Append(s, x)[k] = x
  BY <1>3
<1> QED
  BY <1>1, <1>4, <1>5, <1>6

\* What becomes of lines given to the result: what is there stays, what comes
\* is one of them, and one that does not come is missed.
Adds(lines) ==
    /\ \A k \in DOMAIN out : k \in DOMAIN out' /\ out'[k] = out[k]
    /\ \A k \in DOMAIN out' : k \in DOMAIN out \/ \E c \in DOMAIN lines : out'[k] = lines[c]
    /\ \A c \in DOMAIN lines : \/ \E k \in DOMAIN out' : out'[k] = lines[c]
                               \/ <<lines[c].log, lines[c].pos>> \in missed'
    /\ missed \subseteq missed'

\* So it is when the first n of them arrive.
LEMMA ArriveAdds ==
    ASSUME out \in Seq(Lines), NEW lines \in Seq(Lines), NEW n \in 0 .. Len(lines), Arrive(lines, n)
    PROVE  /\ out' \in Seq(Lines) /\ Adds(lines)
           /\ n = Len(lines) => missed' = missed
<1> DEFINE head == SubSeq(lines, 1, n)
           tail == SubSeq(lines, n + 1, Len(lines))
<1>1. /\ head \in Seq(Lines) /\ Len(head) = n /\ \A k \in 1 .. n : head[k] = lines[k]
      /\ tail \in Seq(Lines) /\ Len(tail) = Len(lines) - n /\ \A k \in 1 .. Len(lines) - n : tail[k] = lines[k + n]
  OBVIOUS
<1>2. out' = out \o head /\ missed' = missed \cup Places(tail)
  BY DEF Arrive
<1> HIDE DEF head, tail
<1>3. /\ out' \in Seq(Lines) /\ \A k \in DOMAIN out : k \in DOMAIN out' /\ out'[k] = out[k]
      /\ \A k \in DOMAIN head : \E j \in DOMAIN out' : out'[j] = head[k]
      /\ \A j \in DOMAIN out' : j \in DOMAIN out \/ \E k \in DOMAIN head : out'[j] = head[k]
  <2>1. head \in Seq(Lines) /\ out' = out \o head
    BY <1>1, <1>2
  <2>2. /\ out \o head \in Seq(Lines)
        /\ \A k \in DOMAIN out : k \in DOMAIN (out \o head) /\ (out \o head)[k] = out[k]
        /\ \A k \in DOMAIN head : \E j \in DOMAIN (out \o head) : (out \o head)[j] = head[k]
        /\ \A j \in DOMAIN (out \o head) : j \in DOMAIN out \/ \E k \in DOMAIN head : (out \o head)[j] = head[k]
    <3>1. out \in Seq(Lines) /\ head \in Seq(Lines)
      BY <2>1
    <3> QED BY <3>1, Joined
  <2> QED BY <2>1, <2>2, Zenon
<1>4. \A k \in DOMAIN head : k \in DOMAIN lines /\ head[k] = lines[k]
  BY <1>1
<1>5. \A k \in DOMAIN out' : k \in DOMAIN out \/ \E c \in DOMAIN lines : out'[k] = lines[c]
  BY <1>3, <1>4
<1>6. ASSUME NEW c \in DOMAIN lines
      PROVE  (\E k \in DOMAIN out' : out'[k] = lines[c]) \/ <<lines[c].log, lines[c].pos>> \in missed'
  <2>1. CASE c <= n
    <3>1. c \in DOMAIN head /\ head[c] = lines[c]
      BY <2>1, <1>1
    <3> QED BY <3>1, <1>3
  <2>2. CASE c > n
    <3>1. c - n \in 1 .. Len(lines) - n /\ (c - n) + n = c
      BY <2>2
    <3>2. DOMAIN tail = 1 .. Len(lines) - n
      BY <1>1
    <3>3. c - n \in DOMAIN tail /\ tail[c - n] = lines[(c - n) + n]
      BY <3>1, <3>2, <1>1, Zenon
    <3>4. tail[c - n] = lines[c]
      BY <3>1, <3>3
    <3> QED BY <3>3, <3>4, <1>2 DEF Places
  <2> QED BY <2>1, <2>2
<1>7. n = Len(lines) => missed' = missed
  <2>1. n = Len(lines) => DOMAIN tail = {}
    BY <1>1
  <2> QED BY <2>1, <1>2 DEF Places
<1> QED
  BY <1>2, <1>3, <1>5, <1>6, <1>7 DEF Adds

\* print loses nothing as long as writing succeeds.
LEMMA OutputAdds ==
    ASSUME out \in Seq(Lines), NEW lines \in Seq(Lines), Output(lines)
    PROVE  /\ out' \in Seq(Lines) /\ Adds(lines)
           /\ opt.full \/ missed' = missed
<1>1. PICK n \in 0 .. Len(lines) : (n = Len(lines) \/ opt.full) /\ Arrive(lines, n)
  BY DEF Output
<1> QED
  BY <1>1, ArriveAdds

\* Of a buffer that is lost the front stays, and the rest is missed.
LEMMA FrontStays ==
    ASSUME out \in Seq(Lines), NEW n \in 0 .. Len(out), KeptInFile(n)
    PROVE  /\ out' \in Seq(Lines)
           /\ \A k \in DOMAIN out' : k \in DOMAIN out /\ out'[k] = out[k]
           /\ \A k \in DOMAIN out : \/ k \in DOMAIN out' /\ out'[k] = out[k]
                                    \/ <<out[k].log, out[k].pos>> \in missed'
           /\ missed \subseteq missed'
           /\ n = Len(out) => missed' = missed
<1> DEFINE tail == SubSeq(out, n + 1, Len(out))
<1>1. /\ SubSeq(out, 1, n) \in Seq(Lines) /\ Len(SubSeq(out, 1, n)) = n
      /\ \A k \in 1 .. n : SubSeq(out, 1, n)[k] = out[k]
      /\ tail \in Seq(Lines) /\ Len(tail) = Len(out) - n /\ \A k \in 1 .. Len(out) - n : tail[k] = out[k + n]
  OBVIOUS
<1>2. out' = SubSeq(out, 1, n) /\ missed' = missed \cup Places(tail)
  BY DEF KeptInFile
<1> HIDE DEF tail
<1>3. ASSUME NEW k \in DOMAIN out
      PROVE  (k \in DOMAIN out' /\ out'[k] = out[k]) \/ <<out[k].log, out[k].pos>> \in missed'
  <2>1. CASE k <= n
    BY <2>1, <1>1, <1>2
  <2>2. CASE k > n
    <3>1. k - n \in 1 .. Len(out) - n /\ (k - n) + n = k
      BY <2>2
    <3>2. DOMAIN tail = 1 .. Len(out) - n
      BY <1>1
    <3>3. k - n \in DOMAIN tail /\ tail[k - n] = out[(k - n) + n]
      BY <3>1, <3>2, <1>1, Zenon
    <3>4. tail[k - n] = out[k]
      BY <3>1, <3>3
    <3> QED BY <3>3, <3>4, <1>2 DEF Places
  <2> QED BY <2>1, <2>2
<1>4. n = Len(out) => missed' = missed
  <2>1. n = Len(out) => DOMAIN tail = {}
    BY <1>1
  <2> QED BY <2>1, <1>2 DEF Places
<1> QED
  BY <1>1, <1>2, <1>3, <1>4

\* The result of a process that ends, line by line: what it held in a buffer
\* may be missed.
ResultCut ==
    /\ \A k \in DOMAIN out' : k \in DOMAIN out /\ out'[k] = out[k]
    /\ \A k \in DOMAIN out : \/ k \in DOMAIN out' /\ out'[k] = out[k]
                             \/ <<out[k].log, out[k].pos>> \in missed'
    /\ missed \subseteq missed' /\ (missed' = missed \/ opt.toFile)

\* An end of the program, of its own or by a kill.
LEMMA HaltCuts ==
    ASSUME out \in Seq(Lines), exitProgram \/ crash
    PROVE  out' \in Seq(Lines) /\ ResultCut
<1>1. PICK n \in 0 .. Len(out) : (n = Len(out) \/ opt.toFile) /\ KeptInFile(n)
  BY DEF exitProgram, crash
<1> QED
  BY <1>1, FrontStays DEF ResultCut

\* The line of a LOAD DATA.
LEMMA LoadLineTyped ==
    ASSUME RunTypes, FileTypes, NEW ev \in Packets, IdOK(ev), ev.t \in Executes, Grabbed(ev)
    PROVE  /\ LoadLine(ev) \in Lines /\ LoadLine(ev).log = ev.log /\ LoadLine(ev).pos = ev.pos
           /\ LoadLine(ev).blocks = dir[names[ev.id].fname]
<1>1. ev.id \in FileIds /\ names[ev.id] # NoName
  BY DEF IdOK, Grabbed
<1>2. dir[names[ev.id].fname] \in Seq(Nat \X Nat)
  BY <1>1 DEF FileTypes
<1>3. ev.log \in Nat /\ ev.pos \in Nat
  BY TheLogs, PacketParts
<1>4. LoadLine(ev) = [log |-> ev.log, pos |-> ev.pos, blocks |-> dir[names[ev.id].fname]]
  BY DEF LoadLine, Line
<1> QED
  BY <1>2, <1>3, <1>4 DEF Lines

Single == {"query", "exec", "execq"}

\* The result file and the caches after an event.
Prints(ev, ret) ==
    \/ UNCHANGED <<out, missed, caches>>
    \/ /\ Output(<<Line(ev)>>) /\ caches' = caches /\ ev.t \notin {"map", "rows"}
       /\ ev.t \in Single => ret = "OK_CONTINUE"
    \/ /\ Output(<<LoadLine(ev)>>) /\ caches' = caches /\ ev.t \in Executes /\ Grabbed(ev)
       /\ ret = "OK_CONTINUE" /\ names' = [names EXCEPT ![ev.id] = NoName]
    \/ UNCHANGED <<out, missed>> /\ caches' = Append(caches, Line(ev)) /\ Open(ev) /\ ret = "OK_CONTINUE"
    \/ /\ ev.t = "rows" /\ ev.end /\ caches' = <<>>
       /\ Output(caches) \/ (Output(Append(caches, Line(ev))) /\ ret = "OK_CONTINUE")

\* Each case of the switch in process_event.
LEMMA SwitchPrints ==
    ASSUME NEW ev, NEW io, NEW ret,
           \/ queryEvent(ev, io, ret) \/ createFileEvent(ev, io, ret)
           \/ appendBlockEvent(ev, io, ret) \/ beginLoadQueryEvent(ev, io, ret)
           \/ execLoadEvent(ev, ret) \/ executeLoadQueryEvent(ev, ret)
           \/ formatDescriptionEvent(ev, ret) \/ tableMapEvent(ev, ret)
           \/ rowsEvent(ev, ret) \/ otherEvent(ev, ret)
    PROVE  Prints(ev, ret)
<1>0. ASSUME NEW r, printAny(ev, io, r)
      PROVE  UNCHANGED <<out, missed>> \/ (Output(<<Line(ev)>>) /\ r = "OK_CONTINUE")
  <2>1. Len(<<Line(ev)>>) = 1
    OBVIOUS
  <2>2. Arrive(<<Line(ev)>>, 1) => Output(<<Line(ev)>>)
    BY <2>1 DEF Output
  <2> QED
    BY <1>0, <2>2 DEF printAny, write_event_header_and_base64, Printed
<1>1. CASE queryEvent(ev, io, ret)
  BY <1>1, <1>0 DEF Prints, queryEvent
<1>2. CASE createFileEvent(ev, io, ret)
  BY <1>2, <1>0 DEF Prints, createFileEvent, Single
<1>3. CASE appendBlockEvent(ev, io, ret) \/ beginLoadQueryEvent(ev, io, ret)
  BY <1>3 DEF Prints, appendBlockEvent, beginLoadQueryEvent, Printed, Single
<1>4. CASE execLoadEvent(ev, ret) \/ executeLoadQueryEvent(ev, ret)
  BY <1>4 DEF Prints, execLoadEvent, executeLoadQueryEvent, grab, Executes
<1>5. CASE formatDescriptionEvent(ev, ret) \/ otherEvent(ev, ret)
  BY <1>5 DEF Prints, formatDescriptionEvent, otherEvent, Printed, Single
<1>6. CASE tableMapEvent(ev, ret)
  BY <1>6 DEF Prints, tableMapEvent, Open
<1>7. CASE rowsEvent(ev, ret)
  <2>1. ASSUME flushSkipped(ret)
        PROVE  caches' = <<>> /\ Output(caches)
    BY <2>1 DEF flushSkipped, Output
  <2>2. \/ UNCHANGED <<out, missed, caches>>
        \/ ev.end /\ flushSkipped(ret)
        \/ ret = "OK_CONTINUE" /\ printRows(ev)
    BY <1>7 DEF rowsEvent
  <2>3. ev.t = "rows"
    BY <1>7 DEF rowsEvent
  <2>4. CASE ret = "OK_CONTINUE" /\ printRows(ev)
    BY <2>3, <2>4 DEF printRows, Open, Prints
  <2> QED BY <2>1, <2>2, <2>3, <2>4 DEF Prints
<1> QED
  BY <1>1, <1>2, <1>3, <1>4, <1>5, <1>6, <1>7

\* The result file and the caches stay sequences of lines.
LEMMA PrintsTyped ==
    ASSUME RunTypes, FileTypes, out \in Seq(Lines), caches \in Seq(Lines),
           NEW ev \in Packets, IdOK(ev), NEW ret, Prints(ev, ret)
    PROVE  out' \in Seq(Lines) /\ caches' \in Seq(Lines)
<1>1. Line(ev) \in Lines /\ <<Line(ev)>> \in Seq(Lines) /\ Append(caches, Line(ev)) \in Seq(Lines) /\ <<>> \in Seq(Lines)
  BY LineTyped, LinesAppended
<1>2. ASSUME ev.t \in Executes, Grabbed(ev)
      PROVE  <<LoadLine(ev)>> \in Seq(Lines)
  <2>1. LoadLine(ev) \in Lines
    BY <1>2, LoadLineTyped
  <2> QED BY <2>1
<1>3. out' = out \/ \E lines \in Seq(Lines) : Output(lines)
  BY <1>1, <1>2 DEF Prints
<1>4. caches' \in Seq(Lines)
  BY <1>1 DEF Prints
<1> QED
  BY <1>3, <1>4, OutputAdds

\* Each case of the switch in process_event.
LEMMA PrintKeepsTypes ==
    ASSUME RunTypes, PrintTypes, NEW ev \in Packets, IdOK(ev), NEW io \in BOOLEAN, NEW ret,
           \/ queryEvent(ev, io, ret) \/ createFileEvent(ev, io, ret)
           \/ appendBlockEvent(ev, io, ret) \/ beginLoadQueryEvent(ev, io, ret)
           \/ execLoadEvent(ev, ret) \/ executeLoadQueryEvent(ev, ret)
           \/ formatDescriptionEvent(ev, ret) \/ tableMapEvent(ev, ret)
           \/ rowsEvent(ev, ret) \/ otherEvent(ev, ret)
    PROVE  PrintTypes'
<1>0. FileTypes /\ out \in Seq(Lines) /\ caches \in Seq(Lines) /\ glob \in Nat /\ fdp \in BOOLEAN
  BY DEF PrintTypes
<1>1. out' \in Seq(Lines) /\ caches' \in Seq(Lines)
  BY <1>0, SwitchPrints, PrintsTyped
<1>2. glob' \in Nat /\ fdp' \in BOOLEAN
  <2>1. CASE formatDescriptionEvent(ev, ret)
    <3>1. fdp' = (fdp \/ opt.base64 # "never") /\ glob' = ev.ver
      BY <2>1 DEF formatDescriptionEvent
    <3> QED BY <3>1, <1>0, PacketParts
  <2>2. CASE ~formatDescriptionEvent(ev, ret)
    <3>1. UNCHANGED <<fdp, glob>>
      BY <2>2 DEF queryEvent, createFileEvent, appendBlockEvent, beginLoadQueryEvent, execLoadEvent,
                  executeLoadQueryEvent, tableMapEvent, rowsEvent, otherEvent
    <3> QED BY <3>1, <1>0
  <2> QED BY <2>1, <2>2
<1>3. FileTypes'
  <2>1. CASE UNCHANGED loadVars
    BY <2>1, <1>0 DEF FileTypes, loadVars
  <2>2. CASE process_first_event(ev, io, ret) /\ ev.t \in Starts
    BY <2>2, <1>0, FirstTypes DEF IdOK
  <2>3. CASE processAppend(ev, io, ret) /\ ev.t = "append"
    BY <2>3, <1>0, AppendTypes DEF IdOK
  <2>4. CASE grab(ev) /\ dir' = dir
    BY <2>4, <1>0, GrabTypes
  <2>5. \/ UNCHANGED loadVars \/ (process_first_event(ev, io, ret) /\ ev.t \in Starts)
        \/ (processAppend(ev, io, ret) /\ ev.t = "append") \/ (grab(ev) /\ dir' = dir)
    BY DEF queryEvent, createFileEvent, appendBlockEvent, beginLoadQueryEvent, execLoadEvent, executeLoadQueryEvent,
           formatDescriptionEvent, tableMapEvent, rowsEvent, otherEvent, Starts, loadVars
  <2> QED BY <2>1, <2>2, <2>3, <2>4, <2>5
<1> QED
  BY <1>1, <1>2, <1>3 DEF PrintTypes

\* process_event, for an event that is skipped, stops the run or is processed.
LEMMA ProcessTypes ==
    ASSUME Types, logs' = logs, NEW ev \in Packets, IdOK(ev), NEW pos, NEW io \in BOOLEAN, NEW ret,
           cur' \in LogNames, process_event(ev, pos, io, ret)
    PROVE  PrintTypes' /\ SaveTypes' /\ sought' \in BOOLEAN /\ rec' \in Nat
<1>1. sought' \in BOOLEAN /\ rec' \in Nat
  <2>1. sought' = (sought /\ (ev.t = "fd" \/ ~InRange(ev))) /\ rec' = rec + 1
    BY DEF process_event
  <2> QED BY <2>1 DEF Types
<1>2. \E kept \in BOOLEAN : save_name_and_pos(ev, kept, ret)
  BY DEF process_event
<1>3. SaveTypes'
  BY <1>2, SaveKeepsTypes DEF Types
<1>4. PrintTypes'
  <2>1. CASE UNCHANGED glob /\ UNCHANGED printVars /\ UNCHANGED loadVars
    <3>1. FileTypes'
      BY <2>1 DEF loadVars, FileTypes, Types, PrintTypes
    <3>2. LET PT == glob \in Nat /\ out \in Seq(Lines) /\ caches \in Seq(Lines) /\ fdp \in BOOLEAN IN PT'
      BY <2>1 DEF printVars, Types, PrintTypes
    <3> QED
      BY <3>1, <3>2 DEF PrintTypes
  <2>2. CASE \/ queryEvent(ev, io, ret) \/ createFileEvent(ev, io, ret)
             \/ appendBlockEvent(ev, io, ret) \/ beginLoadQueryEvent(ev, io, ret)
             \/ execLoadEvent(ev, ret) \/ executeLoadQueryEvent(ev, ret)
             \/ formatDescriptionEvent(ev, ret) \/ tableMapEvent(ev, ret)
             \/ rowsEvent(ev, ret) \/ otherEvent(ev, ret)
    BY <2>2, PrintKeepsTypes DEF Types
  <2> QED
    BY <2>1, <2>2 DEF process_event
<1> QED
  BY <1>1, <1>3, <1>4

-----------------------------------------------------------------------------
(* Where a run is in its logs. *)

\* The logs left to dump follow each other.
ArgsInv ==
    /\ \A k \in 1 .. Len(args) - 1 : args[k + 1] = args[k] + 1
    /\ pc = "main" \/ Reading => args # <<>>
    /\ Follows => Len(args) <= 1

\* The event the reader is at is one of the log main is at, or of one behind
\* it when the dump follows the server.
PlaceInv ==
    Reading =>
      /\ Follows => served.log >= Head(args)
      /\ ~Follows => served.log = Head(args) \/ (served.log = Head(args) + 1 /\ served.ph = "rotate" /\ served.idx = HeaderSize)
      /\ pc \in {"header", "local"} => ~opt.remote /\ served.ph = "log" /\ served.log = Head(args)
      /\ pc \in {"remote", "old", "fetch"} => opt.remote
      /\ pc = "header" => logs[served.log].ver > 3 /\ LogEvents(served.log) # <<>>
      /\ pc \in {"old", "fetch"} => /\ served.ph = "log" /\ InLog
                                    /\ LogEvents(served.log)[served.idx].t \in {"load", "create"}

Base == Types /\ ArgsInv /\ PlaceInv

(***************************************************************************)
(* What the events of a log are like.                                      *)
(***************************************************************************)
LEMMA EventParts ==
    ASSUME RunTypes, NEW n \in DOMAIN logs, NEW i \in DOMAIN LogEvents(n)
    PROVE  LET e == LogEvents(n)[i] IN
           /\ Event(n, i).t = e.t /\ Event(n, i).id = e.id /\ Event(n, i).db = e.db /\ Event(n, i).end = e.end
           /\ Event(n, i).when = e.when /\ Event(n, i).srv = e.srv /\ Event(n, i).log = n /\ Event(n, i).pos = i
           /\ Event(n, i).ends = i + 1 /\ Event(n, i).to = n + 1 /\ Event(n, i).ver = logs[n].ver
  BY DEF Event

\* Where a Rotate is, and what a log of version 4 begins with.
LEMMA EventShape ==
    ASSUME RunTypes, NEW n \in DOMAIN logs, NEW i \in DOMAIN LogEvents(n)
    PROVE  /\ IdOK(Event(n, i))
           /\ Event(n, i).t = "rotate" => i = Len(LogEvents(n)) /\ n < Len(logs)
           /\ logs[n].ver > 3 => LogEvents(n)[1].t = "fd"
<1>1. LogEvents(n) = logs[n].evs
  BY DEF LogEvents
<1>2. LogEvents(n) # <<>>
  BY TheEvents
<1>3. /\ logs[n].ver > 3 /\ LogEvents(n) # <<>> => LogEvents(n)[1].t = "fd"
      /\ LogEvents(n)[i].t = "rotate" => i = Len(LogEvents(n)) /\ n < Len(logs)
      /\ LoadStatements(LogEvents(n))
  BY TheLogs, <1>1 DEF ServerLogs
<1>4. IdOK(Event(n, i))
  BY <1>3, EventParts DEF LoadStatements, IdOK
<1> QED
  BY <1>2, <1>3, <1>4, EventParts

\* The events the server makes up are about the log it is at.
LEMMA FakeTyped ==
    ASSUME Types, NEW t \in {"rotate", "fd"}
    PROVE  /\ Fake(t) \in Packets /\ IdOK(Fake(t)) /\ Fake(t).t = t /\ Fake(t).to = served.log
           /\ Fake(t).log = served.log /\ Fake(t).pos = 0 /\ Fake(t).ends = 0 /\ Fake(t).when = 0
           /\ Fake(t).srv = opt.server /\ Fake(t).ver = logs[served.log].ver
<1>1. served.log \in DOMAIN logs /\ served.log \in Nat /\ logs[served.log].ver \in {1, 3, 4}
  BY TheLogs DEF Types, PlaceTypes
<1>2. opt.server \in Nat
  BY DEF Types, RunTypes, get_one_option
<1>3. Fake(t) = [t |-> t, id |-> NoName, db |-> NoName, end |-> FALSE, when |-> 0, srv |-> opt.server,
                 log |-> served.log, pos |-> 0, ends |-> 0, to |-> served.log, ver |-> logs[served.log].ver]
  BY DEF Fake
<1>4. Fake(t) \in Packets
  BY <1>1, <1>2, <1>3 DEF Packets, Kinds
<1> QED
  BY <1>3, <1>4 DEF IdOK, Starts, Executes

\* A packet is made up or is the event at the server's place.
LEMMA ThePacket ==
    ASSUME Types, HasPacket
    PROVE  /\ Packet \in Packets /\ IdOK(Packet) /\ OfLog(Packet) /\ Packet.log = served.log
           /\ \/ served.ph = "rotate" /\ Packet = Fake("rotate")
              \/ served.ph = "fd" /\ Packet = Fake("fd")
              \/ served.ph = "log" /\ InLog /\ Packet = Event(served.log, served.idx)
<1>1. served.ph \in {"rotate", "fd", "log"} /\ served.log \in DOMAIN logs /\ RunTypes
  BY DEF Types, PlaceTypes
<1>2. CASE served.ph = "rotate"
  <2>1. Packet = Fake("rotate")
    BY <1>2 DEF Packet
  <2>2. OfLog(Packet)
    BY <1>1, <2>1, FakeTyped, TheEvents DEF OfLog
  <2> QED BY <1>2, <2>1, <2>2, FakeTyped
<1>3. CASE served.ph = "fd"
  <2>1. Packet = Fake("fd")
    BY <1>3 DEF Packet
  <2>2. OfLog(Packet)
    BY <1>1, <2>1, FakeTyped, TheEvents DEF OfLog
  <2> QED BY <1>3, <2>1, <2>2, FakeTyped
<1>4. CASE served.ph = "log"
  <2>1. InLog /\ Packet = Event(served.log, served.idx)
    BY <1>4 DEF Packet, HasPacket
  <2>2. served.idx \in DOMAIN LogEvents(served.log)
    BY <2>1 DEF InLog
  <2>3. OfLog(Packet)
    BY <1>1, <2>1, <2>2, EventParts DEF OfLog
  <2> QED
    BY <1>1, <1>4, <2>1, <2>2, <2>3, TheEvents, EventShape, EventParts
<1> QED
  BY <1>1, <1>2, <1>3, <1>4

(***************************************************************************)
(* Init, and the steps that go to the next log or end the run.             *)
(***************************************************************************)
LEMMA InitBase == binlogInit => Base
<1> SUFFICES ASSUME binlogInit
             PROVE  Base
  OBVIOUS
<1>1. logs \in Histories /\ opt \in get_one_option
  BY DEF binlogInit
<1>2. 1 \in DOMAIN logs
  <2>1. logs \in Seq([ver : {1, 3, 4}, evs : Seq(Events)]) /\ logs # <<>>
    BY <1>1, ReplicatorAssumption DEF ServerLogs
  <2> HIDE ReplicatorAssumption
  <2> QED BY <2>1
<1>3. RunTypes
  BY <1>1, <1>2 DEF binlogInit, RunTypes, HeaderSize
<1>4. PlaceTypes
  BY <1>2 DEF binlogInit, PlaceTypes, HeaderSize
<1>5. FileTypes
  BY DEF binlogInit, FileTypes
<1>6. PrintTypes
  <2>1. glob = 0 /\ out = <<>> /\ caches = <<>> /\ fdp = FALSE
    BY DEF binlogInit
  <2>2. <<>> \in Seq(Lines)
    OBVIOUS
  <2> QED BY <2>1, <2>2, <1>5 DEF PrintTypes
<1>7. SaveTypes
  BY DEF binlogInit, SaveTypes, NoPair, LogNames
<1>8. Types
  BY <1>3, <1>4, <1>6, <1>7 DEF Types, binlogInit, LogNames
<1>9. ArgsInv /\ PlaceInv
  BY DEF binlogInit, ArgsInv, PlaceInv, Reading
<1> QED
  BY <1>8, <1>9 DEF Base

\* main has a log in hand, and the one behind it in the logs is its next.
LEMMA FirstArg ==
    ASSUME Base, pc = "main" \/ Reading
    PROVE  /\ Len(args) \in Nat \ {0} /\ Head(args) \in DOMAIN logs /\ Head(args) \in Nat
           /\ Head(args) = args[1]
           /\ Len(args) > 1 => Head(Tail(args)) = Head(args) + 1 /\ Head(args) + 1 \in DOMAIN logs
<1>1. args \in Seq(DOMAIN logs) /\ args # <<>> /\ \A k \in 1 .. Len(args) - 1 : args[k + 1] = args[k] + 1
  BY DEF Base, Types, PlaceTypes, ArgsInv
<1>2. Head(args) \in DOMAIN logs /\ Head(args) = args[1] /\ Len(args) \in Nat \ {0}
  BY <1>1
<1>3. ASSUME Len(args) > 1
      PROVE  Head(Tail(args)) = Head(args) + 1 /\ Head(args) + 1 \in DOMAIN logs
  <2>1. args[2] = args[1] + 1
    <3>1. 1 \in 1 .. Len(args) - 1 /\ 1 + 1 = 2
      BY <1>2, <1>3
    <3> QED BY <3>1, <1>1
  <2>2. args[2] \in DOMAIN logs /\ Head(Tail(args)) = args[2]
    BY <1>1, <1>2, <1>3
  <2> QED BY <2>1, <2>2, <1>2
<1>4. Head(args) \in Nat
  <2>1. RunTypes
    BY DEF Base, Types
  <2> QED BY <2>1, <1>2, TheLogs
<1> QED
  BY <1>2, <1>3, <1>4

\* main's loop: the next log, or the end.
LEMMA NextLogKeeps ==
    ASSUME Base, pc = "main" \/ Reading, NEW ret, nextLog(ret), UNCHANGED <<logs, opt>>
    PROVE  /\ args' \in Seq(DOMAIN logs) /\ start' \in Nat \ {0} /\ pc' \in {"main", "exit"}
           /\ ArgsInv' /\ PlaceInv'
<1>1. /\ args \in Seq(DOMAIN logs) /\ args # <<>> /\ start \in Nat \ {0}
      /\ \A k \in 1 .. Len(args) - 1 : args[k + 1] = args[k] + 1
      /\ Follows => Len(args) <= 1
  BY DEF Base, Types, PlaceTypes, ArgsInv
<1>2. CASE pc' = "exit" /\ UNCHANGED <<args, start>>
  BY <1>1, <1>2 DEF ArgsInv, PlaceInv, Reading, Follows
<1>3. CASE Len(args) > 1 /\ pc' = "main" /\ args' = Tail(args) /\ start' = HeaderSize
  <2>1. args' \in Seq(DOMAIN logs) /\ args' # <<>> /\ Len(args') = Len(args) - 1
    <3>1. Tail(args) \in Seq(DOMAIN logs) /\ Len(Tail(args)) = Len(args) - 1 /\ Len(args) \in Nat
      BY <1>1
    <3>2. Len(Tail(args)) # 0
      <4>1. \A m, t : m \in Nat /\ m > 1 /\ t = m - 1 => t # 0
        OBVIOUS
      <4> QED BY <4>1, <3>1, <1>3, Zenon
    <3>3. Len(<<>>) = 0
      OBVIOUS
    <3>4. Tail(args) # <<>>
      BY <3>2, <3>3, Zenon
    <3> QED BY <3>1, <3>4, <1>3
  <2>2. ASSUME NEW k \in 1 .. Len(args') - 1
        PROVE  args'[k + 1] = args'[k] + 1
    <3>1. args'[k] = args[k + 1] /\ args'[k + 1] = args[(k + 1) + 1]
      BY <1>1, <1>3, <2>1
    <3>2. k + 1 \in 1 .. Len(args) - 1
      BY <2>1, <1>1
    <3> QED BY <3>1, <3>2, <1>1
  <2>3. ~Follows'
    BY <1>1, <1>3 DEF Follows
  <2> QED
    BY <1>3, <2>1, <2>2, <2>3 DEF ArgsInv, PlaceInv, Reading, HeaderSize
<1> QED
  BY <1>2, <1>3 DEF nextLog

\* A reader that returns without an event.
LEMMA LeaveBase ==
    ASSUME Base, pc = "main" \/ Reading, NEW ret, leave(ret)
    PROVE  Base'
<1>1. nextLog(ret) /\ UNCHANGED <<served, glob, rec, sought, cur>>
      /\ UNCHANGED <<runVars, printVars, loadVars, saveVars>>
  BY DEF leave
<1>2. UNCHANGED <<logs, opt, runs, from, out, missed, caches, ignored, fdp, names, dir, evpos, npfp, disk>>
  BY <1>1 DEF runVars, printVars, loadVars, saveVars
<1>3. /\ args' \in Seq(DOMAIN logs) /\ start' \in Nat \ {0} /\ pc' \in {"main", "exit"}
      /\ ArgsInv' /\ PlaceInv'
  BY <1>1, <1>2, NextLogKeeps
<1>4. RunTypes' /\ SaveTypes' /\ LogNames' = LogNames
  BY <1>2 DEF Base, Types, RunTypes, SaveTypes, LogNames
<1>5. FileTypes'
  BY <1>2 DEF Base, Types, PrintTypes, FileTypes
<1>6. PrintTypes'
  BY <1>1, <1>2, <1>5 DEF Base, Types, PrintTypes, Lines
<1>7. PlaceTypes'
  BY <1>1, <1>2, <1>3 DEF Base, Types, PlaceTypes
<1> QED
  BY <1>1, <1>3, <1>4, <1>6, <1>7 DEF Base, Types

\* exit() and kill change nothing but the file.
LEMMA HaltBase ==
    ASSUME Base, pc' = "idle",
           UNCHANGED <<args, start, served, glob, rec, sought, cur, evpos, npfp, caches, fdp, runVars, loadVars>>,
           out' \in Seq(Lines), disk' = disk \/ (npfp # NoName /\ disk' = npfp)
    PROVE  Base'
<1>2. UNCHANGED <<logs, opt, runs, from, caches, fdp, names, dir>>
  BY DEF runVars, loadVars
<1>4. RunTypes' /\ SaveTypes' /\ LogNames' = LogNames
  BY <1>2 DEF Base, Types, RunTypes, SaveTypes, LogNames
<1>5. FileTypes'
  BY <1>2 DEF Base, Types, PrintTypes, FileTypes
<1>6. PrintTypes'
  BY <1>2, <1>5 DEF Base, Types, PrintTypes, Lines
<1>7. PlaceTypes'
  BY <1>2 DEF Base, Types, PlaceTypes
<1>8. ArgsInv' /\ PlaceInv'
  BY <1>2 DEF Base, ArgsInv, PlaceInv, Reading, Follows
<1> QED
  BY <1>4, <1>6, <1>7, <1>8 DEF Base, Types

\* The maximum of a set that has a largest member.
LEMMA LargestOf ==
    ASSUME NEW S, S \subseteq Nat, NEW j \in S, \A x \in S : x <= j
    PROVE  Max(S) = j
<1> DEFINE P(x) == \A y \in S : x >= y
<1> DEFINE m == CHOOSE x \in S : P(x)
<1>1. P(j)
  OBVIOUS
<1>2. Max(S) = m
  BY Zenon DEF Max
<1>3. m \in S /\ P(m)
  <2> HIDE DEF P
  <2> QED BY <1>1, Zenon
<1> HIDE DEF m
<1> QED
  BY <1>1, <1>2, <1>3

\* Where main starts.
LEMMA StartOf ==
    ASSUME NEW p \in Nat
    PROVE  Max({p, HeaderSize}) = IF p >= HeaderSize THEN p ELSE HeaderSize
<1>1. CASE p >= HeaderSize
  <2>1. Max({p, HeaderSize}) = p
    <3>1. {p, HeaderSize} \subseteq Nat /\ p \in {p, HeaderSize} /\ \A x \in {p, HeaderSize} : x <= p
      BY <1>1 DEF HeaderSize
    <3> QED BY <3>1, LargestOf
  <2> QED BY <2>1, <1>1
<1>2. CASE ~(p >= HeaderSize)
  <2>1. Max({p, HeaderSize}) = HeaderSize
    <3>1. {p, HeaderSize} \subseteq Nat /\ HeaderSize \in {p, HeaderSize} /\ \A x \in {p, HeaderSize} : x <= HeaderSize
      BY <1>2 DEF HeaderSize
    <3> QED BY <3>1, LargestOf
  <2> QED BY <2>1, <1>2
<1> QED
  BY <1>1, <1>2

\* A run starts at the pair in the file, or at the first log.
LEMMA MainStarts ==
    ASSUME Base, mainProgram
    PROVE  \E n \in DOMAIN logs, p \in Nat \ {0}, m \in Nat \ {0} :
             /\ n + m - 1 <= Len(logs) /\ (Follows => m = 1)
             /\ (disk.name = NoName => n = 1 /\ p = HeaderSize)
             /\ (disk.name # NoName => n = disk.name /\ p >= disk.pos /\ (p = disk.pos \/ p = HeaderSize))
             /\ args' = [k \in 1 .. m |-> n + k - 1] /\ start' = p /\ from' = <<n, p>>
<1> DEFINE n == IF disk.name = NoName THEN 1 ELSE disk.name
           p == IF disk.name = NoName THEN HeaderSize ELSE Max({disk.pos, HeaderSize})
           m == IF opt.remote /\ opt.toLast THEN 1 ELSE Len(logs) - n + 1
<1>1. disk.name \in DOMAIN logs \cup {NoName} /\ disk.pos \in Nat /\ RunTypes
  BY DEF Base, Types, SaveTypes, LogNames
<1>2. Len(logs) \in Nat \ {0} /\ DOMAIN logs = 1 .. Len(logs)
  BY <1>1, TheLogs
<1>3. n \in DOMAIN logs /\ n \in 1 .. Len(logs)
  BY <1>1, <1>2
<1>4. p \in Nat \ {0} /\ (disk.name # NoName => p >= disk.pos /\ (p = disk.pos \/ p = HeaderSize))
  BY <1>1, StartOf DEF HeaderSize
<1>5. m \in Nat \ {0} /\ n + m - 1 <= Len(logs) /\ (Follows => m = 1)
  <2> HIDE DEF n
  <2> QED BY <1>2, <1>3 DEF Follows
<1>6. args' = [k \in 1 .. m |-> n + k - 1] /\ start' = p /\ from' = <<n, p>>
  BY DEF mainProgram
<1>7. /\ disk.name = NoName => n = 1 /\ p = HeaderSize
      /\ disk.name # NoName => n = disk.name
  OBVIOUS
<1> HIDE DEF n, p, m
<1> QED
  BY <1>3, <1>4, <1>5, <1>6, <1>7

\* main starts a run with everything in memory empty.
LEMMA MainBase ==
    ASSUME Base, mainProgram
    PROVE  Base'
<1>1. PICK n \in DOMAIN logs, p \in Nat \ {0}, m \in Nat \ {0} :
             /\ n + m - 1 <= Len(logs) /\ (Follows => m = 1)
             /\ args' = [k \in 1 .. m |-> n + k - 1] /\ start' = p /\ from' = <<n, p>>
  BY MainStarts
<1>2. /\ pc' = "main" /\ runs' = runs + 1
      /\ out' = <<>> /\ caches' = <<>> /\ ignored' = {} /\ fdp' = FALSE
      /\ glob' = 0 /\ rec' = 0 /\ sought' = TRUE
      /\ names' = [f \in FileIds |-> NoName]
      /\ cur' = NoName /\ evpos' = [pos |-> 0, of |-> NoName] /\ npfp' = NoName
      /\ UNCHANGED <<logs, opt, served, dir, disk>>
  BY DEF mainProgram
<1>3. Len(logs) \in Nat \ {0} /\ DOMAIN logs = 1 .. Len(logs)
  BY TheLogs DEF Base, Types
<1>4. args' \in Seq(DOMAIN logs) /\ Len(args') = m /\ \A k \in 1 .. m : args'[k] = n + k - 1
  <2>1. \A k \in 1 .. m : n + k - 1 \in DOMAIN logs
    <3>1. n \in 1 .. Len(logs)
      BY <1>3
    <3> QED BY <1>1, <1>3, <3>1
  <2> QED BY <1>1, <2>1
<1>5. RunTypes' /\ LogNames' = LogNames
  BY <1>1, <1>2 DEF Base, Types, RunTypes, LogNames
<1>6. PlaceTypes'
  BY <1>1, <1>2, <1>4 DEF Base, Types, PlaceTypes
<1>7. FileTypes'
  BY <1>2 DEF Base, Types, PrintTypes, FileTypes
<1>8. PrintTypes'
  <2>1. <<>> \in Seq(Lines')
    OBVIOUS
  <2> QED BY <2>1, <1>2, <1>7 DEF PrintTypes
<1>9. SaveTypes'
  BY <1>2, <1>5 DEF Base, Types, SaveTypes, LogNames
<1>10. Types'
  BY <1>2, <1>5, <1>6, <1>8, <1>9 DEF Types, LogNames
<1>11. ArgsInv'
  <2>1. \A k \in 1 .. Len(args') - 1 : args'[k + 1] = args'[k] + 1
    BY <1>1, <1>3, <1>4
  <2>2. args' # <<>>
    <3>1. Len(args') # 0
      BY <1>4
    <3> QED BY <3>1
  <2>3. Follows' => Len(args') <= 1
    BY <1>1, <1>2, <1>4 DEF Follows
  <2> QED
    BY <2>1, <2>2, <2>3 DEF ArgsInv
<1>12. PlaceInv'
  BY <1>2 DEF PlaceInv, Reading
<1> QED
  BY <1>10, <1>11, <1>12 DEF Base

(***************************************************************************)
(* Where the server's stream goes after a packet.                          *)
(***************************************************************************)
LEMMA AdvanceTo ==
    ASSUME Types, HasPacket, Advance
    PROVE  /\ served' \in [log : DOMAIN logs, idx : Nat \ {0}, ph : {"rotate", "fd", "log"}]
           /\ \/ /\ served.ph # "log" /\ served'.ph # "rotate"
                 /\ served'.log = served.log /\ served'.idx = served.idx
              \/ /\ served.ph = "log" /\ Packet.t # "rotate" /\ served'.ph = "log"
                 /\ served'.log = served.log /\ served'.idx = served.idx + 1
              \/ /\ served.ph = "log" /\ Packet.t = "rotate" /\ served'.ph = "rotate"
                 /\ served.idx = Len(LogEvents(served.log)) /\ served.log < Len(logs)
                 /\ served'.log = served.log + 1 /\ served'.idx = HeaderSize
<1>1. /\ served \in [log : DOMAIN logs, idx : Nat \ {0}, ph : {"rotate", "fd", "log"}] /\ RunTypes
      /\ served.log \in DOMAIN logs /\ served.idx \in Nat \ {0} /\ served.ph \in {"rotate", "fd", "log"}
  BY DEF Types, PlaceTypes
<1>2. CASE served.ph = "rotate"
  <2>1. PICK x \in {"fd", "log"} : served' = [served EXCEPT !.ph = x]
    BY <1>2 DEF Advance
  <2> QED BY <1>1, <1>2, <2>1
<1>3. CASE served.ph = "fd"
  <2>1. served' = [served EXCEPT !.ph = "log"]
    BY <1>3 DEF Advance
  <2> QED BY <1>1, <1>3, <2>1
<1>4. CASE served.ph = "log" /\ Packet.t # "rotate"
  <2>1. served' = [served EXCEPT !.idx = served.idx + 1]
    BY <1>4 DEF Advance
  <2> QED BY <1>1, <1>4, <2>1
<1>5. CASE served.ph = "log" /\ Packet.t = "rotate"
  <2>1. served' = [log |-> served.log + 1, idx |-> HeaderSize, ph |-> "rotate"]
    BY <1>5 DEF Advance
  <2>2. InLog /\ Packet = Event(served.log, served.idx)
    BY <1>5, ThePacket
  <2>3. served.idx = Len(LogEvents(served.log)) /\ served.log < Len(logs)
    BY <1>1, <1>5, <2>2, EventShape DEF InLog
  <2>4. served.log + 1 \in DOMAIN logs
    BY <1>1, <2>3, TheLogs
  <2> QED BY <1>5, <2>1, <2>3, <2>4 DEF HeaderSize
<1> QED
  BY <1>1, <1>2, <1>3, <1>4, <1>5

\* The server's next place is one of the log asked for, or behind it.
LEMMA AdvanceKeepsPlace ==
    ASSUME Base, pc \in {"remote", "fetch"}, HasPacket, Advance, pc' = "remote", UNCHANGED <<logs, opt, args>>,
           ~Follows => served.ph # "rotate" \/ served.log = Head(args)
    PROVE  ArgsInv' /\ PlaceInv'
<1>1. args # <<>> /\ Head(args) \in Nat /\ served.log \in Nat /\ opt.remote /\ RunTypes
  BY FirstArg, TheLogs DEF Base, Types, PlaceTypes, PlaceInv, Reading
<1>2. ArgsInv'
  BY <1>1 DEF Base, ArgsInv, Follows, Reading
<1>3. /\ Follows => served.log >= Head(args)
      /\ ~Follows => served.log = Head(args) \/ (served.log = Head(args) + 1 /\ served.ph = "rotate" /\ served.idx = HeaderSize)
  BY DEF Base, PlaceInv, Reading
<1>4. Follows' = Follows
  BY DEF Follows
<1>5. /\ Follows => served'.log >= Head(args)
      /\ ~Follows => served'.log = Head(args) \/ (served'.log = Head(args) + 1 /\ served'.ph = "rotate" /\ served'.idx = HeaderSize)
  <2>1. Types
    BY DEF Base
  <2> QED BY <1>1, <1>3, <2>1, AdvanceTo
<1>6. PlaceInv'
  BY <1>1, <1>4, <1>5 DEF PlaceInv, Reading
<1> QED
  BY <1>2, <1>6

(***************************************************************************)
(* An event processed at the place of the reader, and what then moves.     *)
(***************************************************************************)
LEMMA ReadBase ==
    ASSUME Base, Reading, UNCHANGED runVars, NEW ev \in Packets, IdOK(ev), NEW pos, NEW io \in BOOLEAN, NEW ret,
           cur' \in LogNames, process_event(ev, pos, io, ret),
           args' \in Seq(DOMAIN logs), start' \in Nat \ {0},
           served' \in [log : DOMAIN logs, idx : Nat \ {0}, ph : {"rotate", "fd", "log"}],
           pc' \in {"idle", "main", "remote", "old", "fetch", "header", "local", "exit"}
    PROVE  Types'
<1>1. UNCHANGED <<logs, opt, runs, from>>
  BY DEF runVars
<1>2. PrintTypes' /\ SaveTypes' /\ sought' \in BOOLEAN /\ rec' \in Nat
  BY <1>1, ProcessTypes DEF Base
<1>3. RunTypes' /\ PlaceTypes' /\ LogNames' = LogNames
  BY <1>1 DEF Base, Types, RunTypes, PlaceTypes, LogNames
<1> QED
  BY <1>2, <1>3 DEF Types

\* current_log_name is the name of a log of the server.
LEMMA NameTyped ==
    ASSUME Types, HasPacket
    PROVE  nameOf(Packet) \in LogNames
<1>1. CASE Packet.t = "rotate"
  <2>1. CASE Packet = Fake("rotate")
    <3>1. Packet.to = served.log
      BY <2>1, FakeTyped
    <3> QED BY <1>1, <3>1 DEF nameOf, LogNames, Types, PlaceTypes
  <2>2. CASE InLog /\ Packet = Event(served.log, served.idx)
    <3>1. served.log \in DOMAIN logs /\ served.idx \in DOMAIN LogEvents(served.log) /\ RunTypes
      BY <2>2 DEF Types, PlaceTypes, InLog
    <3>2. Packet.to = served.log + 1 /\ served.log < Len(logs)
      BY <1>1, <2>2, <3>1, EventParts, EventShape
    <3>3. served.log + 1 \in DOMAIN logs
      BY <3>1, <3>2, TheLogs
    <3> QED BY <1>1, <3>2, <3>3 DEF nameOf, LogNames
  <2>3. Packet # Fake("fd")
    BY <1>1, FakeTyped
  <2> QED BY <2>1, <2>2, <2>3, ThePacket
<1>2. CASE Packet.t # "rotate"
  BY <1>2 DEF nameOf, Types
<1> QED
  BY <1>1, <1>2

\* dump_remote_log_entries, for an event it processes.
LEMMA RemoteEventBase ==
    ASSUME Base, NEW io \in BOOLEAN, NEW ret, remoteEvent(io, ret)
    PROVE  Base'
<1>1. /\ pc = "remote" /\ HasPacket /\ ~(FakeRotate /\ ~opt.toLast) /\ cur' = nameOf(Packet)
      /\ process_event(Packet, off, io, ret) /\ UNCHANGED runVars
      /\ IF ret = "OK_CONTINUE" THEN Advance /\ UNCHANGED <<pc, args, start>>
         ELSE nextLog(ret) /\ UNCHANGED served
  BY DEF remoteEvent
<1>2. Types /\ Reading /\ Packet \in Packets /\ IdOK(Packet) /\ cur' \in LogNames /\ UNCHANGED <<logs, opt>>
  BY <1>1, ThePacket, NameTyped DEF Base, Reading, runVars
<1>3. CASE ret = "OK_CONTINUE"
  <2>1. Advance /\ UNCHANGED <<pc, args, start>>
    BY <1>1, <1>3
  <2>2. Types'
    BY <1>1, <1>2, <2>1, AdvanceTo, ReadBase DEF Types, PlaceTypes
  <2>3. ~Follows => served.ph # "rotate" \/ served.log = Head(args)
    <3>1. CASE served.ph = "rotate"
      <4>1. FakeRotate
        BY <1>2, <1>1, <3>1, ThePacket, FakeTyped DEF FakeRotate
      <4> QED BY <4>1, <1>1, <1>2 DEF Follows, Base, PlaceInv
    <3> QED BY <3>1
  <2> QED
    BY <1>1, <1>2, <2>1, <2>2, <2>3, AdvanceKeepsPlace DEF Base
<1>4. CASE ret # "OK_CONTINUE"
  <2>1. nextLog(ret) /\ UNCHANGED served
    BY <1>1, <1>4
  <2>2. /\ args' \in Seq(DOMAIN logs) /\ start' \in Nat \ {0} /\ pc' \in {"main", "exit"}
        /\ ArgsInv' /\ PlaceInv'
    BY <1>2, <2>1, NextLogKeeps
  <2>3. Types'
    BY <1>1, <1>2, <2>1, <2>2, ReadBase DEF Types, PlaceTypes
  <2> QED
    BY <2>2, <2>3 DEF Base
<1> QED
  BY <1>3, <1>4

\* LOAD DATA of a 3.23 server, the event.
LEMMA OldEventBase ==
    ASSUME Base, NEW io \in BOOLEAN, NEW ret, remoteOldEvent(io, ret)
    PROVE  Base'
<1>1. /\ pc = "old" /\ UNCHANGED <<cur, served, off, runVars>>
      /\ process_event(Packet, off, io, ret)
      /\ IF ret = "OK_CONTINUE" THEN pc' = "fetch" /\ UNCHANGED <<args, start>> ELSE nextLog(ret)
  BY DEF remoteOldEvent
<1>2. /\ Types /\ Reading /\ HasPacket /\ cur' \in LogNames /\ UNCHANGED <<logs, opt>>
      /\ PlaceInv /\ ArgsInv
  BY <1>1 DEF Base, Reading, runVars, Types, PlaceInv, HasPacket
<1>3. Packet \in Packets /\ IdOK(Packet)
  BY <1>2, ThePacket
<1>4. CASE ret = "OK_CONTINUE"
  <2>1. Types'
    BY <1>1, <1>2, <1>3, <1>4, ReadBase DEF Types, PlaceTypes
  <2>2. ArgsInv'
    BY <1>1, <1>2, <1>4 DEF ArgsInv, Reading, Follows
  <2>3. PlaceInv'
    BY <1>1, <1>2, <1>4 DEF PlaceInv, Reading, Follows, InLog, LogEvents
  <2> QED BY <2>1, <2>2, <2>3 DEF Base
<1>5. CASE ret # "OK_CONTINUE"
  <2>1. nextLog(ret)
    BY <1>1, <1>5
  <2>2. /\ args' \in Seq(DOMAIN logs) /\ start' \in Nat \ {0} /\ pc' \in {"main", "exit"}
        /\ ArgsInv' /\ PlaceInv'
    BY <1>2, <2>1, NextLogKeeps
  <2>3. Types'
    BY <1>1, <1>2, <1>3, <2>2, ReadBase DEF Types, PlaceTypes
  <2> QED
    BY <2>2, <2>3 DEF Base
<1> QED
  BY <1>4, <1>5

\* check_header, for a Format_description it processes.
LEMMA HeaderEventBase ==
    ASSUME Base, NEW io \in BOOLEAN, NEW ret, headerEvent(io, ret)
    PROVE  Base'
<1>1. /\ pc = "header" /\ UNCHANGED <<cur, served, off, runVars>>
      /\ process_event(Event(served.log, HeaderSize), HeaderSize, io, ret)
      /\ IF ret = "OK_CONTINUE" THEN pc' = "local" /\ UNCHANGED <<args, start>> ELSE nextLog(ret)
  BY DEF headerEvent
<1>2. /\ Types /\ Reading /\ cur' \in LogNames /\ UNCHANGED <<logs, opt>>
      /\ PlaceInv /\ ArgsInv /\ LogEvents(served.log) # <<>> /\ served.log \in DOMAIN logs /\ RunTypes
  BY <1>1 DEF Base, Reading, runVars, Types, PlaceInv, PlaceTypes
<1>3. Event(served.log, HeaderSize) \in Packets /\ IdOK(Event(served.log, HeaderSize))
  <2>1. LogEvents(served.log) \in Seq(Events)
    BY <1>2, TheLogs
  <2>2. HeaderSize \in DOMAIN LogEvents(served.log)
    BY <1>2, <2>1 DEF HeaderSize
  <2> QED BY <1>2, <2>2, TheEvents, EventShape
<1>4. CASE ret = "OK_CONTINUE"
  <2>1. Types'
    BY <1>1, <1>2, <1>3, <1>4, ReadBase DEF Types, PlaceTypes
  <2>2. ArgsInv'
    BY <1>1, <1>2, <1>4 DEF ArgsInv, Reading, Follows
  <2>3. PlaceInv'
    BY <1>1, <1>2, <1>4 DEF PlaceInv, Reading, Follows
  <2> QED BY <2>1, <2>2, <2>3 DEF Base
<1>5. CASE ret # "OK_CONTINUE"
  <2>1. nextLog(ret)
    BY <1>1, <1>5
  <2>2. /\ args' \in Seq(DOMAIN logs) /\ start' \in Nat \ {0} /\ pc' \in {"main", "exit"}
        /\ ArgsInv' /\ PlaceInv'
    BY <1>2, <2>1, NextLogKeeps
  <2>3. Types'
    BY <1>1, <1>2, <1>3, <2>2, ReadBase DEF Types, PlaceTypes
  <2> QED
    BY <2>2, <2>3 DEF Base
<1> QED
  BY <1>4, <1>5

\* dump_local_log_entries, for an event it processes.
LEMMA LocalEventBase ==
    ASSUME Base, NEW io \in BOOLEAN, NEW ret, localEvent(io, ret)
    PROVE  Base'
<1>1. /\ pc = "local" /\ InLog /\ UNCHANGED <<cur, off, runVars>>
      /\ process_event(Event(served.log, served.idx), served.idx, io, ret)
      /\ IF ret = "OK_CONTINUE" THEN served' = [served EXCEPT !.idx = @ + 1] /\ UNCHANGED <<pc, args, start>>
         ELSE nextLog(ret) /\ UNCHANGED served
  BY DEF localEvent
<1>2. /\ Types /\ Reading /\ cur' \in LogNames /\ UNCHANGED <<logs, opt>>
      /\ PlaceInv /\ ArgsInv /\ served.log \in DOMAIN logs /\ RunTypes
      /\ served \in [log : DOMAIN logs, idx : Nat \ {0}, ph : {"rotate", "fd", "log"}]
  BY <1>1 DEF Base, Reading, runVars, Types, PlaceInv, PlaceTypes
<1>3. Event(served.log, served.idx) \in Packets /\ IdOK(Event(served.log, served.idx))
  BY <1>1, <1>2, TheEvents, EventShape DEF InLog
<1>4. CASE ret = "OK_CONTINUE"
  <2>1. /\ served' \in [log : DOMAIN logs, idx : Nat \ {0}, ph : {"rotate", "fd", "log"}]
        /\ served'.log = served.log /\ served'.ph = served.ph
    BY <1>1, <1>2, <1>4
  <2>2. Types'
    BY <1>1, <1>2, <1>3, <1>4, <2>1, ReadBase DEF Types, PlaceTypes
  <2>3. ArgsInv'
    BY <1>1, <1>2, <1>4 DEF ArgsInv, Reading, Follows
  <2>4. PlaceInv'
    BY <1>1, <1>2, <1>4, <2>1 DEF PlaceInv, Reading, Follows
  <2> QED BY <2>2, <2>3, <2>4 DEF Base
<1>5. CASE ret # "OK_CONTINUE"
  <2>1. nextLog(ret) /\ UNCHANGED served
    BY <1>1, <1>5
  <2>2. /\ args' \in Seq(DOMAIN logs) /\ start' \in Nat \ {0} /\ pc' \in {"main", "exit"}
        /\ ArgsInv' /\ PlaceInv'
    BY <1>2, <2>1, NextLogKeeps
  <2>3. Types'
    BY <1>1, <1>2, <1>3, <2>1, <2>2, ReadBase DEF Types, PlaceTypes
  <2> QED
    BY <2>2, <2>3 DEF Base
<1> QED
  BY <1>4, <1>5

(***************************************************************************)
(* The other steps: what they leave alone keeps its type.                  *)
(***************************************************************************)
LEMMA FrameTypes ==
    ASSUME Types, UNCHANGED <<runVars, rec, sought, saveVars>>, glob' \in Nat, cur' \in LogNames,
           UNCHANGED <<out, missed>>, UNCHANGED <<caches, fdp>> \/ freshPrintInfo, FileTypes', PlaceTypes',
           pc' \in {"idle", "main", "remote", "old", "fetch", "header", "local", "exit"}
    PROVE  Types'
<1>1. UNCHANGED <<logs, opt, runs, from, evpos, npfp, disk, out, missed>>
  BY DEF runVars, saveVars
<1>2. RunTypes' /\ SaveTypes' /\ LogNames' = LogNames
  BY <1>1 DEF Types, RunTypes, SaveTypes, LogNames
<1>3. caches' \in Seq(Lines) /\ fdp' \in BOOLEAN /\ out' \in Seq(Lines)
  <2>1. <<>> \in Seq(Lines)
    OBVIOUS
  <2> QED BY <1>1, <2>1 DEF Types, PrintTypes, freshPrintInfo
<1>4. PrintTypes'
  BY <1>3 DEF PrintTypes, Lines
<1> QED
  BY <1>2, <1>4 DEF Types

\* A fake Rotate is skipped or ends the dump.
LEMMA SkipBase ==
    ASSUME Base, skipFakeRotate
    PROVE  Base'
<1>1. /\ pc = "remote" /\ HasPacket /\ FakeRotate /\ ~opt.toLast /\ cur' = Packet.to
      /\ IF Packet.to = Head(args) THEN Advance /\ UNCHANGED <<pc, args, start>>
         ELSE nextLog("OK_CONTINUE") /\ UNCHANGED served
      /\ UNCHANGED <<glob, rec, sought, runVars, printVars, loadVars, saveVars>>
  BY DEF skipFakeRotate
<1>2. UNCHANGED <<logs, opt, out, missed, caches, fdp, names, dir>>
  BY <1>1 DEF runVars, printVars, loadVars
<1>3. Types /\ Reading /\ glob' \in Nat
  BY <1>1 DEF Base, Reading, Types, PrintTypes
<1>4. cur' \in LogNames
  BY <1>1, <1>3, NameTyped DEF nameOf, FakeRotate
<1>5. FileTypes'
  BY <1>2, <1>3 DEF Types, PrintTypes, FileTypes
<1>6. CASE Packet.to = Head(args)
  <2>1. Advance /\ UNCHANGED <<pc, args, start>>
    BY <1>1, <1>6
  <2>2. PlaceTypes'
    BY <1>1, <1>2, <1>3, <2>1, AdvanceTo DEF Types, PlaceTypes
  <2>3. Types'
    BY <1>1, <1>2, <1>3, <1>4, <1>5, <2>1, <2>2, FrameTypes DEF Types
  <2>4. served.ph # "rotate" \/ served.log = Head(args)
    BY <1>1, <1>3, <1>6, ThePacket, FakeTyped
  <2> QED
    BY <1>1, <1>2, <2>1, <2>3, <2>4, AdvanceKeepsPlace DEF Base
<1>7. CASE Packet.to # Head(args)
  <2>1. nextLog("OK_CONTINUE") /\ UNCHANGED served
    BY <1>1, <1>7
  <2>2. /\ args' \in Seq(DOMAIN logs) /\ start' \in Nat \ {0} /\ pc' \in {"main", "exit"}
        /\ ArgsInv' /\ PlaceInv'
    BY <1>2, <1>3, <2>1, NextLogKeeps
  <2>3. PlaceTypes'
    BY <1>2, <1>3, <2>1, <2>2 DEF Types, PlaceTypes
  <2>4. Types'
    BY <1>1, <1>2, <1>3, <1>4, <1>5, <2>2, <2>3, FrameTypes
  <2> QED
    BY <2>2, <2>4 DEF Base
<1> QED
  BY <1>6, <1>7

\* The file of a 3.23 LOAD DATA is made.
LEMMA PrepareBase ==
    ASSUME Base, prepare_new_file_for_old_format
    PROVE  Base'
<1>1. CASE pc = "remote" /\ leave("ERROR_STOP")
  BY <1>1, LeaveBase DEF Reading
<1>2. ASSUME NEW v \in 0 .. Versions - 1, dir' = Stored(<<NoName, v>>, <<>>), pc' = "old",
             pc = "remote", HasPacket, OldFormat(Packet),
             UNCHANGED <<args, start, served, glob, rec, sought, cur, names, runVars, printVars, saveVars>>
      PROVE  Base'
  <2>1. UNCHANGED <<logs, opt, out, missed, caches, fdp>> /\ Types /\ Reading /\ FileTypes
    BY <1>2 DEF runVars, printVars, Reading, Base, Types, PrintTypes
  <2>2. <<NoName, v>> \in (FileIds \cup {NoName}) \X (0 .. Versions - 1) /\ <<>> \in Seq(Nat \X Nat)
    OBVIOUS
  <2>3. /\ DOMAIN dir' = {<<NoName, v>>} \cup DOMAIN dir
        /\ DOMAIN dir' \subseteq (FileIds \cup {NoName}) \X (0 .. Versions - 1)
        /\ \A f \in DOMAIN dir' : dir'[f] \in Seq(Nat \X Nat)
    BY <1>2, <2>1, <2>2, StoredTyped
  <2>4. FileTypes'
    BY <1>2, <2>1, <2>3 DEF FileTypes
  <2>5. PlaceTypes'
    BY <1>2, <2>1 DEF Types, PlaceTypes
  <2>6. Types'
    BY <1>2, <2>1, <2>4, <2>5, FrameTypes DEF Types, PrintTypes
  <2>7. ArgsInv'
    BY <1>2, <2>1 DEF Base, ArgsInv, Reading, Follows
  <2>8. served.ph = "log" /\ InLog /\ LogEvents(served.log)[served.idx].t \in {"load", "create"}
    <3>1. Packet.t \in {"load", "create"}
      BY <1>2 DEF OldFormat
    <3>2. served.ph = "log" /\ InLog /\ Packet = Event(served.log, served.idx)
      BY <1>2, <2>1, <3>1, ThePacket, FakeTyped
    <3> QED
      BY <2>1, <3>1, <3>2, EventParts DEF InLog, Types, PlaceTypes
  <2>9. PlaceInv'
    BY <1>2, <2>1, <2>8 DEF Base, PlaceInv, Reading, Follows, InLog, LogEvents
  <2> QED
    BY <2>6, <2>7, <2>9 DEF Base
<1> QED
  BY <1>1, <1>2 DEF prepare_new_file_for_old_format

\* The content of a 3.23 LOAD DATA is fetched.
LEMMA FetchBase ==
    ASSUME Base, NEW io \in BOOLEAN, load_old_format_file(io)
    PROVE  Base'
<1>1. CASE pc = "fetch" /\ leave("ERROR_STOP")
  BY <1>1, LeaveBase DEF Reading
<1>2. ASSUME NEW f, dir' = [dir EXCEPT ![f] = Append(@, Place(Packet))], pc' = "remote", Advance, pc = "fetch",
             UNCHANGED <<args, start, glob, rec, sought, cur, names, runVars, printVars, saveVars>>
      PROVE  Base'
  <2>1. UNCHANGED <<logs, opt, out, missed, caches, fdp>> /\ Types /\ Reading /\ FileTypes /\ RunTypes
    BY <1>2 DEF runVars, printVars, Reading, Base, Types, PrintTypes
  <2>2. HasPacket /\ served.ph = "log"
    BY <1>2, <2>1 DEF Base, PlaceInv, HasPacket
  <2>3. Place(Packet) \in Nat \X Nat
    BY <2>1, <2>2, ThePacket, TheLogs, PacketParts DEF Place
  <2>4. DOMAIN dir' = DOMAIN dir /\ \A g \in DOMAIN dir' : dir'[g] \in Seq(Nat \X Nat)
    <3>1. \A g \in DOMAIN dir : dir[g] \in Seq(Nat \X Nat) /\ Append(dir[g], Place(Packet)) \in Seq(Nat \X Nat)
      BY <2>1, <2>3 DEF FileTypes
    <3> QED BY <1>2, <3>1
  <2>5. FileTypes'
    BY <1>2, <2>1, <2>4 DEF FileTypes
  <2>6. PlaceTypes'
    BY <1>2, <2>1, <2>2, AdvanceTo DEF Types, PlaceTypes
  <2>7. Types'
    BY <1>2, <2>1, <2>5, <2>6, FrameTypes DEF Types, PrintTypes
  <2> QED
    BY <1>2, <2>1, <2>2, <2>7, AdvanceKeepsPlace DEF Base
<1> QED
  BY <1>1, <1>2 DEF load_old_format_file

\* safe_connect and COM_BINLOG_DUMP.
LEMMA ConnectBase ==
    ASSUME Base, NEW io \in BOOLEAN, connectRemote(io)
    PROVE  Base'
<1>1. CASE pc = "main" /\ leave("ERROR_STOP")
  BY <1>1, LeaveBase
<1>2. ASSUME pc = "main", opt.remote, pc' = "remote", freshPrintInfo, glob' \in {1, 3},
             served' = [log |-> Head(args), idx |-> start, ph |-> "rotate"],
             UNCHANGED <<args, start, out, missed, rec, sought, cur, runVars, loadVars, saveVars>>
      PROVE  Base'
  <2>1. UNCHANGED <<logs, opt, names, dir>> /\ Types /\ FileTypes
    BY <1>2 DEF runVars, loadVars, Base, Types, PrintTypes
  <2>2. args # <<>> /\ Head(args) \in DOMAIN logs /\ Head(args) \in Nat
    BY <1>2, FirstArg DEF Base, ArgsInv
  <2>3. FileTypes'
    BY <2>1 DEF FileTypes
  <2>4. PlaceTypes'
    BY <1>2, <2>1, <2>2 DEF Types, PlaceTypes
  <2>5. Types'
    BY <1>2, <2>1, <2>3, <2>4, FrameTypes DEF Types
  <2>6. ArgsInv'
    BY <1>2, <2>1 DEF Base, ArgsInv, Reading, Follows
  <2>7. PlaceInv'
    BY <1>2, <2>1, <2>2 DEF PlaceInv, Reading, Follows
  <2> QED
    BY <2>5, <2>6, <2>7 DEF Base
<1>3. CASE io
  BY <1>2, <1>3 DEF connectRemote
<1>4. CASE ~io
  BY <1>1, <1>4 DEF connectRemote
<1> QED
  BY <1>3, <1>4

\* check_header, without an event.
LEMMA CheckBase ==
    ASSUME Base, NEW io \in BOOLEAN, NEW ret, check_header(io, ret)
    PROVE  Base'
<1>1. CASE pc = "main" /\ leave("ERROR_STOP")
  BY <1>1, LeaveBase
<1>2. ASSUME pc = "main", ~opt.remote, LogEvents(Head(args)) # <<>>, pc' \in {"header", "local"}, freshPrintInfo,
             pc' = "header" => logs[Head(args)].ver > 3, glob' \in {1, 3, logs[Head(args)].ver},
             served' = [log |-> Head(args), idx |-> start, ph |-> "log"],
             UNCHANGED <<args, start, out, missed, rec, sought, cur, runVars, loadVars, saveVars>>
      PROVE  Base'
  <2>1. UNCHANGED <<logs, opt, names, dir>> /\ Types /\ FileTypes /\ RunTypes
    BY <1>2 DEF runVars, loadVars, Base, Types, PrintTypes
  <2>2. args # <<>> /\ Head(args) \in DOMAIN logs /\ Head(args) \in Nat /\ logs[Head(args)].ver \in {1, 3, 4}
    BY <1>2, <2>1, FirstArg, TheLogs DEF Base, ArgsInv
  <2>3. FileTypes'
    BY <2>1 DEF FileTypes
  <2>4. PlaceTypes'
    BY <1>2, <2>1, <2>2 DEF Types, PlaceTypes
  <2>5. Types'
    BY <1>2, <2>1, <2>2, <2>3, <2>4, FrameTypes DEF Types
  <2>6. ArgsInv'
    BY <1>2, <2>1 DEF Base, ArgsInv, Reading, Follows
  <2>7. PlaceInv'
    BY <1>2, <2>1, <2>2 DEF PlaceInv, Reading, Follows, LogEvents
  <2> QED
    BY <2>5, <2>6, <2>7 DEF Base
<1> QED
  <2>1. CASE ~io \/ LogEvents(Head(args)) = <<>>
    BY <1>1, <2>1 DEF check_header
  <2>2. CASE io /\ LogEvents(Head(args)) # <<>>
    BY <1>2, <2>2 DEF check_header
  <2> QED BY <2>1, <2>2

\* Every step of the program keeps the types and the reader's place.
LEMMA BaseStep == Base /\ [binlogNext]_binlogVars => Base'
<1> SUFFICES ASSUME Base, [binlogNext]_binlogVars
             PROVE  Base'
  OBVIOUS
<1>1. CASE mainProgram
  BY <1>1, MainBase
<1>2. CASE exitProgram \/ crash
  <2>1. out' \in Seq(Lines)
    BY <1>2, HaltCuts DEF Base, Types, PrintTypes
  <2> QED
    BY <1>2, <2>1, HaltBase DEF exitProgram, crash, saveVars
<1>3. CASE readError \/ endOfData \/ localEnd
  BY <1>3, LeaveBase DEF readError, endOfData, localEnd, Reading
<1>4. CASE skipFakeRotate
  BY <1>4, SkipBase
<1>5. CASE prepare_new_file_for_old_format
  BY <1>5, PrepareBase
<1>6. ASSUME NEW io \in BOOLEAN, connectRemote(io) \/ load_old_format_file(io)
      PROVE  Base'
  BY <1>6, ConnectBase, FetchBase
<1>7. ASSUME NEW io \in BOOLEAN, NEW ret \in Exit_status,
             \/ remoteEvent(io, ret) \/ remoteOldEvent(io, ret) \/ check_header(io, ret)
             \/ headerEvent(io, ret) \/ localEvent(io, ret)
      PROVE  Base'
  BY <1>7, RemoteEventBase, OldEventBase, CheckBase, HeaderEventBase, LocalEventBase
<1>8. CASE UNCHANGED binlogVars
  <2>1. UNCHANGED <<logs, opt, runs, from, pc, args, start, served, glob, out, missed, caches, fdp, rec, sought,
                    names, dir, cur, evpos, npfp, disk>>
    BY <1>8 DEF binlogVars, runVars, printVars, loadVars, saveVars
  <2>2. RunTypes' /\ SaveTypes' /\ LogNames' = LogNames /\ PlaceTypes'
    BY <2>1 DEF Base, Types, RunTypes, SaveTypes, LogNames, PlaceTypes
  <2>3. FileTypes'
    BY <2>1 DEF Base, Types, PrintTypes, FileTypes
  <2>4. PrintTypes'
    BY <2>1, <2>3 DEF Base, Types, PrintTypes, Lines
  <2>5. ArgsInv' /\ PlaceInv'
    BY <2>1 DEF Base, ArgsInv, PlaceInv, Reading, Follows, InLog, LogEvents
  <2> QED
    BY <2>1, <2>2, <2>4, <2>5 DEF Base, Types
<1> QED
  BY <1>1, <1>2, <1>3, <1>4, <1>5, <1>6, <1>7, <1>8 DEF binlogNext

-----------------------------------------------------------------------------
(* Row statements: RowsFlushed. *)

\* While the caches or the ignored tables hold something, the event before
\* the one to read belongs to the same statement, which goes on.
Waiting == caches # <<>> \/ ignored # {}
CacheInv ==
    Reading /\ Waiting =>
      /\ pc \in {"remote", "local"} /\ ~sought /\ served.ph = "log"
      /\ served.idx > 1 /\ served.idx - 1 \in DOMAIN LogEvents(served.log)
      /\ Open(LogEvents(served.log)[served.idx - 1])
      /\ ~OtherServer(LogEvents(served.log)[served.idx - 1])

(***************************************************************************)
(* After an event is dealt with, something waits only if the statement the *)
(* event belongs to goes on.                                               *)
(***************************************************************************)
LEMMA StatementStep ==
    ASSUME Types, NEW ev \in Packets, NEW pos, NEW io \in BOOLEAN, process_event(ev, pos, io, "OK_CONTINUE"),
           Waiting => ev.t \in {"map", "rows"} /\ ~OtherServer(ev) /\ ~sought,
           Waiting'
    PROVE  Open(ev) /\ ~OtherServer(ev) /\ ~sought'
<1>1. CASE (~InRange(ev) \/ OtherServer(ev)) /\ UNCHANGED printVars
  <2>1. Waiting
    BY <1>1 DEF Waiting, printVars
  <2>2. ~OtherServer(ev) /\ InRange(ev)
    BY <2>1 DEF InRange
  <2> QED BY <1>1, <2>2
<1>2. CASE /\ InRange(ev) /\ ~OtherServer(ev)
           /\ \/ queryEvent(ev, io, "OK_CONTINUE") \/ createFileEvent(ev, io, "OK_CONTINUE")
              \/ appendBlockEvent(ev, io, "OK_CONTINUE") \/ beginLoadQueryEvent(ev, io, "OK_CONTINUE")
              \/ execLoadEvent(ev, "OK_CONTINUE") \/ executeLoadQueryEvent(ev, "OK_CONTINUE")
              \/ formatDescriptionEvent(ev, "OK_CONTINUE") \/ tableMapEvent(ev, "OK_CONTINUE")
              \/ rowsEvent(ev, "OK_CONTINUE") \/ otherEvent(ev, "OK_CONTINUE")
  <2>0. ev.t # "fd" => ~sought'
    BY <1>2 DEF process_event
  <2>1. ASSUME ev.t \notin {"map", "rows"}, UNCHANGED <<caches, ignored>>
        PROVE  FALSE
    BY <2>1 DEF Waiting
  <2>2. CASE queryEvent(ev, io, "OK_CONTINUE")
    BY <2>1, <2>2 DEF queryEvent
  <2>3. CASE createFileEvent(ev, io, "OK_CONTINUE")
    BY <2>1, <2>3 DEF createFileEvent
  <2>4. CASE appendBlockEvent(ev, io, "OK_CONTINUE") \/ beginLoadQueryEvent(ev, io, "OK_CONTINUE")
    BY <2>1, <2>4 DEF appendBlockEvent, beginLoadQueryEvent
  <2>5. CASE execLoadEvent(ev, "OK_CONTINUE") \/ executeLoadQueryEvent(ev, "OK_CONTINUE")
    BY <2>1, <2>5 DEF execLoadEvent, executeLoadQueryEvent
  <2>6. CASE formatDescriptionEvent(ev, "OK_CONTINUE")
    BY <2>1, <2>6 DEF formatDescriptionEvent
  <2>7. CASE otherEvent(ev, "OK_CONTINUE")
    BY <2>1, <2>7 DEF otherEvent
  <2>8. CASE tableMapEvent(ev, "OK_CONTINUE")
    BY <1>2, <2>0, <2>8 DEF tableMapEvent, Open
  <2>9. CASE rowsEvent(ev, "OK_CONTINUE")
    <3>1. ev.t = "rows" /\ (ev.end => ignored' = {} /\ caches' = <<>>)
      BY <2>9 DEF rowsEvent, printRows, flushSkipped
    <3>2. ~ev.end
      BY <3>1 DEF Waiting
    <3> QED BY <1>2, <2>0, <3>1, <3>2 DEF Open
  <2> QED
    BY <1>2, <2>2, <2>3, <2>4, <2>5, <2>6, <2>7, <2>8, <2>9
<1> QED
  BY <1>1, <1>2 DEF process_event

\* While something waits the next event is one of the same statement.
LEMMA GoesOn ==
    ASSUME Base, CacheInv, Reading, Waiting, InLog
    PROVE  /\ LogEvents(served.log)[served.idx].t \in {"map", "rows"}
           /\ ~OtherServer(LogEvents(served.log)[served.idx]) /\ ~sought
<1> DEFINE evs == LogEvents(served.log)
<1>1. RunTypes /\ served.log \in DOMAIN logs /\ served.idx \in DOMAIN evs /\ served.idx \in Nat
  BY DEF Base, Types, PlaceTypes, InLog
<1>2. DOMAIN evs = 1 .. Len(evs) /\ Len(evs) \in Nat
  BY <1>1, TheEvents
<1>3. served.idx > 1 /\ Open(evs[served.idx - 1]) /\ ~OtherServer(evs[served.idx - 1]) /\ ~sought
  BY DEF CacheInv
<1>4. RowStatements(evs)
  BY <1>1, TheLogs DEF ServerLogs, LogEvents
<1>5. PICK i \in 1 .. Len(evs) - 1 : i + 1 = served.idx /\ i = served.idx - 1
  BY <1>1, <1>2, <1>3
<1>6. evs[i + 1].t \in {"map", "rows"} /\ evs[i + 1].srv = evs[i].srv
  BY <1>3, <1>4, <1>5 DEF RowStatements
<1> QED
  BY <1>3, <1>5, <1>6 DEF OtherServer

\* Before any other event nothing waits.
LEMMA NothingWaits ==
    ASSUME Base, CacheInv, Reading,
           InLog => LogEvents(served.log)[served.idx].t \notin {"map", "rows"}, InLog \/ served.ph # "log"
    PROVE  ~Waiting
  BY GoesOn DEF CacheInv

(***************************************************************************)
(* CacheInv is kept: by an event that is processed ...                     *)
(***************************************************************************)
LEMMA PacketWaits ==
    ASSUME Base, CacheInv, pc \in {"remote", "old"}, HasPacket, NEW pos, NEW io \in BOOLEAN,
           process_event(Packet, pos, io, "OK_CONTINUE"), Waiting'
    PROVE  /\ served.ph = "log" /\ InLog /\ Packet = Event(served.log, served.idx)
           /\ Open(Packet) /\ ~OtherServer(Packet) /\ ~sought'
<1>1. Types /\ Reading /\ Packet \in Packets /\ RunTypes
  BY ThePacket DEF Base, Reading, Types
<1>2. Waiting => Packet.t \in {"map", "rows"} /\ ~OtherServer(Packet) /\ ~sought
  <2> SUFFICES ASSUME Waiting
               PROVE  Packet.t \in {"map", "rows"} /\ ~OtherServer(Packet) /\ ~sought
    OBVIOUS
  <2>1. served.ph = "log"
    BY <1>1 DEF CacheInv
  <2>2. InLog /\ Packet = Event(served.log, served.idx)
    BY <1>1, <2>1, ThePacket
  <2>3. served.log \in DOMAIN logs /\ served.idx \in DOMAIN LogEvents(served.log)
    BY <1>1, <2>2 DEF Types, PlaceTypes, InLog
  <2> QED
    BY <1>1, <2>2, <2>3, GoesOn, EventParts DEF OtherServer
<1>3. Open(Packet) /\ ~OtherServer(Packet) /\ ~sought'
  BY <1>1, <1>2, StatementStep
<1>4. Packet # Fake("rotate") /\ Packet # Fake("fd")
  BY <1>1, <1>3, FakeTyped DEF Open
<1> QED
  BY <1>1, <1>3, <1>4, ThePacket

\* CacheInv after an event from the server.
LEMMA RemoteEventWaits ==
    ASSUME Base, CacheInv, NEW io \in BOOLEAN, NEW ret, remoteEvent(io, ret)
    PROVE  CacheInv'
<1>1. /\ pc = "remote" /\ HasPacket /\ process_event(Packet, off, io, ret) /\ UNCHANGED runVars
      /\ IF ret = "OK_CONTINUE" THEN Advance /\ UNCHANGED <<pc, args, start>>
         ELSE nextLog(ret) /\ UNCHANGED served
  BY DEF remoteEvent
<1>2. CASE ret # "OK_CONTINUE"
  BY <1>1, <1>2 DEF nextLog, CacheInv, Reading
<1>3. CASE ret = "OK_CONTINUE"
  <2> SUFFICES ASSUME Waiting'
               PROVE  CacheInv'
    BY DEF CacheInv
  <2>1. /\ served.ph = "log" /\ InLog /\ Packet = Event(served.log, served.idx)
        /\ Open(Packet) /\ ~OtherServer(Packet) /\ ~sought'
    BY <1>1, <1>3, PacketWaits
  <2>2. Advance /\ pc' = "remote" /\ UNCHANGED <<logs, opt>> /\ Types
    BY <1>1, <1>3 DEF runVars, Base
  <2>3. served.log \in DOMAIN logs /\ served.idx \in DOMAIN LogEvents(served.log) /\ served.idx \in Nat \ {0} /\ RunTypes
    BY <2>1, <2>2 DEF Types, PlaceTypes, InLog
  <2>4. served'.ph = "log" /\ served'.log = served.log /\ served'.idx = served.idx + 1
    BY <1>1, <2>1, <2>2, AdvanceTo DEF Open
  <2>5. served'.idx > 1 /\ served'.idx - 1 = served.idx
    BY <2>3, <2>4
  <2>6. Open(LogEvents(served.log)[served.idx]) /\ ~OtherServer(LogEvents(served.log)[served.idx])
    BY <2>1, <2>3, EventParts DEF Open, OtherServer
  <2> QED
    BY <2>1, <2>2, <2>3, <2>4, <2>5, <2>6 DEF CacheInv, LogEvents, Open, OtherServer
<1> QED
  BY <1>2, <1>3

\* CacheInv after the event of a 3.23 LOAD DATA.
LEMMA OldEventWaits ==
    ASSUME Base, CacheInv, NEW io \in BOOLEAN, NEW ret, remoteOldEvent(io, ret)
    PROVE  CacheInv'
<1>1. /\ pc = "old" /\ process_event(Packet, off, io, ret)
      /\ IF ret = "OK_CONTINUE" THEN pc' = "fetch" /\ UNCHANGED <<args, start>> ELSE nextLog(ret)
  BY DEF remoteOldEvent
<1>2. /\ HasPacket /\ Types /\ RunTypes /\ served.ph = "log" /\ InLog
      /\ LogEvents(served.log)[served.idx].t \in {"load", "create"}
      /\ served.log \in DOMAIN logs /\ served.idx \in DOMAIN LogEvents(served.log)
  BY <1>1 DEF Base, PlaceInv, Reading, HasPacket, Types, PlaceTypes, InLog
<1>3. CASE ret # "OK_CONTINUE"
  BY <1>1, <1>3 DEF nextLog, CacheInv, Reading
<1>4. CASE ret = "OK_CONTINUE"
  <2>1. ~Waiting'
    BY <1>1, <1>2, <1>4, PacketWaits, EventParts DEF Open
  <2> QED BY <2>1 DEF CacheInv
<1> QED
  BY <1>3, <1>4

\* CacheInv after an event from a file.
LEMMA LocalEventWaits ==
    ASSUME Base, CacheInv, NEW io \in BOOLEAN, NEW ret, localEvent(io, ret)
    PROVE  CacheInv'
<1> DEFINE ev == Event(served.log, served.idx)
<1>1. /\ pc = "local" /\ InLog /\ process_event(ev, served.idx, io, ret) /\ UNCHANGED runVars
      /\ IF ret = "OK_CONTINUE" THEN served' = [served EXCEPT !.idx = @ + 1] /\ UNCHANGED <<pc, args, start>>
         ELSE nextLog(ret) /\ UNCHANGED served
  BY DEF localEvent
<1>2. CASE ret # "OK_CONTINUE"
  BY <1>1, <1>2 DEF nextLog, CacheInv, Reading
<1>3. CASE ret = "OK_CONTINUE"
  <2> SUFFICES ASSUME Waiting'
               PROVE  CacheInv'
    BY DEF CacheInv
  <2>1. /\ Types /\ Reading /\ RunTypes /\ UNCHANGED <<logs, opt>> /\ served.ph = "log"
        /\ served.log \in DOMAIN logs /\ served.idx \in DOMAIN LogEvents(served.log) /\ served.idx \in Nat \ {0}
        /\ served \in [log : DOMAIN logs, idx : Nat \ {0}, ph : {"rotate", "fd", "log"}]
    BY <1>1 DEF Base, PlaceInv, Reading, Types, PlaceTypes, InLog, runVars
  <2>2. ev \in Packets
    BY <2>1, TheEvents
  <2>3. Waiting => ev.t \in {"map", "rows"} /\ ~OtherServer(ev) /\ ~sought
    BY <1>1, <2>1, GoesOn, EventParts DEF OtherServer
  <2>4. Open(ev) /\ ~OtherServer(ev) /\ ~sought'
    <3> HIDE DEF ev
    <3> QED BY <1>1, <1>3, <2>1, <2>2, <2>3, StatementStep
  <2>5. /\ served'.ph = "log" /\ served'.log = served.log /\ served'.idx = served.idx + 1
        /\ served'.idx > 1 /\ served'.idx - 1 = served.idx /\ pc' = "local"
    BY <1>1, <1>3, <2>1
  <2>6. Open(LogEvents(served.log)[served.idx]) /\ ~OtherServer(LogEvents(served.log)[served.idx])
    BY <2>1, <2>4, EventParts DEF Open, OtherServer
  <2> QED
    BY <2>1, <2>4, <2>5, <2>6 DEF CacheInv, LogEvents, Open, OtherServer
<1> QED
  BY <1>2, <1>3

\* CacheInv after the Format_description of check_header.
LEMMA HeaderEventWaits ==
    ASSUME Base, CacheInv, NEW io \in BOOLEAN, NEW ret, headerEvent(io, ret)
    PROVE  CacheInv'
<1> DEFINE ev == Event(served.log, HeaderSize)
<1>1. /\ pc = "header" /\ process_event(ev, HeaderSize, io, ret)
      /\ IF ret = "OK_CONTINUE" THEN pc' = "local" /\ UNCHANGED <<args, start>> ELSE nextLog(ret)
  BY DEF headerEvent
<1>2. CASE ret # "OK_CONTINUE"
  BY <1>1, <1>2 DEF nextLog, CacheInv, Reading
<1>3. CASE ret = "OK_CONTINUE"
  <2>1. /\ Types /\ RunTypes /\ served.log \in DOMAIN logs /\ logs[served.log].ver > 3
        /\ LogEvents(served.log) # <<>> /\ ~Waiting
    BY <1>1 DEF Base, PlaceInv, Reading, Types, PlaceTypes, CacheInv
  <2>2. 1 \in DOMAIN LogEvents(served.log)
    BY <2>1, TheLogs
  <2>3. ev \in Packets /\ ev.t = "fd"
    BY <2>1, <2>2, TheEvents, EventShape, EventParts DEF HeaderSize
  <2>4. ~Waiting'
    <3> HIDE DEF ev
    <3> QED BY <1>1, <1>3, <2>1, <2>3, StatementStep DEF Open
  <2> QED BY <2>4 DEF CacheInv
<1> QED
  BY <1>2, <1>3

(***************************************************************************)
(* ... and by every other step, where nothing waits or nothing is read.    *)
(***************************************************************************)
LEMMA CacheStep == Base /\ CacheInv /\ [binlogNext]_binlogVars => CacheInv'
<1> SUFFICES ASSUME Base, CacheInv, [binlogNext]_binlogVars
             PROVE  CacheInv'
  OBVIOUS
<1>1. CASE mainProgram \/ exitProgram \/ crash
  BY <1>1 DEF mainProgram, exitProgram, crash, CacheInv, Reading
<1>2. ASSUME NEW ret, leave(ret)
      PROVE  CacheInv'
  BY <1>2 DEF leave, nextLog, CacheInv, Reading
<1>3. CASE readError \/ endOfData \/ localEnd
  BY <1>2, <1>3 DEF readError, endOfData, localEnd
<1>4. CASE skipFakeRotate
  <2>1. pc = "remote" /\ Packet.t = "rotate" /\ HasPacket /\ UNCHANGED printVars
    BY <1>4 DEF skipFakeRotate, FakeRotate
  <2>2. ~Waiting
    <3>1. CASE served.ph # "log"
      BY <2>1, <3>1 DEF CacheInv, Reading
    <3>2. CASE served.ph = "log"
      <4>1. Types /\ InLog /\ Packet = Event(served.log, served.idx)
        BY <2>1, <3>2, ThePacket DEF Base
      <4>2. LogEvents(served.log)[served.idx].t = "rotate"
        BY <2>1, <4>1, EventParts DEF Types, PlaceTypes, InLog
      <4> QED
        BY <2>1, <4>1, <4>2, NothingWaits DEF Reading
    <3> QED BY <3>1, <3>2
  <2> QED
    BY <2>1, <2>2 DEF CacheInv, Waiting, printVars
<1>5. CASE prepare_new_file_for_old_format
  <2>1. CASE leave("ERROR_STOP")
    BY <1>2, <2>1
  <2>2. CASE UNCHANGED printVars
    <3>1. pc = "remote" /\ Packet.t \in {"load", "create"} /\ HasPacket
      BY <1>5 DEF prepare_new_file_for_old_format, OldFormat
    <3>2. Types /\ InLog /\ Packet = Event(served.log, served.idx)
      BY <3>1, ThePacket, FakeTyped DEF Base
    <3>3. LogEvents(served.log)[served.idx].t \in {"load", "create"}
      BY <3>1, <3>2, EventParts DEF Types, PlaceTypes, InLog
    <3>4. ~Waiting
      BY <3>1, <3>2, <3>3, NothingWaits DEF Reading
    <3> QED
      BY <2>2, <3>4 DEF CacheInv, Waiting, printVars
  <2> QED
    BY <1>5, <2>1, <2>2 DEF prepare_new_file_for_old_format
<1>6. ASSUME NEW io \in BOOLEAN, connectRemote(io)
      PROVE  CacheInv'
  <2>1. CASE io
    <3>1. ~Waiting'
      BY <1>6, <2>1 DEF connectRemote, freshPrintInfo, Waiting
    <3> QED BY <3>1 DEF CacheInv
  <2> QED BY <1>2, <1>6, <2>1 DEF connectRemote
<1>7. ASSUME NEW io \in BOOLEAN, load_old_format_file(io)
      PROVE  CacheInv'
  <2>1. CASE io
    <3>1. ~Waiting /\ UNCHANGED printVars
      BY <1>7, <2>1 DEF load_old_format_file, CacheInv, Reading
    <3> QED BY <3>1 DEF CacheInv, Waiting, printVars
  <2> QED BY <1>2, <1>7, <2>1 DEF load_old_format_file
<1>8. ASSUME NEW io \in BOOLEAN, NEW ret, check_header(io, ret)
      PROVE  CacheInv'
  <2>1. CASE freshPrintInfo
    <3>1. ~Waiting'
      BY <2>1 DEF freshPrintInfo, Waiting
    <3> QED BY <3>1 DEF CacheInv
  <2> QED BY <1>2, <1>8, <2>1 DEF check_header
<1>9. ASSUME NEW io \in BOOLEAN, NEW ret \in Exit_status,
             remoteEvent(io, ret) \/ remoteOldEvent(io, ret) \/ headerEvent(io, ret) \/ localEvent(io, ret)
      PROVE  CacheInv'
  BY <1>9, RemoteEventWaits, OldEventWaits, HeaderEventWaits, LocalEventWaits
<1>10. CASE UNCHANGED binlogVars
  BY <1>10 DEF binlogVars, runVars, printVars, CacheInv, Waiting, Reading, LogEvents, OtherServer
<1> QED
  BY <1>1, <1>3, <1>4, <1>5, <1>6, <1>7, <1>8, <1>9, <1>10 DEF binlogNext

(***************************************************************************)
(* The inductive invariant at Init.                                        *)
(***************************************************************************)
LEMMA CacheInit == binlogInit => CacheInv
  BY DEF binlogInit, CacheInv, Reading

(***************************************************************************)
(* When the last rows event of a statement is dealt with, the caches have  *)
(* been written: it is printed, or skipped as an event of an ignored table *)
(* that flushes them too, or not looked at, and then nothing waited.       *)
(***************************************************************************)
LEMMA Flushes ==
    ASSUME Types, NEW ev \in Packets, NEW pos, NEW io \in BOOLEAN, process_event(ev, pos, io, "OK_CONTINUE"),
           Waiting => ev.t \in {"map", "rows"} /\ ~OtherServer(ev) /\ ~sought,
           ev.t = "rows" /\ ev.end
    PROVE  caches' = <<>>
  BY StatementStep DEF Open, Waiting

\* RowsFlushed, step by step: evpos moves to an event's end only when that
\* event is processed.
LEMMA FlushStep ==
    ASSUME Base, CacheInv, [binlogNext]_binlogVars, NEW e \in AllEvents, e.t = "rows", e.end,
           evpos' # evpos, evpos' = [pos |-> e.ends, of |-> e.log], pc \in {"remote", "local"}, pc' = pc
    PROVE  caches' = <<>>
<1>a. PICK n \in DOMAIN logs : e \in {Event(n, i) : i \in DOMAIN LogEvents(n)}
  BY DEF AllEvents
<1>1. PICK i \in DOMAIN LogEvents(n) : e = Event(n, i)
  BY <1>a
<1>2. /\ Types /\ RunTypes /\ n \in Nat /\ i \in Nat \ {0} /\ e.ends = i + 1 /\ e.log = n /\ e \in Packets
      /\ evpos'.pos = i + 1 /\ evpos'.of = n
  <2>1. Types /\ RunTypes
    BY DEF Base, Types
  <2> QED BY <2>1, <1>1, TheLogs, TheEvents, EventParts
<1>3. \A m \in DOMAIN logs : \A k \in DOMAIN LogEvents(m) :
          Event(m, k).ends = e.ends /\ Event(m, k).log = e.log => Event(m, k) = e
  <2> SUFFICES ASSUME NEW m \in DOMAIN logs, NEW k \in DOMAIN LogEvents(m),
                      Event(m, k).ends = e.ends, Event(m, k).log = e.log
               PROVE  Event(m, k) = e
    OBVIOUS
  <2>1. Event(m, k).ends = k + 1 /\ Event(m, k).log = m /\ k \in Nat
    BY <1>2, EventParts, TheEvents
  <2>2. m = n /\ k = i
    BY <1>2, <2>1
  <2> QED BY <1>1, <2>2
<1>4. ASSUME NEW ev, NEW pos, NEW io, NEW ret, process_event(ev, pos, io, ret)
      PROVE  ev.ends = e.ends /\ ev.log = e.log
  <2>1. \E kept \in BOOLEAN : evpos' = IF kept THEN evpos ELSE [pos |-> ev.ends, of |-> ev.log]
    BY <1>4 DEF process_event, save_name_and_pos
  <2>2. evpos' = [pos |-> ev.ends, of |-> ev.log]
    BY <2>1
  <2> QED BY <2>2, <1>2
<1>5. ASSUME NEW io \in BOOLEAN, NEW ret, remoteEvent(io, ret)
      PROVE  caches' = <<>>
  <2>1. /\ HasPacket /\ process_event(Packet, off, io, ret) /\ ret = "OK_CONTINUE"
        /\ Packet \in Packets /\ pc = "remote" /\ Reading
    BY <1>2, <1>5, ThePacket DEF remoteEvent, nextLog, Reading
  <2>2. Packet.ends = e.ends /\ Packet.log = e.log
    BY <1>4, <2>1
  <2>3. Packet # Fake("rotate") /\ Packet # Fake("fd")
    BY <1>2, <2>2, FakeTyped
  <2>4. InLog /\ Packet = Event(served.log, served.idx)
    BY <1>2, <2>1, <2>3, ThePacket
  <2>5. served.log \in DOMAIN logs /\ served.idx \in DOMAIN LogEvents(served.log)
    BY <1>2, <2>4 DEF Types, PlaceTypes, InLog
  <2>6. Packet = e
    BY <1>3, <2>2, <2>4, <2>5
  <2>7. Waiting => e.t \in {"map", "rows"} /\ ~OtherServer(e) /\ ~sought
    <3>1. e.t = LogEvents(served.log)[served.idx].t /\ e.srv = LogEvents(served.log)[served.idx].srv
      <4>1. e = Event(served.log, served.idx)
        BY <2>4, <2>6
      <4>2. /\ Event(served.log, served.idx).t = LogEvents(served.log)[served.idx].t
            /\ Event(served.log, served.idx).srv = LogEvents(served.log)[served.idx].srv
        BY <1>2, <2>5, EventParts
      <4> QED BY <4>1, <4>2
    <3>2. Waiting => /\ ~OtherServer(LogEvents(served.log)[served.idx]) /\ ~sought
                     /\ LogEvents(served.log)[served.idx].t \in {"map", "rows"}
      BY <2>1, <2>4, GoesOn
    <3> QED BY <3>1, <3>2 DEF OtherServer
  <2> QED
    BY <1>2, <2>1, <2>6, <2>7, Flushes
<1>6. ASSUME NEW io \in BOOLEAN, NEW ret, localEvent(io, ret)
      PROVE  caches' = <<>>
  <2>1. /\ InLog /\ process_event(Event(served.log, served.idx), served.idx, io, ret)
        /\ ret = "OK_CONTINUE" /\ Reading
    BY <1>6 DEF localEvent, nextLog, Reading
  <2>5. served.log \in DOMAIN logs /\ served.idx \in DOMAIN LogEvents(served.log)
    BY <1>2, <2>1 DEF Types, PlaceTypes, InLog
  <2>6. Event(served.log, served.idx) = e
    BY <1>3, <1>4, <2>1, <2>5
  <2>7. Waiting => e.t \in {"map", "rows"} /\ ~OtherServer(e) /\ ~sought
    BY <1>2, <2>1, <2>5, <2>6, GoesOn, EventParts DEF OtherServer
  <2> QED
    BY <1>2, <2>1, <2>6, <2>7, Flushes
<1>7. ASSUME UNCHANGED evpos \/ pc' # pc
      PROVE  FALSE
  BY <1>7
<1>8. \A ret : leave(ret) => pc' # "remote" /\ pc' # "local"
  BY DEF leave, nextLog
<1>9. ~mainProgram /\ ~exitProgram /\ ~crash /\ ~UNCHANGED binlogVars
  BY DEF mainProgram, exitProgram, crash, binlogVars, saveVars
<1>10. ~readError /\ ~endOfData /\ ~localEnd /\ ~skipFakeRotate /\ ~prepare_new_file_for_old_format
  BY <1>8 DEF readError, endOfData, localEnd, skipFakeRotate, prepare_new_file_for_old_format, saveVars
<1>11. ASSUME NEW io \in BOOLEAN, NEW ret
       PROVE  ~connectRemote(io) /\ ~load_old_format_file(io) /\ ~check_header(io, ret)
              /\ ~remoteOldEvent(io, ret) /\ ~headerEvent(io, ret)
  BY DEF connectRemote, load_old_format_file, check_header, remoteOldEvent, headerEvent
<1> QED
  BY <1>5, <1>6, <1>9, <1>10, <1>11 DEF binlogNext

(***************************************************************************)
(* RowsFlushed, for every server's logs and every command line: a row      *)
(* statement that the dump has passed does not stay in the caches.         *)
(***************************************************************************)
THEOREM RowsAlwaysFlushed == binlogSpec => RowsFlushed
<1>1. binlogInit => Base /\ CacheInv
  BY InitBase, CacheInit
<1>2. Base /\ CacheInv /\ [binlogNext]_binlogVars => Base' /\ CacheInv'
  BY BaseStep, CacheStep
<1>3. Base /\ CacheInv /\ [binlogNext]_binlogVars
      => [\A e \in AllEvents :
            (e.t = "rows" /\ e.end /\ evpos' # evpos /\ evpos' = [pos |-> e.ends, of |-> e.log]
             /\ pc \in {"remote", "local"} /\ pc' = pc)
            => caches' = <<>> ]_binlogVars
  BY FlushStep
<1> QED
  BY <1>1, <1>2, <1>3, PTL DEF binlogSpec, RowsFlushed

-----------------------------------------------------------------------------
(* What a step of a run does to the place in the logs. *)

Running == pc = "main" \/ Reading

\* The next event to be read, and the events that lie behind the reader.
Here == IF pc = "main" THEN <<Head(args), start>>
        ELSE IF pc = "fetch" THEN <<served.log, served.idx + 1>> ELSE <<served.log, served.idx>>
Behind(n, i) == Before(<<n, i>>, Here)

Deals(ev) == \E pos : \E io \in BOOLEAN : process_event(ev, pos, io, "OK_CONTINUE")
Fails(ev) == \E pos, ret : \E io \in BOOLEAN : ret # "OK_CONTINUE" /\ process_event(ev, pos, io, ret)

\* The event at n, i is dealt with, and the reader is at the one after it.
Passes(n, i) ==
    /\ Deals(Event(n, i)) /\ Here = <<n, i>>
    /\ pc \in {"remote", "old", "local"} /\ Reading' /\ served.log = n /\ served.idx = i /\ served.ph = "log"
    /\ UNCHANGED <<logs, opt, from, args>>
    /\ \/ /\ Here' = <<n, i + 1>> /\ served'.log = n /\ served'.ph = "log"
          /\ opt.remote => LogEvents(n)[i].t # "rotate"
       \/ /\ Here' = <<n + 1, HeaderSize>> /\ served'.log = n + 1 /\ served'.ph = "rotate" /\ pc' = "remote"
          /\ i = Len(LogEvents(n)) /\ LogEvents(n)[i].t = "rotate"
    /\ opt.remote => cur' = IF LogEvents(n)[i].t = "rotate" THEN n + 1 ELSE cur
    /\ ~opt.remote => cur' = cur

\* An event is dealt with that is not at the reader's place: a fake one, or
\* the Format_description that check_header probes.
Repeats(ev) ==
    /\ Deals(ev) /\ Reading /\ Reading' /\ Here' = Here /\ served'.log = served.log
    /\ UNCHANGED <<logs, opt, from, args>>
    /\ \/ ev = Fake("rotate") /\ served.ph = "rotate" /\ served'.ph # "rotate" /\ cur' = served.log /\ opt.remote
       \/ /\ ev.t = "fd" /\ ev.log = served.log /\ ev.ver = logs[served.log].ver
          /\ served.ph = "fd" \/ pc = "header"
          /\ served.ph # "rotate" /\ served'.ph = "log" /\ cur' = cur /\ (opt.remote => ev = Fake("fd"))

\* No event is dealt with: a reader is opened, a fake Rotate is skipped, the
\* file of a 3.23 LOAD DATA is made or filled ...
Stays ==
    /\ Reading' /\ Here' = Here /\ served'.log = Here[1] /\ UNCHANGED args
    /\ pc = "main" => (served'.ph = "rotate" <=> opt.remote) /\ cur' = cur /\ caches' = <<>> /\ ignored' = {}
    /\ pc # "main" => Reading /\ ~Waiting /\ served'.ph # "rotate" /\ served'.log = served.log
    /\ pc # "main" /\ served.ph = "rotate" => cur' = served'.log /\ opt.remote
    /\ pc # "main" /\ served.ph # "rotate" => cur' = cur

\* ... or main goes to the next log, from the end of this one, from the Rotate
\* at its end, or from the fake Rotate that announces the next.
Leaves ==
    /\ Reading /\ Len(args) > 1 /\ pc' = "main" /\ args' = Tail(args) /\ start' = HeaderSize
    /\ \/ /\ served.log = Head(args) /\ served.ph = "log"
          /\ InLog => LogEvents(served.log)[served.idx].t = "rotate"
       \/ served.log = Head(args) + 1 /\ served.ph = "rotate" /\ served.idx = HeaderSize
    /\ caches # <<>> => served.ph = "log" /\ ~InLog
    /\ ~opt.remote => cur' = cur

\* The format that a reader assumes before the first event.
FormatSet ==
    /\ pc # "main" => glob' = glob
    /\ pc = "main" /\ Reading' /\ (\A n \in DOMAIN logs : logs[n].ver # 1) => glob' >= 3

Between ==
    /\ UNCHANGED <<logs, opt, from, sought, out, missed, names, evpos, npfp, disk>>
    /\ UNCHANGED <<caches, ignored>> \/ (caches' = <<>> /\ ignored' = {})
    /\ FormatSet
    /\ DOMAIN dir \subseteq DOMAIN dir'
    /\ \A f \in DOMAIN dir : f[1] # NoName => dir'[f] = dir[f]
    /\ Stays \/ Leaves

\* The run ends, with an event that stops it, or without one.
Ends ==
    /\ ~Running' /\ UNCHANGED <<logs, opt, from>>
    /\ \/ \E ev \in Packets : IdOK(ev) /\ OfLog(ev) /\ Reading /\ Fails(ev)
       \/ ResultCut /\ UNCHANGED <<evpos, npfp>> /\ (disk' = disk \/ (npfp # NoName /\ disk' = npfp))
(***************************************************************************)
(* Every step of a run is one of these.                                    *)
(***************************************************************************)

\* A reader that returns: main goes to the next log, or the run ends.
LEMMA LeaveKind ==
    ASSUME Base, Running, NEW ret, leave(ret),
           Running' => Reading /\ served.log = Head(args) /\ served.ph = "log" /\ ~InLog
    PROVE  Between \/ Ends
<1>1. nextLog(ret) /\ UNCHANGED <<logs, opt, from, sought, out, missed, caches, ignored, names, dir, evpos, npfp, disk, cur, glob>>
  BY DEF leave, runVars, printVars, loadVars, saveVars
<1>2. CASE pc' = "exit"
  BY <1>1, <1>2 DEF Ends, Running, Reading, ResultCut
<1>3. CASE ret = "OK_CONTINUE" /\ Len(args) > 1 /\ pc' = "main" /\ args' = Tail(args) /\ start' = HeaderSize
  <2>1. Leaves
    BY <1>1, <1>3 DEF Leaves, Running
  <2>2. FormatSet
    BY <1>1, <1>3 DEF FormatSet, Reading
  <2> QED BY <1>1, <2>1, <2>2 DEF Between
<1> QED
  BY <1>1, <1>2, <1>3 DEF nextLog

\* readError, endOfData and localEnd.
LEMMA EndKind ==
    ASSUME Base, Reading, readError \/ endOfData \/ localEnd
    PROVE  Between \/ Ends
<1>0. Running /\ Types /\ RunTypes /\ PlaceInv
  BY DEF Running, Base, Types
<1>1. CASE readError
  <2>1. pc = "remote" /\ leave("ERROR_STOP") /\ pc' = "exit"
    BY <1>1 DEF readError, leave, nextLog
  <2> QED BY <1>0, <2>1, LeaveKind DEF Running, Reading
<1>2. CASE endOfData
  <2>1. pc = "remote" /\ ~HasPacket /\ leave("OK_CONTINUE")
    BY <1>2 DEF endOfData
  <2>2. served.ph = "log" /\ ~InLog
    BY <2>1 DEF HasPacket
  <2>3. Running' => served.log = Head(args)
    <3>1. Running' => Len(args) > 1
      BY <2>1 DEF leave, nextLog, Running, Reading
    <3>2. Len(args) > 1 => ~Follows
      BY FirstArg, <1>0 DEF Base, ArgsInv, Running
    <3> QED BY <1>0, <3>1, <3>2, <2>2 DEF PlaceInv
  <2> QED BY <1>0, <2>1, <2>2, <2>3, LeaveKind
<1>3. CASE localEnd
  <2>1. pc = "local" /\ served.ph = "log" /\ served.log = Head(args)
    BY <1>0, <1>3 DEF localEnd, PlaceInv
  <2>2. CASE ~InLog /\ leave("OK_CONTINUE")
    BY <1>0, <2>1, <2>2, LeaveKind
  <2>3. CASE InLog /\ LogEvents(served.log)[1].end /\ leave("OK_CONTINUE")
    <3>1. served.log = Len(logs)
      <4>1. served.log \in 1 .. Len(logs) /\ Len(logs) \in Nat /\ served.log \in Nat
        BY <1>0, TheLogs DEF Types, PlaceTypes
      <4>2. LogEvents(served.log) # <<>>
        BY <1>0, <2>3, TheEvents DEF InLog
      <4>3. served.log < Len(logs) /\ LogEvents(served.log) # <<>> => ~LogEvents(served.log)[1].end
        BY <1>0, <4>1, TheLogs DEF ServerLogs, LogEvents
      <4> QED BY <2>3, <4>1, <4>2, <4>3
    <3>2. ~(Len(args) > 1)
      <4>1. Len(args) > 1 => Head(args) + 1 \in DOMAIN logs
        BY <1>0, FirstArg DEF Running
      <4> QED BY <1>0, <2>1, <3>1, <4>1, TheLogs
    <3>3. pc' = "exit"
      BY <2>3, <3>2 DEF leave, nextLog
    <3> QED BY <1>0, <2>3, <3>3, LeaveKind DEF Running, Reading
  <2>4. CASE leave("ERROR_STOP")
    <3>1. pc' = "exit"
      BY <2>4 DEF leave, nextLog
    <3> QED BY <1>0, <2>4, <3>1, LeaveKind DEF Running, Reading
  <2> QED BY <1>3, <2>2, <2>3, <2>4 DEF localEnd
<1> QED
  BY <1>1, <1>2, <1>3

\* connectRemote and check_header.
LEMMA OpenKind ==
    ASSUME Base, pc = "main", NEW io \in BOOLEAN, NEW ret, connectRemote(io) \/ check_header(io, ret)
    PROVE  Between \/ Ends
<1>1. CASE \E r : leave(r) /\ r # "OK_CONTINUE"
  <2>1. PICK r : leave(r) /\ r # "OK_CONTINUE"
    BY <1>1
  <2>2. pc' = "exit" /\ Running
    BY <2>1 DEF leave, nextLog, Running
  <2> QED BY <2>1, <2>2, LeaveKind DEF Running, Reading
<1>2. ASSUME pc' \in {"remote", "header", "local"}, UNCHANGED <<args, start, out, missed, sought, cur, runVars, loadVars, saveVars>>,
             served'.log = Head(args), served'.idx = start, served'.ph = "rotate" <=> opt.remote,
             caches' = <<>>, ignored' = {}, logs[Head(args)].ver # 1 => glob' >= 3
      PROVE  Between
  <2>1. UNCHANGED <<logs, opt, from, sought, out, missed, names, dir, evpos, npfp, disk>>
    BY <1>2 DEF runVars, loadVars, saveVars
  <2>2. Stays
    BY <1>2 DEF Stays, Reading, Here
  <2>3. FormatSet
    <3>1. Head(args) \in DOMAIN logs
      BY FirstArg
    <3> QED BY <1>2, <3>1 DEF FormatSet
  <2> QED BY <1>2, <2>1, <2>2, <2>3 DEF Between
<1>3. CASE connectRemote(io)
  <2>1. CASE io
    <3>1. /\ pc' = "remote" /\ opt.remote /\ served' = [log |-> Head(args), idx |-> start, ph |-> "rotate"]
          /\ caches' = <<>> /\ ignored' = {} /\ UNCHANGED <<args, start, out, missed, sought, cur, runVars, loadVars, saveVars>>
          /\ logs[Head(args)].ver # 1 => glob' = 3
      BY <1>3, <2>1 DEF connectRemote, freshPrintInfo
    <3> QED BY <1>2, <3>1
  <2> QED BY <1>1, <1>3, <2>1 DEF connectRemote
<1>4. CASE check_header(io, ret)
  <2>1. CASE io /\ LogEvents(Head(args)) # <<>>
    <3>1. /\ pc' \in {"header", "local"} /\ ~opt.remote /\ served' = [log |-> Head(args), idx |-> start, ph |-> "log"]
          /\ caches' = <<>> /\ ignored' = {} /\ UNCHANGED <<args, start, out, missed, sought, cur, runVars, loadVars, saveVars>>
          /\ logs[Head(args)].ver # 1 => glob' = 3 \/ (glob' = logs[Head(args)].ver /\ logs[Head(args)].ver > 3)
      BY <1>4, <2>1 DEF check_header, freshPrintInfo
    <3>2. logs[Head(args)].ver \in Nat
      <4>1. RunTypes /\ Head(args) \in DOMAIN logs
        BY FirstArg DEF Base, Types
      <4>2. logs[Head(args)].ver \in {1, 3, 4}
        BY <4>1, TheLogs
      <4> QED BY <4>2
    <3> QED BY <1>2, <3>1, <3>2
  <2>2. CASE ~(io /\ LogEvents(Head(args)) # <<>>)
    <3>1. leave("ERROR_STOP")
      BY <1>4, <2>2 DEF check_header
    <3> QED BY <1>1, <3>1
  <2> QED BY <2>1, <2>2
<1> QED
  BY <1>3, <1>4
\* A fake Rotate without --to-last-log, and a Rotate of the log that counts
\* as one because its timestamp is 0.
LEMMA SkipKind ==
    ASSUME Base, CacheInv, skipFakeRotate
    PROVE  Between \/ Ends
<1>1. /\ pc = "remote" /\ HasPacket /\ FakeRotate /\ ~opt.toLast /\ cur' = Packet.to
      /\ IF Packet.to = Head(args) THEN Advance /\ UNCHANGED <<pc, args, start>>
         ELSE nextLog("OK_CONTINUE") /\ UNCHANGED served
      /\ UNCHANGED <<logs, opt, from, sought, out, missed, caches, ignored, names, dir, evpos, npfp, disk, glob>>
  BY DEF skipFakeRotate, runVars, printVars, loadVars, saveVars
<1>2. /\ Types /\ RunTypes /\ Reading /\ opt.remote /\ ~Follows /\ Running
      /\ served.log = Head(args) \/ (served.log = Head(args) + 1 /\ served.ph = "rotate" /\ served.idx = HeaderSize)
      /\ served.log \in DOMAIN logs /\ served.log \in Nat /\ Head(args) \in Nat /\ served.idx \in Nat
  <2>1. /\ Types /\ RunTypes /\ Reading /\ ~Follows /\ Running /\ PlaceInv
        /\ served.log \in DOMAIN logs /\ served.idx \in Nat
    BY <1>1 DEF Base, Types, PlaceTypes, Reading, Running, Follows
  <2>2. /\ opt.remote
        /\ served.log = Head(args) \/ (served.log = Head(args) + 1 /\ served.ph = "rotate" /\ served.idx = HeaderSize)
    BY <1>1, <2>1 DEF PlaceInv
  <2>3. served.log \in Nat /\ Head(args) \in Nat
    BY <2>1, TheLogs, FirstArg
  <2> QED BY <2>1, <2>2, <2>3
<1>3. \/ served.ph = "rotate" /\ Packet.to = served.log
      \/ /\ served.ph = "log" /\ InLog /\ LogEvents(served.log)[served.idx].t = "rotate"
         /\ Packet.to = served.log + 1
  <2>1. CASE served.ph = "rotate"
    BY <1>1, <1>2, <2>1, ThePacket, FakeTyped
  <2>2. CASE served.ph = "fd"
    BY <1>1, <1>2, <2>2, ThePacket, FakeTyped DEF FakeRotate
  <2>3. CASE served.ph = "log"
    <3>1. InLog /\ Packet = Event(served.log, served.idx)
      BY <1>1, <1>2, <2>3, ThePacket
    <3>2. /\ Packet.t = LogEvents(served.log)[served.idx].t /\ Packet.to = served.log + 1
      BY <1>2, <3>1, EventParts DEF InLog
    <3> QED BY <1>1, <2>3, <3>1, <3>2 DEF FakeRotate
  <2> QED BY <1>1, <1>2, <2>1, <2>2, <2>3, ThePacket
<1>4. ~Waiting /\ caches = <<>>
  <2>1. served.ph # "log" => ~Waiting
    BY <1>2 DEF CacheInv
  <2>2. served.ph = "log" => ~Waiting
    BY <1>2, <1>3, NothingWaits
  <2> QED BY <2>1, <2>2 DEF Waiting
<1>5. CASE Packet.to = Head(args)
  <2>1. Advance /\ UNCHANGED <<pc, args, start>> /\ served.ph = "rotate" /\ served.log = Head(args)
    BY <1>1, <1>2, <1>3, <1>5
  <2>2. served'.log = served.log /\ served'.idx = served.idx /\ served'.ph # "rotate"
    BY <1>1, <1>2, <2>1, AdvanceTo
  <2>3. Here' = Here /\ served'.log = Here[1]
    BY <1>1, <2>1, <2>2 DEF Here
  <2>4. Stays
    BY <1>1, <1>2, <1>3, <1>4, <2>1, <2>2, <2>3 DEF Stays, Reading
  <2>5. FormatSet
    BY <1>1 DEF FormatSet
  <2> QED BY <1>1, <2>4, <2>5 DEF Between
<1>6. CASE Packet.to # Head(args)
  <2>1. nextLog("OK_CONTINUE") /\ UNCHANGED served
    BY <1>1, <1>6
  <2>2. CASE pc' = "exit"
    BY <1>1, <2>2 DEF Ends, Running, Reading, ResultCut
  <2>3. CASE Len(args) > 1 /\ pc' = "main" /\ args' = Tail(args) /\ start' = HeaderSize
    <3>1. Leaves
      BY <1>2, <1>3, <1>4, <1>6, <2>3 DEF Leaves
    <3>2. FormatSet
      BY <1>1 DEF FormatSet
    <3> QED BY <1>1, <3>1, <3>2 DEF Between
  <2> QED BY <2>1, <2>2, <2>3 DEF nextLog
<1> QED
  BY <1>5, <1>6

\* The file of a 3.23 LOAD DATA has no id of a LOAD DATA in its name.
LEMMA PrepareKind ==
    ASSUME Base, CacheInv, prepare_new_file_for_old_format
    PROVE  Between \/ Ends
<1>1. pc = "remote" /\ HasPacket /\ OldFormat(Packet) /\ Running /\ Reading
  BY DEF prepare_new_file_for_old_format, Running, Reading
<1>2. CASE leave("ERROR_STOP")
  <2>1. pc' = "exit"
    BY <1>2 DEF leave, nextLog
  <2> QED BY <1>1, <1>2, <2>1, LeaveKind DEF Running, Reading
<1>3. ASSUME NEW v \in 0 .. Versions - 1, dir' = Stored(<<NoName, v>>, <<>>), pc' = "old",
             UNCHANGED <<args, start, served, sought, cur, names, glob, runVars, printVars, saveVars>>
      PROVE  Between
  <2>1. UNCHANGED <<logs, opt, from, sought, out, missed, caches, ignored, names, evpos, npfp, disk>> /\ Types /\ FileTypes
    BY <1>3 DEF runVars, printVars, saveVars, Base, Types, PrintTypes
  <2>2. DOMAIN dir \subseteq DOMAIN dir'
    BY <1>3 DEF Stored
  <2>3. ASSUME NEW f \in DOMAIN dir, f[1] # NoName
        PROVE  dir'[f] = dir[f]
    <3>1. f # <<NoName, v>>
      BY <2>3
    <3> QED BY <1>3, <3>1 DEF Stored
  <2>4. served.ph = "log" /\ InLog /\ Packet = Event(served.log, served.idx) /\ Packet.t \in {"load", "create"}
    BY <1>1, <2>1, ThePacket, FakeTyped DEF OldFormat
  <2>5. LogEvents(served.log)[served.idx].t \in {"load", "create"}
    BY <2>1, <2>4, EventParts DEF InLog, Types, PlaceTypes
  <2>6. ~Waiting
    BY <1>1, <2>4, <2>5, NothingWaits
  <2>7. Stays
    BY <1>1, <1>3, <2>4, <2>6 DEF Stays, Reading, Here
  <2>8. FormatSet
    BY <1>1, <1>3 DEF FormatSet
  <2> QED BY <2>1, <2>2, <2>3, <2>7, <2>8 DEF Between
<1> QED
  BY <1>2, <1>3 DEF prepare_new_file_for_old_format

\* Its content is fetched, and the event lies behind the reader.
LEMMA FetchKind ==
    ASSUME Base, CacheInv, NEW io \in BOOLEAN, load_old_format_file(io)
    PROVE  Between \/ Ends
<1>1. pc = "fetch" /\ Running /\ Reading
  BY DEF load_old_format_file, Running, Reading
<1>2. CASE leave("ERROR_STOP")
  <2>1. pc' = "exit"
    BY <1>2 DEF leave, nextLog
  <2> QED BY <1>1, <1>2, <2>1, LeaveKind DEF Running, Reading
<1>3. ASSUME NEW m, dir' = [dir EXCEPT ![<<NoName, m>>] = Append(@, Place(Packet))], pc' = "remote", Advance,
             UNCHANGED <<args, start, sought, cur, names, glob, runVars, printVars, saveVars>>
      PROVE  Between
  <2>1. UNCHANGED <<logs, opt, from, sought, out, missed, caches, ignored, names, evpos, npfp, disk>> /\ Types /\ FileTypes /\ RunTypes
    BY <1>3 DEF runVars, printVars, saveVars, Base, Types, PrintTypes
  <2>2. DOMAIN dir \subseteq DOMAIN dir'
    BY <1>3
  <2>3. ASSUME NEW f \in DOMAIN dir, f[1] # NoName
        PROVE  dir'[f] = dir[f]
    <3>1. f # <<NoName, m>>
      BY <2>3
    <3> QED BY <1>3, <3>1
  <2>4. served.ph = "log" /\ InLog /\ LogEvents(served.log)[served.idx].t \in {"load", "create"} /\ HasPacket
    BY <1>1 DEF Base, PlaceInv, HasPacket
  <2>5. Packet.t \in {"load", "create"}
    BY <2>1, <2>4, EventParts DEF InLog, Types, PlaceTypes, Packet
  <2>6. served'.log = served.log /\ served'.idx = served.idx + 1 /\ served'.ph = "log"
    BY <2>1, <2>4, <2>5, <1>3, AdvanceTo
  <2>7. ~Waiting
    BY <1>1 DEF CacheInv
  <2>8. Here' = Here /\ Here[1] = served.log
    BY <1>1, <1>3, <2>6 DEF Here
  <2>9. Stays
    BY <1>1, <1>3, <2>4, <2>6, <2>7, <2>8 DEF Stays, Reading
  <2>10. FormatSet
    BY <1>1, <1>3 DEF FormatSet
  <2> QED BY <2>1, <2>2, <2>3, <2>9, <2>10 DEF Between
<1> QED
  BY <1>2, <1>3 DEF load_old_format_file

\* An event from the server.
LEMMA RemoteKind ==
    ASSUME Base, CacheInv, NEW io \in BOOLEAN, NEW ret, remoteEvent(io, ret)
    PROVE  \/ Ends
           \/ \E n \in DOMAIN logs : \E i \in DOMAIN LogEvents(n) : Passes(n, i)
           \/ \E ev \in Packets : Repeats(ev)
<1>1. /\ pc = "remote" /\ HasPacket /\ cur' = nameOf(Packet) /\ process_event(Packet, off, io, ret)
      /\ UNCHANGED <<logs, opt, from>>
      /\ IF ret = "OK_CONTINUE" THEN Advance /\ UNCHANGED <<pc, args, start>>
         ELSE nextLog(ret) /\ UNCHANGED served
  BY DEF remoteEvent, runVars
<1>2. Types /\ RunTypes /\ Reading /\ Packet \in Packets /\ opt.remote /\ IdOK(Packet) /\ OfLog(Packet)
  BY <1>1, ThePacket DEF Base, Types, Reading, PlaceInv
<1>3. CASE ret # "OK_CONTINUE"
  <2>1. ~Running'
    BY <1>1, <1>3 DEF nextLog, Running, Reading
  <2>2. Fails(Packet)
    BY <1>1, <1>3 DEF Fails
  <2> QED BY <1>1, <1>2, <2>1, <2>2 DEF Ends
<1>4. CASE ret = "OK_CONTINUE"
  <2>1. Deals(Packet) /\ Advance /\ UNCHANGED <<pc, args, start>> /\ pc' = "remote" /\ Reading'
    BY <1>1, <1>4 DEF Deals, Reading
  <2>2. CASE served.ph = "rotate"
    <3>1. Packet = Fake("rotate") /\ cur' = served.log
      BY <1>1, <1>2, <2>2, ThePacket, FakeTyped DEF nameOf
    <3>2. served'.ph # "rotate" /\ served'.log = served.log /\ served'.idx = served.idx
      BY <1>1, <1>2, <2>1, <2>2, AdvanceTo
    <3>3. Here' = Here
      BY <1>1, <2>1, <3>2 DEF Here
    <3>4. Repeats(Packet)
      BY <1>1, <1>2, <2>1, <2>2, <3>1, <3>2, <3>3 DEF Repeats
    <3> QED BY <1>2, <3>4
  <2>3. CASE served.ph = "fd"
    <3>1. Packet = Fake("fd") /\ Packet.t = "fd" /\ Packet.log = served.log /\ Packet.ver = logs[served.log].ver
      BY <1>1, <1>2, <2>3, ThePacket, FakeTyped
    <3>2. served'.log = served.log /\ served'.idx = served.idx /\ served'.ph = "log"
      <4>1. served' = [served EXCEPT !.ph = "log"]
        BY <2>1, <2>3 DEF Advance
      <4> QED BY <4>1, <1>2 DEF Types, PlaceTypes
    <3>3. Here' = Here /\ cur' = cur
      BY <1>1, <2>1, <3>1, <3>2 DEF Here, nameOf
    <3>4. Repeats(Packet)
      BY <1>1, <1>2, <2>1, <2>3, <3>1, <3>2, <3>3 DEF Repeats
    <3> QED BY <1>2, <3>4
  <2>4. CASE served.ph = "log"
    <3>1. InLog /\ Packet = Event(served.log, served.idx)
      BY <1>1, <1>2, <2>4, ThePacket
    <3>2. PICK n \in DOMAIN logs : served.log = n
      BY <1>2 DEF Types, PlaceTypes
    <3>3. PICK i \in DOMAIN LogEvents(n) : served.idx = i
      BY <3>1, <3>2 DEF InLog
    <3>4. /\ Packet.t = LogEvents(n)[i].t /\ Packet.to = n + 1
      BY <1>2, <3>1, <3>2, <3>3, EventParts
    <3>5. \/ served'.log = n /\ served'.idx = i + 1 /\ served'.ph = "log" /\ Packet.t # "rotate"
          \/ /\ served'.log = n + 1 /\ served'.idx = HeaderSize /\ served'.ph = "rotate"
             /\ i = Len(LogEvents(n)) /\ Packet.t = "rotate"
      BY <1>1, <1>2, <2>1, <2>4, <3>2, <3>3, AdvanceTo
    <3>6. /\ Here = <<n, i>>
          /\ \/ /\ Here' = <<n, i + 1>> /\ served'.log = n /\ served'.ph = "log"
                /\ LogEvents(n)[i].t # "rotate"
             \/ /\ Here' = <<n + 1, HeaderSize>> /\ served'.log = n + 1 /\ served'.ph = "rotate"
                /\ i = Len(LogEvents(n)) /\ LogEvents(n)[i].t = "rotate"
      BY <1>1, <2>1, <3>2, <3>3, <3>4, <3>5 DEF Here
    <3>7. cur' = IF LogEvents(n)[i].t = "rotate" THEN n + 1 ELSE cur
      BY <1>1, <3>4 DEF nameOf
    <3>8. Deals(Event(n, i))
      BY <2>1, <3>1, <3>2, <3>3
    <3>9. Passes(n, i)
      BY <1>1, <1>2, <2>1, <2>4, <3>2, <3>3, <3>6, <3>7, <3>8 DEF Passes
    <3> QED BY <3>9
  <2>5. served.ph \in {"rotate", "fd", "log"}
    BY <1>2 DEF Types, PlaceTypes
  <2> QED BY <2>2, <2>3, <2>4, <2>5
<1> QED
  BY <1>3, <1>4
\* The event of a 3.23 LOAD DATA.
LEMMA OldKind ==
    ASSUME Base, NEW io \in BOOLEAN, NEW ret, remoteOldEvent(io, ret)
    PROVE  \/ Ends
           \/ \E n \in DOMAIN logs : \E i \in DOMAIN LogEvents(n) : Passes(n, i)
<1>1. /\ pc = "old" /\ UNCHANGED <<cur, served, logs, opt, from>> /\ process_event(Packet, off, io, ret)
      /\ IF ret = "OK_CONTINUE" THEN pc' = "fetch" /\ UNCHANGED <<args, start>> ELSE nextLog(ret)
  BY DEF remoteOldEvent, runVars
<1>2. /\ Types /\ RunTypes /\ Reading /\ opt.remote /\ served.ph = "log" /\ InLog /\ HasPacket
      /\ LogEvents(served.log)[served.idx].t \in {"load", "create"}
  BY <1>1 DEF Base, Types, Reading, PlaceInv, HasPacket
<1>3. Packet \in Packets /\ IdOK(Packet) /\ OfLog(Packet) /\ Packet = Event(served.log, served.idx)
  BY <1>2, ThePacket
<1>4. CASE ret # "OK_CONTINUE"
  <2>1. ~Running'
    BY <1>1, <1>4 DEF nextLog, Running, Reading
  <2>2. Fails(Packet)
    BY <1>1, <1>4 DEF Fails
  <2> QED BY <1>1, <1>2, <1>3, <2>1, <2>2 DEF Ends
<1>5. CASE ret = "OK_CONTINUE"
  <2>1. PICK n \in DOMAIN logs : served.log = n
    BY <1>2 DEF Types, PlaceTypes
  <2>2. PICK i \in DOMAIN LogEvents(n) : served.idx = i
    BY <1>2, <2>1 DEF InLog
  <2>3. Deals(Event(n, i)) /\ pc' = "fetch"
    BY <1>1, <1>3, <1>5, <2>1, <2>2 DEF Deals
  <2>4. Here = <<n, i>> /\ Here' = <<n, i + 1>>
    BY <1>1, <2>1, <2>2, <2>3 DEF Here
  <2>5. Passes(n, i)
    BY <1>1, <1>2, <1>5, <2>1, <2>2, <2>3, <2>4 DEF Passes, Reading
  <2> QED BY <2>5
<1> QED
  BY <1>4, <1>5

\* The Format_description that check_header finds.
LEMMA HeaderKind ==
    ASSUME Base, NEW io \in BOOLEAN, NEW ret, headerEvent(io, ret)
    PROVE  Ends \/ \E ev \in Packets : Repeats(ev)
<1> DEFINE ev == Event(served.log, HeaderSize)
<1>1. /\ pc = "header" /\ UNCHANGED <<cur, served, logs, opt, from>> /\ process_event(ev, HeaderSize, io, ret)
      /\ IF ret = "OK_CONTINUE" THEN pc' = "local" /\ UNCHANGED <<args, start>> ELSE nextLog(ret)
  BY DEF headerEvent, runVars
<1>2. /\ Types /\ RunTypes /\ Reading /\ ~opt.remote /\ served.ph = "log" /\ served.log \in DOMAIN logs
      /\ logs[served.log].ver > 3 /\ LogEvents(served.log) # <<>>
  BY <1>1 DEF Base, Types, Reading, PlaceInv, PlaceTypes
<1>3. HeaderSize \in DOMAIN LogEvents(served.log) /\ HeaderSize = 1
  BY <1>2, TheLogs DEF HeaderSize
<1>4. ev \in Packets /\ IdOK(ev) /\ ev.t = "fd" /\ ev.log = served.log /\ ev.ver = logs[served.log].ver
  BY <1>2, <1>3, TheEvents, EventParts, EventShape
<1>5. CASE ret # "OK_CONTINUE"
  <2>1. ~Running'
    BY <1>1, <1>5 DEF nextLog, Running, Reading
  <2> HIDE DEF ev
  <2>2. Fails(ev)
    BY <1>1, <1>5 DEF Fails
  <2>3. OfLog(ev)
    BY <1>2, <1>3, EventParts DEF OfLog, ev
  <2> QED BY <1>1, <1>2, <1>4, <2>1, <2>2, <2>3 DEF Ends
<1>6. CASE ret = "OK_CONTINUE"
  <2>1. Deals(ev) /\ pc' = "local"
    BY <1>1, <1>6 DEF Deals
  <2>2. Here' = Here
    BY <1>1, <2>1 DEF Here
  <2> HIDE DEF ev
  <2>3. Repeats(ev)
    BY <1>1, <1>2, <1>4, <1>6, <2>1, <2>2 DEF Repeats, Reading
  <2> QED BY <1>4, <2>3
<1> QED
  BY <1>5, <1>6

\* An event from a file.
LEMMA LocalKind ==
    ASSUME Base, NEW io \in BOOLEAN, NEW ret, localEvent(io, ret)
    PROVE  \/ Ends
           \/ \E n \in DOMAIN logs : \E i \in DOMAIN LogEvents(n) : Passes(n, i)
<1>1. /\ pc = "local" /\ InLog /\ UNCHANGED <<cur, logs, opt, from>>
      /\ process_event(Event(served.log, served.idx), served.idx, io, ret)
      /\ IF ret = "OK_CONTINUE" THEN served' = [served EXCEPT !.idx = @ + 1] /\ UNCHANGED <<pc, args, start>>
         ELSE nextLog(ret) /\ UNCHANGED served
  BY DEF localEvent, runVars
<1>2. /\ Types /\ RunTypes /\ Reading /\ ~opt.remote /\ served.ph = "log"
      /\ served \in [log : DOMAIN logs, idx : Nat \ {0}, ph : {"rotate", "fd", "log"}]
  BY <1>1 DEF Base, Types, Reading, PlaceInv, PlaceTypes
<1>3. PICK n \in DOMAIN logs : served.log = n
  BY <1>2
<1>4. PICK i \in DOMAIN LogEvents(n) : served.idx = i
  BY <1>1, <1>3 DEF InLog
<1>5. Event(n, i) \in Packets /\ IdOK(Event(n, i)) /\ process_event(Event(n, i), served.idx, io, ret)
  BY <1>1, <1>2, <1>3, <1>4, TheEvents, EventShape
<1>6. CASE ret # "OK_CONTINUE"
  <2>1. ~Running'
    BY <1>1, <1>6 DEF nextLog, Running, Reading
  <2>2. Fails(Event(n, i))
    BY <1>5, <1>6 DEF Fails
  <2>3. OfLog(Event(n, i))
    BY <1>2, EventParts DEF OfLog
  <2> QED BY <1>1, <1>2, <1>5, <2>1, <2>2, <2>3 DEF Ends
<1>7. CASE ret = "OK_CONTINUE"
  <2>1. /\ Deals(Event(n, i)) /\ pc' = "local" /\ UNCHANGED <<args, start>>
        /\ served'.log = n /\ served'.idx = i + 1 /\ served'.ph = "log"
    BY <1>1, <1>2, <1>3, <1>4, <1>5, <1>7 DEF Deals
  <2>2. Here = <<n, i>> /\ Here' = <<n, i + 1>>
    BY <1>1, <1>3, <1>4, <2>1 DEF Here
  <2>3. Passes(n, i)
    BY <1>1, <1>2, <1>3, <1>4, <1>7, <2>1, <2>2 DEF Passes, Reading
  <2> QED BY <2>3
<1> QED
  BY <1>6, <1>7

\* The steps of a run, and those between two runs.
LEMMA RunSteps ==
    ASSUME Base, CacheInv, Running, binlogNext
    PROVE  \/ Ends \/ Between
           \/ \E n \in DOMAIN logs : \E i \in DOMAIN LogEvents(n) : Passes(n, i)
           \/ \E ev \in Packets : Repeats(ev)
<1>1. ~mainProgram /\ ~exitProgram
  BY DEF mainProgram, exitProgram, Running, Reading
<1>2. CASE crash
  <2>1. pc' = "idle" /\ UNCHANGED <<logs, opt, from, evpos, npfp, disk>>
    BY <1>2 DEF crash, runVars, saveVars
  <2>2. ResultCut
    BY <1>2, HaltCuts DEF Base, Types, PrintTypes
  <2> QED BY <2>1, <2>2 DEF Ends, Running, Reading
<1>3. CASE readError \/ endOfData \/ localEnd
  <2>1. Reading
    BY <1>3 DEF readError, endOfData, localEnd, Reading
  <2> QED BY <1>3, <2>1, EndKind
<1>4. CASE skipFakeRotate \/ prepare_new_file_for_old_format
  BY <1>4, SkipKind, PrepareKind
<1>5. ASSUME NEW io \in BOOLEAN, connectRemote(io) \/ load_old_format_file(io)
      PROVE  Ends \/ Between
  BY <1>5, OpenKind, FetchKind DEF connectRemote
<1>6. ASSUME NEW io \in BOOLEAN, NEW ret, check_header(io, ret)
      PROVE  Ends \/ Between
  BY <1>6, OpenKind DEF check_header
<1>7. ASSUME NEW io \in BOOLEAN, NEW ret,
             remoteEvent(io, ret) \/ remoteOldEvent(io, ret) \/ headerEvent(io, ret) \/ localEvent(io, ret)
      PROVE  \/ Ends
             \/ \E n \in DOMAIN logs : \E i \in DOMAIN LogEvents(n) : Passes(n, i)
             \/ \E ev \in Packets : Repeats(ev)
  BY <1>7, RemoteKind, OldKind, HeaderKind, LocalKind
<1> QED
  BY <1>1, <1>2, <1>3, <1>4, <1>5, <1>6, <1>7 DEF binlogNext

\* The end of a run writes out what the buffers held, or less.
LEMMA OtherSteps ==
    ASSUME Base, ~Running, binlogNext, ~mainProgram
    PROVE  /\ ~Running' /\ ResultCut /\ UNCHANGED <<logs, opt, from, evpos, npfp>>
           /\ disk' = disk \/ (npfp # NoName /\ disk' = npfp)
<1>1. exitProgram \/ crash
  <2>1. ~readError /\ ~endOfData /\ ~localEnd /\ ~skipFakeRotate /\ ~prepare_new_file_for_old_format
    BY DEF readError, endOfData, localEnd, skipFakeRotate, prepare_new_file_for_old_format, Running, Reading
  <2>2. ASSUME NEW io \in BOOLEAN, NEW ret
        PROVE  ~connectRemote(io) /\ ~load_old_format_file(io) /\ ~check_header(io, ret)
               /\ ~remoteOldEvent(io, ret) /\ ~headerEvent(io, ret) /\ ~remoteEvent(io, ret) /\ ~localEvent(io, ret)
    BY DEF connectRemote, load_old_format_file, check_header, remoteOldEvent, headerEvent, remoteEvent,
           localEvent, Running, Reading
  <2> QED BY <2>1, <2>2 DEF binlogNext
<1>2. ResultCut
  BY <1>1, HaltCuts DEF Base, Types, PrintTypes
<1> QED
  BY <1>1, <1>2 DEF exitProgram, crash, runVars, saveVars, Running, Reading
(***************************************************************************)
(* Which events lie behind the reader after a step.                        *)
(***************************************************************************)
LEMMA HereTyped ==
    ASSUME Base, Running
    PROVE  /\ Here \in Nat \X (Nat \ {0}) /\ Here[1] \in DOMAIN logs
           /\ from \in Nat \X (Nat \ {0}) /\ from[1] \in DOMAIN logs
           /\ Head(args) \in Nat /\ served.log \in Nat /\ served.idx \in Nat \ {0}
<1>1. RunTypes /\ PlaceTypes
  BY DEF Base, Types
<1>2. /\ from \in (DOMAIN logs) \X (Nat \ {0}) /\ start \in Nat \ {0} /\ served.log \in DOMAIN logs
      /\ served.idx \in Nat \ {0}
  BY <1>1 DEF RunTypes, PlaceTypes
<1>3. DOMAIN logs \subseteq Nat
  BY <1>1, TheLogs
<1>4. Head(args) \in DOMAIN logs
  BY FirstArg DEF Running
<1>5. CASE pc = "main"
  <2>1. Here = <<Head(args), start>>
    BY <1>5 DEF Here
  <2> QED BY <1>2, <1>3, <1>4, <2>1
<1>6. CASE pc = "fetch"
  <2>1. Here = <<served.log, served.idx + 1>>
    BY <1>6 DEF Here
  <2> QED BY <1>2, <1>3, <1>4, <2>1
<1>7. CASE pc # "main" /\ pc # "fetch"
  <2>1. Here = <<served.log, served.idx>>
    BY <1>7 DEF Here
  <2> QED BY <1>2, <1>3, <1>4, <2>1
<1> QED
  BY <1>5, <1>6, <1>7

\* The event that is dealt with lies behind the reader, and no other does in addition.
LEMMA PassesBehind ==
    ASSUME Base, NEW n \in DOMAIN logs, NEW i \in DOMAIN LogEvents(n), Passes(n, i),
           NEW m \in DOMAIN logs, NEW k \in DOMAIN LogEvents(m)
    PROVE  Behind(m, k)' <=> Behind(m, k) \/ (m = n /\ k = i)
<1>1. /\ m \in Nat /\ n \in Nat /\ k \in Nat \ {0} /\ i \in Nat \ {0} /\ k <= Len(LogEvents(m))
      /\ Len(LogEvents(m)) \in Nat
  BY TheLogs, TheEvents DEF Base, Types
<1>2. Behind(m, k) <=> m < n \/ (m = n /\ k < i)
  BY <1>1 DEF Passes, Behind, Before
<1>3. CASE Here' = <<n, i + 1>>
  <2>1. Behind(m, k)' <=> m < n \/ (m = n /\ k < i + 1)
    BY <1>1, <1>3 DEF Behind, Before
  <2> QED BY <1>1, <1>2, <2>1
<1>4. CASE Here' = <<n + 1, HeaderSize>> /\ i = Len(LogEvents(n))
  <2>1. Behind(m, k)' <=> m < n + 1 \/ (m = n + 1 /\ k < 1)
    BY <1>1, <1>4 DEF Behind, Before, HeaderSize
  <2> QED BY <1>1, <1>2, <1>4, <2>1
<1> QED
  BY <1>3, <1>4 DEF Passes

\* main goes to the beginning of the log behind its own.
LEMMA LeavesTo ==
    ASSUME Base, Leaves
    PROVE  Here' = <<Head(args) + 1, HeaderSize>> /\ Head(args') = Head(args) + 1
<1>1. Head(args') = Head(args) + 1
  BY FirstArg DEF Leaves
<1> QED
  BY <1>1 DEF Leaves, Here

\* The reader that returns was not between an event and the content of its file.
LEMMA LeavesPlace ==
    ASSUME Base, Leaves
    PROVE  Here = <<served.log, served.idx>>
<1>1. CASE pc # "fetch"
  BY <1>1 DEF Leaves, Here, Reading
<1>2. CASE pc = "fetch"
  BY <1>2 DEF Leaves, Base, PlaceInv, Reading
<1> QED
  BY <1>1, <1>2

\* Without an event at most a Rotate is left behind.
LEMMA BetweenBehind ==
    ASSUME Base, Running, Between, NEW m \in DOMAIN logs, NEW k \in DOMAIN LogEvents(m)
    PROVE  /\ Behind(m, k) => Behind(m, k)'
           /\ Behind(m, k)' /\ ~Behind(m, k) => LogEvents(m)[k].t = "rotate"
<1>1. /\ m \in Nat /\ k \in Nat \ {0} /\ k <= Len(LogEvents(m)) /\ Len(LogEvents(m)) \in Nat
      /\ RunTypes
  BY TheLogs, TheEvents DEF Base, Types
<1>2. CASE Stays
  BY <1>2 DEF Stays, Behind
<1>3. CASE Leaves
  <2>1. /\ Head(args) \in Nat /\ served.log \in Nat /\ served.idx \in Nat \ {0} /\ served.log \in DOMAIN logs
    BY HereTyped DEF Base, Types, PlaceTypes
  <2>2. Behind(m, k)' <=> m <= Head(args)
    <3>1. Here' = <<Head(args) + 1, HeaderSize>>
      BY <1>3, LeavesTo
    <3>2. Behind(m, k)' <=> m < Head(args) + 1 \/ (m = Head(args) + 1 /\ k < 1)
      BY <3>1 DEF Behind, Before, HeaderSize
    <3> QED BY <1>1, <2>1, <3>2
  <2>3. Behind(m, k) <=> m < served.log \/ (m = served.log /\ k < served.idx)
    BY <1>3, LeavesPlace DEF Behind, Before
  <2>4. CASE served.log = Head(args) + 1 /\ served.idx = HeaderSize
    BY <1>1, <2>1, <2>2, <2>3, <2>4 DEF HeaderSize
  <2>5. CASE served.log = Head(args) /\ served.ph = "log"
    <3>1. CASE ~InLog
      <4>1. m = served.log => k < served.idx
        <5>1. served.idx \notin DOMAIN LogEvents(served.log)
          BY <3>1 DEF InLog
        <5>2. DOMAIN LogEvents(served.log) = 1 .. Len(LogEvents(served.log)) /\ Len(LogEvents(served.log)) \in Nat
          BY <1>1, <2>1, TheEvents
        <5> QED BY <1>1, <2>1, <5>1, <5>2
      <4> QED BY <1>1, <2>1, <2>2, <2>3, <2>5, <4>1
    <3>2. CASE InLog
      <4>1. LogEvents(served.log)[served.idx].t = "rotate" /\ served.idx \in DOMAIN LogEvents(served.log)
        BY <1>1, <1>3, <2>1, <2>5, <3>2 DEF Leaves, InLog
      <4>2. served.idx = Len(LogEvents(served.log))
        <5>1. Event(served.log, served.idx).t = "rotate"
          BY <1>1, <2>1, <4>1, EventParts
        <5> QED BY <1>1, <2>1, <4>1, <5>1, EventShape
      <4>3. m = served.log => k < served.idx \/ k = served.idx
        BY <1>1, <2>1, <4>2
      <4> QED BY <1>1, <2>1, <2>2, <2>3, <2>5, <4>1, <4>3
    <3> QED BY <3>1, <3>2
  <2> QED BY <1>3, <2>4, <2>5 DEF Leaves
<1> QED
  BY <1>2, <1>3 DEF Between

-----------------------------------------------------------------------------
(* A run does not go back behind its start. *)

FromInv == Running => Head(args) >= from[1] /\ ~Before(Here, from)

\* A run does not go back behind its start.
LEMMA FromStep == Base /\ CacheInv /\ FromInv /\ [binlogNext]_binlogVars => FromInv'
<1> SUFFICES ASSUME Base, CacheInv, FromInv, [binlogNext]_binlogVars, Running'
             PROVE  Head(args') >= from'[1] /\ ~Before(Here', from')
  BY DEF FromInv
<1>1. CASE mainProgram
  <2>1. PICK n \in DOMAIN logs, p \in Nat \ {0}, m \in Nat \ {0} :
               args' = [k \in 1 .. m |-> n + k - 1] /\ start' = p /\ from' = <<n, p>>
    BY <1>1, MainStarts
  <2>2. n \in Nat
    BY TheLogs DEF Base, Types
  <2>3. Head(args') = n
    <3>1. args'[1] = n
      BY <2>1, <2>2
    <3> QED BY <2>1, <3>1
  <2>4. Here' = <<n, p>>
    BY <1>1, <2>1, <2>3 DEF mainProgram, Here
  <2> QED BY <2>1, <2>2, <2>3, <2>4 DEF Before
<1>2. CASE Running /\ binlogNext
  <2>0. /\ Here \in Nat \X (Nat \ {0}) /\ from \in Nat \X (Nat \ {0}) /\ Head(args) \in Nat /\ served.log \in Nat
        /\ Head(args) >= from[1] /\ ~Before(Here, from) /\ RunTypes
    BY <1>2, HereTyped DEF FromInv, Base, Types
  <2>1. CASE Stays /\ from' = from
    BY <2>0, <2>1 DEF Stays
  <2>2. CASE Leaves /\ from' = from
    <3>1. Here' = <<Head(args) + 1, HeaderSize>> /\ Head(args') = Head(args) + 1
      BY <2>2, LeavesTo
    <3> QED BY <2>0, <2>2, <3>1 DEF Before
  <2>3. ASSUME NEW n \in DOMAIN logs, NEW i \in DOMAIN LogEvents(n), Passes(n, i)
        PROVE  Head(args') >= from'[1] /\ ~Before(Here', from')
    <3>1. n \in Nat /\ i \in Nat /\ UNCHANGED <<args, from>> /\ Here = <<n, i>>
      BY <2>0, <2>3, TheLogs, TheEvents DEF Passes
    <3>2. Here' = <<n, i + 1>> \/ Here' = <<n + 1, HeaderSize>>
      BY <2>3 DEF Passes
    <3> QED BY <2>0, <3>1, <3>2 DEF Before, HeaderSize
  <2>4. ASSUME NEW ev, Repeats(ev)
        PROVE  Head(args') >= from'[1] /\ ~Before(Here', from')
    BY <2>0, <2>4 DEF Repeats
  <2>5. ~Ends
    BY DEF Ends
  <2> QED BY <1>2, <2>1, <2>2, <2>3, <2>4, <2>5, RunSteps DEF Between
<1>3. CASE ~Running /\ binlogNext /\ ~mainProgram
  BY <1>3, OtherSteps
<1>4. CASE UNCHANGED binlogVars
  BY <1>4 DEF binlogVars, runVars, FromInv, Running, Reading, Here
<1> QED
  BY <1>1, <1>2, <1>3, <1>4
-----------------------------------------------------------------------------
(* What process_event prints. *)

\* Line by line: nothing that was printed is lost; what is new is the event's
\* own line, or was in the caches.  What leaves the caches is printed or missed.
PrintsLines(ev, ret) ==
    /\ \A k \in DOMAIN out : k \in DOMAIN out' /\ out'[k] = out[k]
    /\ \A k \in DOMAIN out' :
         \/ k \in DOMAIN out
         \/ out'[k] = Line(ev) /\ (ev.t \in Single => ret = "OK_CONTINUE")
         \/ out'[k] = LoadLine(ev) /\ ev.t \in Executes /\ Grabbed(ev) /\ ret = "OK_CONTINUE"
         \/ \E c \in DOMAIN caches : out'[k] = caches[c]
    /\ \A c \in DOMAIN caches : \/ c \in DOMAIN caches' /\ caches'[c] = caches[c]
                                \/ \E k \in DOMAIN out' : out'[k] = caches[c]
                                \/ <<caches[c].log, caches[c].pos>> \in missed'
    /\ \A c \in DOMAIN caches' : \/ c \in DOMAIN caches /\ caches'[c] = caches[c]
                                 \/ caches'[c] = Line(ev) /\ Open(ev) /\ ret = "OK_CONTINUE"
    /\ missed \subseteq missed' /\ (missed' = missed \/ opt.full)

\* What process_event prints.
LEMMA EventPrints ==
    ASSUME NEW ev, NEW pos, NEW io, NEW ret, process_event(ev, pos, io, ret)
    PROVE  Prints(ev, ret)
<1>1. CASE UNCHANGED printVars
  BY <1>1 DEF Prints, printVars
<1>2. CASE ~UNCHANGED printVars
  BY <1>2, SwitchPrints DEF process_event
<1> QED
  BY <1>1, <1>2

\* A single line that is given to the result.
LEMMA OneLine ==
    ASSUME out \in Seq(Lines), NEW line \in Lines, Output(<<line>>)
    PROVE  /\ \A k \in DOMAIN out : k \in DOMAIN out' /\ out'[k] = out[k]
           /\ \A k \in DOMAIN out' : k \in DOMAIN out \/ out'[k] = line
           /\ (\E k \in DOMAIN out' : out'[k] = line) \/ <<line.log, line.pos>> \in missed'
           /\ missed \subseteq missed' /\ (missed' = missed \/ opt.full)
<1>1. <<line>> \in Seq(Lines) /\ DOMAIN <<line>> = {1} /\ <<line>>[1] = line
  OBVIOUS
<1>2. Adds(<<line>>) /\ (missed' = missed \/ opt.full)
  BY <1>1, OutputAdds
<1> QED
  BY <1>1, <1>2 DEF Adds

\* The same, line by line.
LEMMA PrintedLines ==
    ASSUME Types, NEW ev \in Packets, IdOK(ev), NEW pos, NEW io \in BOOLEAN, NEW ret, process_event(ev, pos, io, ret)
    PROVE  PrintsLines(ev, ret)
<1>1. out \in Seq(Lines) /\ caches \in Seq(Lines) /\ Line(ev) \in Lines /\ FileTypes /\ RunTypes
  BY LineTyped DEF Types, PrintTypes
<1>2. CASE UNCHANGED <<out, missed, caches>>
  BY <1>2 DEF PrintsLines
<1>3. CASE /\ Output(<<Line(ev)>>) /\ caches' = caches
           /\ ev.t \in Single => ret = "OK_CONTINUE"
  BY <1>1, <1>3, OneLine DEF PrintsLines
<1>4. CASE /\ Output(<<LoadLine(ev)>>) /\ caches' = caches /\ ev.t \in Executes /\ Grabbed(ev)
           /\ ret = "OK_CONTINUE"
  <2>1. LoadLine(ev) \in Lines
    BY <1>1, <1>4, LoadLineTyped
  <2>2. /\ \A k \in DOMAIN out : k \in DOMAIN out' /\ out'[k] = out[k]
        /\ \A k \in DOMAIN out' : k \in DOMAIN out \/ out'[k] = LoadLine(ev)
        /\ missed \subseteq missed' /\ (missed' = missed \/ opt.full)
    BY <1>1, <1>4, <2>1, OneLine
  <2> QED BY <1>4, <2>2 DEF PrintsLines
<1>5. CASE UNCHANGED <<out, missed>> /\ caches' = Append(caches, Line(ev)) /\ Open(ev) /\ ret = "OK_CONTINUE"
  BY <1>1, <1>5, Appended DEF PrintsLines
<1>6. CASE caches' = <<>> /\ Output(caches)
  <2>1. Adds(caches) /\ (missed' = missed \/ opt.full)
    BY <1>1, <1>6, OutputAdds
  <2> QED BY <1>6, <2>1 DEF PrintsLines, Adds
<1>7. CASE caches' = <<>> /\ Output(Append(caches, Line(ev))) /\ ev.t = "rows"
  <2> DEFINE all == Append(caches, Line(ev))
  <2>1. /\ all \in Seq(Lines) /\ \A c \in DOMAIN caches : c \in DOMAIN all /\ all[c] = caches[c]
        /\ \A c \in DOMAIN all : c \in DOMAIN caches \/ all[c] = Line(ev)
    BY <1>1, Appended
  <2>2. Output(all)
    BY <1>7
  <2> HIDE DEF all
  <2>3. Adds(all) /\ (missed' = missed \/ opt.full)
    BY <1>1, <2>1, <2>2, OutputAdds
  <2>4. ASSUME NEW c \in DOMAIN caches
        PROVE  (\E k \in DOMAIN out' : out'[k] = caches[c]) \/ <<caches[c].log, caches[c].pos>> \in missed'
    <3>1. c \in DOMAIN all /\ all[c] = caches[c]
      BY <2>1
    <3> QED BY <2>3, <3>1 DEF Adds
  <2>5. ASSUME NEW k \in DOMAIN out', k \notin DOMAIN out
        PROVE  out'[k] = Line(ev) \/ \E c \in DOMAIN caches : out'[k] = caches[c]
    <3>1. PICK a \in DOMAIN all : out'[k] = all[a]
      BY <2>3, <2>5 DEF Adds
    <3>2. all[a] = Line(ev) \/ (a \in DOMAIN caches /\ all[a] = caches[a])
      BY <2>1
    <3> QED BY <3>1, <3>2
  <2>6. DOMAIN caches' = {} /\ ev.t \notin Single
    BY <1>7 DEF Single
  <2> QED BY <1>7, <2>3, <2>4, <2>5, <2>6 DEF PrintsLines, Adds
<1>8. Prints(ev, ret)
  BY EventPrints
<1> QED
  BY <1>2, <1>3, <1>4, <1>5, <1>6, <1>7, <1>8 DEF Prints
-----------------------------------------------------------------------------
(***************************************************************************)
(* LoadComplete: what process_event does to the files of LOAD DATA.        *)
(***************************************************************************)
LoadKinds == Starts \cup Executes \cup {"append"}

\* A set of numbers with a member has a smallest one.
LEMMA Smallest ==
    ASSUME NEW P, P \subseteq Nat, P # {}
    PROVE  Min(P) \in P
<1> DEFINE Lower == {ss \in Nat \X Nat : ss[1] < ss[2]}
<1>1. IsWellFoundedOn(Lower, Nat)
  BY NatLessThanWellFounded, Zenon DEF OpToRel
<1>2. \A x, y \in Nat : ~(<<y, x>> \in Lower) => x <= y
  OBVIOUS
<1> HIDE DEF Lower
<1>3. PICK x \in P : \A y \in P : ~(<<y, x>> \in Lower)
  BY <1>1, WFMin, Zenon
<1>4. \A y \in P : x <= y
  BY <1>2, <1>3
<1> QED
  BY <1>3, <1>4 DEF Min

\* O_EXCL: the file that is created was not there.
LEMMA NewFile ==
    ASSUME RunTypes, NEW d, NEW name, create_unique_file(d, name)
    PROVE  name \notin DOMAIN dir
<1> DEFINE free == {v \in 0 .. Versions - 1 : <<d, v>> \notin DOMAIN dir}
<1>1. free # {} /\ name = <<d, Min(free)>>
  BY DEF create_unique_file
<1>2. free \subseteq Nat
  BY ReplicatorAssumption
<1>3. Min(free) \in free
  <2> HIDE DEF free
  <2> QED BY <1>1, <1>2, Smallest
<1> QED
  BY <1>1, <1>3

\* The files and the records of an event that is dealt with.
Begun(ev) ==
    \E name \in {ev.id} \X (0 .. Versions - 1) :
      /\ name \notin DOMAIN dir
      /\ names' = [names EXCEPT ![ev.id] = [fname |-> name, event |-> ev.t = "create"]]
      /\ dir' = Stored(name, <<Place(ev)>>)

\* process_first_event, when it succeeds.
LEMMA FirstBegins ==
    ASSUME RunTypes, FileTypes, NEW ev \in Packets, NEW io \in BOOLEAN, process_first_event(ev, io, "OK_CONTINUE")
    PROVE  Begun(ev)
<1>1. PICK name \in {ev.id} \X (0 .. Versions - 1) :
             /\ create_unique_file(ev.id, name)
             /\ names' = [names EXCEPT ![ev.id] = [fname |-> name, event |-> ev.t = "create"]]
             /\ dir' = Written(name, ev)
  BY DEF process_first_event
<1>2. name \notin DOMAIN dir
  BY <1>1, NewFile
<1>3. Written(name, ev) = Stored(name, <<Place(ev)>>)
  <2>1. Append(<<>>, Place(ev)) = <<Place(ev)>>
    OBVIOUS
  <2> QED BY <1>2, <2>1 DEF Written
<1> QED
  BY <1>1, <1>2, <1>3 DEF Begun

\* What of a LOAD DATA the filters and the table leave alone.
Ignores(ev) ==
    /\ UNCHANGED <<names, dir>>
    /\ \/ ev.t \notin Executes \cup {"append"}
       \/ ~InRange(ev) \/ OtherServer(ev)
       \/ ev.t = "append" /\ names[ev.id] = NoName
       \/ ev.t \in Executes /\ ~Grabbed(ev)

\* What an event that is dealt with does to the records and the files.
LEMMA LoadStep ==
    ASSUME Types, NEW ev \in Packets, IdOK(ev), Deals(ev)
    PROVE  \/ Ignores(ev)
           \/ ev.t \in Starts /\ ~OtherServer(ev) /\ ~sought' /\ Begun(ev)
           \/ /\ ev.t = "append" /\ names[ev.id] # NoName
              /\ names' = names /\ dir' = Written(names[ev.id].fname, ev)
           \/ ev.t \in Executes /\ names' = [names EXCEPT ![ev.id] = NoName] /\ dir' = dir
<1> DEFINE Goal == \/ Ignores(ev)
                   \/ ev.t \in Starts /\ ~OtherServer(ev) /\ ~sought' /\ Begun(ev)
                   \/ /\ ev.t = "append" /\ names[ev.id] # NoName
                      /\ names' = names /\ dir' = Written(names[ev.id].fname, ev)
                   \/ ev.t \in Executes /\ names' = [names EXCEPT ![ev.id] = NoName] /\ dir' = dir
<1>0. RunTypes /\ FileTypes
  BY DEF Types, PrintTypes
<1>1. PICK pos : \E io \in BOOLEAN : process_event(ev, pos, io, "OK_CONTINUE")
  BY DEF Deals
<1>9. PICK io \in BOOLEAN : process_event(ev, pos, io, "OK_CONTINUE")
  BY <1>1
<1>2. CASE (~InRange(ev) \/ OtherServer(ev)) /\ UNCHANGED loadVars
  BY <1>2 DEF Ignores, loadVars
<1>3. CASE ev.t \notin LoadKinds /\ UNCHANGED loadVars
  BY <1>3 DEF Ignores, loadVars, LoadKinds
<1>4. CASE createFileEvent(ev, io, "OK_CONTINUE") /\ InRange(ev) /\ ~OtherServer(ev)
  <2>1. ev.t = "create" /\ (UNCHANGED <<names, dir>> \/ process_first_event(ev, io, "OK_CONTINUE"))
    BY <1>4 DEF createFileEvent, loadVars
  <2>2. ~sought'
    BY <1>9, <1>4, <2>1 DEF process_event
  <2> QED BY <1>0, <1>4, <2>1, <2>2, FirstBegins DEF Ignores, Starts, Executes
<1>5. CASE beginLoadQueryEvent(ev, io, "OK_CONTINUE") /\ InRange(ev) /\ ~OtherServer(ev)
  <2>1. ev.t = "begin" /\ process_first_event(ev, io, "OK_CONTINUE")
    BY <1>5 DEF beginLoadQueryEvent
  <2>2. ~sought'
    BY <1>9, <1>5, <2>1 DEF process_event
  <2> QED BY <1>0, <1>5, <2>1, <2>2, FirstBegins DEF Starts
<1>6. CASE appendBlockEvent(ev, io, "OK_CONTINUE")
  BY <1>6 DEF appendBlockEvent, processAppend, Ignores
<1>7. CASE execLoadEvent(ev, "OK_CONTINUE") \/ executeLoadQueryEvent(ev, "OK_CONTINUE")
  BY <1>7 DEF execLoadEvent, executeLoadQueryEvent, grab, Ignores, Executes
<1>8. \/ (~InRange(ev) \/ OtherServer(ev)) /\ UNCHANGED loadVars
      \/ /\ InRange(ev) /\ ~OtherServer(ev)
         /\ \/ createFileEvent(ev, io, "OK_CONTINUE") \/ beginLoadQueryEvent(ev, io, "OK_CONTINUE")
            \/ appendBlockEvent(ev, io, "OK_CONTINUE")
            \/ execLoadEvent(ev, "OK_CONTINUE") \/ executeLoadQueryEvent(ev, "OK_CONTINUE")
            \/ ev.t \notin LoadKinds /\ UNCHANGED loadVars
  <2>1. \/ (~InRange(ev) \/ OtherServer(ev)) /\ UNCHANGED loadVars
        \/ /\ InRange(ev) /\ ~OtherServer(ev)
           /\ \/ queryEvent(ev, io, "OK_CONTINUE") \/ createFileEvent(ev, io, "OK_CONTINUE")
              \/ appendBlockEvent(ev, io, "OK_CONTINUE") \/ beginLoadQueryEvent(ev, io, "OK_CONTINUE")
              \/ execLoadEvent(ev, "OK_CONTINUE") \/ executeLoadQueryEvent(ev, "OK_CONTINUE")
              \/ formatDescriptionEvent(ev, "OK_CONTINUE") \/ tableMapEvent(ev, "OK_CONTINUE")
              \/ rowsEvent(ev, "OK_CONTINUE") \/ otherEvent(ev, "OK_CONTINUE")
    BY <1>9 DEF process_event
  <2>2. queryEvent(ev, io, "OK_CONTINUE") \/ formatDescriptionEvent(ev, "OK_CONTINUE") \/ tableMapEvent(ev, "OK_CONTINUE")
        \/ rowsEvent(ev, "OK_CONTINUE") \/ otherEvent(ev, "OK_CONTINUE") => ev.t \notin LoadKinds /\ UNCHANGED loadVars
    BY DEF queryEvent, formatDescriptionEvent, tableMapEvent, rowsEvent, otherEvent, LoadKinds, Starts, Executes
  <2> QED BY <2>1, <2>2
<1> QED
  BY <1>2, <1>3, <1>4, <1>5, <1>6, <1>7, <1>8
-----------------------------------------------------------------------------
(***************************************************************************)
(* The LOAD DATA of a record of file_names is the one that began last, and *)
(* its file holds the blocks that lie behind the reader.                   *)
(***************************************************************************)

\* A LOAD DATA with id d began at l, j and is not executed yet.
Underway(l, j, d) ==
    /\ Behind(l, j) /\ LogEvents(l)[j].t \in Starts /\ LogEvents(l)[j].id = d
    /\ \A k \in DOMAIN LogEvents(l) :
         j < k /\ Behind(l, k) /\ LogEvents(l)[k].id = d => LogEvents(l)[k].t \notin Executes

Part(l, j, d) ==
    {i \in DOMAIN LogEvents(l) : /\ j <= i /\ Behind(l, i)
                                 /\ LogEvents(l)[i].t \in Starts \cup {"append"} /\ LogEvents(l)[i].id = d}
Increasing(s) == \A b, c \in DOMAIN s : b < c => Before(s[b], s[c])
Holds(s, l, parts) == {s[b] : b \in DOMAIN s} = {<<l, i>> : i \in parts} /\ Increasing(s)

Made(d) ==
    \E l \in DOMAIN logs : \E j \in DOMAIN LogEvents(l) :
      /\ Underway(l, j, d) /\ ~OtherServer(LogEvents(l)[j])
      /\ names[d].event = (LogEvents(l)[j].t = "create")
      /\ Holds(dir[names[d].fname], l, Part(l, j, d))

FileInv ==
    Running => \A d \in FileIds : names[d] # NoName => ~sought /\ names[d].fname[1] = d /\ Made(d)

\* The row caches hold no LOAD DATA, and what was printed of one is complete.
CacheBlocks == Running => \A k \in DOMAIN caches : caches[k].blocks = <<>>

\* The reader is at an event of a LOAD DATA that is under way: it is not the
\* beginning of another, and the one under way is its own.
LEMMA OwnLoad ==
    ASSUME Base, Running, NEW n \in DOMAIN logs, NEW i \in DOMAIN LogEvents(n), Here = <<n, i>>,
           NEW l \in DOMAIN logs, NEW j \in DOMAIN LogEvents(l),
           Underway(l, j, LogEvents(n)[i].id), LogEvents(n)[i].t \in LoadKinds
    PROVE  l = n /\ j < i /\ LogEvents(n)[i].t \notin Starts /\ BeginsLoad(LogEvents(n), j, i)
<1> DEFINE d == LogEvents(n)[i].id
<1>1. /\ n \in Nat /\ l \in Nat /\ i \in Nat \ {0} /\ j \in Nat \ {0} /\ RunTypes
      /\ DOMAIN LogEvents(n) = 1 .. Len(LogEvents(n)) /\ Len(LogEvents(n)) \in Nat
      /\ DOMAIN LogEvents(l) = 1 .. Len(LogEvents(l)) /\ Len(LogEvents(l)) \in Nat
      /\ logs[n].evs = LogEvents(n) /\ logs[l].evs = LogEvents(l)
  <2>1. RunTypes
    BY DEF Base, Types
  <2>2. n \in Nat /\ l \in Nat
    BY <2>1, TheLogs
  <2>3. /\ DOMAIN LogEvents(n) = 1 .. Len(LogEvents(n)) /\ Len(LogEvents(n)) \in Nat
        /\ DOMAIN LogEvents(l) = 1 .. Len(LogEvents(l)) /\ Len(LogEvents(l)) \in Nat
    BY <2>1, TheEvents
  <2>4. logs[n].evs = LogEvents(n) /\ logs[l].evs = LogEvents(l)
    BY DEF LogEvents
  <2> QED BY <2>1, <2>2, <2>3, <2>4
<1>2. IdsReused(logs) /\ LoadStatements(LogEvents(n))
  BY <1>1, TheLogs DEF ServerLogs
<1>3. l < n \/ (l = n /\ j < i)
  BY <1>1 DEF Underway, Behind, Before
<1>4. \A k \in DOMAIN LogEvents(l) : LogEvents(l)[k].id = d /\ LogEvents(l)[k].t \in Executes /\ j < k => ~(l < n \/ (l = n /\ k < i))
  <2> SUFFICES ASSUME NEW k \in DOMAIN LogEvents(l), LogEvents(l)[k].id = d, LogEvents(l)[k].t \in Executes, j < k,
                      l < n \/ (l = n /\ k < i)
               PROVE  FALSE
    OBVIOUS
  <2>1. Behind(l, k)
    BY <1>1 DEF Behind, Before
  <2> QED BY <2>1 DEF Underway
<1>5. ASSUME NEW k \in DOMAIN LogEvents(n), LogEvents(n)[k].t \in Starts, LogEvents(n)[k].id = d, k <= i
      PROVE  ~(l < n \/ (l = n /\ j < k))
  <2> SUFFICES ASSUME l < n \/ (l = n /\ j < k)
               PROVE  FALSE
    OBVIOUS
  <2>1. \E q \in j + 1 .. Len(LogEvents(l)) : /\ l = n => q < k
                                              /\ LogEvents(l)[q].t \in Executes /\ LogEvents(l)[q].id = d
    <3>1. \A p, m \in DOMAIN logs : \A q \in DOMAIN logs[p].evs, r \in DOMAIN logs[m].evs :
             /\ p < m \/ (p = m /\ q < r)
             /\ logs[p].evs[q].t \in Starts /\ logs[m].evs[r].t \in Starts /\ logs[p].evs[q].id = logs[m].evs[r].id
             => \E x \in q + 1 .. Len(logs[p].evs) :
                   /\ p = m => x < r
                   /\ logs[p].evs[x].t \in Executes /\ logs[p].evs[x].id = logs[p].evs[q].id
      BY <1>2 DEF IdsReused
    <3>2. LogEvents(l)[j].t \in Starts /\ LogEvents(l)[j].id = d
      BY DEF Underway
    <3>3. /\ j \in DOMAIN logs[l].evs /\ k \in DOMAIN logs[n].evs
          /\ logs[l].evs[j].t \in Starts /\ logs[n].evs[k].t \in Starts
          /\ logs[l].evs[j].id = d /\ logs[n].evs[k].id = d
      BY <1>1, <1>5, <3>2
    <3> HIDE DEF d
    <3>4. \E x \in j + 1 .. Len(logs[l].evs) : /\ l = n => x < k
                                               /\ logs[l].evs[x].t \in Executes /\ logs[l].evs[x].id = d
      BY <3>1, <3>3
    <3> QED BY <1>1, <3>4
  <2>2. PICK q \in j + 1 .. Len(LogEvents(l)) : /\ l = n => q < k
                                                /\ LogEvents(l)[q].t \in Executes /\ LogEvents(l)[q].id = d
    BY <2>1
  <2>3. q \in DOMAIN LogEvents(l) /\ j < q /\ (l < n \/ (l = n /\ q < i))
    BY <1>1, <1>3, <1>5, <2>2
  <2> QED BY <1>4, <2>2, <2>3
<1>6. LogEvents(n)[i].t \notin Starts
  BY <1>1, <1>3, <1>5
<1>7. PICK s \in 1 .. i - 1 : BeginsLoad(LogEvents(n), s, i)
  BY <1>2, <1>6 DEF LoadStatements, LoadKinds
<1>8. /\ s \in DOMAIN LogEvents(n) /\ LogEvents(n)[s].t \in Starts /\ LogEvents(n)[s].id = d /\ s <= i
      /\ \A k \in s + 1 .. i - 1 : LogEvents(n)[k].id = d => LogEvents(n)[k].t \notin Starts
  BY <1>1, <1>7 DEF BeginsLoad
<1>9. l = n /\ j >= s
  BY <1>1, <1>3, <1>5, <1>8
<1>10. j = s
  <2>1. LogEvents(n)[j].t \in Starts /\ LogEvents(n)[j].id = d
    BY <1>9 DEF Underway
  <2> QED BY <1>1, <1>3, <1>8, <1>9, <2>1
<1> QED
  BY <1>1, <1>6, <1>7, <1>9, <1>10

\* Nothing of this LOAD DATA was read in the step.
LEMMA MadeKept ==
    ASSUME NEW d, Made(d), UNCHANGED <<logs, opt>>, names'[d] = names[d],
           dir'[names[d].fname] = dir[names[d].fname],
           \A l \in DOMAIN logs : \A i \in DOMAIN LogEvents(l) :
              LogEvents(l)[i].id = d /\ LogEvents(l)[i].t \in LoadKinds => (Behind(l, i)' <=> Behind(l, i))
    PROVE  Made(d)'
<1>0. \A l : LogEvents(l)' = LogEvents(l)
  BY DEF LogEvents
<1>1. PICK l \in DOMAIN logs : \E j \in DOMAIN LogEvents(l) :
             /\ Underway(l, j, d) /\ ~OtherServer(LogEvents(l)[j])
             /\ names[d].event = (LogEvents(l)[j].t = "create")
             /\ Holds(dir[names[d].fname], l, Part(l, j, d))
  BY DEF Made
<1>2. PICK j \in DOMAIN LogEvents(l) :
             /\ Underway(l, j, d) /\ ~OtherServer(LogEvents(l)[j])
             /\ names[d].event = (LogEvents(l)[j].t = "create")
             /\ Holds(dir[names[d].fname], l, Part(l, j, d))
  BY <1>1
<1>3. \A i \in DOMAIN LogEvents(l) :
         LogEvents(l)[i].id = d /\ LogEvents(l)[i].t \in LoadKinds => (Behind(l, i)' <=> Behind(l, i))
  OBVIOUS
<1>4. Underway(l, j, d)'
  BY <1>0, <1>2, <1>3 DEF Underway, LoadKinds
<1>5. Part(l, j, d)' = Part(l, j, d)
  BY <1>0, <1>3 DEF Part, LoadKinds
<1>6. Holds(dir'[names'[d].fname], l, Part(l, j, d)')
  BY <1>2, <1>5
<1>7. (Holds(dir[names[d].fname], l, Part(l, j, d)))'
  BY <1>6 DEF Holds, Increasing
<1>8. (~OtherServer(LogEvents(l)[j]) /\ names[d].event = (LogEvents(l)[j].t = "create"))'
  BY <1>0, <1>2 DEF OtherServer
<1>9. l \in DOMAIN logs' /\ j \in DOMAIN LogEvents(l)'
  BY <1>0
<1> QED
  BY <1>4, <1>7, <1>8, <1>9 DEF Made

\* A LOAD DATA begins.
LEMMA MadeFirst ==
    ASSUME Base, NEW n \in DOMAIN logs, NEW i \in DOMAIN LogEvents(n), Passes(n, i), NEW d \in FileIds,
           LogEvents(n)[i].id = d, LogEvents(n)[i].t \in Starts, ~OtherServer(Event(n, i)), Begun(Event(n, i))
    PROVE  names'[d].fname[1] = d /\ Made(d)'
<1>0. /\ \A l : LogEvents(l)' = LogEvents(l)
      /\ UNCHANGED <<logs, opt>> /\ RunTypes /\ FileTypes
  BY DEF LogEvents, Passes, Base, Types, PrintTypes
<1>1. /\ Event(n, i).id = d /\ Event(n, i).t = LogEvents(n)[i].t /\ Event(n, i).srv = LogEvents(n)[i].srv
      /\ Place(Event(n, i)) = <<n, i>>
  BY <1>0, EventParts DEF Place
<1>2. PICK name \in {d} \X (0 .. Versions - 1) :
             /\ names' = [names EXCEPT ![d] = [fname |-> name, event |-> LogEvents(n)[i].t = "create"]]
             /\ dir' = Stored(name, <<<<n, i>>>>)
  BY <1>1 DEF Begun
<1>3. /\ names'[d] = [fname |-> name, event |-> LogEvents(n)[i].t = "create"]
      /\ dir'[name] = <<<<n, i>>>>
  <2>1. names \in [FileIds -> Records \cup {NoName}]
    BY <1>0 DEF FileTypes
  <2> QED BY <1>2, <2>1 DEF Stored
<1>4. \A k \in DOMAIN LogEvents(n) : Behind(n, k)' <=> k <= i
  <2> SUFFICES ASSUME NEW k \in DOMAIN LogEvents(n)
               PROVE  Behind(n, k)' <=> k <= i
    OBVIOUS
  <2>1. k \in Nat /\ i \in Nat /\ n \in Nat
    BY <1>0, TheEvents, TheLogs
  <2>2. Behind(n, k) <=> k < i
    BY <2>1 DEF Passes, Behind, Before
  <2> QED BY <2>1, <2>2, PassesBehind
<1>5. Underway(n, i, d)'
  <2>1. \A k \in DOMAIN LogEvents(n) : k \in Nat /\ i \in Nat
    BY <1>0, TheEvents
  <2> QED BY <1>0, <1>4, <2>1 DEF Underway
<1>6. Part(n, i, d)' = {i}
  <2>1. \A k \in DOMAIN LogEvents(n) : k \in Nat /\ i \in Nat
    BY <1>0, TheEvents
  <2> QED BY <1>0, <1>4, <2>1 DEF Part
<1>7. Holds(<<<<n, i>>>>, n, {i})
  BY DEF Holds, Increasing
<1>8. (Holds(dir[names[d].fname], n, Part(n, i, d)))'
  BY <1>3, <1>6, <1>7 DEF Holds, Increasing
<1>9. (~OtherServer(LogEvents(n)[i]) /\ names[d].event = (LogEvents(n)[i].t = "create"))'
  BY <1>0, <1>1, <1>3 DEF OtherServer
<1> QED
  BY <1>0, <1>3, <1>5, <1>8, <1>9 DEF Made

\* A block is written behind the ones that the file holds.
LEMMA MadeAppend ==
    ASSUME Base, Running, NEW n \in DOMAIN logs, NEW i \in DOMAIN LogEvents(n), Passes(n, i), NEW d \in FileIds,
           Made(d), LogEvents(n)[i].id = d, LogEvents(n)[i].t = "append",
           names' = names, dir' = Written(names[d].fname, Event(n, i)), names[d] # NoName
    PROVE  Made(d)'
<1>0. /\ \A l : LogEvents(l)' = LogEvents(l)
      /\ UNCHANGED <<logs, opt>> /\ RunTypes /\ FileTypes /\ n \in Nat /\ i \in Nat /\ Here = <<n, i>>
  BY TheLogs, TheEvents DEF LogEvents, Passes, Base, Types, PrintTypes
<1>1. PICK l \in DOMAIN logs : \E j \in DOMAIN LogEvents(l) :
             /\ Underway(l, j, d) /\ ~OtherServer(LogEvents(l)[j])
             /\ names[d].event = (LogEvents(l)[j].t = "create")
             /\ Holds(dir[names[d].fname], l, Part(l, j, d))
  BY DEF Made
<1>2. PICK j \in DOMAIN LogEvents(l) :
             /\ Underway(l, j, d) /\ ~OtherServer(LogEvents(l)[j])
             /\ names[d].event = (LogEvents(l)[j].t = "create")
             /\ Holds(dir[names[d].fname], l, Part(l, j, d))
  BY <1>1
<1>3. l = n /\ j < i
  BY <1>0, <1>2, OwnLoad DEF LoadKinds
<1>4. \A k \in DOMAIN LogEvents(n) : k \in Nat /\ j \in Nat /\ (Behind(n, k) <=> k < i) /\ (Behind(n, k)' <=> k <= i)
  <2> SUFFICES ASSUME NEW k \in DOMAIN LogEvents(n)
               PROVE  k \in Nat /\ j \in Nat /\ (Behind(n, k) <=> k < i) /\ (Behind(n, k)' <=> k <= i)
    OBVIOUS
  <2>1. k \in Nat /\ j \in Nat
    BY <1>0, <1>3, TheEvents
  <2>2. Behind(n, k) <=> k < i
    BY <1>0, <2>1 DEF Behind, Before
  <2> QED BY <1>0, <2>1, <2>2, PassesBehind
<1>5. Underway(n, j, d)'
  BY <1>0, <1>2, <1>3, <1>4 DEF Underway, Executes
<1>6. Part(n, j, d)' = Part(n, j, d) \cup {i}
  BY <1>0, <1>3, <1>4 DEF Part
<1> DEFINE s == dir[names[d].fname]
<1>7. s \in Seq(Nat \X Nat) /\ dir'[names[d].fname] = Append(s, <<n, i>>)
  <2>1. names[d].fname \in DOMAIN dir /\ s \in Seq(Nat \X Nat)
    BY <1>0 DEF FileTypes
  <2>2. Place(Event(n, i)) = <<n, i>>
    BY <1>0, EventParts DEF Place
  <2> QED BY <2>1, <2>2 DEF Written, Stored
<1>8. Holds(Append(s, <<n, i>>), n, Part(n, j, d) \cup {i})
  <2> DEFINE P == Part(n, j, d)
  <2>1. Holds(s, n, P) /\ \A k \in P : k \in Nat /\ k < i
    BY <1>2, <1>3, <1>4 DEF Part
  <2> HIDE DEF s, P
  <2>2. /\ DOMAIN s = 1 .. Len(s) /\ DOMAIN Append(s, <<n, i>>) = 1 .. Len(s) + 1 /\ Len(s) \in Nat
        /\ Append(s, <<n, i>>)[Len(s) + 1] = <<n, i>>
        /\ \A b \in 1 .. Len(s) : Append(s, <<n, i>>)[b] = s[b]
    BY <1>0, <1>7
  <2>3. \A b \in DOMAIN s : \E k \in P : s[b] = <<n, k>>
    BY <2>1 DEF Holds
  <2>4. {Append(s, <<n, i>>)[b] : b \in DOMAIN Append(s, <<n, i>>)} = {<<n, k>> : k \in P \cup {i}}
    <3>1. {Append(s, <<n, i>>)[b] : b \in DOMAIN Append(s, <<n, i>>)} = {s[b] : b \in DOMAIN s} \cup {<<n, i>>}
      BY <2>2
    <3>2. {s[b] : b \in DOMAIN s} = {<<n, k>> : k \in P}
      BY <2>1 DEF Holds
    <3> QED BY <3>1, <3>2
  <2>5. ASSUME NEW b \in DOMAIN Append(s, <<n, i>>), NEW c \in DOMAIN Append(s, <<n, i>>), b < c
        PROVE  Before(Append(s, <<n, i>>)[b], Append(s, <<n, i>>)[c])
    <3>1. CASE c \in DOMAIN s
      BY <2>1, <2>2, <2>5, <3>1 DEF Holds, Increasing
    <3>2. CASE c = Len(s) + 1
      <4>1. b \in DOMAIN s /\ Append(s, <<n, i>>)[b] = s[b] /\ Append(s, <<n, i>>)[c] = <<n, i>>
        BY <2>2, <2>5, <3>2
      <4>2. PICK k \in P : s[b] = <<n, k>>
        BY <2>3, <4>1
      <4> QED BY <2>1, <4>1, <4>2 DEF Before
    <3> QED BY <2>2, <3>1, <3>2
  <2>6. Increasing(Append(s, <<n, i>>))
    BY <2>5 DEF Increasing
  <2> QED BY <2>4, <2>6 DEF Holds, P
<1>9. (Holds(dir[names[d].fname], n, Part(n, j, d)))'
  <2>1. Holds(dir'[names'[d].fname], n, Part(n, j, d)')
    BY <1>6, <1>7, <1>8
  <2> QED BY <2>1 DEF Holds, Increasing
<1>10. (~OtherServer(LogEvents(n)[j]) /\ names[d].event = (LogEvents(n)[j].t = "create"))'
  BY <1>0, <1>2, <1>3 DEF OtherServer
<1> QED
  BY <1>0, <1>3, <1>5, <1>9, <1>10 DEF Made

\* An event that is ignored is none of a LOAD DATA with a record: that one is
\* of this server, and after --start-datetime and --offset.
LEMMA IgnoredOther ==
    ASSUME Base, Running, NEW n \in DOMAIN logs, NEW i \in DOMAIN LogEvents(n), Here = <<n, i>>,
           Ignores(Event(n, i)), NEW d \in FileIds, names[d] # NoName, ~sought, Made(d), LogEvents(n)[i].id = d
    PROVE  LogEvents(n)[i].t \notin LoadKinds
<1> SUFFICES ASSUME LogEvents(n)[i].t \in LoadKinds
             PROVE  FALSE
  OBVIOUS
<1>0. RunTypes
  BY DEF Base, Types
<1>1. PICK l \in DOMAIN logs : \E j \in DOMAIN LogEvents(l) :
             /\ Underway(l, j, d) /\ ~OtherServer(LogEvents(l)[j])
             /\ names[d].event = (LogEvents(l)[j].t = "create")
  BY DEF Made
<1>2. PICK j \in DOMAIN LogEvents(l) :
             /\ Underway(l, j, d) /\ ~OtherServer(LogEvents(l)[j])
             /\ names[d].event = (LogEvents(l)[j].t = "create")
  BY <1>1
<1>3. l = n /\ BeginsLoad(LogEvents(n), j, i) /\ LogEvents(n)[i].t \notin Starts
  BY <1>2, OwnLoad
<1>4. /\ Event(n, i).id = d /\ Event(n, i).t = LogEvents(n)[i].t /\ Event(n, i).srv = LogEvents(n)[i].srv
  BY <1>0, EventParts
<1>5. ~OtherServer(Event(n, i)) /\ InRange(Event(n, i))
  BY <1>2, <1>3, <1>4 DEF OtherServer, BeginsLoad, InRange
<1>6. CASE LogEvents(n)[i].t \in Executes
  <2>1. names[d].event = (LogEvents(n)[i].t = "exec")
    BY <1>2, <1>3, <1>6 DEF BeginsLoad, Executes
  <2>2. Grabbed(Event(n, i))
    BY <1>4, <2>1 DEF Grabbed
  <2> QED BY <1>4, <1>5, <1>6, <2>2 DEF Ignores, Executes
<1>7. CASE LogEvents(n)[i].t = "append"
  BY <1>4, <1>5, <1>7 DEF Ignores, Executes
<1> QED
  BY <1>3, <1>6, <1>7 DEF LoadKinds

\* FileInv after the event at the reader's place.
LEMMA PassesFile ==
    ASSUME Base, Running, FileInv, NEW n \in DOMAIN logs, NEW i \in DOMAIN LogEvents(n), Passes(n, i)
    PROVE  FileInv'
<1> SUFFICES ASSUME NEW d \in FileIds, names'[d] # NoName
             PROVE  ~sought' /\ names'[d].fname[1] = d /\ Made(d)'
  BY DEF FileInv
<1>0. /\ UNCHANGED <<logs, opt>> /\ Types /\ RunTypes /\ FileTypes /\ Here = <<n, i>> /\ Deals(Event(n, i))
      /\ names \in [FileIds -> Records \cup {NoName}]
  BY DEF Passes, Base, Types, PrintTypes, FileTypes
<1>1. /\ Event(n, i).id = LogEvents(n)[i].id /\ Event(n, i).t = LogEvents(n)[i].t
      /\ Event(n, i) \in Packets /\ IdOK(Event(n, i))
  BY <1>0, EventParts, EventShape, TheEvents
<1>2. sought' => sought
  BY <1>0 DEF Deals, process_event
<1>3. names[d] # NoName => ~sought /\ names[d].fname[1] = d /\ Made(d) /\ names[d].fname \in DOMAIN dir
  BY <1>0 DEF FileInv, FileTypes
<1>4. ASSUME LogEvents(n)[i].id # d \/ LogEvents(n)[i].t \notin LoadKinds, names'[d] = names[d],
             dir'[names[d].fname] = dir[names[d].fname]
      PROVE  ~sought' /\ names'[d].fname[1] = d /\ Made(d)'
  <2>1. \A l \in DOMAIN logs : \A k \in DOMAIN LogEvents(l) :
           LogEvents(l)[k].id = d /\ LogEvents(l)[k].t \in LoadKinds => (Behind(l, k)' <=> Behind(l, k))
    BY <1>4, PassesBehind
  <2> QED BY <1>0, <1>2, <1>3, <1>4, <2>1, MadeKept
<1>5. CASE Ignores(Event(n, i))
  <2>1. names'[d] = names[d] /\ dir' = dir
    BY <1>5 DEF Ignores
  <2>2. LogEvents(n)[i].id # d \/ LogEvents(n)[i].t \notin LoadKinds
    BY <1>0, <1>3, <1>5, <2>1, IgnoredOther
  <2> QED BY <1>4, <2>1, <2>2
<1>6. CASE /\ Event(n, i).t \in Starts /\ ~OtherServer(Event(n, i)) /\ ~sought' /\ Begun(Event(n, i))
  <2>1. CASE LogEvents(n)[i].id = d
    BY <1>1, <1>6, <2>1, MadeFirst
  <2>2. CASE LogEvents(n)[i].id # d
    <3>1. PICK name \in {LogEvents(n)[i].id} \X (0 .. Versions - 1) :
             /\ name \notin DOMAIN dir
             /\ names' = [names EXCEPT ![LogEvents(n)[i].id] = [fname |-> name, event |-> Event(n, i).t = "create"]]
             /\ dir' = Stored(name, <<Place(Event(n, i))>>)
      BY <1>1, <1>6 DEF Begun
    <3>2. names'[d] = names[d]
      BY <1>0, <2>2, <3>1
    <3>3. dir'[names[d].fname] = dir[names[d].fname]
      BY <1>3, <3>1, <3>2 DEF Stored
    <3> QED BY <1>4, <2>2, <3>2, <3>3
  <2> QED BY <2>1, <2>2
<1>7. CASE /\ Event(n, i).t = "append" /\ names[Event(n, i).id] # NoName
           /\ names' = names /\ dir' = Written(names[Event(n, i).id].fname, Event(n, i))
  <2>1. CASE LogEvents(n)[i].id = d
    <3>1. Made(d)'
      BY <1>1, <1>3, <1>7, <2>1, MadeAppend
    <3> QED BY <1>2, <1>3, <1>7, <3>1
  <2>2. CASE LogEvents(n)[i].id # d
    <3> DEFINE f == LogEvents(n)[i].id
    <3>1. f \in FileIds
      BY <1>1, <1>7 DEF IdOK
    <3>2. names[f].fname[1] = f
      BY <1>1, <1>7, <3>1 DEF FileInv
    <3>3. names[f].fname # names[d].fname
      BY <1>3, <1>7, <2>2, <3>2
    <3>4. dir'[names[d].fname] = dir[names[d].fname]
      BY <1>1, <1>3, <1>7, <3>3 DEF Written, Stored
    <3> QED BY <1>4, <1>7, <2>2, <3>4
  <2> QED BY <2>1, <2>2
<1>8. CASE Event(n, i).t \in Executes /\ names' = [names EXCEPT ![Event(n, i).id] = NoName] /\ dir' = dir
  <2>1. LogEvents(n)[i].id # d /\ names'[d] = names[d]
    BY <1>0, <1>1, <1>8
  <2> QED BY <1>4, <1>8, <2>1
<1> QED
  BY <1>0, <1>1, <1>5, <1>6, <1>7, <1>8, LoadStep

\* FileInv after every step.
LEMMA FileStep == Base /\ CacheInv /\ FileInv /\ [binlogNext]_binlogVars => FileInv'
<1> SUFFICES ASSUME Base, CacheInv, FileInv, [binlogNext]_binlogVars
             PROVE  FileInv'
  OBVIOUS
<1>1. CASE mainProgram
  BY <1>1 DEF mainProgram, FileInv
<1>2. CASE Running /\ binlogNext
  <2>1. CASE Ends
    BY <2>1 DEF Ends, FileInv
  <2>2. CASE Between
    <3> SUFFICES ASSUME NEW d \in FileIds, names'[d] # NoName
                 PROVE  ~sought' /\ names'[d].fname[1] = d /\ Made(d)'
      BY DEF FileInv
    <3>1. /\ UNCHANGED <<logs, opt, names, sought>> /\ \A f \in DOMAIN dir : f[1] # NoName => dir'[f] = dir[f]
      BY <2>2 DEF Between
    <3>2. ~sought /\ names[d].fname[1] = d /\ Made(d) /\ names[d].fname \in DOMAIN dir
      BY <1>2, <3>1 DEF FileInv, Base, Types, PrintTypes, FileTypes
    <3>3. dir'[names[d].fname] = dir[names[d].fname]
      BY <3>1, <3>2, ReplicatorAssumption
    <3>4. \A l \in DOMAIN logs : \A i \in DOMAIN LogEvents(l) :
             LogEvents(l)[i].id = d /\ LogEvents(l)[i].t \in LoadKinds => (Behind(l, i)' <=> Behind(l, i))
      BY <1>2, <2>2, BetweenBehind DEF LoadKinds, Starts, Executes
    <3> QED BY <3>1, <3>2, <3>3, <3>4, MadeKept
  <2>3. ASSUME NEW n \in DOMAIN logs, NEW i \in DOMAIN LogEvents(n), Passes(n, i)
        PROVE  FileInv'
    BY <1>2, <2>3, PassesFile
  <2>4. ASSUME NEW ev \in Packets, Repeats(ev)
        PROVE  FileInv'
    <3> SUFFICES ASSUME NEW d \in FileIds, names'[d] # NoName
                 PROVE  ~sought' /\ names'[d].fname[1] = d /\ Made(d)'
      BY DEF FileInv
    <3>1. /\ UNCHANGED <<logs, opt>> /\ Here' = Here /\ Deals(ev) /\ ev.t \in {"rotate", "fd"}
      BY <2>4, FakeTyped DEF Repeats, Base
    <3>2. IdOK(ev) /\ ev.t \notin LoadKinds /\ ev.t \notin Starts /\ ev.t # "append" /\ ev.t \notin Executes
      BY <3>1 DEF IdOK, LoadKinds, Starts, Executes
    <3>3. UNCHANGED <<names, dir>>
      BY <3>1, <3>2, LoadStep DEF Ignores, Base
    <3>4. sought' => sought
      BY <3>1 DEF Deals, process_event
    <3>5. ~sought /\ names[d].fname[1] = d /\ Made(d)
      BY <1>2, <3>3 DEF FileInv
    <3>6. \A l, i : Behind(l, i)' <=> Behind(l, i)
      BY <3>1 DEF Behind
    <3> QED BY <3>1, <3>3, <3>4, <3>5, <3>6, MadeKept
  <2> QED BY <1>2, <2>1, <2>2, <2>3, <2>4, RunSteps
<1>3. CASE ~Running /\ binlogNext /\ ~mainProgram
  BY <1>3, OtherSteps DEF FileInv
<1>4. CASE UNCHANGED binlogVars
  <2>1. UNCHANGED <<logs, opt, pc, args, start, served, sought, names, dir>>
    BY <1>4 DEF binlogVars, runVars, loadVars
  <2>2. Running' = Running /\ Here' = Here /\ \A l, i : Behind(l, i)' <=> Behind(l, i)
    BY <2>1 DEF Running, Reading, Here, Behind
  <2>3. ASSUME NEW d \in FileIds, Made(d)
        PROVE  Made(d)'
    BY <2>1, <2>2, <2>3, MadeKept
  <2> QED BY <2>1, <2>2, <2>3 DEF FileInv
<1> QED
  BY <1>1, <1>2, <1>3, <1>4
-----------------------------------------------------------------------------
(* What is printed of a LOAD DATA. *)

Parts(line) ==
    LET e == Event(line.log, line.pos)
    IN  {i \in First(e) .. e.pos - 1 : /\ LogEvents(e.log)[i].t \in Starts \cup {"append"}
                                       /\ LogEvents(e.log)[i].id = e.id}
LineComplete(line) == line.blocks # <<>> => Holds(line.blocks, line.log, Parts(line))

\* LoadComplete, one line of the result file at a time.
LEMMA ByLine == LoadComplete <=> \A k \in DOMAIN out : LineComplete(out[k])
<1>1. \A n, i : Event(n, i).log = n /\ Event(n, i).pos = i
  BY DEF Event
<1> QED
  BY <1>1 DEF LoadComplete, LineComplete, Parts, Holds, Increasing

\* The line of an event that executes a LOAD DATA.
LEMMA LoadLineComplete ==
    ASSUME Base, Running, NEW n \in DOMAIN logs, NEW i \in DOMAIN LogEvents(n), Here = <<n, i>>,
           LogEvents(n)[i].t \in Executes, LogEvents(n)[i].id \in FileIds, Made(LogEvents(n)[i].id)
    PROVE  LineComplete(LoadLine(Event(n, i)))
<1> DEFINE d == LogEvents(n)[i].id
<1>0. /\ RunTypes /\ n \in Nat /\ i \in Nat \ {0} /\ DOMAIN LogEvents(n) = 1 .. Len(LogEvents(n))
      /\ Len(LogEvents(n)) \in Nat
  BY TheLogs, TheEvents DEF Base, Types
<1>1. PICK l \in DOMAIN logs : \E j \in DOMAIN LogEvents(l) :
             Underway(l, j, d) /\ Holds(dir[names[d].fname], l, Part(l, j, d))
  BY DEF Made
<1>2. PICK j \in DOMAIN LogEvents(l) : Underway(l, j, d) /\ Holds(dir[names[d].fname], l, Part(l, j, d))
  BY <1>1
<1>3. l = n /\ j < i /\ LogEvents(n)[i].t \notin Starts /\ BeginsLoad(LogEvents(n), j, i)
  BY <1>2, OwnLoad DEF LoadKinds
<1>4. j \in Nat \ {0} /\ LogEvents(n)[j].t \in Starts /\ LogEvents(n)[j].id = d
      /\ \A k \in j + 1 .. i - 1 : LogEvents(n)[k].id = d => LogEvents(n)[k].t \notin Starts
  BY <1>0, <1>3 DEF BeginsLoad
<1>5. First(Event(n, i)) = j
  <2> DEFINE S == {0} \cup {k \in 1 .. i : LogEvents(n)[k].t \in Starts /\ LogEvents(n)[k].id = d}
  <2>1. First(Event(n, i)) = Max(S)
    <3>1. /\ Event(n, i).t = LogEvents(n)[i].t /\ Event(n, i).id = d /\ Event(n, i).log = n /\ Event(n, i).pos = i
      BY <1>0, EventParts
    <3> QED BY <3>1 DEF First
  <2>2. S \subseteq Nat /\ j \in S
    BY <1>0, <1>3, <1>4
  <2>3. ASSUME NEW x \in S
        PROVE  x <= j
    BY <1>0, <1>3, <1>4
  <2> HIDE DEF S
  <2> QED BY <2>1, <2>2, <2>3, LargestOf
<1>6. Parts(LoadLine(Event(n, i))) = Part(n, j, d)
  <2>1. /\ LoadLine(Event(n, i)).log = n /\ LoadLine(Event(n, i)).pos = i /\ Event(n, i).log = n
        /\ Event(n, i).pos = i /\ Event(n, i).id = d
    BY <1>0, EventParts DEF LoadLine, Line
  <2>2. Parts(LoadLine(Event(n, i))) = {k \in j .. i - 1 : /\ LogEvents(n)[k].t \in Starts \cup {"append"}
                                                          /\ LogEvents(n)[k].id = d}
    BY <1>5, <2>1 DEF Parts
  <2>3. \A k \in DOMAIN LogEvents(n) : Behind(n, k) <=> k < i
    BY <1>0 DEF Behind, Before
  <2>4. Part(n, j, d) = {k \in DOMAIN LogEvents(n) : /\ j <= k /\ k < i
                                                    /\ LogEvents(n)[k].t \in Starts \cup {"append"}
                                                    /\ LogEvents(n)[k].id = d}
    BY <2>3 DEF Part
  <2> QED BY <1>0, <1>4, <2>2, <2>4
<1>7. LoadLine(Event(n, i)).log = n /\ LoadLine(Event(n, i)).blocks = dir[names[d].fname]
  BY <1>0, EventParts DEF LoadLine, Line
<1> QED
  BY <1>2, <1>3, <1>6, <1>7 DEF LineComplete

\* After an event that is dealt with or stops the run.
LEMMA LinesStep ==
    ASSUME Types, CacheBlocks, Running, \A k \in DOMAIN out : LineComplete(out[k]),
           NEW ev \in Packets, IdOK(ev), NEW pos, NEW io \in BOOLEAN, NEW ret, process_event(ev, pos, io, ret),
           ret = "OK_CONTINUE" /\ ev.t \in Executes /\ Grabbed(ev) => LineComplete(LoadLine(ev)),
           logs' = logs
    PROVE  /\ \A k \in DOMAIN out' : LineComplete(out'[k])
           /\ \A k \in DOMAIN caches' : caches'[k].blocks = <<>>
<1>1. Line(ev).blocks = <<>> /\ \A k \in DOMAIN caches : caches[k].blocks = <<>>
  BY DEF Line, CacheBlocks
<1>0. PrintsLines(ev, ret)
  BY PrintedLines
<1>2. ASSUME NEW k \in DOMAIN out'
      PROVE  LineComplete(out'[k])
  <2>1. CASE k \in DOMAIN out
    BY <1>0, <2>1 DEF PrintsLines
  <2>2. CASE out'[k].blocks = <<>>
    BY <2>2 DEF LineComplete
  <2>3. CASE out'[k] = LoadLine(ev) /\ ev.t \in Executes /\ Grabbed(ev) /\ ret = "OK_CONTINUE"
    BY <2>3
  <2>4. \/ k \in DOMAIN out \/ out'[k] = Line(ev) \/ \E c \in DOMAIN caches : out'[k] = caches[c]
        \/ out'[k] = LoadLine(ev) /\ ev.t \in Executes /\ Grabbed(ev) /\ ret = "OK_CONTINUE"
    BY <1>0 DEF PrintsLines
  <2> QED BY <1>1, <2>1, <2>2, <2>3, <2>4
<1>3. ASSUME NEW k \in DOMAIN caches'
      PROVE  caches'[k].blocks = <<>>
  <2>1. (k \in DOMAIN caches /\ caches'[k] = caches[k]) \/ caches'[k] = Line(ev)
    BY <1>0 DEF PrintsLines
  <2> QED BY <1>1, <2>1
<1> QED
  BY <1>2, <1>3

BlockInv == LoadComplete /\ CacheBlocks

\* What was printed of a LOAD DATA stays complete, and so is what is new.
LEMMA BlockStep == Base /\ CacheInv /\ FileInv /\ BlockInv /\ [binlogNext]_binlogVars => BlockInv'
<1> SUFFICES ASSUME Base, CacheInv, FileInv, BlockInv, [binlogNext]_binlogVars
             PROVE  (\A k \in DOMAIN out : LineComplete(out[k]))' /\ CacheBlocks'
  BY ByLine, PTL DEF BlockInv
<1>0. Types /\ RunTypes /\ FileTypes /\ CacheBlocks /\ \A k \in DOMAIN out : LineComplete(out[k])
  BY ByLine DEF Base, Types, PrintTypes, BlockInv
<1>1. ASSUME logs' = logs, NEW line
      PROVE  LineComplete(line)' <=> LineComplete(line)
  <2>1. \A l : LogEvents(l)' = LogEvents(l)
    BY <1>1 DEF LogEvents
  <2>2. \A n, i : Event(n, i)' = Event(n, i)
    BY <1>1, <2>1 DEF Event
  <2>3. \A e : First(e)' = First(e)
    BY <2>1 DEF First
  <2> QED BY <2>1, <2>2, <2>3 DEF LineComplete, Parts, Holds, Increasing
<1>2. CASE mainProgram
  <2>1. out' = <<>> /\ caches' = <<>>
    BY <1>2 DEF mainProgram
  <2> QED BY <2>1 DEF CacheBlocks
<1>3. ASSUME logs' = logs, \A k \in DOMAIN out' : LineComplete(out'[k]),
             Running' => \A k \in DOMAIN caches' : caches'[k].blocks = <<>>
      PROVE  (\A k \in DOMAIN out : LineComplete(out[k]))' /\ CacheBlocks'
  <2>1. (\A k \in DOMAIN out : LineComplete(out[k]))'
    <3>1. (\A k \in DOMAIN out : \A line : line = out[k] => LineComplete(line))'
      BY <1>1, <1>3
    <3> QED BY <3>1
  <2> QED BY <1>3, <2>1 DEF CacheBlocks
<1>4. CASE Running /\ binlogNext
  <2>1. CASE Ends
    <3>1. logs' = logs /\ ~Running'
      BY <2>1 DEF Ends
    <3>2. CASE ResultCut
      <4>1. \A k \in DOMAIN out' : LineComplete(out'[k])
        BY <1>0, <3>2 DEF ResultCut
      <4> QED BY <1>3, <3>1, <4>1
    <3>3. ASSUME NEW ev \in Packets, IdOK(ev), Fails(ev)
          PROVE  \A k \in DOMAIN out' : LineComplete(out'[k])
      <4>1. PICK pos, ret : \E io \in BOOLEAN : ret # "OK_CONTINUE" /\ process_event(ev, pos, io, ret)
        BY <3>3 DEF Fails
      <4>2. PICK io \in BOOLEAN : ret # "OK_CONTINUE" /\ process_event(ev, pos, io, ret)
        BY <4>1
      <4> QED BY <1>0, <1>4, <3>1, <3>3, <4>2, LinesStep
    <3> QED BY <1>3, <2>1, <3>1, <3>2, <3>3 DEF Ends
  <2>2. CASE Between
    BY <1>0, <1>3, <1>4, <2>2 DEF Between, CacheBlocks
  <2>3. ASSUME NEW ev \in Packets, IdOK(ev), Deals(ev), logs' = logs,
               ev.t \in Executes /\ Grabbed(ev) => LineComplete(LoadLine(ev))
        PROVE  (\A k \in DOMAIN out : LineComplete(out[k]))' /\ CacheBlocks'
    <3>1. PICK pos : \E io \in BOOLEAN : process_event(ev, pos, io, "OK_CONTINUE")
      BY <2>3 DEF Deals
    <3>2. PICK io \in BOOLEAN : process_event(ev, pos, io, "OK_CONTINUE")
      BY <3>1
    <3> QED BY <1>0, <1>3, <1>4, <2>3, <3>2, LinesStep
  <2>4. ASSUME NEW n \in DOMAIN logs, NEW i \in DOMAIN LogEvents(n), Passes(n, i)
        PROVE  (\A k \in DOMAIN out : LineComplete(out[k]))' /\ CacheBlocks'
    <3>1. /\ Event(n, i) \in Packets /\ IdOK(Event(n, i)) /\ logs' = logs /\ Here = <<n, i>> /\ Deals(Event(n, i))
          /\ Event(n, i).t = LogEvents(n)[i].t /\ Event(n, i).id = LogEvents(n)[i].id
      BY <1>0, <2>4, TheEvents, EventShape, EventParts DEF Passes
    <3>2. ASSUME Event(n, i).t \in Executes, Grabbed(Event(n, i))
          PROVE  LineComplete(LoadLine(Event(n, i)))
      <4>1. LogEvents(n)[i].id \in FileIds /\ names[LogEvents(n)[i].id] # NoName
        BY <3>1, <3>2 DEF IdOK, Grabbed
      <4>2. Made(LogEvents(n)[i].id)
        BY <1>4, <4>1 DEF FileInv
      <4> QED BY <1>4, <3>1, <3>2, <4>1, <4>2, LoadLineComplete
    <3> QED BY <2>3, <3>1, <3>2
  <2>5. ASSUME NEW ev \in Packets, Repeats(ev)
        PROVE  (\A k \in DOMAIN out : LineComplete(out[k]))' /\ CacheBlocks'
    <3>1. logs' = logs /\ Deals(ev) /\ ev.t \in {"rotate", "fd"}
      BY <1>0, <2>5, FakeTyped DEF Repeats
    <3>2. IdOK(ev) /\ ev.t \notin Executes
      BY <3>1 DEF IdOK, Starts, Executes
    <3> QED BY <2>3, <3>1, <3>2
  <2> QED BY <1>4, <2>1, <2>2, <2>4, <2>5, RunSteps
<1>5. CASE ~Running /\ binlogNext /\ ~mainProgram
  <2>1. ~Running' /\ ResultCut /\ logs' = logs
    BY <1>0, <1>5, OtherSteps
  <2>2. \A k \in DOMAIN out' : LineComplete(out'[k])
    BY <1>0, <2>1 DEF ResultCut
  <2> QED BY <1>3, <2>1, <2>2
<1>6. CASE UNCHANGED binlogVars
  <2>1. UNCHANGED <<logs, pc, out, missed, caches>>
    BY <1>6 DEF binlogVars, runVars, printVars
  <2> QED BY <1>0, <1>3, <2>1 DEF CacheBlocks, Running, Reading
<1> QED
  BY <1>2, <1>4, <1>5, <1>6

\* The program has not been started.
LEMMA LoadInit == binlogInit => FileInv /\ BlockInv
  BY DEF binlogInit, FileInv, BlockInv, LoadComplete, CacheBlocks, Running, Reading

(***************************************************************************)
(* Every LOAD DATA that is printed has the blocks of its statement, all of *)
(* them, in their order and no other, whatever files earlier runs left     *)
(* (create_unique_file, process_first_event, processAppend, grab_event).   *)
(***************************************************************************)
THEOREM LoadsAlwaysComplete == binlogSpec => []LoadComplete
<1>1. binlogInit => Base /\ CacheInv /\ FileInv /\ BlockInv
  BY InitBase, CacheInit, LoadInit
<1>2. Base /\ CacheInv /\ FileInv /\ BlockInv /\ [binlogNext]_binlogVars => (Base /\ CacheInv /\ FileInv /\ BlockInv)'
  BY BaseStep, CacheStep, FileStep, BlockStep
<1>3. Base /\ CacheInv /\ FileInv /\ BlockInv => LoadComplete
  BY DEF BlockInv
<1> QED
  BY <1>1, <1>2, <1>3, PTL DEF binlogSpec
-----------------------------------------------------------------------------
(***************************************************************************)
(* ReplayBounded: the pair in the file follows the output.                 *)
(***************************************************************************)

\* What an event that is dealt with does to evpos, the buffer and the file.
Saves(ev) ==
    /\ evpos' = [pos |-> ev.ends, of |-> ev.log] \/ (evpos' = evpos /\ ev.t \in {"fd", "create"})
    /\ opt.savable => /\ disk' = IF npfp = NoName THEN NoPair ELSE npfp
                      /\ npfp' = [name |-> cur', pos |-> evpos'.pos, of |-> evpos'.of]
    /\ ~opt.savable => UNCHANGED <<npfp, disk>>

\* current_log_name is the log that is read, and no position is taken in a
\* log behind the one it is saved with.
Named(p) == p.name # NoName => IF p.of = NoName THEN p.pos = 0 ELSE p.of <= p.name
NameInv ==
    /\ ~opt.remote => /\ Running => cur = NoName
                      /\ npfp # NoName => npfp.name = NoName
                      /\ disk.name = NoName
    /\ opt.remote /\ Reading /\ served.ph # "rotate" => cur = served.log
    /\ npfp # NoName => Named(npfp)
    /\ Named(disk)

\* evpos is between the start of the run and the reader, or 0.
Early(p) == p.pos = 0 \/ p.of # p.name \/ ~Before(<<p.name, p.pos>>, from)
EvposInv ==
    opt.remote =>
      /\ Running /\ evpos.of = NoName => evpos.pos = 0
      /\ Running => evpos.pos = 0 \/ ~Before(<<evpos.of, evpos.pos>>, from)
      /\ Running /\ evpos.of # NoName => ~Before(Here, <<evpos.of, evpos.pos>>)
      /\ Running /\ evpos.of # NoName /\ (pc = "main" \/ served.ph = "rotate") => evpos.of < Here[1]
      /\ Running /\ npfp # NoName => npfp.pos = evpos.pos /\ npfp.of = evpos.of
      /\ npfp # NoName => Early(npfp)
      /\ npfp # NoName /\ disk.name # NoName => Early(disk)

\* Row caches hold row events.
CacheRows ==
    Running => \A k \in DOMAIN caches : /\ caches[k].log \in DOMAIN logs
                                        /\ caches[k].pos \in DOMAIN LogEvents(caches[k].log)
                                        /\ LogEvents(caches[k].log)[caches[k].pos].t \in {"map", "rows"}

\* A statement in the result file lies before the pair in the buffer, and
\* before the one in the file unless it is the last.
OutInv ==
    opt.remote =>
      /\ ~opt.savable => npfp = NoName /\ disk.name = NoName
      /\ opt.savable => \A n \in DOMAIN logs : \A i \in DOMAIN LogEvents(n) :
           LogEvents(n)[i].t \in Single /\ InOut(Event(n, i)) =>
             /\ npfp # NoName /\ npfp.of # NoName
             /\ ~Before(<<npfp.of, npfp.pos>>, <<n, i + 1>>)
             /\ disk.name # NoName => \/ disk.of # NoName /\ Before(<<n, i>>, <<disk.of, disk.pos>>)
                                      \/ n = npfp.of /\ i + 1 = npfp.pos

\* save_name_and_pos, for an event that is dealt with.
LEMMA DealsSave ==
    ASSUME Types, NEW ev \in Packets, Deals(ev)
    PROVE  Saves(ev)
<1>1. PICK pos : \E io \in BOOLEAN : process_event(ev, pos, io, "OK_CONTINUE")
  BY DEF Deals
<1>2. PICK io \in BOOLEAN : process_event(ev, pos, io, "OK_CONTINUE")
  BY <1>1
<1>3. \E kept \in BOOLEAN : save_name_and_pos(ev, kept, "OK_CONTINUE") /\ (kept => ev.t \in {"fd", "create"})
  BY <1>2 DEF process_event
<1>4. PICK kept \in BOOLEAN : save_name_and_pos(ev, kept, "OK_CONTINUE") /\ (kept => ev.t \in {"fd", "create"})
  BY <1>3
<1> QED
  BY <1>4 DEF save_name_and_pos, Saves

\* An event that stops the run is not saved.
LEMMA FailsSave ==
    ASSUME Types, NEW ev \in Packets, IdOK(ev), Fails(ev)
    PROVE  UNCHANGED <<npfp, disk>> /\ \E ret : ret # "OK_CONTINUE" /\ PrintsLines(ev, ret)
<1>1. PICK pos : \E ret : \E io \in BOOLEAN : ret # "OK_CONTINUE" /\ process_event(ev, pos, io, ret)
  BY DEF Fails
<1>2. PICK ret : \E io \in BOOLEAN : ret # "OK_CONTINUE" /\ process_event(ev, pos, io, ret)
  BY <1>1
<1>3. PICK io \in BOOLEAN : ret # "OK_CONTINUE" /\ process_event(ev, pos, io, ret)
  BY <1>2
<1>4. PrintsLines(ev, ret)
  BY <1>3, PrintedLines
<1>5. UNCHANGED <<npfp, disk>>
  <2>1. \E kept : save_name_and_pos(ev, kept, ret)
    BY <1>3 DEF process_event
  <2> QED BY <1>3, <2>1 DEF save_name_and_pos
<1> QED
  BY <1>3, <1>4, <1>5

\* What an event that is dealt with prints.
LEMMA DealsPrint ==
    ASSUME Types, NEW ev \in Packets, IdOK(ev), Deals(ev)
    PROVE  PrintsLines(ev, "OK_CONTINUE")
<1>1. PICK pos : \E io \in BOOLEAN : process_event(ev, pos, io, "OK_CONTINUE")
  BY DEF Deals
<1>2. PICK io \in BOOLEAN : process_event(ev, pos, io, "OK_CONTINUE")
  BY <1>1
<1> QED
  BY <1>2, PrintedLines

\* The events that are dealt with, as packets.
LEMMA PassesEvent ==
    ASSUME Base, NEW n \in DOMAIN logs, NEW i \in DOMAIN LogEvents(n), Passes(n, i)
    PROVE  /\ Event(n, i) \in Packets /\ IdOK(Event(n, i)) /\ Saves(Event(n, i))
           /\ PrintsLines(Event(n, i), "OK_CONTINUE")
           /\ Event(n, i).log = n /\ Event(n, i).pos = i /\ Event(n, i).ends = i + 1
           /\ Event(n, i).t = LogEvents(n)[i].t /\ n \in Nat /\ i \in Nat \ {0}
<1>1. Types /\ RunTypes /\ Deals(Event(n, i))
  BY DEF Base, Types, Passes
<1>2. Event(n, i) \in Packets /\ IdOK(Event(n, i)) /\ n \in Nat /\ i \in Nat \ {0}
  BY <1>1, TheEvents, TheLogs, EventShape
<1> QED
  BY <1>1, <1>2, EventParts, DealsSave, DealsPrint

\* The events that are not at the reader's place, as packets.
LEMMA RepeatsEvent ==
    ASSUME Base, NEW ev \in Packets, Repeats(ev)
    PROVE  /\ IdOK(ev) /\ Saves(ev) /\ PrintsLines(ev, "OK_CONTINUE") /\ ev.t \in {"rotate", "fd"}
           /\ ev.log = served.log
           /\ opt.remote => ev.ends = 0 /\ ev.pos = 0
           /\ opt.remote /\ ev.t = "fd" => evpos' = evpos
<1>1. Types /\ Deals(ev)
  BY DEF Base, Repeats
<1>2. ev.t \in {"rotate", "fd"} /\ ev.log = served.log /\ (opt.remote => ev.ends = 0 /\ ev.pos = 0)
  BY <1>1, FakeTyped DEF Repeats
<1>3. IdOK(ev)
  BY <1>2 DEF IdOK, Starts, Executes
<1>4. ASSUME opt.remote, ev.t = "fd"
      PROVE  evpos' = evpos
  <2>1. ev.srv = opt.server
    BY <1>1, <1>4, FakeTyped DEF Repeats
  <2>2. PICK pos : \E io \in BOOLEAN : process_event(ev, pos, io, "OK_CONTINUE")
    BY <1>1 DEF Deals
  <2>3. PICK io \in BOOLEAN : process_event(ev, pos, io, "OK_CONTINUE")
    BY <2>2
  <2>4. InRange(ev) /\ ~OtherServer(ev)
    BY <1>4, <2>1 DEF InRange, OtherServer
  <2>5. save_name_and_pos(ev, TRUE, "OK_CONTINUE")
    BY <1>4, <2>3, <2>4 DEF process_event
  <2> QED BY <2>5 DEF save_name_and_pos
<1> QED
  BY <1>1, <1>2, <1>3, <1>4, DealsSave, DealsPrint

\* The pairs of the buffer and the file are numbers, or name no log.
LEMMA PairsTyped ==
    ASSUME Base
    PROVE  /\ evpos.pos \in Nat /\ evpos.of \in Nat \cup {NoName} /\ NoName \notin Nat
           /\ npfp # NoName => npfp.pos \in Nat /\ npfp.of \in Nat \cup {NoName} /\ npfp.name \in Nat \cup {NoName}
           /\ disk.pos \in Nat /\ disk.of \in Nat \cup {NoName} /\ disk.name \in Nat \cup {NoName}
           /\ from \in Nat \X (Nat \ {0})
<1>1. RunTypes /\ SaveTypes
  BY DEF Base, Types
<1>2. LogNames \subseteq Nat \cup {NoName} /\ NoName \notin Nat /\ from \in Nat \X (Nat \ {0})
  <2>1. DOMAIN logs \subseteq Nat
    BY <1>1, TheLogs
  <2>2. NoName \notin Nat
    BY ReplicatorAssumption
  <2> QED BY <1>1, <2>1, <2>2 DEF LogNames, RunTypes
<1> QED
  BY <1>1, <1>2 DEF SaveTypes

\* The reader's place is not behind itself, nor does it go back.
LEMMA HereLog ==
    ASSUME Base, Running
    PROVE  Here[1] = IF pc = "main" THEN Head(args) ELSE served.log
  BY DEF Here

PairInv == NameInv /\ EvposInv /\ CacheRows /\ OutInv

\* In a run that nothing of was saved yet there is nothing to keep to.
LEMMA PairMain == Base /\ PairInv /\ mainProgram => PairInv'
<1> SUFFICES ASSUME Base, PairInv, mainProgram
             PROVE  PairInv'
  OBVIOUS
<1>1. /\ cur' = NoName /\ evpos' = [pos |-> 0, of |-> NoName] /\ npfp' = NoName /\ out' = <<>> /\ caches' = <<>>
      /\ UNCHANGED <<logs, opt, disk>> /\ pc' = "main"
  BY DEF mainProgram
<1>2. NameInv'
  BY <1>1 DEF PairInv, NameInv, Named, Reading, Running
<1>3. EvposInv'
  BY <1>1 DEF EvposInv
<1>4. CacheRows'
  BY <1>1 DEF CacheRows
<1>5. OutInv'
  BY <1>1 DEF PairInv, OutInv, InOut
<1> QED
  BY <1>2, <1>3, <1>4, <1>5 DEF PairInv

\* The run ends, and between two runs: evpos is not looked at any more, the
\* file is as it was or has the pair of the buffer.
LEMMA PairEnds ==
    ASSUME Base, PairInv, UNCHANGED <<logs, opt, from, npfp>>, ~Running',
           disk' = disk \/ (npfp # NoName /\ disk' = npfp),
           \A n \in DOMAIN logs : \A i \in DOMAIN LogEvents(n) :
             LogEvents(n)[i].t \in Single /\ InOut(Event(n, i))' => InOut(Event(n, i))
    PROVE  PairInv'
<1>0. NameInv /\ EvposInv /\ OutInv /\ ~Reading' /\ RunTypes
  BY DEF PairInv, Running, Base, Types
<1>1. NameInv'
  BY <1>0 DEF NameInv, Named
<1>2. EvposInv'
  BY <1>0 DEF EvposInv, Early
<1>3. CacheRows'
  BY DEF CacheRows
<1>4. OutInv'
  <2> SUFFICES ASSUME opt.remote
               PROVE  /\ ~opt.savable => npfp' = NoName /\ disk'.name = NoName
                      /\ opt.savable => \A n \in DOMAIN logs : \A i \in DOMAIN LogEvents(n) :
                           LogEvents(n)[i].t \in Single /\ InOut(Event(n, i))' =>
                             /\ npfp' # NoName /\ npfp'.of # NoName
                             /\ ~Before(<<npfp'.of, npfp'.pos>>, <<n, i + 1>>)
                             /\ disk'.name # NoName => \/ disk'.of # NoName /\ Before(<<n, i>>, <<disk'.of, disk'.pos>>)
                                                       \/ n = npfp'.of /\ i + 1 = npfp'.pos
    BY <1>0 DEF OutInv, LogEvents, Event
  <2>1. ~opt.savable => npfp' = NoName /\ disk'.name = NoName
    BY <1>0 DEF OutInv
  <2>2. ASSUME opt.savable, NEW n \in DOMAIN logs, NEW i \in DOMAIN LogEvents(n),
               LogEvents(n)[i].t \in Single, InOut(Event(n, i))'
        PROVE  /\ npfp' # NoName /\ npfp'.of # NoName
               /\ ~Before(<<npfp'.of, npfp'.pos>>, <<n, i + 1>>)
               /\ disk'.name # NoName => \/ disk'.of # NoName /\ Before(<<n, i>>, <<disk'.of, disk'.pos>>)
                                         \/ n = npfp'.of /\ i + 1 = npfp'.pos
    <3>1. /\ npfp # NoName /\ npfp.of # NoName /\ ~Before(<<npfp.of, npfp.pos>>, <<n, i + 1>>)
          /\ disk.name # NoName => \/ disk.of # NoName /\ Before(<<n, i>>, <<disk.of, disk.pos>>)
                                   \/ n = npfp.of /\ i + 1 = npfp.pos
      BY <1>0, <2>2 DEF OutInv
    <3>2. n \in Nat /\ i \in Nat
      <4>1. DOMAIN logs \subseteq Nat
        BY <1>0, TheLogs
      <4>2. DOMAIN LogEvents(n) = 1 .. Len(LogEvents(n)) /\ Len(LogEvents(n)) \in Nat
        BY <1>0, TheEvents
      <4> QED BY <4>1, <4>2
    <3>4. npfp.of \in Nat /\ npfp.pos \in Nat
      BY <3>1, PairsTyped
    <3>3. Before(<<n, i>>, <<npfp.of, npfp.pos>>)
      BY <3>1, <3>2, <3>4 DEF Before
    <3> QED BY <3>1, <3>3
  <2> QED BY <2>1, <2>2
<1> QED
  BY <1>1, <1>2, <1>3, <1>4 DEF PairInv

\* Without an event only the reader moves on.
LEMMA PairBetween == Base /\ PairInv /\ Running /\ Between => PairInv'
<1> SUFFICES ASSUME Base, PairInv, Running, Between
             PROVE  PairInv'
  OBVIOUS
<1>0. /\ NameInv /\ EvposInv /\ OutInv /\ CacheRows
      /\ UNCHANGED <<logs, opt, from, evpos, npfp, disk, out, missed>>
      /\ Here \in Nat \X (Nat \ {0}) /\ served.log \in Nat /\ Head(args) \in Nat
      /\ Here[1] = IF pc = "main" THEN Head(args) ELSE served.log
  BY HereTyped, HereLog DEF PairInv, Between
<1>1. NameInv'
  <2>1. ~opt.remote => (Running' => cur' = NoName)
    BY <1>0 DEF NameInv, Between, Stays, Leaves
  <2>2. opt.remote /\ Reading' /\ served'.ph # "rotate" => cur' = served'.log
    <3>1. CASE Leaves
      BY <3>1 DEF Leaves, Reading
    <3>2. CASE Stays
      BY <1>0, <3>2 DEF Stays, NameInv
    <3> QED BY <3>1, <3>2 DEF Between
  <2> QED BY <1>0, <2>1, <2>2 DEF NameInv, Named
<1>2. EvposInv'
  <2> SUFFICES ASSUME opt.remote, Running', evpos.of # NoName
               PROVE  /\ ~Before(Here', <<evpos.of, evpos.pos>>)
                      /\ pc' = "main" \/ served'.ph = "rotate" => evpos.of < Here'[1]
    BY <1>0 DEF EvposInv, Early
  <2>1. evpos.of \in Nat /\ evpos.pos \in Nat
    BY PairsTyped
  <2>2. ~Before(Here, <<evpos.of, evpos.pos>>) /\ (pc = "main" \/ served.ph = "rotate" => evpos.of < Here[1])
    BY <1>0 DEF EvposInv
  <2>3. CASE Stays
    BY <2>2, <2>3 DEF Stays, Reading
  <2>4. CASE Leaves
    <3>1. Here' = <<Head(args) + 1, HeaderSize>> /\ pc # "main"
      BY <2>4, LeavesTo DEF Leaves, Reading
    <3>2. evpos.of <= served.log
      BY <1>0, <2>1, <2>2, <3>1 DEF Before
    <3>3. evpos.of < Head(args) + 1
      <4>1. served.log = Head(args) \/ (served.log = Head(args) + 1 /\ served.ph = "rotate")
        BY <2>4 DEF Leaves
      <4>2. Here[1] = served.log
        BY <1>0, <3>1
      <4> QED BY <1>0, <2>1, <2>2, <3>2, <4>1, <4>2
    <3> QED BY <1>0, <2>1, <3>1, <3>3 DEF Before
  <2> QED BY <2>3, <2>4 DEF Between
<1>3. CacheRows'
  <2>1. caches' = caches \/ caches' = <<>>
    BY DEF Between
  <2> QED BY <1>0, <2>1 DEF CacheRows, LogEvents
<1>4. OutInv'
  <2>1. \A n, i : Event(n, i)' = Event(n, i) /\ LogEvents(n)' = LogEvents(n)
    BY <1>0 DEF Event, LogEvents
  <2> QED BY <1>0, <2>1 DEF OutInv, InOut
<1> QED
  BY <1>1, <1>2, <1>3, <1>4 DEF PairInv

\* The statements in the result file after an event: the ones before, and the
\* event itself.
LEMMA NewInOut ==
    ASSUME Base, CacheRows, Running, logs' = logs, NEW ev \in Packets, NEW ret, PrintsLines(ev, ret),
           NEW n \in DOMAIN logs, NEW i \in DOMAIN LogEvents(n),
           LogEvents(n)[i].t \in Single, InOut(Event(n, i))', ~InOut(Event(n, i))
    PROVE  n = ev.log /\ i = ev.pos /\ (ret = "OK_CONTINUE" \/ ev.t \notin Single)
<1>0. Event(n, i).log = n /\ Event(n, i).pos = i /\ Event(n, i)' = Event(n, i)
  BY DEF Event, LogEvents
<1>1. PICK k \in DOMAIN out' : out'[k].log = n /\ out'[k].pos = i
  BY <1>0 DEF InOut
<1>2. k \notin DOMAIN out
  <2>1. k \in DOMAIN out => out'[k] = out[k]
    BY DEF PrintsLines
  <2> QED BY <1>0, <1>1, <2>1 DEF InOut
<1>3. ~\E c \in DOMAIN caches : out'[k] = caches[c]
  BY <1>1 DEF CacheRows, Single
<1>4. \/ out'[k] = Line(ev) /\ (ev.t \in Single => ret = "OK_CONTINUE")
      \/ out'[k] = LoadLine(ev) /\ ret = "OK_CONTINUE"
  BY <1>2, <1>3 DEF PrintsLines
<1>5. /\ Line(ev).log = ev.log /\ Line(ev).pos = ev.pos
      /\ LoadLine(ev).log = ev.log /\ LoadLine(ev).pos = ev.pos
  BY DEF Line, LoadLine
<1> QED
  BY <1>1, <1>4, <1>5

\* Only rows wait.
LEMMA CacheRowsAfter ==
    ASSUME Base, CacheRows, Running, logs' = logs, NEW ev \in Packets, PrintsLines(ev, "OK_CONTINUE"),
           Open(ev) => /\ ev.log \in DOMAIN logs /\ ev.pos \in DOMAIN LogEvents(ev.log)
                       /\ LogEvents(ev.log)[ev.pos].t = ev.t
    PROVE  CacheRows'
<1> SUFFICES ASSUME NEW k \in DOMAIN caches'
             PROVE  /\ caches'[k].log \in DOMAIN logs
                    /\ caches'[k].pos \in DOMAIN LogEvents(caches'[k].log)
                    /\ LogEvents(caches'[k].log)[caches'[k].pos].t \in {"map", "rows"}
  BY DEF CacheRows, LogEvents
<1>1. (k \in DOMAIN caches /\ caches'[k] = caches[k]) \/ (caches'[k] = Line(ev) /\ Open(ev))
  BY DEF PrintsLines
<1>2. Line(ev).log = ev.log /\ Line(ev).pos = ev.pos
  BY DEF Line
<1>3. CASE caches'[k] = Line(ev) /\ Open(ev)
  BY <1>2, <1>3 DEF Open
<1> QED
  BY <1>1, <1>3 DEF CacheRows

\* evpos and the pairs after an event that ends at a place between the start
\* of the run and the reader, or at no place.
LEMMA PairSaved ==
    ASSUME Base, PairInv, Running, Reading', UNCHANGED <<logs, opt, from>>, NEW ev \in Packets, Saves(ev),
           cur' \in Nat \cup {NoName}, ~opt.remote => cur' = cur,
           opt.remote => /\ cur' \in Nat /\ ev.log <= cur' /\ Here[1] <= cur'
                         /\ served'.ph # "rotate" => cur' = served'.log
                         /\ ev.ends = 0 \/ ~Before(<<ev.log, ev.ends>>, from)
                         /\ ~Before(Here', <<ev.log, ev.ends>>) /\ ~Before(Here', Here)
                         /\ Here' \in Nat \X Nat /\ Here[1] \in Nat /\ Here \in Nat \X Nat
                         /\ served'.ph = "rotate" => ev.log < Here'[1] /\ Here[1] < Here'[1]
    PROVE  NameInv' /\ EvposInv'
<1>0. /\ NameInv /\ EvposInv /\ OutInv /\ Running'
      /\ ev.log \in Nat /\ ev.ends \in Nat
      /\ NoPair.name = NoName
  <2>1. ev.log \in DOMAIN logs /\ ev.ends \in Nat /\ RunTypes
    BY PacketParts DEF Base, Types
  <2>2. DOMAIN logs \subseteq Nat
    BY <2>1, TheLogs
  <2> QED BY <2>1, <2>2 DEF PairInv, Running, Reading, NoPair
<1>1. /\ evpos.pos \in Nat /\ evpos.of \in Nat \cup {NoName} /\ NoName \notin Nat
      /\ npfp # NoName => npfp.pos \in Nat /\ npfp.of \in Nat \cup {NoName} /\ npfp.name \in Nat \cup {NoName}
      /\ from \in Nat \X (Nat \ {0})
  BY PairsTyped
<1>2. evpos' = evpos \/ evpos' = [pos |-> ev.ends, of |-> ev.log]
  BY DEF Saves
<1>3. evpos'.pos \in Nat /\ evpos'.of \in Nat \cup {NoName}
  BY <1>0, <1>1, <1>2
<1>4. opt.remote => /\ evpos'.of = NoName => evpos'.pos = 0
                    /\ evpos'.pos = 0 \/ ~Before(<<evpos'.of, evpos'.pos>>, from)
                    /\ evpos'.of # NoName => evpos'.of <= cur' /\ ~Before(Here', <<evpos'.of, evpos'.pos>>)
                    /\ evpos'.of # NoName /\ served'.ph = "rotate" => evpos'.of < Here'[1]
  <2> SUFFICES ASSUME opt.remote
               PROVE  /\ evpos'.of = NoName => evpos'.pos = 0
                      /\ evpos'.pos = 0 \/ ~Before(<<evpos'.of, evpos'.pos>>, from)
                      /\ evpos'.of # NoName => evpos'.of <= cur' /\ ~Before(Here', <<evpos'.of, evpos'.pos>>)
                      /\ evpos'.of # NoName /\ served'.ph = "rotate" => evpos'.of < Here'[1]
    OBVIOUS
  <2>1. CASE evpos' = [pos |-> ev.ends, of |-> ev.log]
    BY <1>0, <1>1, <2>1
  <2>2. CASE evpos' = evpos
    <3>1. /\ evpos.of = NoName => evpos.pos = 0
          /\ evpos.pos = 0 \/ ~Before(<<evpos.of, evpos.pos>>, from)
          /\ evpos.of # NoName => ~Before(Here, <<evpos.of, evpos.pos>>)
      BY <1>0 DEF EvposInv
    <3>2. evpos.of # NoName => evpos.of <= Here[1] /\ ~Before(Here', <<evpos.of, evpos.pos>>)
      BY <1>1, <3>1 DEF Before
    <3>3. evpos.of # NoName => evpos.of <= cur'
      BY <1>1, <3>2
    <3>4. evpos.of # NoName /\ served'.ph = "rotate" => evpos.of < Here'[1]
      BY <1>1, <3>2
    <3> QED BY <2>2, <3>1, <3>2, <3>3, <3>4
  <2> QED BY <1>2, <2>1, <2>2
<1>5. \/ npfp' = npfp /\ disk' = disk /\ ~opt.savable
      \/ /\ npfp' = [name |-> cur', pos |-> evpos'.pos, of |-> evpos'.of]
         /\ disk'.name = NoName \/ (npfp # NoName /\ disk' = npfp)
  <2>1. CASE opt.savable
    BY <1>0, <2>1 DEF Saves
  <2>2. CASE ~opt.savable
    BY <2>2 DEF Saves
  <2> QED BY <2>1, <2>2
<1>6. NameInv'
  <2>1. CASE npfp' = npfp /\ disk' = disk /\ ~opt.savable
    BY <1>0, <2>1 DEF NameInv, Named
  <2>2. CASE /\ npfp' = [name |-> cur', pos |-> evpos'.pos, of |-> evpos'.of]
             /\ disk'.name = NoName \/ (npfp # NoName /\ disk' = npfp)
    <3>1. npfp'.name = cur' /\ npfp'.pos = evpos'.pos /\ npfp'.of = evpos'.of
      BY <2>2
    <3>2. disk'.name = NoName \/ (npfp # NoName /\ disk' = npfp)
      BY <2>2
    <3>3. ~opt.remote => /\ Running' => cur' = NoName
                         /\ npfp'.name = NoName
                         /\ disk'.name = NoName
      BY <1>0, <3>1, <3>2 DEF NameInv
    <3>4. Named(npfp)'
      BY <1>4, <3>1, <3>3, <1>0 DEF Named
    <3>5. Named(disk)'
      BY <1>0, <3>2 DEF NameInv, Named
    <3> QED BY <3>3, <3>4, <3>5 DEF NameInv
  <2> QED BY <1>5, <2>1, <2>2
<1>7. EvposInv'
  <2> SUFFICES ASSUME opt.remote
               PROVE  /\ Running' /\ npfp' # NoName => npfp'.pos = evpos'.pos /\ npfp'.of = evpos'.of
                      /\ npfp' # NoName => Early(npfp)'
                      /\ npfp' # NoName /\ disk'.name # NoName => Early(disk)'
    BY <1>4, Reading' DEF EvposInv, Reading
  <2>1. CASE npfp' = npfp /\ disk' = disk /\ ~opt.savable
    BY <1>0, <2>1 DEF OutInv
  <2>2. CASE /\ npfp' = [name |-> cur', pos |-> evpos'.pos, of |-> evpos'.of]
             /\ disk'.name = NoName \/ (npfp # NoName /\ disk' = npfp)
    <3>1. npfp'.name = cur' /\ npfp'.pos = evpos'.pos /\ npfp'.of = evpos'.of
      BY <2>2
    <3>2. disk'.name = NoName \/ (npfp # NoName /\ disk' = npfp)
      BY <2>2
    <3>3. Early(npfp)'
      BY <1>4, <3>1 DEF Early
    <3>4. npfp # NoName => Early(npfp)
      BY <1>0 DEF EvposInv
    <3> QED BY <3>1, <3>2, <3>3, <3>4 DEF Early
  <2> QED BY <1>5, <2>1, <2>2
<1> QED
  BY <1>6, <1>7

\* OutInv after an event that ends where it says, or is not one of the log.
LEMMA PairOut ==
    ASSUME Base, PairInv, Running, UNCHANGED <<logs, opt>>, NEW ev \in Packets, Saves(ev),
           PrintsLines(ev, "OK_CONTINUE"),
           opt.remote => \/ ev.pos = 0
                         \/ ev.ends = ev.pos + 1 /\ ev.t = LogEvents(ev.log)[ev.pos].t,
           opt.remote => cur' \in Nat \cup {NoName},
           opt.remote /\ evpos.of # NoName /\ evpos' # evpos =>
             ~Before(<<ev.log, ev.ends>>, <<evpos.of, evpos.pos>>)
    PROVE  OutInv'
<1>0. EvposInv /\ OutInv /\ CacheRows /\ RunTypes
  BY DEF PairInv, Base, Types
<1> SUFFICES ASSUME opt.remote
             PROVE  /\ ~opt.savable => npfp' = NoName /\ disk'.name = NoName
                    /\ opt.savable => \A n \in DOMAIN logs : \A i \in DOMAIN LogEvents(n) :
                         LogEvents(n)[i].t \in Single /\ InOut(Event(n, i))' =>
                           /\ npfp' # NoName /\ npfp'.of # NoName
                           /\ ~Before(<<npfp'.of, npfp'.pos>>, <<n, i + 1>>)
                           /\ disk'.name # NoName => \/ disk'.of # NoName /\ Before(<<n, i>>, <<disk'.of, disk'.pos>>)
                                                     \/ n = npfp'.of /\ i + 1 = npfp'.pos
  BY DEF OutInv, LogEvents, Event
<1>1. ~opt.savable => npfp' = NoName /\ disk'.name = NoName
  BY <1>0 DEF OutInv, Saves
<1>2. ASSUME opt.savable, NEW n \in DOMAIN logs, NEW i \in DOMAIN LogEvents(n),
             LogEvents(n)[i].t \in Single, InOut(Event(n, i))'
      PROVE  /\ npfp' # NoName /\ npfp'.of # NoName
             /\ ~Before(<<npfp'.of, npfp'.pos>>, <<n, i + 1>>)
             /\ disk'.name # NoName => \/ disk'.of # NoName /\ Before(<<n, i>>, <<disk'.of, disk'.pos>>)
                                       \/ n = npfp'.of /\ i + 1 = npfp'.pos
  <2>0. n \in Nat /\ i \in Nat \ {0} /\ ev.log \in Nat /\ ev.ends \in Nat
    <3>1. DOMAIN logs \subseteq Nat
      BY <1>0, TheLogs
    <3>2. DOMAIN LogEvents(n) = 1 .. Len(LogEvents(n)) /\ Len(LogEvents(n)) \in Nat
      BY <1>0, TheEvents
    <3>3. ev.log \in DOMAIN logs /\ ev.ends \in Nat
      BY PacketParts
    <3> QED BY <3>1, <3>2, <3>3
  <2>1. /\ npfp'.pos = evpos'.pos /\ npfp'.of = evpos'.of
        /\ disk' = IF npfp = NoName THEN NoPair ELSE npfp
    BY <1>2 DEF Saves
  <2>2. npfp' # NoName
    <3>1. npfp' = [name |-> cur', pos |-> evpos'.pos, of |-> evpos'.of]
      BY <1>2 DEF Saves
    <3>2. evpos'.pos \in Nat /\ evpos'.of \in Nat \cup {NoName}
      BY <2>0, PairsTyped DEF Saves
    <3>3. npfp' \in Pairs
      BY <3>1, <3>2 DEF Pairs
    <3> QED BY <3>3, ReplicatorAssumption
  <2>3. \/ evpos' = [pos |-> ev.ends, of |-> ev.log]
        \/ evpos' = evpos /\ ev.t \in {"fd", "create"}
    BY DEF Saves
  <2>4. CASE InOut(Event(n, i))
    <3>1. /\ npfp # NoName /\ npfp.of # NoName /\ ~Before(<<npfp.of, npfp.pos>>, <<n, i + 1>>)
          /\ npfp.pos = evpos.pos /\ npfp.of = evpos.of
      BY <1>0, <1>2, <2>4 DEF OutInv, EvposInv
    <3>2. evpos.of \in Nat /\ evpos.pos \in Nat
      BY <3>1, PairsTyped
    <3>3. evpos'.of # NoName /\ ~Before(<<evpos'.of, evpos'.pos>>, <<n, i + 1>>)
      <4>1. CASE evpos' = evpos
        BY <3>1, <4>1
      <4>2. CASE evpos' # evpos
        <5>1. evpos'.pos = ev.ends /\ evpos'.of = ev.log /\ ev.log # NoName
          BY <2>0, <2>3, <4>2, PairsTyped
        <5>2. ~Before(<<ev.log, ev.ends>>, <<evpos.of, evpos.pos>>)
          BY <3>1, <4>2
        <5>3. ~Before(<<ev.log, ev.ends>>, <<n, i + 1>>)
          BY <2>0, <3>1, <3>2, <5>2 DEF Before
        <5> QED BY <5>1, <5>3
      <4> QED BY <4>1, <4>2
    <3>4. disk'.of # NoName /\ Before(<<n, i>>, <<disk'.of, disk'.pos>>)
      <4>1. disk' = npfp
        BY <2>1, <3>1
      <4>2. Before(<<n, i>>, <<npfp.of, npfp.pos>>)
        BY <2>0, <3>1, <3>2 DEF Before
      <4> QED BY <3>1, <4>1, <4>2
    <3> QED BY <2>1, <2>2, <3>3, <3>4
  <2>5. CASE ~InOut(Event(n, i))
    <3>1. n = ev.log /\ i = ev.pos
      BY <1>0, <1>2, <2>5, NewInOut
    <3>2. ev.ends = i + 1 /\ ev.t \in Single
      BY <1>2, <2>0, <3>1
    <3>3. evpos' = [pos |-> i + 1, of |-> n]
      BY <2>3, <3>1, <3>2 DEF Single
    <3>4. ~Before(<<n, i + 1>>, <<n, i + 1>>) /\ n # NoName
      BY <2>0, PairsTyped DEF Before
    <3> QED BY <2>1, <2>2, <3>3, <3>4
  <2> QED BY <2>4, <2>5
<1> QED
  BY <1>1, <1>2

\* The event at the reader's place.
LEMMA PairPasses ==
    ASSUME Base, FromInv, PairInv, NEW n \in DOMAIN logs, NEW i \in DOMAIN LogEvents(n), Passes(n, i)
    PROVE  PairInv'
<1> DEFINE ev == Event(n, i)
<1>1. /\ ev \in Packets /\ IdOK(ev) /\ Saves(ev) /\ PrintsLines(ev, "OK_CONTINUE")
      /\ ev.log = n /\ ev.pos = i /\ ev.ends = i + 1
      /\ ev.t = LogEvents(n)[i].t /\ n \in Nat /\ i \in Nat \ {0}
  BY PassesEvent
<1> HIDE DEF ev
<1>2. /\ Running /\ Reading /\ Reading' /\ UNCHANGED <<logs, opt, from>> /\ Here = <<n, i>>
      /\ served.log = n /\ served.ph = "log" /\ (~opt.remote => cur' = cur)
      /\ NameInv /\ EvposInv /\ OutInv /\ CacheRows
  BY DEF Passes, Running, Reading, PairInv
<1>3. opt.remote => \/ Here' = <<n, i + 1>> /\ served'.ph = "log" /\ served'.log = n /\ cur' = n
                    \/ Here' = <<n + 1, HeaderSize>> /\ served'.ph = "rotate" /\ cur' = n + 1
  <2>1. opt.remote => cur = n
    BY <1>2 DEF NameInv
  <2> QED BY <2>1 DEF Passes
<1>4. from \in Nat \X (Nat \ {0}) /\ ~Before(<<n, i>>, from)
  BY <1>2, HereTyped DEF FromInv
<1>5. cur' \in Nat \cup {NoName}
  <2>1. ~opt.remote => cur' = NoName
    BY <1>2 DEF NameInv
  <2> QED BY <1>1, <1>3, <2>1
<1>6. NameInv' /\ EvposInv'
  <2>1. opt.remote => /\ cur' \in Nat /\ ev.log <= cur' /\ Here[1] <= cur'
                      /\ served'.ph # "rotate" => cur' = served'.log
    BY <1>1, <1>2, <1>3
  <2>2. ~Before(<<ev.log, ev.ends>>, from)
    BY <1>1, <1>4 DEF Before
  <2>3. opt.remote => /\ ~Before(Here', <<ev.log, ev.ends>>) /\ ~Before(Here', Here)
                      /\ Here' \in Nat \X Nat /\ Here[1] \in Nat /\ Here \in Nat \X Nat
                      /\ served'.ph = "rotate" => ev.log < Here'[1] /\ Here[1] < Here'[1]
    BY <1>1, <1>2, <1>3 DEF Before, HeaderSize
  <2> QED BY <1>1, <1>2, <1>5, <2>1, <2>2, <2>3, PairSaved
<1>7. CacheRows'
  <2>1. Open(ev) => /\ ev.log \in DOMAIN logs /\ ev.pos \in DOMAIN LogEvents(ev.log)
                    /\ LogEvents(ev.log)[ev.pos].t = ev.t
    BY <1>1
  <2> QED BY <1>1, <1>2, <2>1, CacheRowsAfter
<1>8. OutInv'
  <2>1. opt.remote /\ evpos.of # NoName => ~Before(<<ev.log, ev.ends>>, <<evpos.of, evpos.pos>>)
    <3> SUFFICES ASSUME opt.remote, evpos.of # NoName
                 PROVE  ~Before(<<ev.log, ev.ends>>, <<evpos.of, evpos.pos>>)
      OBVIOUS
    <3>1. ~Before(<<n, i>>, <<evpos.of, evpos.pos>>)
      BY <1>2 DEF EvposInv
    <3>2. evpos.of \in Nat /\ evpos.pos \in Nat
      BY PairsTyped
    <3> QED BY <1>1, <3>1, <3>2 DEF Before
  <2> QED BY <1>1, <1>2, <1>5, <2>1, PairOut
<1> QED
  BY <1>6, <1>7, <1>8 DEF PairInv

\* An event that is not at the reader's place.
LEMMA PairRepeats ==
    ASSUME Base, PairInv, NEW ev \in Packets, Repeats(ev)
    PROVE  PairInv'
<1>1. /\ IdOK(ev) /\ Saves(ev) /\ PrintsLines(ev, "OK_CONTINUE") /\ ev.t \in {"rotate", "fd"}
      /\ ev.log = served.log
      /\ opt.remote => ev.ends = 0 /\ ev.pos = 0
      /\ opt.remote /\ ev.t = "fd" => evpos' = evpos
  BY RepeatsEvent
<1>2. /\ Running /\ Reading /\ Reading' /\ UNCHANGED <<logs, opt, from>> /\ Here' = Here
      /\ served'.log = served.log /\ served'.ph # "rotate"
      /\ NameInv /\ EvposInv /\ OutInv /\ CacheRows
  BY DEF Repeats, Running, PairInv
<1>3. Here \in Nat \X (Nat \ {0}) /\ Here[1] = served.log /\ served.log \in Nat
  <2>1. pc # "main"
    BY <1>2 DEF Reading
  <2> QED BY <1>2, <2>1, HereTyped, HereLog
<1>4. /\ opt.remote => cur' = served.log
      /\ ~opt.remote => cur' = cur
      /\ opt.remote => served.ph = "rotate" \/ ev.t = "fd"
  BY <1>2 DEF Repeats, NameInv
<1>5. cur' \in Nat \cup {NoName}
  <2>1. ~opt.remote => cur' = NoName
    BY <1>2, <1>4 DEF NameInv
  <2> QED BY <1>3, <1>4, <2>1
<1>6. NameInv' /\ EvposInv'
  <2>1. opt.remote => /\ cur' \in Nat /\ ev.log <= cur' /\ Here[1] <= cur' /\ cur' = served'.log
                      /\ ev.ends = 0
                      /\ Here' \in Nat \X Nat /\ Here[1] \in Nat /\ Here \in Nat \X Nat
    BY <1>1, <1>2, <1>3, <1>4
  <2>2. opt.remote => ~Before(Here', <<ev.log, ev.ends>>) /\ ~Before(Here', Here)
    BY <1>1, <1>2, <1>3 DEF Before
  <2> QED BY <1>1, <1>2, <1>4, <1>5, <2>1, <2>2, PairSaved
<1>7. CacheRows'
  <2>1. ~Open(ev)
    BY <1>1 DEF Open
  <2> QED BY <1>1, <1>2, <2>1, CacheRowsAfter
<1>8. OutInv'
  <2>1. opt.remote /\ evpos.of # NoName /\ evpos' # evpos => ~Before(<<ev.log, ev.ends>>, <<evpos.of, evpos.pos>>)
    <3> SUFFICES ASSUME opt.remote, evpos.of # NoName, evpos' # evpos
                 PROVE  ~Before(<<ev.log, ev.ends>>, <<evpos.of, evpos.pos>>)
      OBVIOUS
    <3>1. served.ph = "rotate"
      BY <1>1, <1>4
    <3>2. evpos.of < served.log
      BY <1>2, <1>3, <3>1 DEF EvposInv
    <3>3. evpos.of \in Nat /\ evpos.pos \in Nat
      BY PairsTyped
    <3> QED BY <1>1, <1>3, <3>2, <3>3 DEF Before
  <2> QED BY <1>1, <1>2, <1>5, <2>1, PairOut
<1> QED
  BY <1>6, <1>7, <1>8 DEF PairInv

\* The pairs follow the output in every step.
LEMMA PairStep == Base /\ CacheInv /\ FromInv /\ PairInv /\ [binlogNext]_binlogVars => PairInv'
<1> SUFFICES ASSUME Base, CacheInv, FromInv, PairInv, [binlogNext]_binlogVars
             PROVE  PairInv'
  OBVIOUS
<1>1. CASE mainProgram
  BY <1>1, PairMain
<1>2. CASE Running /\ binlogNext
  <2>1. CASE Ends
    <3>1. UNCHANGED <<logs, opt, from>> /\ ~Running'
      BY <2>1 DEF Ends
    <3>2. ASSUME ResultCut, UNCHANGED npfp, disk' = disk \/ (npfp # NoName /\ disk' = npfp)
          PROVE  PairInv'
      <4>1. \A n, i : InOut(Event(n, i))' => InOut(Event(n, i))
        BY <3>1, <3>2 DEF InOut, Event, LogEvents, ResultCut
      <4> QED BY <3>1, <3>2, <4>1, PairEnds
    <3>3. ASSUME NEW ev \in Packets, IdOK(ev), OfLog(ev), Fails(ev)
          PROVE  PairInv'
      <4>0. Types /\ CacheRows
        BY DEF Base, PairInv
      <4>1. UNCHANGED <<npfp, disk>> /\ \E ret : ret # "OK_CONTINUE" /\ PrintsLines(ev, ret)
        BY <3>3, <4>0, FailsSave
      <4>2. PICK ret : ret # "OK_CONTINUE" /\ PrintsLines(ev, ret)
        BY <4>1
      <4>3. ASSUME NEW n \in DOMAIN logs, NEW i \in DOMAIN LogEvents(n),
                   LogEvents(n)[i].t \in Single, InOut(Event(n, i))'
            PROVE  InOut(Event(n, i))
        <5>1. ~InOut(Event(n, i)) => n = ev.log /\ i = ev.pos /\ ev.t \notin Single
          BY <1>2, <3>1, <4>0, <4>2, <4>3, NewInOut
        <5> QED BY <3>3, <4>3, <5>1 DEF OfLog
      <4> QED BY <3>1, <4>1, <4>3, PairEnds
    <3> QED BY <2>1, <3>2, <3>3 DEF Ends
  <2>2. CASE Between
    BY <1>2, <2>2, PairBetween
  <2>3. ASSUME NEW n \in DOMAIN logs, NEW i \in DOMAIN LogEvents(n), Passes(n, i)
        PROVE  PairInv'
    BY <2>3, PairPasses
  <2>4. ASSUME NEW ev \in Packets, Repeats(ev)
        PROVE  PairInv'
    BY <2>4, PairRepeats
  <2> QED BY <1>2, <2>1, <2>2, <2>3, <2>4, RunSteps
<1>3. CASE ~Running /\ binlogNext /\ ~mainProgram
  <2>1. /\ ~Running' /\ ResultCut /\ UNCHANGED <<logs, opt, from, npfp>>
        /\ disk' = disk \/ (npfp # NoName /\ disk' = npfp)
    BY <1>3, OtherSteps
  <2>2. \A n, i : InOut(Event(n, i))' => InOut(Event(n, i))
    BY <2>1 DEF InOut, Event, LogEvents, ResultCut
  <2> QED BY <2>1, <2>2, PairEnds
<1>4. CASE UNCHANGED binlogVars
  BY <1>4 DEF binlogVars, runVars, printVars, saveVars, PairInv, NameInv, EvposInv, CacheRows, OutInv, Named, Early,
              Running, Reading, Here, InOut, Event, LogEvents
<1> QED
  BY <1>1, <1>2, <1>3, <1>4

\* The statements that are printed again are the last one.
LEMMA LastStatement ==
    ASSUME Base, PairInv, disk.name # NoName,
           NEW e \in Effective, e.t # "rows", InOut(e), ~Before(Place(e), Saved)
    PROVE  e = Event(npfp.of, npfp.pos - 1)
<1>0. RunTypes /\ NameInv /\ EvposInv /\ OutInv
  BY DEF Base, Types, PairInv
<1>1. PICK n \in DOMAIN logs : \E i \in DOMAIN LogEvents(n) : e = Event(n, i)
  BY DEF Effective, AllEvents
<1>2. PICK i \in DOMAIN LogEvents(n) : e = Event(n, i)
  BY <1>1
<1>3. e.t = LogEvents(n)[i].t /\ e.log = n /\ e.pos = i
  BY <1>0, <1>2, EventParts
<1>4. n \in Nat /\ i \in Nat
  <2>1. DOMAIN logs \subseteq Nat
    BY <1>0, TheLogs
  <2>2. DOMAIN LogEvents(n) = 1 .. Len(LogEvents(n)) /\ Len(LogEvents(n)) \in Nat
    BY <1>0, TheEvents
  <2> QED BY <2>1, <2>2
<1>5. LogEvents(n)[i].t \in Single /\ InOut(Event(n, i))
  BY <1>2, <1>3 DEF Effective, Single
<1>6. opt.remote /\ opt.savable
  BY <1>0 DEF NameInv, OutInv
<1>7. \/ disk.of # NoName /\ Before(<<n, i>>, <<disk.of, disk.pos>>)
      \/ n = npfp.of /\ i + 1 = npfp.pos
  BY <1>0, <1>5, <1>6 DEF OutInv
<1>8. ~(disk.of # NoName /\ Before(<<n, i>>, <<disk.of, disk.pos>>))
  <2>1. disk.of # NoName => disk.of <= disk.name
    BY <1>0 DEF NameInv, Named
  <2>2. disk.of # NoName => disk.of \in Nat /\ disk.name \in Nat /\ disk.pos \in Nat
    BY PairsTyped
  <2>3. ~Before(<<n, i>>, <<disk.name, disk.pos>>)
    BY <1>3 DEF Place, Saved
  <2> QED BY <1>4, <2>1, <2>2, <2>3 DEF Before
<1>9. n = npfp.of /\ i = npfp.pos - 1
  BY <1>4, <1>7, <1>8
<1> QED
  BY <1>2, <1>9

\* ReplayBounded from what is known of the pairs.
LEMMA PairBounds == Base /\ PairInv => ReplayBounded
<1> SUFFICES ASSUME Base, PairInv, disk.name # NoName
             PROVE  /\ Cardinality({e \in Effective : e.t # "rows" /\ InOut(e) /\ ~Before(Place(e), Saved)}) <= 1
                    /\ npfp # NoName /\ Before(Saved, from) => disk.pos = 0 \/ Mixed(disk)
  BY DEF ReplayBounded
<1> DEFINE Again == {e \in Effective : e.t # "rows" /\ InOut(e) /\ ~Before(Place(e), Saved)}
<1>1. Again \subseteq {Event(npfp.of, npfp.pos - 1)}
  BY LastStatement
<1>2. Cardinality(Again) <= 1
  <2> HIDE DEF Again
  <2> DEFINE e == Event(npfp.of, npfp.pos - 1)
  <2> HIDE DEF e
  <2>1. Again \subseteq {e}
    BY <1>1 DEF e
  <2>2. IsFiniteSet({e}) /\ Cardinality({e}) = 1
    BY FS_Singleton
  <2>3. Cardinality(Again) <= Cardinality({e})
    BY <2>1, <2>2, FS_Subset
  <2> QED BY <2>2, <2>3
<1>3. npfp # NoName /\ Before(Saved, from) => disk.pos = 0 \/ Mixed(disk)
  BY DEF PairInv, NameInv, EvposInv, Early, Saved, Mixed
<1> QED
  BY <1>2, <1>3

\* The program has not been started.
LEMMA PairInit == binlogInit => FromInv /\ PairInv
<1> SUFFICES ASSUME binlogInit
             PROVE  FromInv /\ PairInv
  OBVIOUS
<1>1. pc = "idle" /\ npfp = NoName /\ disk = NoPair /\ out = <<>>
  BY DEF binlogInit
<1>2. ~Running /\ ~Reading /\ disk.name = NoName
  BY <1>1 DEF Running, Reading, NoPair
<1>3. NameInv /\ EvposInv /\ CacheRows /\ OutInv
  BY <1>1, <1>2 DEF NameInv, Named, EvposInv, CacheRows, OutInv, InOut
<1> QED
  BY <1>2, <1>3 DEF FromInv, PairInv

(***************************************************************************)
(* Of what this run has printed at most one statement outside the row      *)
(* events is printed again by a run that starts at the pair in the file,   *)
(* and such a run starts before this one only at position 0 or with a      *)
(* mixed pair (save_name_and_pos at the end of process_event, the buffer   *)
(* of its stream, and the crash that loses it).                            *)
(***************************************************************************)
THEOREM ReplayAlwaysBounded == binlogSpec => []ReplayBounded
<1>1. binlogInit => Base /\ CacheInv /\ FromInv /\ PairInv
  BY InitBase, CacheInit, PairInit
<1>2. Base /\ CacheInv /\ FromInv /\ PairInv /\ [binlogNext]_binlogVars => (Base /\ CacheInv /\ FromInv /\ PairInv)'
  BY BaseStep, CacheStep, FromStep, PairStep
<1>3. Base /\ PairInv => ReplayBounded
  BY PairBounds
<1> QED
  BY <1>1, <1>2, <1>3, PTL DEF binlogSpec

-----------------------------------------------------------------------------
(***************************************************************************)
(* LossExplained: nothing is missing between the start of the run and the  *)
(* pair in the file.                                                       *)
(***************************************************************************)
Whole == opt.remote /\ opt.offset = 0 /\ opt.startTime = 0

\* The events behind the reader from this one on leave a row statement open.
Since(j) == \A k \in j .. served.idx - 1 : Open(LogEvents(served.log)[k])

\* The caches hold rows of the statement before the reader, and a table is
\* ignored because of a Table_map of that statement.
CachesWait ==
    \A k \in DOMAIN caches : \A j : j = caches[k].pos =>
      caches[k].log = served.log /\ j \in 1 .. served.idx - 1 /\ Since(j)
Ignored(d) == \E j \in 1 .. served.idx - 1 :
                 /\ LogEvents(served.log)[j].t = "map" /\ LogEvents(served.log)[j].id = d
                 /\ shall_skip_database(LogEvents(served.log)[j].db) /\ Since(j)
IgnoredWait == \A d \in ignored : Ignored(d)
StatementInv == Reading => CachesWait /\ IgnoredWait

\* LOAD DATA is not of a 3.23 server when no log is.
GlobInv == Reading /\ (\A n \in DOMAIN logs : logs[n].ver # 1) => glob >= 3

\* A LOAD DATA whose first event this run has dealt with has its record until
\* it is executed.
Pending(n, j) ==
    /\ Behind(n, j) /\ ~Before(<<n, j>>, from) /\ LogEvents(n)[j].t \in Starts /\ ~OtherServer(LogEvents(n)[j])
    /\ LogEvents(n)[j].t = "create" => ~shall_skip_database(LogEvents(n)[j].db)
    /\ logs[n].ver # 1
    /\ \A m \in DOMAIN logs : \A k \in DOMAIN LogEvents(m) :
          Behind(m, k) /\ Before(<<n, j>>, <<m, k>>) /\ LogEvents(m)[k].id = LogEvents(n)[j].id
            => LogEvents(m)[k].t \notin Starts \cup Executes
Recorded(e) == names[e.id] # NoName /\ names[e.id].event = (e.t = "create")
NamesInv ==
    Whole /\ Running =>
      \A n \in DOMAIN logs : \A j \in DOMAIN LogEvents(n) : Pending(n, j) => Recorded(LogEvents(n)[j])

\* The events LossExplained speaks of, and what has become of them.
Wanted(e) == e \in Effective /\ ~Before(Place(e), from) /\ ~Before(<<e.log, First(e)>>, from)
Cached(e) == Reading /\ e.t = "rows" /\ \E k \in DOMAIN caches : caches[k].log = e.log /\ caches[k].pos = e.pos
EndsAt(e, i) == LogEvents(e.log)[i].t = "rows" /\ LogEvents(e.log)[i].end
NeverEnds(e) == e.t = "rows" /\ \A i \in e.pos .. Len(LogEvents(e.log)) : ~EndsAt(e, i)
EndBefore(e, p) == \E i \in e.pos .. Len(LogEvents(e.log)) : EndsAt(e, i) /\ Before(<<e.log, i>>, p)

\* Everything before p was printed, whether or not the result took it, is in
\* the caches or is part of a statement that the log breaks off; or, for a
\* pair, of one not over at p.
Settled(e) == InOut(e) \/ Place(e) \in missed
Reached(p) == \A e \in AllEvents : Wanted(e) /\ Before(Place(e), p) => Settled(e) \/ Cached(e) \/ NeverEnds(e)
Covered(p) == \A e \in AllEvents : Wanted(e) /\ Before(Place(e), p) => Settled(e) \/ (e.t = "rows" /\ ~EndBefore(e, p))
PairCovered(pair) == pair.name # NoName /\ ~Mixed(pair) => Covered(<<pair.name, pair.pos>>)
ReaderInv == Running => \A h : h = Here => Reached(h)
CoverInv ==
    Whole =>
      /\ ReaderInv
      /\ npfp # NoName => \A pair : pair = npfp => PairCovered(pair)
      /\ \A pair : pair = disk => PairCovered(pair)

\* The format description follows the log.
LEMMA FormatAfter ==
    ASSUME NEW ev, Deals(ev)
    PROVE  glob' = glob \/ (glob' = ev.ver /\ ev.t = "fd")
<1>1. PICK pos : \E io \in BOOLEAN : process_event(ev, pos, io, "OK_CONTINUE")
  BY DEF Deals
<1>2. PICK io \in BOOLEAN : process_event(ev, pos, io, "OK_CONTINUE")
  BY <1>1
<1> QED
  BY <1>2 DEF process_event, queryEvent, createFileEvent, appendBlockEvent, beginLoadQueryEvent, execLoadEvent,
              executeLoadQueryEvent, formatDescriptionEvent, tableMapEvent, rowsEvent, otherEvent

\* A table is ignored because of its Table_map.
LEMMA IgnoredAfter ==
    ASSUME NEW ev, Deals(ev), NEW d \in ignored'
    PROVE  d \in ignored \/ (ev.t = "map" /\ d = ev.id /\ shall_skip_database(ev.db))
<1>1. PICK pos : \E io \in BOOLEAN : process_event(ev, pos, io, "OK_CONTINUE")
  BY DEF Deals
<1>2. PICK io \in BOOLEAN : process_event(ev, pos, io, "OK_CONTINUE")
  BY <1>1
<1>3. \/ ignored' = ignored \/ ignored' = {}
      \/ ev.t = "map" /\ shall_skip_database(ev.db) /\ ignored' = ignored \cup {ev.id}
  BY <1>2 DEF process_event, queryEvent, createFileEvent, appendBlockEvent, beginLoadQueryEvent, execLoadEvent,
              executeLoadQueryEvent, formatDescriptionEvent, tableMapEvent, rowsEvent, otherEvent, printVars
<1> QED
  BY <1>3

\* A reader that has opened a log of a later version does not take it for 3.23.
LEMMA GlobStep == Base /\ CacheInv /\ GlobInv /\ [binlogNext]_binlogVars => GlobInv'
<1> SUFFICES ASSUME Base, CacheInv, GlobInv, [binlogNext]_binlogVars, Reading', \A n \in DOMAIN logs' : logs'[n].ver # 1
             PROVE  glob' >= 3
  BY DEF GlobInv
<1>1. Running' /\ ~mainProgram
  BY DEF Running, Reading, mainProgram
<1>2. CASE Running /\ binlogNext
  <2>0. RunTypes /\ logs' = logs
    BY <1>2, <1>1, RunSteps DEF Base, Types, Ends, Between, Passes, Repeats
  <2>1. CASE Between
    <3>1. CASE pc = "main"
      BY <2>0, <2>1, <3>1 DEF Between, FormatSet
    <3>2. CASE pc # "main"
      BY <1>2, <2>0, <2>1, <3>2 DEF Between, FormatSet, GlobInv, Running
    <3> QED BY <3>1, <3>2
  <2>2. ASSUME NEW n \in DOMAIN logs, NEW ev, Deals(ev), Reading, ev.t = "fd" => ev.ver = logs[n].ver
        PROVE  glob' >= 3
    <3>1. logs[n].ver \in {3, 4}
      <4>1. logs[n].ver \in {1, 3, 4}
        BY <2>0, TheLogs
      <4> QED BY <2>0, <4>1
    <3>2. glob >= 3
      BY <2>0, <2>2 DEF GlobInv
    <3> QED BY <2>2, <3>1, <3>2, FormatAfter
  <2>3. ASSUME NEW n \in DOMAIN logs, NEW i \in DOMAIN LogEvents(n), Passes(n, i)
        PROVE  glob' >= 3
    <3>1. Deals(Event(n, i)) /\ Reading
      BY <2>3 DEF Passes, Reading
    <3>2. Event(n, i).ver = logs[n].ver
      BY <2>0, EventParts
    <3> QED BY <2>2, <3>1, <3>2
  <2>4. ASSUME NEW ev \in Packets, Repeats(ev)
        PROVE  glob' >= 3
    <3>1. Deals(ev) /\ Reading /\ served.log \in DOMAIN logs /\ Types
      BY <2>4 DEF Repeats, Base, Types, PlaceTypes
    <3>2. ev.t = "fd" => ev.ver = logs[served.log].ver
      BY <2>4, <3>1, FakeTyped DEF Repeats
    <3> QED BY <2>2, <3>1, <3>2
  <2> QED BY <1>1, <1>2, <2>1, <2>3, <2>4, RunSteps DEF Ends
<1>3. CASE ~Running /\ binlogNext
  BY <1>1, <1>3, OtherSteps
<1>4. CASE UNCHANGED binlogVars
  BY <1>4 DEF binlogVars, runVars, GlobInv, Reading
<1> QED
  BY <1>2, <1>3, <1>4

\* What waits before the event at the reader's place goes on with it, and
\* what waits after it is of an open statement.
LEMMA PassesWaits ==
    ASSUME Base, CacheInv, NEW n \in DOMAIN logs, NEW i \in DOMAIN LogEvents(n), Passes(n, i)
    PROVE  /\ Waiting => LogEvents(n)[i].t \in {"map", "rows"} /\ ~OtherServer(LogEvents(n)[i]) /\ ~sought
           /\ Waiting' => Open(LogEvents(n)[i])
<1>1. /\ Types /\ RunTypes /\ Reading /\ served.log = n /\ served.idx = i /\ InLog
      /\ Event(n, i) \in Packets /\ Deals(Event(n, i))
  BY TheEvents DEF Base, Types, Passes, Reading, InLog
<1>2. Waiting => LogEvents(n)[i].t \in {"map", "rows"} /\ ~OtherServer(LogEvents(n)[i]) /\ ~sought
  BY <1>1, GoesOn
<1>3. /\ Event(n, i).t = LogEvents(n)[i].t /\ Event(n, i).srv = LogEvents(n)[i].srv
      /\ Event(n, i).end = LogEvents(n)[i].end
  BY <1>1, EventParts
<1>4. PICK pos : \E io \in BOOLEAN : process_event(Event(n, i), pos, io, "OK_CONTINUE")
  BY <1>1 DEF Deals
<1>5. PICK io \in BOOLEAN : process_event(Event(n, i), pos, io, "OK_CONTINUE")
  BY <1>4
<1>6. Waiting => Event(n, i).t \in {"map", "rows"} /\ ~OtherServer(Event(n, i)) /\ ~sought
  BY <1>2, <1>3 DEF OtherServer
<1>7. Waiting' => Open(Event(n, i))
  BY <1>1, <1>5, <1>6, StatementStep
<1>8. Open(Event(n, i)) => Open(LogEvents(n)[i])
  BY <1>3 DEF Open
<1> QED
  BY <1>2, <1>7, <1>8

\* Nothing waits around an event that is not at the reader's place.
LEMMA RepeatsWaits ==
    ASSUME Base, CacheInv, NEW ev \in Packets, Repeats(ev)
    PROVE  ~Waiting /\ ~Waiting'
<1>1. ~Waiting
  BY DEF Repeats, CacheInv
<1>2. Types /\ Deals(ev) /\ ev.t \in {"rotate", "fd"}
  <2>1. Types /\ Deals(ev)
    BY DEF Base, Repeats
  <2> QED BY <2>1, FakeTyped DEF Repeats
<1>3. PICK pos : \E io \in BOOLEAN : process_event(ev, pos, io, "OK_CONTINUE")
  BY <1>2 DEF Deals
<1>4. PICK io \in BOOLEAN : process_event(ev, pos, io, "OK_CONTINUE")
  BY <1>3
<1>5. ~Open(ev)
  BY <1>2 DEF Open
<1> QED
  BY <1>1, <1>2, <1>4, <1>5, StatementStep

\* The statement in the caches, along an event.
LEMMA StatementPasses ==
    ASSUME Base, CacheInv, CacheInv', StatementInv, NEW n \in DOMAIN logs, NEW i \in DOMAIN LogEvents(n), Passes(n, i),
           Waiting'
    PROVE  /\ served'.log = n /\ served'.idx = i + 1 /\ served.log = n /\ served.idx = i /\ i \in Nat \ {0}
           /\ UNCHANGED <<logs, opt>>
           /\ Since(i)'
           /\ \A j : Since(j) => Since(j)'
<1>1. Open(LogEvents(n)[i]) /\ i \in Nat \ {0} /\ n \in Nat
  BY PassesWaits, TheEvents, TheLogs DEF Base, Types
<1>2. /\ served.log = n /\ served.idx = i /\ Reading' /\ UNCHANGED <<logs, opt>>
      /\ Here' = <<n, i + 1>> /\ served'.log = n
  <2>1. LogEvents(n)[i].t # "rotate"
    BY <1>1 DEF Open
  <2> QED BY <2>1 DEF Passes
<1>3. pc' \in {"remote", "local"}
  BY <1>2 DEF CacheInv
<1>4. served'.idx = i + 1
  <2>1. Here' = <<served'.log, served'.idx>>
    BY <1>3 DEF Here
  <2> QED BY <1>2, <2>1
<1>5. LogEvents(n)' = LogEvents(n)
  BY <1>2 DEF LogEvents
<1>6. ASSUME NEW j, \A k \in j .. i - 1 : Open(LogEvents(n)[k])
      PROVE  Since(j)'
  <2>1. ASSUME NEW k \in j .. i
        PROVE  Open(LogEvents(n)[k])
    <3>1. k \in j .. i - 1 \/ k = i
      BY <1>1
    <3> QED BY <1>1, <1>6, <3>1
  <2>2. i = served'.idx - 1
    BY <1>1, <1>4
  <2> QED BY <1>2, <1>5, <2>1, <2>2 DEF Since
<1>7. \A j : Since(j) => Since(j)'
  BY <1>2, <1>6 DEF Since
<1>8. Since(i)'
  <2>1. \A k \in i .. i - 1 : Open(LogEvents(n)[k])
    BY <1>1
  <2> QED BY <1>6, <2>1
<1> QED
  BY <1>1, <1>2, <1>4, <1>7, <1>8

\* StatementInv in every step.
LEMMA StatementKept == Base /\ CacheInv /\ CacheInv' /\ StatementInv /\ [binlogNext]_binlogVars => StatementInv'
<1> SUFFICES ASSUME Base, CacheInv, CacheInv', StatementInv, [binlogNext]_binlogVars, Reading', Waiting'
             PROVE  CachesWait' /\ IgnoredWait'
  BY DEF StatementInv, Waiting, CachesWait, IgnoredWait
<1>1. Running' /\ ~mainProgram
  BY DEF Running, Reading, mainProgram
<1>2. CASE Running /\ binlogNext
  <2>1. CASE Between
    BY <1>2, <2>1 DEF Between, Stays, Leaves, Waiting, Reading
  <2>2. ASSUME NEW n \in DOMAIN logs, NEW i \in DOMAIN LogEvents(n), Passes(n, i)
        PROVE  CachesWait' /\ IgnoredWait'
    <3>1. /\ served'.log = n /\ served'.idx = i + 1 /\ served.log = n /\ served.idx = i /\ i \in Nat \ {0}
          /\ UNCHANGED <<logs, opt>> /\ Since(i)' /\ \A j : Since(j) => Since(j)'
      BY <2>2, StatementPasses
    <3>2. /\ PrintsLines(Event(n, i), "OK_CONTINUE") /\ Deals(Event(n, i)) /\ Reading
          /\ Event(n, i).log = n /\ Event(n, i).pos = i
      BY <2>2, PassesEvent DEF Passes, Reading
    <3>3. ASSUME NEW k \in DOMAIN caches', NEW j, j = caches'[k].pos
          PROVE  caches'[k].log = served'.log /\ j \in 1 .. served'.idx - 1 /\ Since(j)'
      <4>1. CASE k \in DOMAIN caches /\ caches'[k] = caches[k]
        <5>1. caches[k].log = n /\ j \in 1 .. i - 1 /\ Since(j)
          BY <3>1, <3>2, <3>3, <4>1 DEF StatementInv, CachesWait
        <5> QED BY <3>1, <4>1, <5>1
      <4>2. CASE caches'[k] = Line(Event(n, i))
        <5>1. caches'[k].log = n /\ j = i
          BY <3>2, <3>3, <4>2 DEF Line
        <5> QED BY <3>1, <5>1
      <4> QED BY <3>2, <4>1, <4>2 DEF PrintsLines
    <3>4. ASSUME NEW d \in ignored'
          PROVE  Ignored(d)'
      <4>1. CASE d \in ignored
        <5>1. PICK j \in 1 .. i - 1 : /\ LogEvents(n)[j].t = "map" /\ LogEvents(n)[j].id = d
                                      /\ shall_skip_database(LogEvents(n)[j].db) /\ Since(j)
          BY <3>1, <3>2, <4>1 DEF StatementInv, IgnoredWait, Ignored
        <5>2. j \in 1 .. served'.idx - 1 /\ Since(j)'
          BY <3>1, <5>1
        <5> QED BY <3>1, <5>1, <5>2 DEF Ignored, LogEvents, shall_skip_database
      <4>2. CASE Event(n, i).t = "map" /\ d = Event(n, i).id /\ shall_skip_database(Event(n, i).db)
        <5>1. LogEvents(n)[i].t = "map" /\ LogEvents(n)[i].id = d /\ shall_skip_database(LogEvents(n)[i].db)
          BY <4>2, EventParts DEF Base, Types
        <5>2. i \in 1 .. served'.idx - 1
          BY <3>1
        <5> QED BY <3>1, <5>1, <5>2 DEF Ignored, LogEvents, shall_skip_database
      <4> QED BY <3>2, <4>1, <4>2, IgnoredAfter
    <3> QED BY <3>3, <3>4 DEF CachesWait, IgnoredWait
  <2>3. ASSUME NEW ev \in Packets, Repeats(ev)
        PROVE  FALSE
    BY <2>3, RepeatsWaits
  <2> QED BY <1>1, <1>2, <2>1, <2>2, <2>3, RunSteps DEF Ends
<1>3. CASE ~Running /\ binlogNext
  BY <1>1, <1>3, OtherSteps
<1>4. CASE UNCHANGED binlogVars
  <2>1. UNCHANGED <<logs, opt, pc, served, caches, ignored>>
    BY <1>4 DEF binlogVars, runVars, printVars
  <2>2. Reading
    BY <2>1 DEF Reading
  <2> QED BY <2>1, <2>2 DEF StatementInv, CachesWait, IgnoredWait, Ignored, Since, LogEvents, shall_skip_database, Open
<1> QED
  BY <1>2, <1>3, <1>4

\* The records of other LOAD DATAs, and of this one while it goes on.
LEMMA RecordKept ==
    ASSUME Types, NEW ev \in Packets, IdOK(ev), Deals(ev), NEW d \in FileIds,
           ev.id # d \/ ev.t \notin Starts \cup Executes
    PROVE  names'[d] = names[d]
<1>1. names \in [FileIds -> Records \cup {NoName}]
  BY DEF Types, PrintTypes, FileTypes
<1>2. CASE Ignores(ev)
  BY <1>2 DEF Ignores
<1>3. CASE ev.t \in Starts /\ Begun(ev)
  <2>1. PICK r : names' = [names EXCEPT ![ev.id] = r]
    BY <1>3 DEF Begun
  <2>2. ev.id # d
    BY <1>3
  <2> QED BY <1>1, <2>1, <2>2
<1>4. CASE ev.t \in Executes /\ names' = [names EXCEPT ![ev.id] = NoName]
  BY <1>1, <1>4
<1> QED
  BY <1>2, <1>3, <1>4, LoadStep

\* The first event of a LOAD DATA that no option filters out makes its record.
LEMMA StartsRecord ==
    ASSUME Types, Whole, glob >= 3, NEW ev \in Packets, IdOK(ev), Deals(ev), ev.t \in Starts, ~OtherServer(ev),
           ev.t = "create" => ~shall_skip_database(ev.db)
    PROVE  names'[ev.id] # NoName /\ names'[ev.id].event = (ev.t = "create")
<1>0. RunTypes /\ FileTypes /\ rec \in Nat /\ ev.when \in Nat /\ ev.id \in FileIds
  BY DEF Types, PrintTypes, IdOK, Packets
<1>1. PICK pos : \E io \in BOOLEAN : process_event(ev, pos, io, "OK_CONTINUE")
  BY DEF Deals
<1>2. PICK io \in BOOLEAN : process_event(ev, pos, io, "OK_CONTINUE")
  BY <1>1
<1>3. InRange(ev)
  BY <1>0 DEF InRange, Whole
<1>4. createFileEvent(ev, io, "OK_CONTINUE") \/ beginLoadQueryEvent(ev, io, "OK_CONTINUE")
  <2>1. \/ queryEvent(ev, io, "OK_CONTINUE") \/ createFileEvent(ev, io, "OK_CONTINUE")
        \/ appendBlockEvent(ev, io, "OK_CONTINUE") \/ beginLoadQueryEvent(ev, io, "OK_CONTINUE")
        \/ execLoadEvent(ev, "OK_CONTINUE") \/ executeLoadQueryEvent(ev, "OK_CONTINUE")
        \/ formatDescriptionEvent(ev, "OK_CONTINUE") \/ tableMapEvent(ev, "OK_CONTINUE")
        \/ rowsEvent(ev, "OK_CONTINUE") \/ otherEvent(ev, "OK_CONTINUE")
    BY <1>2, <1>3 DEF process_event
  <2> QED BY <2>1 DEF queryEvent, appendBlockEvent, execLoadEvent, executeLoadQueryEvent, formatDescriptionEvent,
                      tableMapEvent, rowsEvent, otherEvent, Starts
<1>5. process_first_event(ev, io, "OK_CONTINUE")
  <2>1. CASE createFileEvent(ev, io, "OK_CONTINUE")
    <3>1. PICK r : /\ printAny(ev, io, r)
                   /\ IF r = "OK_CONTINUE" /\ glob >= 3
                        THEN process_first_event(ev, io, "OK_CONTINUE")
                        ELSE "OK_CONTINUE" = r /\ UNCHANGED loadVars
      BY <2>1 DEF createFileEvent
    <3> QED BY <3>1
  <2>2. CASE beginLoadQueryEvent(ev, io, "OK_CONTINUE")
    BY <2>2 DEF beginLoadQueryEvent
  <2> QED BY <1>4, <2>1, <2>2
<1>6. Begun(ev)
  BY <1>0, <1>5, FirstBegins
<1>7. PICK name \in {ev.id} \X (0 .. Versions - 1) :
            names' = [names EXCEPT ![ev.id] = [fname |-> name, event |-> ev.t = "create"]]
  BY <1>6 DEF Begun
<1>8. names'[ev.id] = [fname |-> name, event |-> ev.t = "create"]
  BY <1>0, <1>7 DEF FileTypes
<1>9. names'[ev.id] # NoName
  <2>1. name \in FileIds \X (0 .. Versions - 1) /\ (ev.t = "create") \in BOOLEAN
    BY <1>0, <1>7
  <2>2. names'[ev.id] \in Records
    BY <1>8, <2>1 DEF Records
  <2> QED BY <2>2, ReplicatorAssumption
<1> QED
  BY <1>8, <1>9

\* NamesInv along the event at the reader's place.
LEMMA NamesPasses ==
    ASSUME Base, GlobInv, NamesInv, NEW n \in DOMAIN logs, NEW i \in DOMAIN LogEvents(n), Passes(n, i), Whole,
           NEW m \in DOMAIN logs, NEW j \in DOMAIN LogEvents(m), Pending(m, j)'
    PROVE  names'[LogEvents(m)[j].id] # NoName
           /\ names'[LogEvents(m)[j].id].event = (LogEvents(m)[j].t = "create")
<1>0. /\ Types /\ RunTypes /\ Running /\ Reading /\ UNCHANGED <<logs, opt, from>> /\ Here = <<n, i>>
      /\ Event(n, i) \in Packets /\ IdOK(Event(n, i)) /\ Deals(Event(n, i))
      /\ \A k : LogEvents(k)' = LogEvents(k)
  BY PassesEvent DEF Base, Types, Passes, Running, Reading, LogEvents
<1>1. /\ Event(n, i).t = LogEvents(n)[i].t /\ Event(n, i).id = LogEvents(n)[i].id
      /\ Event(n, i).srv = LogEvents(n)[i].srv /\ Event(n, i).db = LogEvents(n)[i].db
      /\ Event(m, j).t = LogEvents(m)[j].t /\ Event(m, j).id = LogEvents(m)[j].id
  BY <1>0, EventParts
<1>2. /\ Behind(m, j)' /\ ~Before(<<m, j>>, from) /\ LogEvents(m)[j].t \in Starts
      /\ ~OtherServer(LogEvents(m)[j])
      /\ LogEvents(m)[j].t = "create" => ~shall_skip_database(LogEvents(m)[j].db)
      /\ logs[m].ver # 1
  BY <1>0 DEF Pending, OtherServer, shall_skip_database
<1>3. \A l \in DOMAIN logs : \A k \in DOMAIN LogEvents(l) :
          Behind(l, k)' /\ Before(<<m, j>>, <<l, k>>) /\ LogEvents(l)[k].id = LogEvents(m)[j].id
            => LogEvents(l)[k].t \notin Starts \cup Executes
  BY <1>0 DEF Pending
<1>4. LogEvents(m)[j].id \in FileIds
  <2>1. IdOK(Event(m, j))
    BY <1>0, EventShape
  <2> QED BY <1>1, <1>2, <2>1 DEF IdOK
<1>5. CASE m = n /\ j = i
  <2>1. glob >= 3
    <3>1. \A k \in DOMAIN logs : logs[k].ver # 1
      BY <1>0, <1>2, TheLogs DEF ServerLogs
    <3> QED BY <1>0, <3>1 DEF GlobInv
  <2>2. /\ Event(n, i).t \in Starts /\ ~OtherServer(Event(n, i))
        /\ Event(n, i).t = "create" => ~shall_skip_database(Event(n, i).db)
    BY <1>1, <1>2, <1>5 DEF OtherServer
  <2>3. names'[Event(n, i).id] # NoName /\ names'[Event(n, i).id].event = (Event(n, i).t = "create")
    BY <1>0, <2>1, <2>2, StartsRecord
  <2> QED BY <1>1, <1>5, <2>3
<1>6. CASE ~(m = n /\ j = i)
  <2>1. Behind(m, j)
    BY <1>2, <1>6, PassesBehind
  <2>2. \A l \in DOMAIN logs : \A k \in DOMAIN LogEvents(l) : Behind(l, k) => Behind(l, k)'
    BY PassesBehind
  <2>3. Pending(m, j)
    BY <1>2, <1>3, <2>1, <2>2 DEF Pending
  <2>4. Recorded(LogEvents(m)[j])
    BY <1>0, <2>3 DEF NamesInv
  <2>5. Event(n, i).id # LogEvents(m)[j].id \/ Event(n, i).t \notin Starts \cup Executes
    <3>1. Behind(n, i)' /\ Before(<<m, j>>, <<n, i>>)
      BY <1>0, <2>1, PassesBehind DEF Behind
    <3> QED BY <1>1, <1>3, <3>1
  <2>6. names'[LogEvents(m)[j].id] = names[LogEvents(m)[j].id]
    BY <1>0, <1>4, <2>5, RecordKept
  <2> QED BY <2>4, <2>6 DEF Recorded
<1> QED
  BY <1>5, <1>6

\* NamesInv in every step.
LEMMA NamesStep == Base /\ CacheInv /\ FromInv /\ GlobInv /\ NamesInv /\ [binlogNext]_binlogVars => NamesInv'
<1> SUFFICES ASSUME Base, CacheInv, FromInv, GlobInv, NamesInv, [binlogNext]_binlogVars, Whole', Running',
                    NEW m \in DOMAIN logs', NEW j \in DOMAIN LogEvents(m)', Pending(m, j)'
             PROVE  Recorded(LogEvents(m)[j])'
  BY DEF NamesInv
<1>1. CASE mainProgram
  <2>1. FALSE
    <3>1. PICK n \in DOMAIN logs, p \in Nat \ {0}, l \in Nat \ {0} :
                 args' = [k \in 1 .. l |-> n + k - 1] /\ start' = p /\ from' = <<n, p>>
      BY <1>1, MainStarts
    <3>2. n \in Nat
      BY TheLogs DEF Base, Types
    <3>3. Head(args') = n
      <4>1. args'[1] = n
        BY <3>1, <3>2
      <4> QED BY <3>1, <4>1
    <3>4. Here' = from'
      BY <1>1, <3>1, <3>3 DEF mainProgram, Here
    <3> QED BY <3>4 DEF Pending, Behind
  <2> QED BY <2>1
<1>2. CASE Running /\ binlogNext
  <2>0. UNCHANGED <<logs, opt, from>> /\ Whole /\ RunTypes /\ m \in DOMAIN logs /\ j \in DOMAIN LogEvents(m)
    <3>1. UNCHANGED <<logs, opt, from>>
      BY <1>2, RunSteps DEF Ends, Between, Passes, Repeats
    <3> QED BY <3>1 DEF Whole, Base, Types, LogEvents
  <2>1. ASSUME UNCHANGED names, \A l \in DOMAIN logs : \A k \in DOMAIN LogEvents(l) :
                 /\ Behind(l, k) => Behind(l, k)'
                 /\ Behind(l, k)' /\ ~Behind(l, k) => LogEvents(l)[k].t = "rotate"
        PROVE  Recorded(LogEvents(m)[j])'
    <3>1. LogEvents(m)[j].t \in Starts /\ Behind(m, j)'
      BY <2>0 DEF Pending, LogEvents
    <3>2. Behind(m, j)
      BY <2>0, <2>1, <3>1 DEF Starts
    <3>3. Pending(m, j)
      BY <2>0, <2>1, <3>2 DEF Pending, LogEvents, OtherServer, shall_skip_database
    <3> QED BY <1>2, <2>0, <2>1, <3>3 DEF NamesInv, Recorded, LogEvents
  <2>2. CASE Between
    BY <1>2, <2>1, <2>2, BetweenBehind DEF Between
  <2>3. ASSUME NEW n \in DOMAIN logs, NEW i \in DOMAIN LogEvents(n), Passes(n, i)
        PROVE  Recorded(LogEvents(m)[j])'
    BY <2>0, <2>3, NamesPasses DEF Recorded, LogEvents
  <2>4. ASSUME NEW ev \in Packets, Repeats(ev)
        PROVE  Recorded(LogEvents(m)[j])'
    <3>1. Types /\ IdOK(ev) /\ Deals(ev) /\ ev.t \notin Starts \cup Executes
      <4>1. IdOK(ev) /\ ev.t \in {"rotate", "fd"}
        BY <2>4, RepeatsEvent
      <4> QED BY <2>4, <4>1 DEF Repeats, Base, Starts, Executes
    <3>2. \A d \in FileIds : names'[d] = names[d]
      BY <3>1, RecordKept
    <3>3. \A l, k : Behind(l, k)' <=> Behind(l, k)
      BY <2>4 DEF Repeats, Behind
    <3>4. Pending(m, j)
      BY <2>0, <3>3 DEF Pending, LogEvents, OtherServer, shall_skip_database
    <3>5. LogEvents(m)[j].id \in FileIds
      <4>1. IdOK(Event(m, j)) /\ Event(m, j).t = LogEvents(m)[j].t /\ Event(m, j).id = LogEvents(m)[j].id
        BY <2>0, EventShape, EventParts
      <4> QED BY <3>4, <4>1 DEF IdOK, Pending
    <3>6. Recorded(LogEvents(m)[j])
      BY <1>2, <2>0, <3>4 DEF NamesInv
    <3> QED BY <2>0, <3>2, <3>5, <3>6 DEF Recorded, LogEvents
  <2> QED BY <1>2, <2>2, <2>3, <2>4, RunSteps DEF Ends
<1>3. CASE ~Running /\ binlogNext /\ ~mainProgram
  BY <1>3, OtherSteps
<1>4. CASE UNCHANGED binlogVars
  <2>1. UNCHANGED <<logs, opt, from, pc, args, start, served, names>>
    BY <1>4 DEF binlogVars, runVars, loadVars
  <2>2. Whole /\ Running /\ m \in DOMAIN logs /\ j \in DOMAIN LogEvents(m) /\ Pending(m, j)
    BY <2>1 DEF Whole, Running, Reading, Pending, Behind, Here, LogEvents, OtherServer, shall_skip_database
  <2> QED BY <2>1, <2>2 DEF NamesInv, Recorded, LogEvents
<1> QED
  BY <1>1, <1>2, <1>3, <1>4

\* One of the cases of process_event deals with an event that no option
\* leaves out.
Handled(ev, io) ==
    \/ queryEvent(ev, io, "OK_CONTINUE") \/ createFileEvent(ev, io, "OK_CONTINUE")
    \/ appendBlockEvent(ev, io, "OK_CONTINUE") \/ beginLoadQueryEvent(ev, io, "OK_CONTINUE")
    \/ execLoadEvent(ev, "OK_CONTINUE") \/ executeLoadQueryEvent(ev, "OK_CONTINUE")
    \/ formatDescriptionEvent(ev, "OK_CONTINUE") \/ tableMapEvent(ev, "OK_CONTINUE")
    \/ rowsEvent(ev, "OK_CONTINUE") \/ otherEvent(ev, "OK_CONTINUE")

\* With no offset and no start time every event of the server is dealt with.
LEMMA WholeHandled ==
    ASSUME Types, Whole, NEW ev \in Packets, Deals(ev), ~OtherServer(ev)
    PROVE  \E io \in BOOLEAN : Handled(ev, io)
<1>1. PICK pos : \E io \in BOOLEAN : process_event(ev, pos, io, "OK_CONTINUE")
  BY DEF Deals
<1>2. PICK io \in BOOLEAN : process_event(ev, pos, io, "OK_CONTINUE")
  BY <1>1
<1>3. InRange(ev)
  <2>1. rec \in Nat /\ ev.when \in Nat
    BY DEF Types, Packets
  <2> QED BY <2>1 DEF InRange, Whole
<1>4. Handled(ev, io)
  BY <1>2, <1>3 DEF process_event, Handled
<1> QED
  BY <1>4

\* An event of the kinds that LossExplained speaks of.
LEMMA WantedParts ==
    ASSUME RunTypes, NEW n \in DOMAIN logs, NEW i \in DOMAIN LogEvents(n), Wanted(Event(n, i))
    PROVE  /\ LogEvents(n)[i].t \in {"query", "exec", "execq"} \/ (LogEvents(n)[i].t = "rows" /\ ~opt.short)
           /\ ~shall_skip_database(LogEvents(n)[i].db) /\ ~OtherServer(Event(n, i))
           /\ ~Before(<<n, i>>, from) /\ ~Before(<<n, First(Event(n, i))>>, from)
  BY EventParts DEF Wanted, Effective, Place

\* A line given to the result.
LEMMA LinePrinted ==
    ASSUME Types, NEW line \in Lines, Output(<<line>>), NEW e, e.log = line.log, e.pos = line.pos
    PROVE  Settled(e)'
<1>1. (\E k \in DOMAIN out' : out'[k] = line) \/ <<line.log, line.pos>> \in missed'
  BY OneLine DEF Types, PrintTypes
<1> QED
  BY <1>1 DEF Settled, InOut, Place

\* A statement or the end of a LOAD DATA that has its record is printed.
LEMMA SinglePrinted ==
    ASSUME Types, Whole, NEW ev \in Packets, IdOK(ev), Deals(ev), ~OtherServer(ev), ev.t \in Single,
           ~shall_skip_database(ev.db), ev.t \in Executes => Grabbed(ev)
    PROVE  Settled(ev)'
<1>1. PICK io \in BOOLEAN : Handled(ev, io)
  BY WholeHandled
<1>2. CASE ev.t = "query"
  <2>1. queryEvent(ev, io, "OK_CONTINUE")
    BY <1>1, <1>2 DEF Handled, createFileEvent, appendBlockEvent, beginLoadQueryEvent, execLoadEvent,
                      executeLoadQueryEvent, formatDescriptionEvent, tableMapEvent, rowsEvent, otherEvent
  <2>2. Output(<<Line(ev)>>)
    <3>1. Len(<<Line(ev)>>) = 1
      OBVIOUS
    <3>2. Arrive(<<Line(ev)>>, 1) => Output(<<Line(ev)>>)
      BY <3>1 DEF Output
    <3> QED BY <2>1, <3>2 DEF queryEvent, printAny, write_event_header_and_base64, Printed
  <2>3. Line(ev) \in Lines /\ ev.log = Line(ev).log /\ ev.pos = Line(ev).pos
    BY LineTyped DEF Types, Line
  <2>4. PICK line \in Lines : line = Line(ev)
    BY <2>3
  <2> QED BY <2>2, <2>3, <2>4, LinePrinted
<1>3. CASE ev.t \in Executes
  <2>1. execLoadEvent(ev, "OK_CONTINUE") \/ executeLoadQueryEvent(ev, "OK_CONTINUE")
    BY <1>1, <1>3 DEF Handled, queryEvent, createFileEvent, appendBlockEvent, beginLoadQueryEvent,
                      formatDescriptionEvent, tableMapEvent, rowsEvent, otherEvent, Executes
  <2>2. Output(<<LoadLine(ev)>>)
    BY <1>3, <2>1 DEF execLoadEvent, executeLoadQueryEvent
  <2>3. LoadLine(ev) \in Lines /\ ev.log = LoadLine(ev).log /\ ev.pos = LoadLine(ev).pos
    BY <1>3, LoadLineTyped DEF Types, PrintTypes
  <2>4. PICK line \in Lines : line = LoadLine(ev)
    BY <2>3
  <2> QED BY <2>2, <2>3, <2>4, LinePrinted
<1> QED
  BY <1>2, <1>3 DEF Single, Executes

\* A rows event of a table that is not ignored is printed or waits.
LEMMA RowsPrinted ==
    ASSUME Types, Whole, NEW ev \in Packets, Deals(ev), ~OtherServer(ev), ev.t = "rows", ~opt.short,
           ev.id \notin ignored
    PROVE  Settled(ev)' \/ \E k \in DOMAIN caches' : caches'[k].log = ev.log /\ caches'[k].pos = ev.pos
<1>1. PICK io \in BOOLEAN : Handled(ev, io)
  BY WholeHandled
<1>2. rowsEvent(ev, "OK_CONTINUE")
  BY <1>1 DEF Handled, queryEvent, createFileEvent, appendBlockEvent, beginLoadQueryEvent, execLoadEvent,
              executeLoadQueryEvent, formatDescriptionEvent, tableMapEvent, otherEvent
<1>3. printRows(ev)
  BY <1>2 DEF rowsEvent
<1> DEFINE all == Append(caches, Line(ev))
<1>4. IF ev.end THEN Output(all) ELSE caches' = all
  BY <1>3 DEF printRows
<1>5. all \in Seq(Lines) /\ \E k \in DOMAIN all : all[k] = Line(ev)
  <2>1. Line(ev) \in Lines /\ caches \in Seq(Lines)
    BY LineTyped DEF Types, PrintTypes
  <2> QED BY <2>1, Appended
<1>6. Line(ev).log = ev.log /\ Line(ev).pos = ev.pos
  BY DEF Line
<1> HIDE DEF all
<1>7. CASE ev.end
  <2>1. Adds(all)
    BY <1>4, <1>5, <1>7, OutputAdds DEF Types, PrintTypes
  <2>2. (\E j \in DOMAIN out' : out'[j] = Line(ev)) \/ <<Line(ev).log, Line(ev).pos>> \in missed'
    BY <1>5, <2>1 DEF Adds
  <2>3. Settled(ev)'
    BY <1>6, <2>2 DEF Settled, InOut, Place
  <2> QED BY <2>3
<1>8. CASE ~ev.end
  BY <1>4, <1>5, <1>6, <1>8
<1> QED
  BY <1>7, <1>8

\* The table of a wanted rows event is not ignored: the Table_map that would
\* have made it so is of the same statement, and so of the same table.
LEMMA WantedRows ==
    ASSUME Base, StatementInv, NEW n \in DOMAIN logs, NEW i \in DOMAIN LogEvents(n), Passes(n, i),
           LogEvents(n)[i].t = "rows", ~shall_skip_database(LogEvents(n)[i].db)
    PROVE  LogEvents(n)[i].id \notin ignored
<1> SUFFICES ASSUME LogEvents(n)[i].id \in ignored
             PROVE  FALSE
  OBVIOUS
<1>1. Reading /\ served.log = n /\ served.idx = i /\ RunTypes
  BY DEF Passes, Reading, Base, Types
<1>2. PICK j \in 1 .. i - 1 : /\ LogEvents(n)[j].t = "map" /\ LogEvents(n)[j].id = LogEvents(n)[i].id
                              /\ shall_skip_database(LogEvents(n)[j].db) /\ Since(j)
  BY <1>1 DEF StatementInv, IgnoredWait, Ignored
<1>3. \A k \in j .. i - 1 : Open(LogEvents(n)[k])
  BY <1>1, <1>2 DEF Since
<1>4. j \in DOMAIN LogEvents(n) /\ j < i
  BY <1>1, TheEvents
<1>5. RowStatements(LogEvents(n))
  BY <1>1, TheLogs DEF ServerLogs, LogEvents
<1>6. LogEvents(n)[i].db = LogEvents(n)[j].db
  BY <1>2, <1>3, <1>4, <1>5 DEF RowStatements
<1> QED
  BY <1>2, <1>6

\* The end of a wanted LOAD DATA finds its record.
LEMMA WantedGrabbed ==
    ASSUME Base, NamesInv, Whole, NEW n \in DOMAIN logs, NEW i \in DOMAIN LogEvents(n), Passes(n, i),
           Wanted(Event(n, i)), LogEvents(n)[i].t \in Executes
    PROVE  Grabbed(Event(n, i))
<1>0. /\ RunTypes /\ n \in Nat /\ i \in Nat \ {0} /\ DOMAIN LogEvents(n) = 1 .. Len(LogEvents(n))
      /\ Len(LogEvents(n)) \in Nat /\ Running /\ Here = <<n, i>>
  BY TheLogs, TheEvents DEF Base, Types, Passes, Running, Reading
<1>1. PICK j \in 1 .. i - 1 : BeginsLoad(LogEvents(n), j, i)
  <2>1. LoadStatements(LogEvents(n))
    BY <1>0, TheLogs DEF ServerLogs, LogEvents
  <2> QED BY <2>1 DEF LoadStatements
<1> DEFINE d == LogEvents(n)[i].id
<1>2. /\ j \in DOMAIN LogEvents(n) /\ j < i /\ j \in Nat \ {0}
      /\ LogEvents(n)[j].t \in Starts /\ LogEvents(n)[j].id = d /\ LogEvents(n)[j].srv = LogEvents(n)[i].srv
      /\ \A k \in j + 1 .. i - 1 : LogEvents(n)[k].id = d => LogEvents(n)[k].t \notin Starts \cup Executes
  <2>1. j \in DOMAIN LogEvents(n) /\ j < i /\ j \in Nat \ {0}
    BY <1>0
  <2>2. /\ LogEvents(n)[j].t \in Starts /\ LogEvents(n)[j].id = d /\ LogEvents(n)[j].srv = LogEvents(n)[i].srv
        /\ \A k \in j + 1 .. i - 1 : LogEvents(n)[k].id = d => LogEvents(n)[k].t \notin Starts \cup Executes
    BY <1>1 DEF BeginsLoad
  <2> QED BY <2>1, <2>2
<1>3. /\ Event(n, i).t = LogEvents(n)[i].t /\ Event(n, i).id = d /\ Event(n, i).log = n /\ Event(n, i).pos = i
      /\ Event(n, i).srv = LogEvents(n)[i].srv
  BY <1>0, EventParts
<1>4. First(Event(n, i)) = j
  <2> DEFINE S == {0} \cup {k \in 1 .. i : LogEvents(n)[k].t \in Starts /\ LogEvents(n)[k].id = d}
  <2>1. First(Event(n, i)) = Max(S)
    BY <1>3 DEF First
  <2>2. S \subseteq Nat /\ j \in S
    BY <1>0, <1>2
  <2>3. ASSUME NEW x \in S
        PROVE  x <= j
    <3>1. LogEvents(n)[i].t \notin Starts
      BY DEF Starts, Executes
    <3> QED BY <1>0, <1>2, <3>1
  <2> HIDE DEF S
  <2> QED BY <2>1, <2>2, <2>3, LargestOf
<1>5. /\ ~shall_skip_database(LogEvents(n)[i].db) /\ ~OtherServer(Event(n, i)) /\ ~Before(<<n, j>>, from)
  BY <1>0, <1>4, WantedParts
<1>6. LogEvents(n)[i].t = "exec" <=> LogEvents(n)[j].t = "create"
  BY <1>1 DEF BeginsLoad, Executes
<1>7. LogEvents(n)[j].t = "create" => ~shall_skip_database(LogEvents(n)[j].db)
  BY <1>1, <1>5, <1>6 DEF BeginsLoad
<1>8. logs[n].ver # 1
  BY <1>0, TheLogs DEF ServerLogs, LogEvents
<1>9. ASSUME NEW m \in DOMAIN logs, NEW k \in DOMAIN LogEvents(m), Behind(m, k), Before(<<n, j>>, <<m, k>>),
             LogEvents(m)[k].id = LogEvents(n)[j].id
      PROVE  LogEvents(m)[k].t \notin Starts \cup Executes
  <2>1. m \in Nat /\ k \in Nat
    BY <1>0, TheLogs, TheEvents
  <2>2. m = n /\ k \in j + 1 .. i - 1
    BY <1>0, <1>2, <1>9, <2>1 DEF Behind, Before
  <2> QED BY <1>2, <1>9, <2>2
<1>10. Pending(n, j)
  <2>1. Behind(n, j)
    BY <1>0, <1>2 DEF Behind, Before
  <2>2. ~OtherServer(LogEvents(n)[j])
    BY <1>2, <1>3, <1>5 DEF OtherServer
  <2> QED BY <1>2, <1>5, <1>7, <1>8, <1>9, <2>1, <2>2 DEF Pending
<1>11. Recorded(LogEvents(n)[j])
  BY <1>0, <1>2, <1>10 DEF NamesInv
<1> QED
  BY <1>2, <1>3, <1>6, <1>11 DEF Recorded, Grabbed

\* A wanted event that is dealt with is printed or waits in the caches.
LEMMA WantedReached ==
    ASSUME Base, StatementInv, NamesInv, Whole, NEW n \in DOMAIN logs, NEW i \in DOMAIN LogEvents(n), Passes(n, i),
           NEW e, e = Event(n, i), Wanted(e)
    PROVE  Settled(e)' \/ Cached(e)'
<1>1. /\ Types /\ RunTypes /\ Reading' /\ Deals(e) /\ e \in Packets /\ IdOK(e)
      /\ e.t = LogEvents(n)[i].t /\ e.db = LogEvents(n)[i].db /\ e.id = LogEvents(n)[i].id
  BY PassesEvent, EventParts DEF Base, Types, Passes
<1>2. /\ e.t \in {"query", "exec", "execq"} \/ (e.t = "rows" /\ ~opt.short)
      /\ ~shall_skip_database(e.db) /\ ~OtherServer(e)
  BY <1>1, WantedParts
<1>3. CASE e.t = "rows"
  <2>1. ~opt.short /\ e.id \notin ignored
    BY <1>1, <1>2, <1>3, WantedRows
  <2>2. Settled(e)' \/ \E k \in DOMAIN caches' : caches'[k].log = e.log /\ caches'[k].pos = e.pos
    BY <1>1, <1>2, <1>3, <2>1, RowsPrinted
  <2> QED BY <1>1, <1>3, <2>2 DEF Cached
<1>4. CASE e.t \in Single
  <2>1. e.t \in Executes => Grabbed(e)
    BY <1>1, WantedGrabbed
  <2> QED BY <1>1, <1>2, <1>4, <2>1, SinglePrinted
<1> QED
  BY <1>2, <1>3, <1>4 DEF Single

\* What LossExplained says of an event depends on the logs, the options and
\* the start of the run alone, but for the result file.
LEMMA WantedKept ==
    ASSUME UNCHANGED <<logs, opt, from>>
    PROVE  /\ AllEvents' = AllEvents
           /\ \A e : Wanted(e)' <=> Wanted(e)
           /\ \A e : NeverEnds(e)' <=> NeverEnds(e)
           /\ \A e, p : EndBefore(e, p)' <=> EndBefore(e, p)
<1>1. \A n, i : LogEvents(n)' = LogEvents(n) /\ Event(n, i)' = Event(n, i)
  BY DEF LogEvents, Event
<1>2. AllEvents' = AllEvents
  BY <1>1 DEF AllEvents
<1>3. Effective' = Effective
  BY <1>2 DEF Effective, shall_skip_database, OtherServer
<1>4. \A e : First(e)' = First(e)
  BY <1>1 DEF First
<1>5. \A e : Wanted(e)' <=> Wanted(e)
  BY <1>3, <1>4 DEF Wanted
<1>6. \A e, i : EndsAt(e, i)' <=> EndsAt(e, i)
  BY <1>1 DEF EndsAt
<1>7. \A e : NeverEnds(e)' <=> NeverEnds(e)
  BY <1>1, <1>6 DEF NeverEnds
<1>8. \A e, p : EndBefore(e, p)' <=> EndBefore(e, p)
  BY <1>1, <1>6 DEF EndBefore
<1> QED
  BY <1>2, <1>5, <1>7, <1>8

\* Nothing that was printed is lost.
LEMMA SettledKept ==
    ASSUME NEW ev, NEW ret, PrintsLines(ev, ret), NEW e, Settled(e)
    PROVE  Settled(e)'
  BY DEF PrintsLines, Settled, InOut

\* What the end of a process takes from the result is missed.
LEMMA SettledCut ==
    ASSUME ResultCut
    PROVE  \A e : Settled(e) => Settled(e)'
<1> SUFFICES ASSUME NEW e, InOut(e)
             PROVE  Settled(e)'
  BY DEF ResultCut, Settled
<1>1. PICK k \in DOMAIN out : out[k].log = e.log /\ out[k].pos = e.pos
  BY DEF InOut
<1>2. (k \in DOMAIN out' /\ out'[k] = out[k]) \/ <<out[k].log, out[k].pos>> \in missed'
  BY DEF ResultCut
<1> QED
  BY <1>1, <1>2 DEF Settled, InOut, Place

\* A pair covers what it covered as long as the run goes on.
LEMMA PairKept ==
    ASSUME UNCHANGED <<logs, opt, from>>, \A e : Settled(e) => Settled(e)', NEW pair, PairCovered(pair)
    PROVE  PairCovered(pair)'
<1>1. \A p : Covered(p) => Covered(p)'
  BY WantedKept DEF Covered
<1> QED
  BY <1>1 DEF PairCovered, Mixed

\* A pair that is not ahead of the reader covers what lies before it.
UpToHere == \A h, p : h = Here /\ p \in Nat \X Nat /\ ~Before(h, p) => Covered(p)

\* It does when the reader has left behind no more than the caches and the
\* result file hold: what waits in the caches is of a statement that is not
\* over at the reader.
LEMMA CoversHere == Base /\ CacheInv /\ StatementInv /\ Reading /\ ReaderInv => UpToHere
<1> SUFFICES ASSUME Base, CacheInv, StatementInv, Reading, ReaderInv,
                    NEW h, h = Here, NEW p \in Nat \X Nat, ~Before(h, p),
                    NEW e \in AllEvents, Wanted(e), Before(Place(e), p)
             PROVE  Settled(e) \/ (e.t = "rows" /\ ~EndBefore(e, p))
  BY DEF UpToHere, Covered
<1>0. Running /\ RunTypes /\ h \in Nat \X (Nat \ {0})
  BY HereTyped DEF Running, Base, Types
<1>1. PICK n \in DOMAIN logs : \E i \in DOMAIN LogEvents(n) : e = Event(n, i)
  BY DEF AllEvents
<1>2. PICK i \in DOMAIN LogEvents(n) : e = Event(n, i)
  BY <1>1
<1>3. e.log = n /\ e.pos = i /\ n \in Nat /\ i \in Nat \ {0} /\ Len(LogEvents(n)) \in Nat
  <2>1. e.log = n /\ e.pos = i
    BY <1>0, <1>2, EventParts
  <2>2. n \in Nat
    BY <1>0, TheLogs
  <2>3. i \in Nat \ {0} /\ Len(LogEvents(n)) \in Nat
    BY <1>0, TheEvents
  <2> QED BY <2>1, <2>2, <2>3
<1>4. ASSUME NEW q \in Nat \X Nat, Before(q, p)
      PROVE  Before(q, h)
  <2>1. p[1] \in Nat /\ p[2] \in Nat /\ q[1] \in Nat /\ q[2] \in Nat /\ h[1] \in Nat /\ h[2] \in Nat
    BY <1>0
  <2> QED BY <1>4, <2>1 DEF Before
<1>5. Before(Place(e), h)
  <2>1. Place(e) \in Nat \X Nat
    BY <1>3 DEF Place
  <2> QED BY <1>4, <2>1
<1>6. Settled(e) \/ Cached(e) \/ NeverEnds(e)
  BY <1>0, <1>5 DEF ReaderInv, Reached
<1>7. CASE NeverEnds(e)
  BY <1>7 DEF NeverEnds, EndBefore
<1>8. CASE Cached(e)
  <2>1. PICK k \in DOMAIN caches : caches[k].log = n /\ caches[k].pos = i /\ e.t = "rows"
    BY <1>3, <1>8 DEF Cached
  <2>2. served.log = n /\ Since(i)
    BY <2>1 DEF StatementInv, CachesWait
  <2>3. h = <<n, served.idx>>
    <3>1. Waiting
      BY <2>1, <2>2 DEF Waiting
    <3> QED BY <2>2, <3>1 DEF CacheInv, Here
  <2>4. ASSUME NEW j \in i .. Len(LogEvents(n)), EndsAt(e, j), Before(<<n, j>>, p)
        PROVE  FALSE
    <3>1. Before(<<n, j>>, h)
      BY <1>3, <1>4, <2>4
    <3>2. j \in i .. served.idx - 1
      BY <1>0, <1>3, <2>3, <3>1 DEF Before
    <3>3. Open(LogEvents(n)[j])
      BY <2>2, <3>2 DEF Since
    <3> QED BY <1>3, <2>4, <3>3 DEF EndsAt, Open
  <2> QED BY <1>3, <2>1, <2>4 DEF EndBefore
<1> QED
  BY <1>6, <1>7, <1>8

\* An event that lies behind the reader at the place h.
LEMMA BehindHere ==
    ASSUME RunTypes, NEW e \in AllEvents
    PROVE  /\ e.log \in DOMAIN logs /\ e.pos \in DOMAIN LogEvents(e.log) /\ e = Event(e.log, e.pos)
           /\ Before(Place(e), Here) <=> Behind(e.log, e.pos)
<1>1. PICK n \in DOMAIN logs : \E i \in DOMAIN LogEvents(n) : e = Event(n, i)
  BY DEF AllEvents
<1>2. PICK i \in DOMAIN LogEvents(n) : e = Event(n, i)
  BY <1>1
<1>3. e.log = n /\ e.pos = i
  BY <1>2, EventParts
<1> QED
  BY <1>2, <1>3 DEF Place, Behind

\* What was reached stays so along an event that is dealt with.
LEMMA ReachedKept ==
    ASSUME Reading', UNCHANGED <<logs, opt, from>>, NEW ev, PrintsLines(ev, "OK_CONTINUE"), NEW e,
           Settled(e) \/ Cached(e) \/ NeverEnds(e)
    PROVE  Settled(e)' \/ Cached(e)' \/ NeverEnds(e)'
<1>1. CASE Settled(e)
  BY <1>1, SettledKept
<1>2. CASE NeverEnds(e)
  BY <1>2, WantedKept
<1>3. CASE Cached(e)
  <2>1. PICK k \in DOMAIN caches : caches[k].log = e.log /\ caches[k].pos = e.pos /\ e.t = "rows"
    BY <1>3 DEF Cached
  <2>2. CASE k \in DOMAIN caches' /\ caches'[k] = caches[k]
    BY <2>1, <2>2 DEF Cached
  <2>3. CASE \E j \in DOMAIN out' : out'[j] = caches[k]
    BY <2>1, <2>3 DEF Settled, InOut
  <2>4. CASE <<caches[k].log, caches[k].pos>> \in missed'
    BY <2>1, <2>4 DEF Settled, Place
  <2> QED BY <2>2, <2>3, <2>4 DEF PrintsLines
<1> QED
  BY <1>1, <1>2, <1>3

\* The event at the reader's place is reached too.
LEMMA ReaderPasses ==
    ASSUME Base, StatementInv, NamesInv, Whole, ReaderInv,
           NEW n \in DOMAIN logs, NEW i \in DOMAIN LogEvents(n), Passes(n, i)
    PROVE  ReaderInv'
<1>1. /\ Running /\ Reading' /\ UNCHANGED <<logs, opt, from>> /\ PrintsLines(Event(n, i), "OK_CONTINUE") /\ RunTypes
  BY PassesEvent DEF Passes, Running, Reading, Base, Types
<1> SUFFICES ASSUME NEW e \in AllEvents, Wanted(e), Before(Place(e), Here')
             PROVE  Settled(e)' \/ Cached(e)' \/ NeverEnds(e)'
  BY <1>1, WantedKept DEF ReaderInv, Reached
<1>2. /\ e.log \in DOMAIN logs /\ e.pos \in DOMAIN LogEvents(e.log) /\ e = Event(e.log, e.pos)
      /\ Before(Place(e), Here) <=> Behind(e.log, e.pos)
  BY <1>1, BehindHere
<1>3. Behind(e.log, e.pos)'
  BY DEF Behind, Place
<1>4. Behind(e.log, e.pos) \/ (e.log = n /\ e.pos = i)
  BY <1>2, <1>3, PassesBehind
<1>5. CASE Behind(e.log, e.pos)
  <2>1. Settled(e) \/ Cached(e) \/ NeverEnds(e)
    BY <1>1, <1>2, <1>5 DEF ReaderInv, Reached
  <2> QED BY <1>1, <2>1, ReachedKept
<1>6. CASE e.log = n /\ e.pos = i
  BY <1>2, <1>6, WantedReached
<1> QED
  BY <1>4, <1>5, <1>6

\* The reader stays where it is.
LEMMA ReaderRepeats ==
    ASSUME Base, ReaderInv, NEW ev \in Packets, Repeats(ev)
    PROVE  ReaderInv'
<1>1. Running /\ Reading' /\ UNCHANGED <<logs, opt, from>> /\ PrintsLines(ev, "OK_CONTINUE") /\ Here' = Here
  BY RepeatsEvent DEF Repeats, Running
<1> SUFFICES ASSUME NEW e \in AllEvents, Wanted(e), Before(Place(e), Here)
             PROVE  Settled(e)' \/ Cached(e)' \/ NeverEnds(e)'
  BY <1>1, WantedKept DEF ReaderInv, Reached
<1>2. Settled(e) \/ Cached(e) \/ NeverEnds(e)
  BY <1>1 DEF ReaderInv, Reached
<1> QED
  BY <1>1, <1>2, ReachedKept

\* When main leaves a log with rows in the caches, the log has ended without
\* the end of their statement.
LEMMA ReaderBetween ==
    ASSUME Base, StatementInv, ReaderInv, Running, Between
    PROVE  ReaderInv'
<1>1. UNCHANGED <<logs, opt, from, out, missed>> /\ RunTypes
  BY DEF Between, Base, Types
<1> SUFFICES ASSUME NEW e \in AllEvents, Wanted(e), Before(Place(e), Here')
             PROVE  Settled(e)' \/ Cached(e)' \/ NeverEnds(e)'
  BY <1>1, WantedKept DEF ReaderInv, Reached
<1>2. /\ e.log \in DOMAIN logs /\ e.pos \in DOMAIN LogEvents(e.log) /\ e = Event(e.log, e.pos)
      /\ Before(Place(e), Here) <=> Behind(e.log, e.pos)
  BY <1>1, BehindHere
<1>3. Behind(e.log, e.pos)'
  BY DEF Behind, Place
<1>4. LogEvents(e.log)[e.pos].t # "rotate"
  <2>1. e.t = LogEvents(e.log)[e.pos].t
    BY <1>1, <1>2, EventParts
  <2> QED BY <2>1 DEF Wanted, Effective
<1>5. Before(Place(e), Here)
  BY <1>2, <1>3, <1>4, BetweenBehind
<1>6. Settled(e) \/ Cached(e) \/ NeverEnds(e)
  BY <1>5 DEF ReaderInv, Reached
<1>7. CASE Settled(e)
  BY <1>1, <1>7 DEF Settled, InOut
<1>8. CASE NeverEnds(e)
  BY <1>1, <1>8, WantedKept
<1>9. CASE Cached(e)
  <2>1. PICK k \in DOMAIN caches : caches[k].log = e.log /\ caches[k].pos = e.pos /\ e.t = "rows"
    BY <1>9 DEF Cached
  <2>2. Reading /\ pc # "main" /\ caches # <<>>
    BY <1>9, <2>1 DEF Cached, Reading
  <2>3. Leaves /\ ~InLog
    BY <2>2 DEF Between, Stays, Leaves, Waiting
  <2>4. served.log = e.log /\ Since(e.pos)
    BY <2>1, <2>2 DEF StatementInv, CachesWait
  <2>5. ASSUME NEW j \in e.pos .. Len(LogEvents(e.log))
        PROVE  ~EndsAt(e, j)
    <3>1. /\ served.idx \in Nat \ {0} /\ Len(LogEvents(e.log)) \in Nat
          /\ DOMAIN LogEvents(e.log) = 1 .. Len(LogEvents(e.log))
      BY <1>1, <1>2, TheEvents DEF Base, Types, PlaceTypes
    <3>2. j \in e.pos .. served.idx - 1
      BY <1>2, <2>3, <2>4, <3>1 DEF InLog
    <3>3. Open(LogEvents(e.log)[j])
      BY <2>4, <3>2 DEF Since
    <3> QED BY <3>3 DEF EndsAt, Open
  <2>6. NeverEnds(e)
    BY <2>1, <2>5 DEF NeverEnds
  <2> QED BY <1>1, <2>6, WantedKept
<1> QED
  BY <1>6, <1>7, <1>8, <1>9

\* A pair that a run saves is not ahead of its reader.
LEMMA PairBehind ==
    ASSUME Base, PairInv, PairInv', Whole, Reading, Reading', NEW ev \in Packets, Saves(ev), opt' = opt, logs' = logs,
           cur' = Here'[1], Here' \in Nat \X Nat, opt.savable, ~Mixed(npfp')
    PROVE  <<npfp'.name, npfp'.pos>> \in Nat \X Nat /\ ~Before(Here', <<npfp'.name, npfp'.pos>>)
<1>1. npfp' = [name |-> cur', pos |-> evpos'.pos, of |-> evpos'.of]
  BY DEF Saves
<1>2. evpos'.pos \in Nat
  <2>1. evpos.pos \in Nat /\ ev.ends \in Nat
    BY PairsTyped, PacketParts
  <2> QED BY <2>1 DEF Saves
<1>3. /\ npfp'.name = Here'[1] /\ npfp'.pos = evpos'.pos /\ npfp'.of = evpos'.of
  BY <1>1
<1>4. CASE evpos'.pos = 0
  BY <1>2, <1>3, <1>4 DEF Before
<1>5. CASE evpos'.pos # 0
  <2>1. evpos'.of = Here'[1]
    BY <1>3, <1>5 DEF Mixed
  <2>2. opt' = opt /\ opt.remote /\ Running'
    BY DEF Whole, Running, Reading
  <2>3. evpos'.of # NoName
    BY <2>1, ReplicatorAssumption
  <2>4. ~Before(Here', <<evpos'.of, evpos'.pos>>)
    BY <2>2, <2>3 DEF PairInv, EvposInv
  <2> QED BY <1>2, <1>3, <2>1, <2>4
<1> QED
  BY <1>4, <1>5

\* The pairs after an event that is dealt with.
LEMMA PairsDeal ==
    ASSUME Base, PairInv, PairInv', Whole, Reading, Reading', UNCHANGED <<logs, opt, from>>, CoverInv, UpToHere',
           NEW ev \in Packets, Saves(ev), PrintsLines(ev, "OK_CONTINUE"), cur' = Here'[1], Here' \in Nat \X Nat
    PROVE  /\ npfp' # NoName => \A pair : pair = npfp' => PairCovered(pair)'
           /\ \A pair : pair = disk' => PairCovered(pair)'
<1>1. \A pair : PairCovered(pair) => PairCovered(pair)'
  BY SettledKept, PairKept
<1>2. ASSUME ~opt.savable
      PROVE  /\ npfp' # NoName => \A pair : pair = npfp' => PairCovered(pair)'
             /\ \A pair : pair = disk' => PairCovered(pair)'
  <2>1. UNCHANGED <<npfp, disk>>
    BY <1>2 DEF Saves
  <2> QED BY <1>1, <2>1 DEF CoverInv
<1>3. ASSUME opt.savable
      PROVE  /\ npfp' # NoName => \A pair : pair = npfp' => PairCovered(pair)'
             /\ \A pair : pair = disk' => PairCovered(pair)'
  <2>1. ASSUME NEW pair, pair = npfp'
        PROVE  PairCovered(pair)'
    <3>1. CASE Mixed(pair)
      BY <3>1 DEF PairCovered, Mixed
    <3>2. CASE ~Mixed(pair)
      <4>1. <<pair.name, pair.pos>> \in Nat \X Nat /\ ~Before(Here', <<pair.name, pair.pos>>)
        BY <1>3, <2>1, <3>2, PairBehind DEF Mixed
      <4>2. Covered(<<pair.name, pair.pos>>)'
        BY <4>1 DEF UpToHere
      <4> QED BY <4>2 DEF PairCovered
    <3> QED BY <3>1, <3>2
  <2>2. ASSUME NEW pair, pair = disk'
        PROVE  PairCovered(pair)'
    <3>1. pair = IF npfp = NoName THEN NoPair ELSE npfp
      BY <1>3, <2>2 DEF Saves
    <3>2. CASE npfp = NoName
      BY <3>1, <3>2 DEF PairCovered, NoPair
    <3>3. CASE npfp # NoName
      BY <1>1, <3>1, <3>3 DEF CoverInv
    <3> QED BY <3>2, <3>3
  <2> QED BY <2>1, <2>2
<1> QED
  BY <1>2, <1>3

\* The pairs when nothing is saved: at most the buffer is written.
LEMMA PairsFlush ==
    ASSUME Whole, UNCHANGED <<logs, opt, from, npfp>>, CoverInv, \A e : Settled(e) => Settled(e)',
           disk' = disk \/ (npfp # NoName /\ disk' = npfp)
    PROVE  /\ npfp' # NoName => \A pair : pair = npfp' => PairCovered(pair)'
           /\ \A pair : pair = disk' => PairCovered(pair)'
<1>1. \A pair : PairCovered(pair) => PairCovered(pair)'
  BY PairKept
<1> QED
  BY <1>1 DEF CoverInv

\* A run starts at the pair in the file or behind it, so that nothing lies
\* between its start and the pair, or its start and its reader.
LEMMA CoverMain ==
    ASSUME Base, mainProgram
    PROVE  CoverInv'
<1>0. RunTypes /\ UNCHANGED <<logs, opt, disk>> /\ npfp' = NoName
  BY DEF Base, Types, mainProgram, runVars
<1>1. PICK n \in DOMAIN logs, p \in Nat \ {0}, l \in Nat \ {0} :
             /\ disk.name # NoName => n = disk.name /\ p >= disk.pos
             /\ args' = [k \in 1 .. l |-> n + k - 1] /\ start' = p /\ from' = <<n, p>>
  BY MainStarts
<1>2. n \in Nat /\ Head(args') = n
  <2>1. n \in Nat
    BY <1>0, TheLogs
  <2>2. args'[1] = n
    BY <1>1, <2>1
  <2> QED BY <1>1, <2>1, <2>2
<1>3. Here' = from'
  BY <1>1, <1>2 DEF mainProgram, Here
<1>4. ReaderInv'
  BY <1>3 DEF ReaderInv, Reached, Wanted
<1>5. ASSUME NEW pair, pair = disk'
      PROVE  PairCovered(pair)'
  <2> SUFFICES ASSUME pair.name # NoName,
                      NEW e, e \in AllEvents', Wanted(e)', Before(Place(e), <<pair.name, pair.pos>>)
               PROVE  FALSE
    BY DEF PairCovered, Covered
  <2>1. pair.name = n /\ pair.pos <= p /\ pair.pos \in Nat
    BY <1>0, <1>1, <1>5, PairsTyped
  <2>2. ~Before(Place(e), <<n, p>>)
    BY <1>1 DEF Wanted
  <2>3. e \in AllEvents
    BY <1>0 DEF AllEvents, Event, LogEvents
  <2>4. e.log \in Nat /\ e.pos \in Nat
    <3>1. e.log \in DOMAIN logs /\ e.pos \in DOMAIN LogEvents(e.log)
      BY <1>0, <2>3, BehindHere
    <3> QED BY <1>0, <3>1, TheLogs, TheEvents
  <2> QED BY <1>1, <1>2, <2>1, <2>2, <2>4 DEF Before, Place
<1> QED
  BY <1>0, <1>4, <1>5 DEF CoverInv

\* CoverInv in every step.
LEMMA CoverStep ==
    /\ Base /\ CacheInv /\ StatementInv /\ NamesInv /\ PairInv /\ CoverInv
    /\ Base' /\ CacheInv' /\ StatementInv' /\ PairInv' /\ [binlogNext]_binlogVars
    => CoverInv'
<1> SUFFICES ASSUME Base, CacheInv, StatementInv, NamesInv, PairInv, CoverInv,
                    Base', CacheInv', StatementInv', PairInv', [binlogNext]_binlogVars, Whole'
             PROVE  /\ ReaderInv'
                    /\ npfp' # NoName => \A pair : pair = npfp' => PairCovered(pair)'
                    /\ \A pair : pair = disk' => PairCovered(pair)'
  BY DEF CoverInv
<1>1. CASE mainProgram
  <2>1. CoverInv'
    BY <1>1, CoverMain
  <2> QED BY <2>1 DEF CoverInv
<1>2. CASE Running /\ binlogNext
  <2>1. CASE Ends
    <3>1. ~Running' /\ UNCHANGED <<logs, opt, from>> /\ Whole /\ Types
      BY <2>1 DEF Ends, Whole, Base
    <3>2. ReaderInv'
      BY <3>1 DEF ReaderInv
    <3>3. ASSUME ResultCut, UNCHANGED npfp, disk' = disk \/ (npfp # NoName /\ disk' = npfp)
          PROVE  /\ npfp' # NoName => \A pair : pair = npfp' => PairCovered(pair)'
                 /\ \A pair : pair = disk' => PairCovered(pair)'
      BY <3>1, <3>3, SettledCut, PairsFlush
    <3>4. ASSUME NEW ev \in Packets, IdOK(ev), Fails(ev)
          PROVE  UNCHANGED <<npfp, disk>> /\ \A e : Settled(e) => Settled(e)'
      <4>1. UNCHANGED <<npfp, disk>> /\ \E ret : ret # "OK_CONTINUE" /\ PrintsLines(ev, ret)
        BY <3>1, <3>4, FailsSave
      <4>2. PICK ret : PrintsLines(ev, ret)
        BY <4>1
      <4> QED BY <4>1, <4>2, SettledKept
    <3>5. ASSUME NEW ev \in Packets, IdOK(ev), Fails(ev)
          PROVE  /\ npfp' # NoName => \A pair : pair = npfp' => PairCovered(pair)'
                 /\ \A pair : pair = disk' => PairCovered(pair)'
      BY <3>1, <3>4, <3>5, PairsFlush
    <3> QED BY <2>1, <3>2, <3>3, <3>5 DEF Ends
  <2>2. CASE Between
    <3>1. Whole /\ UNCHANGED <<logs, opt, from, npfp, disk, out, missed>>
      BY <2>2 DEF Between, Whole
    <3>2. \A e : Settled(e) => Settled(e)'
      BY <3>1 DEF Settled, InOut
    <3>3. ReaderInv'
      BY <1>2, <2>2, <3>1, ReaderBetween DEF CoverInv
    <3> QED BY <3>1, <3>2, <3>3, PairsFlush
  <2>3. ASSUME NEW n \in DOMAIN logs, NEW i \in DOMAIN LogEvents(n), Passes(n, i)
        PROVE  /\ ReaderInv'
               /\ npfp' # NoName => \A pair : pair = npfp' => PairCovered(pair)'
               /\ \A pair : pair = disk' => PairCovered(pair)'
    <3>1. /\ Reading /\ Reading' /\ UNCHANGED <<logs, opt, from>> /\ Whole /\ opt.remote
          /\ served.log = n /\ served.ph = "log"
      BY <2>3 DEF Passes, Reading, Whole
    <3>2. /\ Event(n, i) \in Packets /\ Saves(Event(n, i)) /\ PrintsLines(Event(n, i), "OK_CONTINUE")
          /\ n \in Nat /\ i \in Nat \ {0}
      BY <2>3, PassesEvent
    <3>3. ReaderInv'
      BY <2>3, <3>1, ReaderPasses DEF CoverInv
    <3>4. cur' = Here'[1] /\ Here' \in Nat \X Nat
      <4>1. cur = n
        BY <3>1 DEF PairInv, NameInv
      <4> QED BY <2>3, <3>1, <3>2, <4>1 DEF Passes, HeaderSize
    <3>5. UpToHere'
      BY <3>1, <3>3, CoversHere, PTL
    <3> QED BY <3>1, <3>2, <3>3, <3>4, <3>5, PairsDeal
  <2>4. ASSUME NEW ev \in Packets, Repeats(ev)
        PROVE  /\ ReaderInv'
               /\ npfp' # NoName => \A pair : pair = npfp' => PairCovered(pair)'
               /\ \A pair : pair = disk' => PairCovered(pair)'
    <3>1. /\ Reading /\ Reading' /\ UNCHANGED <<logs, opt, from>> /\ Whole /\ opt.remote /\ Here' = Here
      BY <2>4 DEF Repeats, Whole
    <3>2. Saves(ev) /\ PrintsLines(ev, "OK_CONTINUE")
      BY <2>4, RepeatsEvent
    <3>3. ReaderInv'
      BY <2>4, <3>1, ReaderRepeats DEF CoverInv
    <3>4. cur' = Here'[1] /\ Here' \in Nat \X Nat
      <4>1. Running /\ pc # "main"
        BY <3>1 DEF Running, Reading
      <4>2. Here \in Nat \X (Nat \ {0}) /\ Here[1] = served.log
        BY <4>1, HereTyped, HereLog
      <4>3. cur' = served.log
        BY <2>4, <3>1 DEF Repeats, PairInv, NameInv
      <4> QED BY <3>1, <4>2, <4>3
    <3>5. UpToHere'
      BY <3>1, <3>3, CoversHere, PTL
    <3> QED BY <3>1, <3>2, <3>3, <3>4, <3>5, PairsDeal
  <2> QED BY <1>2, <2>1, <2>2, <2>3, <2>4, RunSteps
<1>3. CASE ~Running /\ binlogNext /\ ~mainProgram
  <2>1. /\ ~Running' /\ ResultCut /\ UNCHANGED <<logs, opt, from, npfp>>
        /\ disk' = disk \/ (npfp # NoName /\ disk' = npfp)
    BY <1>3, OtherSteps
  <2>2. Whole /\ ReaderInv' /\ \A e : Settled(e) => Settled(e)'
    BY <2>1, SettledCut DEF Whole, ReaderInv
  <2> QED BY <2>1, <2>2, PairsFlush
<1>4. CASE UNCHANGED binlogVars
  <2>1. UNCHANGED <<logs, opt, from, pc, args, start, served, out, missed, caches, npfp, disk>>
    BY <1>4 DEF binlogVars, runVars, printVars, saveVars
  <2>2. Whole /\ \A e : (Settled(e) => Settled(e)') /\ (Cached(e) => Cached(e)')
    BY <2>1 DEF Whole, Settled, InOut, Cached, Reading
  <2>3. ReaderInv'
    <3>1. Running' = Running /\ Here' = Here
      BY <2>1 DEF Running, Reading, Here
    <3> QED BY <2>1, <2>2, <3>1, WantedKept DEF ReaderInv, Reached, CoverInv
  <2> QED BY <2>1, <2>2, <2>3, PairsFlush
<1> QED
  BY <1>1, <1>2, <1>3, <1>4

\* Before the program has been started.
LEMMA CoverInit == binlogInit => StatementInv /\ GlobInv /\ NamesInv /\ CoverInv
<1> SUFFICES ASSUME binlogInit
             PROVE  StatementInv /\ GlobInv /\ NamesInv /\ CoverInv
  OBVIOUS
<1>1. pc = "idle" /\ npfp = NoName /\ disk = NoPair
  BY DEF binlogInit
<1>2. ~Running /\ ~Reading /\ disk.name = NoName
  BY <1>1 DEF Running, Reading, NoPair
<1> QED
  BY <1>1, <1>2 DEF StatementInv, GlobInv, NamesInv, CoverInv, ReaderInv, PairCovered

\* Something is missed only when writes may fail or the result is a file.
MissedInv == missed # {} => opt.full \/ opt.toFile

LEMMA MissedStep == Base /\ CacheInv /\ MissedInv /\ [binlogNext]_binlogVars => MissedInv'
<1> SUFFICES ASSUME Base, CacheInv, MissedInv, [binlogNext]_binlogVars
             PROVE  MissedInv'
  OBVIOUS
<1>1. CASE mainProgram
  BY <1>1 DEF mainProgram, MissedInv
<1>2. ASSUME opt' = opt, missed' = missed \/ opt.full \/ opt.toFile
      PROVE  MissedInv'
  BY <1>2 DEF MissedInv
<1>3. CASE Running /\ binlogNext
  <2>0. Types
    BY DEF Base
  <2>1. CASE Ends
    <3>1. ASSUME NEW ev \in Packets, IdOK(ev), Fails(ev)
          PROVE  missed' = missed \/ opt.full
      BY <2>0, <3>1, FailsSave DEF PrintsLines
    <3> QED BY <1>2, <2>1, <3>1 DEF Ends, ResultCut
  <2>2. CASE Between
    BY <1>2, <2>2 DEF Between
  <2>3. ASSUME NEW n \in DOMAIN logs, NEW i \in DOMAIN LogEvents(n), Passes(n, i)
        PROVE  MissedInv'
    <3>1. opt' = opt /\ PrintsLines(Event(n, i), "OK_CONTINUE")
      BY <2>3, PassesEvent DEF Passes
    <3> QED BY <1>2, <3>1 DEF PrintsLines
  <2>4. ASSUME NEW ev \in Packets, Repeats(ev)
        PROVE  MissedInv'
    <3>1. opt' = opt /\ PrintsLines(ev, "OK_CONTINUE")
      BY <2>4, RepeatsEvent DEF Repeats
    <3> QED BY <1>2, <3>1 DEF PrintsLines
  <2> QED BY <1>3, <2>1, <2>2, <2>3, <2>4, RunSteps
<1>4. CASE ~Running /\ binlogNext /\ ~mainProgram
  BY <1>2, <1>4, OtherSteps DEF ResultCut
<1>5. CASE UNCHANGED binlogVars
  BY <1>2, <1>5 DEF binlogVars, runVars, printVars
<1> QED
  BY <1>1, <1>3, <1>4, <1>5

\* LossExplained from what the pair in the file covers.
LEMMA CoverExplains == Base /\ PairInv /\ CoverInv /\ MissedInv => LossExplained
<1> SUFFICES ASSUME Base, PairInv, CoverInv, MissedInv, disk.name # NoName, opt.offset = 0, opt.startTime = 0,
                    NEW e \in Effective, ~Before(Place(e), from), Before(Place(e), Saved)
             PROVE  \/ InOut(e) \/ Mixed(disk)
                    \/ ~Ended(e) \/ Before(<<e.log, First(e)>>, from)
                    \/ Place(e) \in missed /\ (opt.full \/ opt.toFile)
  BY DEF LossExplained
<1>1. Whole
  BY DEF Whole, PairInv, NameInv
<1>2. PairCovered(disk)
  BY <1>1 DEF CoverInv
<1> SUFFICES ASSUME ~Mixed(disk), ~Before(<<e.log, First(e)>>, from)
             PROVE  InOut(e) \/ ~Ended(e) \/ (Place(e) \in missed /\ (opt.full \/ opt.toFile))
  OBVIOUS
<1>3. Covered(Saved)
  BY <1>2 DEF PairCovered, Saved
<1>4. Wanted(e) /\ e \in AllEvents
  BY DEF Wanted, Effective
<1>5. Settled(e) \/ (e.t = "rows" /\ ~EndBefore(e, Saved))
  BY <1>3, <1>4 DEF Covered
<1>6. Place(e) \in missed => opt.full \/ opt.toFile
  BY DEF MissedInv
<1> QED
  BY <1>5, <1>6 DEF Settled, Ended, EndBefore, EndsAt

(***************************************************************************)
(* Between the start of a run and the pair in the file nothing that the    *)
(* options ask for is missing in the output, but for the rows of a         *)
(* statement that is not over at the pair, the end of a LOAD DATA that had *)
(* begun before the run, what a mixed pair passes over, and what was       *)
(* printed but did not reach the result: only if a write of it may fail,   *)
(* or if it is a file with a buffer (save_name_and_pos at the end of       *)
(* process_event, the stdio buffers, the row caches, Load_log_processor),  *)
(* whatever crash or error ended the run.                                  *)
(***************************************************************************)
THEOREM LossAlwaysExplained == binlogSpec => []LossExplained
<1> DEFINE LossInv == /\ Base /\ CacheInv /\ FromInv /\ PairInv
                      /\ StatementInv /\ GlobInv /\ NamesInv /\ CoverInv /\ MissedInv
<1>1. binlogInit => LossInv
  BY InitBase, CacheInit, PairInit, CoverInit DEF binlogInit, MissedInv
<1>2. LossInv /\ [binlogNext]_binlogVars => LossInv'
  <2> SUFFICES ASSUME LossInv, [binlogNext]_binlogVars
               PROVE  LossInv'
    OBVIOUS
  <2>1. Base' /\ CacheInv' /\ FromInv' /\ PairInv'
    BY BaseStep, CacheStep, FromStep, PairStep
  <2>2. StatementInv' /\ GlobInv' /\ NamesInv'
    BY <2>1, StatementKept, GlobStep, NamesStep
  <2>3. CoverInv'
    BY <2>1, <2>2, CoverStep
  <2>4. MissedInv'
    BY MissedStep
  <2> QED BY <2>1, <2>2, <2>3, <2>4
<1>3. LossInv => LossExplained
  BY CoverExplains
<1> QED
  BY <1>1, <1>2, <1>3, PTL DEF binlogSpec
=============================================================================
