------------------------------- MODULE Backend -------------------------------
(***************************************************************************)
(* The command procedure of redis-proxy's extension                        *)
(* (redis-proxy/echo.c, _redisCommandProc), run by one I/O thread over the *)
(* connection to the backend redis that the thread keeps between jobs.     *)
(*                                                                         *)
(* A job sends its request bytes, polls for the reply, and on a socket     *)
(* error closes the connection and tries once more on a new one.  The      *)
(* backend is external: it executes the commands it has received, in       *)
(* order, answers each, may close the connection at any time, and may      *)
(* still execute what it received on a connection the proxy has given up.  *)
(*                                                                         *)
(* A command is RequestLen write units, a reply is ReplyLen read units     *)
(* tagged with the job, the command's number in the job and the attempt    *)
(* that sent it.  A job in Inline carries two commands: a buffer that does *)
(* not start with '*' is taken as complete whenever it ends in CR LF,      *)
(* however many lines it holds.  The socket is a blocking one: a job in    *)
(* Large has more bytes than the send buffer takes, and its write(2) may   *)
(* sleep until the backend reads.                                          *)
(***************************************************************************)
EXTENDS Naturals, Sequences, FiniteSets, SequencesExt

CONSTANTS NumJobs,    \* bound: jobs this thread runs
          Inline,     \* the jobs whose buffer holds two inline commands
          Large,      \* the jobs whose request does not fit the send buffer
          TimeOut     \* SERVER_TIME_OUT in clock units

ASSUME BackendAssumption ==
    /\ NumJobs \in Nat
    /\ Inline \in SUBSET (1 .. NumJobs) /\ Large \in SUBSET (1 .. NumJobs)
    /\ TimeOut \in Nat \ {0}

VARIABLES
    pc, job, ntry,     \* position, current job (0 before the first), attempt
    nwrite,            \* request units written in this attempt
    wbuf,              \* the client's reply buffer
    elapsed,           \* time since begin, in clock units
    fd,                \* is the thread connected?
    up,                \* has the backend kept its end open?
    wire,              \* commands the backend got on this connection, not executed
    out,               \* reply units on this connection, not read
    orphans,           \* commands left on connections the proxy closed
    executed,          \* executions so far, as a set of tags
    results            \* what each finished job left in its client's wbuf

vars == <<pc, job, ntry, nwrite, wbuf, elapsed, fd, up, wire, out, orphans,
          executed, results>>

MaxTry     == 2        \* "ntry < 2"
RequestLen == 2
ReplyLen   == 2
CONN_ERR   == << >>    \* a finished job's buffer is CONN_ERR or reply units

Lines(j) == IF j \in Inline THEN 2 ELSE 1
Tag(j, l, a) == [job |-> j, line |-> l, try |-> a]
Tags == [job : 1 .. NumJobs, line : 1 .. 2, try : 1 .. MaxTry]

\* Unit k of the reply to command t; k = 0 is a reply the validators reject.
Unit(t, k) == [tag |-> t, part |-> k]
Units == [tag : Tags, part : 0 .. ReplyLen]

rlen == RequestLen * Lines(job)

Init ==
    /\ pc = "idle" /\ job = 0 /\ ntry = 0 /\ nwrite = 0
    /\ wbuf = << >> /\ elapsed = 0
    /\ fd \in BOOLEAN /\ up = fd          \* _redisCommandInit may fail
    /\ wire = << >> /\ out = << >>
    /\ orphans = {} /\ executed = {} /\ results = << >>

-----------------------------------------------------------------------------
(* The proxy's side. *)

closeFd ==
    /\ fd' = FALSE /\ up' = FALSE
    /\ orphans' = orphans \cup ToSet(wire)
    /\ wire' = << >> /\ out' = << >>

finish(buf) ==
    /\ pc' = "idle"
    /\ wbuf' = buf
    /\ results' = Append(results, buf)

\* Mutant of fail: the connection is kept after an error.
failKeepsConnection ==
    /\ finish(CONN_ERR)
    /\ UNCHANGED <<job, ntry, nwrite, elapsed, fd, up, wire, out, orphans, executed>>

\* err == 1: close, and the error text replaces whatever was read.
fail ==
    /\ closeFd
    /\ finish(CONN_ERR)
    /\ UNCHANGED <<job, ntry, nwrite, elapsed, executed>>

\* Mutant of retryOrFail: wbuf and wlen are not reset for the second attempt.
retryKeepsBuffer(buf) ==
    IF ntry < MaxTry
    THEN /\ closeFd
         /\ pc' = "again"
         /\ UNCHANGED <<job, ntry, nwrite, wbuf, elapsed, executed, results>>
    ELSE fail

\* Mutant of retryOrFail: one attempt too many.
retryOnceMore(buf) ==
    IF ntry <= MaxTry
    THEN /\ closeFd
         /\ pc' = "again"
         /\ wbuf' = buf
         /\ UNCHANGED <<job, ntry, nwrite, elapsed, executed, results>>
    ELSE fail

\* err == 2: try again on a new connection, unless this was the last try.
retryOrFail(buf) ==
    IF ntry < MaxTry
    THEN /\ closeFd
         /\ pc' = "again"
         /\ wbuf' = buf
         /\ UNCHANGED <<job, ntry, nwrite, elapsed, executed, results>>
    ELSE fail

\* Mutant of startJob: the attempts of the previous job are not forgotten.
startJobKeepsTries ==
    /\ pc = "idle" /\ job < NumJobs
    /\ pc' = "again" /\ job' = job + 1 /\ wbuf' = << >>
    /\ UNCHANGED <<ntry, nwrite, elapsed, fd, up, wire, out, orphans, executed, results>>

\* The event loop hands the thread its next client, whose wlen is 0.
startJob ==
    /\ pc = "idle" /\ job < NumJobs
    /\ pc' = "again" /\ job' = job + 1 /\ ntry' = 0 /\ wbuf' = << >>
    /\ UNCHANGED <<nwrite, elapsed, fd, up, wire, out, orphans, executed, results>>

again ==
    /\ pc = "again"
    /\ ntry' = ntry + 1
    /\ \/ /\ fd
          /\ pc' = "write" /\ UNCHANGED <<fd, up, wbuf, results>>
       \/ /\ ~fd
          /\ pc' = "write" /\ fd' = TRUE /\ up' = TRUE
          /\ UNCHANGED <<wbuf, results>>
       \/ /\ ~fd
          /\ finish(CONN_ERR) /\ UNCHANGED <<fd, up>>
    /\ nwrite' = 0 /\ elapsed' = 0
    /\ UNCHANGED <<job, wire, out, orphans, executed>>

\* The commands completed by writing n units more.
Sent(n) ==
    [i \in 1 .. (nwrite + n) \div RequestLen - nwrite \div RequestLen |->
        Tag(job, nwrite \div RequestLen + i, ntry)]

\* write(2) took n units.  They are on the wire even when the clock, read
\* after the write, makes the job give up.
wrote(n) ==
    LET got == IF up THEN wire \o Sent(n) ELSE wire IN
    IF elapsed >= TimeOut
    THEN /\ fd' = FALSE /\ up' = FALSE
         /\ orphans' = orphans \cup ToSet(got)
         /\ wire' = << >> /\ out' = << >>
         /\ finish(CONN_ERR)
         /\ UNCHANGED <<job, ntry, nwrite, elapsed, executed>>
    ELSE /\ wire' = got
         /\ nwrite' = nwrite + n
         /\ IF nwrite + n = rlen
            THEN pc' = "read" /\ elapsed' = 0
            ELSE pc' = "write" /\ UNCHANGED elapsed
         /\ UNCHANGED <<job, ntry, wbuf, fd, up, out, orphans, executed, results>>

\* One turn of the write loop; EAGAIN before the time limit changes nothing.
writeRequest ==
    /\ pc = "write"
    /\ \/ \E n \in 1 .. rlen - nwrite : wrote(n)
       \/ elapsed >= TimeOut /\ fail
       \/ ~up /\ elapsed < TimeOut /\ retryOrFail(wbuf)

\* write(2) on the blocking socket sleeps on a full send buffer, and returns
\* when the backend has read enough or has closed.
writeBlocks ==
    /\ pc = "write" /\ up /\ job \in Large
    /\ pc' = "blocked"
    /\ UNCHANGED <<job, ntry, nwrite, wbuf, elapsed, fd, up, wire, out, orphans,
                   executed, results>>

writeReturns ==
    /\ pc = "blocked"
    /\ \/ up /\ wrote(rlen - nwrite)
       \/ ~up /\ IF elapsed >= TimeOut THEN fail ELSE retryOrFail(wbuf)

\* _processResponseBuffer: 1 complete, 0 needs more, -1 not one valid reply.
processResponseBuffer(buf) ==
    IF \E i \in DOMAIN buf : buf[i].part = 0 THEN -1
    ELSE IF Len(buf) < ReplyLen THEN 0
    ELSE IF Len(buf) = ReplyLen THEN 1
    ELSE -1

gotReply(n) ==
    LET buf == wbuf \o SubSeq(out, 1, n)
        v   == processResponseBuffer(buf) IN
    \/ /\ v = 1
       /\ finish(buf)
       /\ out' = SubSeq(out, n + 1, Len(out))
       /\ UNCHANGED <<job, ntry, nwrite, elapsed, fd, up, wire, orphans, executed>>
    \/ /\ v = 0
       /\ wbuf' = buf
       /\ out' = SubSeq(out, n + 1, Len(out))
       /\ UNCHANGED <<pc, job, ntry, nwrite, elapsed, fd, up, wire, orphans,
                      executed, results>>
    \/ v = -1 /\ fail

\* Mutant of readReply: the clock is not tested in the read loop.
readReplyNoClock ==
    /\ pc = "read"
    /\ \/ \E n \in 1 .. Len(out) : gotReply(n)
       \/ ~up /\ out = << >> /\ retryOrFail(<< >>)

\* One turn of the read loop: the clock is tested before the read, then data,
\* or end of file or an error once the backend has closed.
readReply ==
    /\ pc = "read"
    /\ \/ elapsed >= TimeOut /\ fail
       \/ elapsed < TimeOut /\ \E n \in 1 .. Len(out) : gotReply(n)
       \/ elapsed < TimeOut /\ ~up /\ out = << >> /\ retryOrFail(<< >>)

\* Nothing for SERVER_TIME_OUT/10: poll(2) returns 0 and the job fails.
pollTimeout ==
    /\ pc \in {"write", "read"}
    /\ fail

\* gettimeofday moves while a job polls.
tick ==
    /\ pc \in {"write", "blocked", "read"}
    /\ elapsed < TimeOut
    /\ elapsed' = elapsed + 1
    /\ UNCHANGED <<pc, job, ntry, nwrite, wbuf, fd, up, wire, out, orphans,
                   executed, results>>

-----------------------------------------------------------------------------
(* The backend redis: external. *)

Reply(t, good) == IF good THEN [k \in 1 .. ReplyLen |-> Unit(t, k)]
                          ELSE << Unit(t, 0) >>

backendExecutes ==
    /\ wire # << >>
    /\ wire' = Tail(wire)
    /\ executed' = executed \cup {Head(wire)}
    /\ \E good \in BOOLEAN : out' = out \o Reply(Head(wire), good)
    /\ UNCHANGED <<pc, job, ntry, nwrite, wbuf, elapsed, fd, up, orphans, results>>

\* A close or a reset: commands not executed are dropped, replies not yet
\* read may or may not survive.
backendCloses ==
    /\ up
    /\ up' = FALSE
    /\ wire' = << >>
    /\ out' \in {out, << >>}
    /\ UNCHANGED <<pc, job, ntry, nwrite, wbuf, elapsed, fd, orphans, executed, results>>

orphanExecutes ==
    \E t \in orphans :
        /\ orphans' = orphans \ {t}
        /\ executed' = executed \cup {t}
        /\ UNCHANGED <<pc, job, ntry, nwrite, wbuf, elapsed, fd, up, wire, out, results>>

-----------------------------------------------------------------------------
redisCommandProc ==
    again \/ writeRequest \/ writeBlocks \/ readReply \/ pollTimeout

Next ==
    \/ startJob \/ redisCommandProc \/ tick \/ writeReturns
    \/ backendExecutes \/ backendCloses \/ orphanExecutes

Spec == Init /\ [][Next]_vars

\* The thread runs and the clock moves; a write(2) on a connection the backend
\* has closed returns.  Nothing is assumed of a backend that keeps it open.
Fairness ==
    /\ WF_vars(again) /\ WF_vars(tick)
    /\ WF_vars(~up /\ writeReturns)
    /\ WF_vars(elapsed >= TimeOut /\ (writeRequest \/ readReply))

FairSpec == Spec /\ Fairness

-----------------------------------------------------------------------------
TypeOK ==
    /\ pc \in {"idle", "again", "write", "blocked", "read"}
    /\ job \in 0 .. NumJobs /\ ntry \in 0 .. MaxTry
    /\ nwrite \in 0 .. 2 * RequestLen
    /\ wbuf \in Seq(Units) /\ elapsed \in 0 .. TimeOut
    /\ fd \in BOOLEAN /\ up \in BOOLEAN
    /\ wire \in Seq(Tags) /\ out \in Seq(Units)
    /\ orphans \in SUBSET Tags /\ executed \in SUBSET Tags
    /\ results \in Seq(Seq(Units))

(***************************************************************************)
(* What a finished job leaves for its client is the error text or one      *)
(* whole reply to that job's own command, from one attempt: never a        *)
(* reply that belongs to the thread's previous client, never the head of   *)
(* one attempt's reply with the tail of another's.                         *)
(***************************************************************************)
ReplyMatchesJob ==
    \A j \in DOMAIN results :
        \/ results[j] = CONN_ERR
        \/ \E a \in 1 .. MaxTry : results[j] = Reply(Tag(j, 1, a), TRUE)

(***************************************************************************)
(* Between jobs the kept connection carries nothing: every command sent on *)
(* it is executed and its reply consumed.  This is what lets the next job  *)
(* take the first reply it reads for its own.                              *)
(***************************************************************************)
CleanConnection ==
    pc = "idle" /\ fd => wire = << >> /\ out = << >>

(***************************************************************************)
(* A job whose reply reached the client is executed at least once, and a   *)
(* job is executed by at most MaxTry attempts, late executions on closed   *)
(* connections included.                                                   *)
(***************************************************************************)
ExecutionBounds ==
    \A j \in 1 .. NumJobs :
        /\ j \in DOMAIN results /\ results[j] # CONN_ERR
             => \E t \in executed : t.job = j
        /\ \A l \in 1 .. 2 :
             Cardinality({t \in executed \cup orphans \cup ToSet(wire) :
                             t.job = j /\ t.line = l}) <= MaxTry

(***************************************************************************)
(* Every job whose request fits the send buffer of the blocking socket     *)
(* ends, whatever the backend does: both loops are left by the clock       *)
(* (SERVER_TIME_OUT), and there are at most two attempts.  A larger        *)
(* request may wait in write(2), which no time limit bounds, for as long   *)
(* as the backend keeps the connection open without reading.               *)
(***************************************************************************)
EveryJobEnds ==
    \A j \in (1 .. NumJobs) \ Large : (pc # "idle" /\ job = j) ~> pc = "idle"

=============================================================================
