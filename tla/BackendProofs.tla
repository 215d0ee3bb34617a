---------------------------- MODULE BackendProofs ----------------------------
(***************************************************************************)
(* Proofs about Backend for jobs that carry one command each: any number   *)
(* of jobs, any time limit, requests that fit the send buffer or do not.   *)
(* With inline commands a client can get the reply to another's, as the    *)
(* run on such jobs shows.                                                 *)
(*                                                                         *)
(* The invariant spells out what a connection can hold at each position of *)
(* the job (OneCommand); the bounds on executions add that units of a      *)
(* reply stand for an execution of the job that reads them (Credit).       *)
(***************************************************************************)
EXTENDS Backend, SequenceTheorems, FiniteSetTheorems, TLAPS

-----------------------------------------------------------------------------
\* The command on the connection, and the replies to it.
Current == Tag(job, 1, ntry)
Part(k) == Unit(Current, k)

\* What the connection and the client's buffer hold: nothing before the
\* request is complete; then the command, its reply, a part of the reply, or
\* nothing, when the backend closed.
OneCommand ==
    /\ pc # "read" => wire = << >> /\ out = << >>
    /\ pc \in {"again", "write", "blocked"} => wbuf = << >>
    /\ pc = "again" => ntry < MaxTry
    /\ pc \in {"write", "blocked", "read"} => ntry \in 1 .. MaxTry
    /\ pc \in {"write", "blocked"} => nwrite < RequestLen
    /\ pc = "read" =>
         \/ wire = << Current >> /\ out = << >> /\ wbuf = << >>
         \/ wire = << >> /\ out \in {<< >>, << Part(0) >>, << Part(1), Part(2) >>} /\ wbuf = << >>
         \/ wire = << >> /\ out \in {<< >>, << Part(2) >>} /\ wbuf = << Part(1) >>

Places ==
    /\ pc \in {"idle", "again", "write", "blocked", "read"}
    /\ job \in 0 .. NumJobs /\ (pc # "idle" => job > 0)
    /\ ntry \in Nat /\ nwrite \in Nat
    /\ results \in Seq(Seq(Units))
    /\ Len(results) = IF pc = "idle" THEN job ELSE job - 1

BInv == Places /\ OneCommand /\ ReplyMatchesJob

-----------------------------------------------------------------------------
\* A complete reply as the sequence of its parts.
LEMMA ReplyParts ==
    ASSUME NEW t
    PROVE  /\ Reply(t, TRUE) = << Unit(t, 1), Unit(t, 2) >>
           /\ Reply(t, FALSE) = << Unit(t, 0) >>
<1>1. [k \in 1 .. 2 |-> Unit(t, k)] = << Unit(t, 1), Unit(t, 2) >>
  OBVIOUS
<1> QED
  BY <1>1 DEF Reply, ReplyLen

\* A finished job leaves the error text or its own reply.
LEMMA Finished ==
    ASSUME BInv, pc # "idle", NEW buf, pc' = "idle", results' = Append(results, buf),
           UNCHANGED <<job, nwrite>>, ntry' \in Nat, wire' = << >>, out' = << >>,
           \/ buf = CONN_ERR
           \/ ntry \in 1 .. MaxTry /\ buf = << Part(1), Part(2) >>
    PROVE  BInv'
<1>1. job \in 1 .. NumJobs /\ results \in Seq(Seq(Units)) /\ Len(results) = job - 1
  BY BackendAssumption DEF BInv, Places
<1>2. buf = CONN_ERR \/ \E a \in 1 .. MaxTry : buf = Reply(Tag(job, 1, a), TRUE)
  BY ReplyParts DEF Part, Current
<1>3. buf \in Seq(Units)
  <2>1. CASE buf = CONN_ERR
    BY <2>1 DEF CONN_ERR
  <2>2. CASE ntry \in 1 .. MaxTry /\ buf = << Part(1), Part(2) >>
    <3>1. Part(1) \in Units /\ Part(2) \in Units
      BY <1>1, <2>2 DEF Part, Current, Unit, Tag, Units, Tags, ReplyLen
    <3> QED
      BY <2>2, <3>1
  <2> QED
    BY <2>1, <2>2
<1>4. /\ results' \in Seq(Seq(Units)) /\ Len(results') = job
      /\ \A j \in DOMAIN results' : j = job \/ (j \in DOMAIN results /\ results'[j] = results[j])
      /\ results'[job] = buf
  BY <1>1, <1>3
<1>5. ReplyMatchesJob'
  BY <1>1, <1>2, <1>4 DEF BInv, ReplyMatchesJob
<1>6. Places'
  BY <1>1, <1>4 DEF BInv, Places
<1> QED
  BY <1>5, <1>6 DEF BInv, OneCommand

\* An attempt is given up: the connection goes, and with it what is on it.
LEMMA Failed ==
    ASSUME BInv, pc # "idle", fail
    PROVE  BInv'
BY Finished DEF fail, closeFd, finish, BInv, Places

LEMMA Retried ==
    ASSUME BInv, pc \notin {"idle", "again"}, NEW buf, buf = << >>, retryOrFail(buf)
    PROVE  BInv'
<1>1. CASE ntry < MaxTry
  BY <1>1 DEF retryOrFail, closeFd, BInv, Places, OneCommand, ReplyMatchesJob
<1>2. CASE ~(ntry < MaxTry)
  BY <1>2, Failed DEF retryOrFail
<1> QED
  BY <1>1, <1>2

\* What write(2) puts on the wire: nothing, or the whole command.
LEMMA Wrote ==
    ASSUME Inline = {}, BInv, pc \in {"write", "blocked"}, NEW n \in 1 .. rlen - nwrite, wrote(n)
    PROVE  BInv'
<1>1. /\ rlen = 2 /\ nwrite \in 0 .. 1 /\ n \in 1 .. 2 - nwrite
      /\ wire = << >> /\ out = << >> /\ wbuf = << >> /\ ntry \in 1 .. MaxTry
  BY DEF rlen, Lines, RequestLen, BInv, Places, OneCommand
<1>2. CASE elapsed >= TimeOut
  BY <1>2, Finished DEF wrote, finish, BInv, Places
<1>3. CASE ~(elapsed >= TimeOut) /\ nwrite + n = 1
  <2>1. Sent(n) = << >>
    <3>1. (nwrite + n) \div RequestLen - nwrite \div RequestLen = 0
      BY <1>1, <1>3 DEF RequestLen
    <3> QED
      BY <3>1 DEF Sent
  <2>2. wire' = << >>
    BY <1>1, <1>3, <2>1 DEF wrote
  <2>3. pc' = "write" /\ UNCHANGED <<job, ntry, wbuf, out, results>> /\ nwrite' = 1
    BY <1>1, <1>3 DEF wrote
  <2>4. Places' /\ ReplyMatchesJob'
    BY <2>3 DEF BInv, Places, ReplyMatchesJob
  <2>5. OneCommand'
    BY <1>1, <2>2, <2>3 DEF OneCommand, RequestLen
  <2> QED
    BY <2>4, <2>5 DEF BInv
<1>4. CASE ~(elapsed >= TimeOut) /\ nwrite + n = 2
  <2>1. Sent(n) = << Current >>
    <3>1. /\ (nwrite + n) \div RequestLen - nwrite \div RequestLen = 1
          /\ nwrite \div RequestLen = 0
      BY <1>1, <1>4 DEF RequestLen
    <3>2. Sent(n) = [i \in 1 .. 1 |-> Tag(job, 0 + i, ntry)]
      BY <3>1 DEF Sent
    <3>3. [i \in 1 .. 1 |-> Tag(job, 0 + i, ntry)] = << Tag(job, 0 + 1, ntry) >>
      OBVIOUS
    <3> QED
      BY <3>2, <3>3 DEF Current
  <2>2. wire' \in {<< >>, << Current >>}
    BY <1>1, <1>4, <2>1 DEF wrote
  <2>3. pc' = "read" /\ UNCHANGED <<job, ntry, wbuf, out, results>> /\ nwrite' = 2
    BY <1>1, <1>4 DEF wrote
  <2> QED
    BY <1>1, <2>2, <2>3 DEF BInv, Places, OneCommand, ReplyMatchesJob, Current, Part
<1> QED
  BY <1>1, <1>2, <1>3, <1>4

\* The write loop, and the return from a write(2) that slept.
LEMMA WriteBInv ==
    ASSUME Inline = {}, BInv, writeRequest \/ writeReturns
    PROVE  BInv'
<1>1. wbuf = << >> /\ pc \in {"write", "blocked"}
  BY DEF writeRequest, writeReturns, BInv, OneCommand
<1>2. rlen = 2 /\ nwrite \in 0 .. 1
  BY <1>1 DEF rlen, Lines, RequestLen, BInv, Places, OneCommand
<1>3. rlen - nwrite \in 1 .. rlen - nwrite
  BY <1>2
<1> QED
  BY <1>1, <1>3, Wrote, Failed, Retried DEF writeRequest, writeReturns

\* What a read of one or two units takes and leaves.
LEMMA Takes ==
    ASSUME NEW S, NEW x \in S, NEW y \in S
    PROVE  /\ << >> \o SubSeq(<< x >>, 1, 1) = << x >>
           /\ << >> \o SubSeq(<< x, y >>, 1, 1) = << x >> /\ SubSeq(<< x, y >>, 2, 2) = << y >>
           /\ << >> \o SubSeq(<< x, y >>, 1, 2) = << x, y >> /\ SubSeq(<< x, y >>, 3, 2) = << >>
           /\ << x >> \o SubSeq(<< y >>, 1, 1) = << x, y >> /\ SubSeq(<< y >>, 2, 1) = << >>
<1>1. << x >> \in Seq(S) /\ << y >> \in Seq(S) /\ << x, y >> \in Seq(S)
  OBVIOUS
<1>2. /\ SubSeq(<< x, y >>, 3, 2) = << >> /\ SubSeq(<< y >>, 2, 1) = << >>
  BY SubSeqEmpty
<1>3. SubSeq(<< x >>, 1, 1) = << x >> /\ SubSeq(<< y >>, 1, 1) = << y >>
  <2>1. Len(<< x >>) = 1 /\ Len(<< y >>) = 1
    OBVIOUS
  <2> QED
    BY <1>1, <2>1, SubSeqFull
<1>4. SubSeq(<< x, y >>, 1, 2) = << x, y >>
  <2>1. Len(<< x, y >>) = 2
    OBVIOUS
  <2> QED
    BY <1>1, <2>1, SubSeqFull
<1>5. SubSeq(<< x, y >>, 1, 1) = << x >> /\ SubSeq(<< x, y >>, 2, 2) = << y >>
  <2>1. ASSUME NEW m \in {1, 2}, NEW z \in S, z = << x, y >>[m]
        PROVE  SubSeq(<< x, y >>, m, m) = << z >>
    <3>1. \A i \in m .. m : << x, y >>[i] \in S
      BY <2>1
    <3>2. /\ SubSeq(<< x, y >>, m, m) \in Seq(S) /\ Len(SubSeq(<< x, y >>, m, m)) = 1
          /\ SubSeq(<< x, y >>, m, m)[1] = << x, y >>[m]
      BY <3>1, SubSeqProperties
    <3>3. << z >> \in Seq(S) /\ Len(<< z >>) = 1 /\ << z >>[1] = z
      OBVIOUS
    <3>4. \A i \in 1 .. Len(SubSeq(<< x, y >>, m, m)) : SubSeq(<< x, y >>, m, m)[i] = << z >>[i]
      BY <2>1, <3>2, <3>3
    <3> QED
      BY <3>2, <3>3, <3>4, SeqEqual
  <2> QED
    BY <2>1
<1>6. << >> \o << x >> = << x >> /\ << >> \o << x, y >> = << x, y >>
  BY <1>1, ConcatEmptySeq
<1>7. << x >> \o << y >> = << x, y >>
  <2>1. /\ << x >> \o << y >> \in Seq(S) /\ Len(<< x >> \o << y >>) = 2
        /\ (<< x >> \o << y >>)[1] = x /\ (<< x >> \o << y >>)[2] = y
    BY <1>1, ConcatProperties
  <2>2. Len(<< x, y >>) = 2 /\ << x, y >>[1] = x /\ << x, y >>[2] = y
    OBVIOUS
  <2>3. \A i \in 1 .. Len(<< x >> \o << y >>) : (<< x >> \o << y >>)[i] = << x, y >>[i]
    BY <2>1, <2>2
  <2> QED
    BY <1>1, <2>1, <2>2, <2>3, SeqEqual
<1> QED
  BY <1>2, <1>3, <1>4, <1>5, <1>6, <1>7

\* What gotReply does with the units in the buffer, by the verdict on them.
Taken(buf, n) ==
    \/ /\ processResponseBuffer(buf) = 1
       /\ finish(buf)
       /\ out' = SubSeq(out, n + 1, Len(out))
       /\ UNCHANGED <<job, ntry, nwrite, wire>>
    \/ /\ processResponseBuffer(buf) = 0
       /\ wbuf' = buf
       /\ out' = SubSeq(out, n + 1, Len(out))
       /\ UNCHANGED <<pc, job, ntry, nwrite, wire, results>>
    \/ processResponseBuffer(buf) = -1 /\ fail

\* A read takes some units of the reply; the validators end the job on the
\* whole of it, and only then.
LEMMA ReadBInv ==
    ASSUME BInv, readReply
    PROVE  BInv'
<1>1. pc = "read" /\ ntry \in 1 .. MaxTry /\ ntry \in Nat
  BY DEF readReply, BInv, Places, OneCommand
<1>2. ASSUME NEW n \in 1 .. Len(out), gotReply(n) PROVE BInv'
  <2>1. wire = << >>
    BY <1>1, <1>2 DEF BInv, OneCommand
  <2>2. \/ wbuf \o SubSeq(out, 1, n) = << Part(0) >>
        \/ /\ wbuf \o SubSeq(out, 1, n) = << Part(1) >>
           /\ SubSeq(out, n + 1, Len(out)) = << Part(2) >>
        \/ /\ wbuf \o SubSeq(out, 1, n) = << Part(1), Part(2) >>
           /\ SubSeq(out, n + 1, Len(out)) = << >>
    <3>1. \/ out = << Part(0) >> /\ wbuf = << >>
          \/ out = << Part(1), Part(2) >> /\ wbuf = << >>
          \/ out = << Part(2) >> /\ wbuf = << Part(1) >>
      BY <1>1, <1>2 DEF BInv, OneCommand
    <3>2. \A k, l \in {0, 1, 2} :
            /\ << >> \o SubSeq(<< Part(k) >>, 1, 1) = << Part(k) >>
            /\ << >> \o SubSeq(<< Part(k), Part(l) >>, 1, 1) = << Part(k) >>
            /\ SubSeq(<< Part(k), Part(l) >>, 2, 2) = << Part(l) >>
            /\ << >> \o SubSeq(<< Part(k), Part(l) >>, 1, 2) = << Part(k), Part(l) >>
            /\ SubSeq(<< Part(k), Part(l) >>, 3, 2) = << >>
            /\ << Part(k) >> \o SubSeq(<< Part(l) >>, 1, 1) = << Part(k), Part(l) >>
            /\ SubSeq(<< Part(l) >>, 2, 1) = << >>
      <4>1. TAKE k, l \in {0, 1, 2}
      <4>2. Part(k) \in {Part(k), Part(l)} /\ Part(l) \in {Part(k), Part(l)}
        OBVIOUS
      <4> QED
        BY <4>2, Takes
    <3>3. CASE out = << Part(0) >> /\ wbuf = << >>
      <4>1. n = 1
        BY <1>2, <3>3
      <4> QED
        BY <3>2, <3>3, <4>1
    <3>4. CASE out = << Part(1), Part(2) >> /\ wbuf = << >>
      <4>1. (n = 1 \/ n = 2) /\ Len(out) = 2
        BY <1>2, <3>4
      <4>2. CASE n = 1
        BY <3>2, <3>4, <4>1, <4>2
      <4>3. CASE n = 2
        BY <3>2, <3>4, <4>1, <4>3
      <4> QED
        BY <4>1, <4>2, <4>3
    <3>5. CASE out = << Part(2) >> /\ wbuf = << Part(1) >>
      <4>1. n = 1 /\ Len(out) = 1
        BY <1>2, <3>5
      <4> QED
        BY <3>2, <3>5, <4>1
    <3> QED
      BY <3>1, <3>3, <3>4, <3>5
  <2>3. /\ processResponseBuffer(<< Part(0) >>) = -1
        /\ processResponseBuffer(<< Part(1) >>) = 0
        /\ processResponseBuffer(<< Part(1), Part(2) >>) = 1
    <3>1. Part(0).part = 0 /\ Part(1).part = 1 /\ Part(2).part = 2
      BY DEF Part, Unit
    <3> QED
      BY <3>1 DEF processResponseBuffer, ReplyLen
  <2>4. ASSUME NEW buf, wbuf \o SubSeq(out, 1, n) = buf PROVE Taken(buf, n)
    BY <1>2, <2>4, Zenon DEF gotReply, Taken
  <2>5. CASE wbuf \o SubSeq(out, 1, n) = << Part(0) >>
    <3>1. PICK buf : buf = << Part(0) >>
      OBVIOUS
    <3>2. wbuf \o SubSeq(out, 1, n) = buf /\ processResponseBuffer(buf) = -1
      BY <2>3, <2>5, <3>1, Zenon
    <3>3. Taken(buf, n)
      BY <2>4, <3>2, Zenon
    <3>4. fail
      BY <3>2, <3>3 DEF Taken
    <3> QED
      BY <1>1, <3>4, Failed
  <2>6. CASE /\ wbuf \o SubSeq(out, 1, n) = << Part(1) >>
             /\ SubSeq(out, n + 1, Len(out)) = << Part(2) >>
    <3>1. PICK buf : buf = << Part(1) >>
      OBVIOUS
    <3>2. wbuf \o SubSeq(out, 1, n) = buf /\ processResponseBuffer(buf) = 0
      BY <2>3, <2>6, <3>1, Zenon
    <3>3. Taken(buf, n)
      BY <2>4, <3>2, Zenon
    <3>4. /\ wbuf' = buf /\ out' = SubSeq(out, n + 1, Len(out))
          /\ UNCHANGED <<pc, job, ntry, nwrite, wire, results>>
      BY <3>2, <3>3 DEF Taken
    <3>5. wbuf' = << Part(1) >> /\ out' = << Part(2) >>
      BY <2>6, <3>1, <3>4
    <3> QED
      BY <1>1, <2>1, <3>4, <3>5 DEF BInv, Places, OneCommand, ReplyMatchesJob, Part, Current
  <2>7. CASE /\ wbuf \o SubSeq(out, 1, n) = << Part(1), Part(2) >>
             /\ SubSeq(out, n + 1, Len(out)) = << >>
    <3>1. PICK buf : buf = << Part(1), Part(2) >>
      OBVIOUS
    <3>2. wbuf \o SubSeq(out, 1, n) = buf /\ processResponseBuffer(buf) = 1
      BY <2>3, <2>7, <3>1, Zenon
    <3>3. Taken(buf, n)
      BY <2>4, <3>2, Zenon
    <3>4. /\ finish(buf) /\ out' = << >> /\ UNCHANGED <<job, ntry, nwrite, wire>>
      BY <2>7, <3>2, <3>3 DEF Taken
    <3> QED
      BY <1>1, <2>1, <3>1, <3>4, Finished DEF finish
  <2> QED
    BY <2>2, <2>5, <2>6, <2>7
<1> QED
  BY <1>1, <1>2, Failed, Retried DEF readReply

\* A job begins and connects, with nothing on the connection.
LEMMA StartBInv ==
    ASSUME BInv, startJob \/ again
    PROVE  BInv'
<1>1. CASE startJob
  <2>1. /\ pc = "idle" /\ pc' = "again" /\ job \in 0 .. NumJobs /\ job < NumJobs
        /\ job' = job + 1 /\ ntry' = 0 /\ wbuf' = << >> /\ UNCHANGED <<nwrite, wire, out, results>>
    BY <1>1 DEF startJob, BInv, Places
  <2>2. Places'
    BY <2>1, BackendAssumption DEF BInv, Places
  <2>3. OneCommand'
    BY <2>1 DEF BInv, OneCommand, MaxTry
  <2>4. ReplyMatchesJob'
    BY <2>1 DEF BInv, ReplyMatchesJob
  <2> QED
    BY <2>2, <2>3, <2>4 DEF BInv
<1>2. CASE again
  <2>1. /\ wire = << >> /\ out = << >> /\ wbuf = << >> /\ ntry \in 0 .. 1 /\ pc = "again"
        /\ ntry' \in 1 .. 2 /\ nwrite' = 0 /\ UNCHANGED <<job, wire, out>>
    BY <1>2 DEF again, BInv, Places, OneCommand, MaxTry
  <2>2. CASE finish(CONN_ERR)
    <3>1. pc' = "idle" /\ results' = Append(results, CONN_ERR) /\ Len(results) = job - 1
          /\ results \in Seq(Seq(Units)) /\ job \in 1 .. NumJobs /\ CONN_ERR \in Seq(Units)
      BY <2>1, <2>2, BackendAssumption DEF finish, BInv, Places, CONN_ERR
    <3>2. /\ results' \in Seq(Seq(Units)) /\ Len(results') = job
          /\ \A j \in DOMAIN results' : j = job \/ (j \in DOMAIN results /\ results'[j] = results[j])
          /\ results'[job] = CONN_ERR
      BY <3>1
    <3>3. ReplyMatchesJob'
      BY <3>2 DEF BInv, ReplyMatchesJob
    <3> QED
      BY <2>1, <3>1, <3>2, <3>3 DEF BInv, Places, OneCommand
  <2>3. CASE pc' = "write" /\ UNCHANGED <<wbuf, results>>
    <3>1. Places'
      BY <2>1, <2>3 DEF BInv, Places
    <3>2. OneCommand'
      BY <2>1, <2>3 DEF OneCommand, MaxTry, RequestLen
    <3>3. ReplyMatchesJob'
      BY <2>3 DEF BInv, ReplyMatchesJob
    <3> QED
      BY <3>1, <3>2, <3>3 DEF BInv
  <2> QED
    BY <1>2, <2>2, <2>3 DEF again
<1> QED
  BY <1>1, <1>2

\* The backend answers the one command it has, or closes.
LEMMA ServerBInv ==
    ASSUME BInv, backendExecutes \/ backendCloses
    PROVE  BInv'
<1>1. UNCHANGED <<pc, job, ntry, nwrite, wbuf, results>>
  BY DEF backendExecutes, backendCloses
<1>2. Places' /\ ReplyMatchesJob'
  BY <1>1 DEF BInv, Places, ReplyMatchesJob
<1>3. CASE backendExecutes
  <2>1. pc = "read" /\ wire = << Current >> /\ out = << >> /\ wbuf = << >>
    BY <1>3 DEF backendExecutes, BInv, OneCommand
  <2>2. wire' = << >>
    BY <1>3, <2>1 DEF backendExecutes
  <2>3. PICK good \in BOOLEAN : out' = out \o Reply(Current, good)
    BY <1>3, <2>1 DEF backendExecutes
  <2>4. out' \in {<< Part(0) >>, << Part(1), Part(2) >>}
    <3>1. << >> \o << Part(0) >> = << Part(0) >>
      OBVIOUS
    <3>2. << >> \o << Part(1), Part(2) >> = << Part(1), Part(2) >>
      OBVIOUS
    <3> QED
      BY <2>1, <2>3, <3>1, <3>2, ReplyParts DEF Part
  <2>5. Current' = Current /\ \A k : Part(k)' = Part(k)
    BY <1>1 DEF Current, Part
  <2>6. OneCommand'
    BY <1>1, <2>1, <2>2, <2>4, <2>5 DEF BInv, OneCommand
  <2> QED
    BY <1>2, <2>6 DEF BInv
<1>4. CASE backendCloses
  <2>1. wire' = << >> /\ out' \in {out, << >>}
    BY <1>4 DEF backendCloses
  <2>2. OneCommand'
    BY <1>1, <2>1 DEF BInv, OneCommand, Part, Current
  <2> QED
    BY <1>2, <2>2 DEF BInv
<1> QED
  BY <1>3, <1>4

LEMMA InitBInv == Init => BInv
BY BackendAssumption DEF Init, BInv, Places, OneCommand, ReplyMatchesJob

LEMMA NextBInv == Inline = {} /\ BInv /\ [Next]_vars => BInv'
<1> SUFFICES ASSUME Inline = {}, BInv, [Next]_vars PROVE BInv'
  OBVIOUS
<1>1. CASE UNCHANGED vars \/ tick \/ orphanExecutes
  <2>1. UNCHANGED <<pc, job, ntry, nwrite, wbuf, wire, out, results>>
    BY <1>1 DEF vars, tick, orphanExecutes
  <2> QED
    BY <2>1 DEF BInv, Places, OneCommand, ReplyMatchesJob, Part, Current
<1>2. CASE writeBlocks
  BY <1>2 DEF writeBlocks, BInv, Places, OneCommand, ReplyMatchesJob
<1>3. CASE pollTimeout
  BY <1>3, Failed DEF pollTimeout
<1> QED
  BY <1>1, <1>2, <1>3, WriteBInv, ReadBInv, StartBInv, ServerBInv DEF Next, redisCommandProc

-----------------------------------------------------------------------------
(* Executions. *)

Executed(j) == \E t \in executed : t.job = j

\* Every command that exists is one of a job and an attempt, and a job whose
\* client gets units of a reply has been executed.
Credit ==
    /\ orphans \subseteq Tags /\ executed \subseteq Tags
    /\ \A j \in DOMAIN results : results[j] # CONN_ERR => Executed(j)
    /\ pc = "read" /\ (out # << >> \/ wbuf # << >>) => Executed(job)

\* The commands on the connection.
LEMMA WireTags ==
    ASSUME BInv
    PROVE  ToSet(wire) \subseteq Tags
<1>1. CASE wire = << >>
  <2>1. ToSet(wire) = {}
    BY <1>1 DEF ToSet
  <2> QED
    BY <2>1
<1>2. CASE wire = << Current >> /\ pc = "read"
  <2>1. Len(<< Current >>) = 1 /\ << Current >>[1] = Current
    OBVIOUS
  <2>2. ToSet(wire) = {Current}
    BY <1>2, <2>1 DEF ToSet
  <2>3. job \in 1 .. NumJobs /\ ntry \in 1 .. MaxTry
    BY <1>2, BackendAssumption DEF BInv, Places, OneCommand
  <2> QED
    BY <2>2, <2>3 DEF Current, Tag, Tags
<1> QED
  BY <1>1, <1>2 DEF BInv, OneCommand

\* What a write adds to the commands the backend may come to execute.
LEMMA SentTags ==
    ASSUME Inline = {}, BInv, pc \in {"write", "blocked"}, NEW n \in 1 .. rlen - nwrite
    PROVE  wire = << >> /\ ToSet(wire \o Sent(n)) \subseteq Tags
<1>1. /\ rlen = 2 /\ nwrite \in 0 .. 1 /\ n \in 1 .. 2 - nwrite /\ wire = << >>
      /\ job \in 1 .. NumJobs /\ ntry \in 1 .. MaxTry
  BY BackendAssumption DEF rlen, Lines, RequestLen, BInv, Places, OneCommand
<1>2. CASE nwrite + n = 1
  <2>1. (nwrite + n) \div RequestLen - nwrite \div RequestLen = 0
    BY <1>1, <1>2 DEF RequestLen
  <2>2. Sent(n) = << >>
    BY <2>1 DEF Sent
  <2>3. wire \o Sent(n) = << >>
    BY <1>1, <2>2
  <2>4. ToSet(<< >>) = {}
    BY DEF ToSet
  <2> QED
    BY <1>1, <2>3, <2>4
<1>3. CASE nwrite + n = 2
  <2>1. (nwrite + n) \div RequestLen - nwrite \div RequestLen = 1 /\ nwrite \div RequestLen = 0
    BY <1>1, <1>3 DEF RequestLen
  <2>2. Sent(n) = [i \in 1 .. 1 |-> Tag(job, 0 + i, ntry)]
    BY <2>1 DEF Sent
  <2>3. [i \in 1 .. 1 |-> Tag(job, 0 + i, ntry)] = << Tag(job, 0 + 1, ntry) >>
    OBVIOUS
  <2>4. wire \o Sent(n) = << Current >>
    <3>1. << >> \o << Current >> = << Current >>
      OBVIOUS
    <3> QED
      BY <1>1, <2>2, <2>3, <3>1 DEF Current
  <2>5. Len(<< Current >>) = 1 /\ << Current >>[1] = Current
    OBVIOUS
  <2>6. ToSet(<< Current >>) = {Current}
    BY <2>5 DEF ToSet
  <2> QED
    BY <1>1, <2>4, <2>6 DEF Current, Tag, Tags
<1> QED
  BY <1>1, <1>2, <1>3

\* A job ends.
LEMMA EndCredit ==
    ASSUME BInv, Credit, pc # "idle", pc' = "idle", NEW buf, results' = Append(results, buf),
           buf = CONN_ERR \/ Executed(job), executed' = executed, orphans' \subseteq Tags
    PROVE  Credit'
<1>1. results \in Seq(Seq(Units)) /\ Len(results) = job - 1 /\ job \in Nat
  BY BackendAssumption DEF BInv, Places
<1>2. \A j \in DOMAIN results' : \/ j \in DOMAIN results /\ results'[j] = results[j]
                                 \/ j = job /\ results'[j] = buf
  BY <1>1
<1>3. \A j : Executed(j)' <=> Executed(j)
  BY DEF Executed
<1> QED
  BY <1>2, <1>3 DEF Credit

\* The job goes on with an empty buffer and nothing to read.
LEMMA GoCredit ==
    ASSUME Credit, results' = results, executed' = executed, orphans' \subseteq Tags,
           pc' # "read" \/ (out' = << >> /\ wbuf' = << >>)
    PROVE  Credit'
<1>1. \A j : Executed(j)' <=> Executed(j)
  BY DEF Executed
<1> QED
  BY <1>1 DEF Credit

\* fail, whatever was on the connection.
LEMMA FailCredit ==
    ASSUME BInv, Credit, pc # "idle", fail
    PROVE  Credit'
<1>1. orphans' \subseteq Tags
  BY WireTags DEF fail, closeFd, Credit
<1> QED
  BY <1>1, EndCredit DEF fail, finish

\* The second attempt, or the end.
LEMMA RetryCredit ==
    ASSUME BInv, Credit, pc # "idle", NEW buf, retryOrFail(buf)
    PROVE  Credit'
<1>1. CASE ntry < MaxTry
  <2>1. orphans' \subseteq Tags
    BY <1>1, WireTags DEF retryOrFail, closeFd, Credit
  <2> QED
    BY <1>1, <2>1, GoCredit DEF retryOrFail
<1>2. CASE ~(ntry < MaxTry)
  BY <1>2, FailCredit DEF retryOrFail
<1> QED
  BY <1>1, <1>2

\* The write loop: nothing is executed by it.
LEMMA WriteCredit ==
    ASSUME Inline = {}, BInv, Credit, writeRequest \/ writeReturns
    PROVE  Credit'
<1>1. wbuf = << >> /\ out = << >> /\ pc \in {"write", "blocked"}
  BY DEF writeRequest, writeReturns, BInv, OneCommand
<1>2. ASSUME NEW n \in 1 .. rlen - nwrite, wrote(n) PROVE Credit'
  <2>1. wire = << >> /\ ToSet(wire \o Sent(n)) \subseteq Tags /\ ToSet(wire) \subseteq Tags
    BY <1>1, SentTags, WireTags
  <2>2. CASE elapsed >= TimeOut
    <3>1. PICK sent : sent = IF up THEN wire \o Sent(n) ELSE wire
      OBVIOUS
    <3>2. ToSet(sent) \subseteq Tags
      BY <2>1, <3>1
    <3>3. orphans' = orphans \cup ToSet(sent) /\ finish(CONN_ERR) /\ executed' = executed
      BY <1>2, <2>2, <3>1 DEF wrote
    <3>4. orphans' \subseteq Tags
      BY <3>2, <3>3 DEF Credit
    <3> QED
      BY <1>1, <3>3, <3>4, EndCredit DEF finish
  <2>3. CASE ~(elapsed >= TimeOut)
    <3>1. UNCHANGED <<results, executed, orphans, out, wbuf>>
      BY <1>2, <2>3 DEF wrote
    <3> QED
      BY <1>1, <3>1, GoCredit DEF Credit
  <2> QED
    BY <2>2, <2>3
<1>3. rlen = 2 /\ nwrite \in 0 .. 1
  BY <1>1 DEF rlen, Lines, RequestLen, BInv, Places, OneCommand
<1>4. rlen - nwrite \in 1 .. rlen - nwrite
  BY <1>3
<1> QED
  BY <1>1, <1>2, <1>4, FailCredit, RetryCredit DEF writeRequest, writeReturns

\* The read loop: a job that reads anything has been executed.
LEMMA ReadCredit ==
    ASSUME BInv, Credit, readReply
    PROVE  Credit'
<1>1. pc = "read"
  BY DEF readReply
<1>2. ASSUME NEW n \in 1 .. Len(out), gotReply(n) PROVE Credit'
  <2>1. out # << >>
    <3>1. Len(<< >>) = 0
      OBVIOUS
    <3> QED
      BY <1>2, <3>1
  <2>2. Executed(job)
    BY <1>1, <2>1 DEF Credit
  <2>3. PICK buf : buf = wbuf \o SubSeq(out, 1, n)
    OBVIOUS
  <2>4. CASE finish(buf) /\ UNCHANGED <<orphans, executed>>
    BY <1>1, <2>2, <2>4, EndCredit DEF finish, Credit
  <2>5. CASE UNCHANGED <<pc, job, orphans, executed, results>>
    BY <2>2, <2>5 DEF Credit, Executed
  <2>6. CASE fail
    BY <1>1, <2>6, FailCredit
  <2> QED
    BY <1>2, <2>3, <2>4, <2>5, <2>6 DEF gotReply
<1> QED
  BY <1>1, <1>2, FailCredit, RetryCredit DEF readReply

\* The backend executes a command of the job that waits, or one of a closed
\* connection; or it closes.
LEMMA ServerCredit ==
    ASSUME BInv, Credit, backendExecutes \/ backendCloses \/ orphanExecutes
    PROVE  Credit'
<1>1. UNCHANGED <<pc, job, wbuf, results>> /\ executed \subseteq executed'
  BY DEF backendExecutes, backendCloses, orphanExecutes
<1>2. \A j : Executed(j) => Executed(j)'
  BY <1>1 DEF Executed
<1>3. CASE backendExecutes
  <2>1. pc = "read" /\ wire = << Current >>
    BY <1>3 DEF backendExecutes, BInv, OneCommand
  <2>2. executed' = executed \cup {Current} /\ orphans' = orphans
    BY <1>3, <2>1 DEF backendExecutes
  <2>3. Current \in Tags
    <3>1. job \in 1 .. NumJobs /\ ntry \in 1 .. MaxTry
      BY <2>1, BackendAssumption DEF BInv, Places, OneCommand
    <3> QED
      BY <3>1 DEF Current, Tag, Tags
  <2>4. Executed(job)'
    <3>1. Current \in executed' /\ Current.job = job
      BY <2>2 DEF Current, Tag
    <3> QED
      BY <1>1, <3>1 DEF Executed
  <2> QED
    BY <1>1, <1>2, <2>2, <2>3, <2>4 DEF Credit
<1>4. CASE backendCloses
  BY <1>1, <1>2, <1>4 DEF backendCloses, Credit
<1>5. CASE orphanExecutes
  BY <1>1, <1>2, <1>5 DEF orphanExecutes, Credit
<1> QED
  BY <1>3, <1>4, <1>5

\* Every step keeps the accounts of executions.
LEMMA NextCredit ==
    ASSUME Inline = {}, BInv, Credit, [Next]_vars
    PROVE  Credit'
<1>1. CASE UNCHANGED vars \/ tick
  BY <1>1 DEF vars, tick, Credit, Executed
<1>2. CASE startJob \/ writeBlocks
  <2>1. pc' # "read" /\ UNCHANGED <<results, executed, orphans>>
    BY <1>2 DEF startJob, writeBlocks
  <2> QED
    BY <2>1, GoCredit DEF Credit
<1>3. CASE again
  <2>1. UNCHANGED <<executed, orphans>> /\ pc = "again"
        /\ (finish(CONN_ERR) \/ (pc' = "write" /\ UNCHANGED results))
    BY <1>3 DEF again
  <2> QED
    BY <2>1, EndCredit, GoCredit DEF finish, Credit
<1>4. CASE pollTimeout
  BY <1>4, FailCredit DEF pollTimeout
<1> QED
  BY <1>1, <1>2, <1>3, <1>4, WriteCredit, ReadCredit, ServerCredit DEF Next, redisCommandProc

\* A job's commands differ only in their line and their attempt.
LEMMA AttemptsBounded ==
    ASSUME BInv, Credit, NEW j, NEW l
    PROVE  Cardinality({t \in executed \cup orphans \cup ToSet(wire) : t.job = j /\ t.line = l}) <= MaxTry
<1> DEFINE T == {t \in executed \cup orphans \cup ToSet(wire) : t.job = j /\ t.line = l}
           P == {Tag(j, l, 1), Tag(j, l, 2)}
<1>1. T \subseteq P
  <2> SUFFICES ASSUME NEW t \in T PROVE t \in P
    OBVIOUS
  <2>1. t \in Tags /\ t.job = j /\ t.line = l
    BY WireTags DEF Credit
  <2>2. t.try \in {1, 2} /\ t = Tag(t.job, t.line, t.try)
    BY <2>1 DEF Tags, Tag, MaxTry
  <2> QED
    BY <2>1, <2>2
<1>2. IsFiniteSet(P) /\ Cardinality(P) <= 2
  <2>1. IsFiniteSet({Tag(j, l, 1)}) /\ Cardinality({Tag(j, l, 1)}) = 1
    BY FS_Singleton
  <2>2. P = {Tag(j, l, 1)} \cup {Tag(j, l, 2)}
    OBVIOUS
  <2> QED
    BY <2>1, <2>2, FS_AddElement
<1>3. IsFiniteSet(T) /\ Cardinality(T) <= Cardinality(P)
  BY <1>1, <1>2, FS_Subset
<1>4. Cardinality(T) \in Nat /\ Cardinality(P) \in Nat
  BY <1>2, <1>3, FS_CardinalityType
<1> QED
  BY <1>2, <1>3, <1>4 DEF MaxTry

\* No job has run.
LEMMA InitCredit == Init => Credit
BY DEF Init, Credit

\* When every buffer is one command, what a job leaves for its client is the
\* error text or one whole reply to its own command, from one attempt, however
\* often the backend closes, stalls or answers what the validators reject.
THEOREM ReplyAlwaysMatchesJob ==
    ASSUME Inline = {} PROVE Spec => []ReplyMatchesJob
<1>1. BInv => ReplyMatchesJob
  BY DEF BInv
<1>2. BInv /\ [Next]_vars => BInv'
  BY NextBInv
<1> QED
  BY InitBInv, <1>1, <1>2, PTL DEF Spec

\* ... and the connection kept for the next job carries nothing.
THEOREM ConnectionAlwaysClean ==
    ASSUME Inline = {} PROVE Spec => []CleanConnection
<1>1. BInv => CleanConnection
  BY DEF BInv, OneCommand, CleanConnection
<1>2. BInv /\ [Next]_vars => BInv'
  BY NextBInv
<1> QED
  BY InitBInv, <1>1, <1>2, PTL DEF Spec

\* A job whose client got a reply was executed, and no job is executed by more
\* attempts than "ntry < 2" allows, those on closed connections included.
THEOREM ExecutionsAlwaysBounded ==
    ASSUME Inline = {} PROVE Spec => []ExecutionBounds
<1>1. BInv /\ Credit => ExecutionBounds
  <2> SUFFICES ASSUME BInv, Credit, NEW j \in 1 .. NumJobs
               PROVE  /\ j \in DOMAIN results /\ results[j] # CONN_ERR => \E t \in executed : t.job = j
                      /\ \A l \in 1 .. 2 :
                           Cardinality({t \in executed \cup orphans \cup ToSet(wire) :
                                           t.job = j /\ t.line = l}) <= MaxTry
    BY DEF ExecutionBounds
  <2>1. j \in DOMAIN results /\ results[j] # CONN_ERR => \E t \in executed : t.job = j
    BY DEF Credit, Executed
  <2> QED
    BY <2>1, AttemptsBounded
<1>2. BInv /\ Credit /\ [Next]_vars => BInv' /\ Credit'
  BY NextBInv, NextCredit
<1> QED
  BY InitBInv, InitCredit, <1>1, <1>2, PTL DEF Spec

=============================================================================
