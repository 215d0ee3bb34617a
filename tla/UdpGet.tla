------------------------------- MODULE UdpGet -------------------------------
(***************************************************************************)
(* The UDP gets of uRedis and uMemcache: a client (uRedis.php,             *)
(* uMemcache.php) sends one datagram with a request number and collects    *)
(* the datagrams of the answer; the server (udp.c; for uMemcache it is     *)
(* memcached) cuts the answer into datagrams with a header of request      *)
(* number, sequence number and count.  The network loses, repeats and      *)
(* reorders datagrams, and the values change between two answers.          *)
(*                                                                         *)
(* One large value is asked for, so that an answer is a first piece with   *)
(* the count and length, pieces of the value, and a last piece with the    *)
(* closing CR LF; a piece is [answer, seq].                                *)
(***************************************************************************)
EXTENDS Integers, Sequences, SequencesExt, FiniteSets

CONSTANTS Requests,     \* request numbers rand(0,65535) draws from
          Ports,        \* source ports the kernel draws from
          Sizes,        \* numbers of datagrams an answer may have
          MaxCalls, MaxAnswers, MaxSent  \* bounds: calls, answers, datagrams on the way

ASSUME UdpAssumption == Sizes \subseteq Nat \ {0}

VARIABLES
    calls,      \* calls made
    call,       \* the call that waits: [on, req, port]
    rs,         \* $rs in the order its keys were added: [seq, piece, of]
    asked,      \* request datagrams on the way
    wire,       \* answer datagrams on the way
    answers,    \* number of datagrams of each answer sent, with req and port
    sending,    \* the answer udp.c is sending: its number and the next seq
    result      \* pieces of the accepted answer, << >> if none

udpVars == <<calls, call, rs, asked, wire, answers, sending, result>>

NoCall == [on |-> FALSE, req |-> 0, port |-> 0]

udpInit ==
    /\ calls = 0 /\ call = NoCall /\ rs = << >>
    /\ asked = {} /\ wire = {} /\ answers = << >>
    /\ sending = [answer |-> 0, seq |-> 0] /\ result = << >>

-----------------------------------------------------------------------------
(* The client *)

\* A new socket, and perhaps a port and a number that were in use before.
mget(req, port) ==
    /\ ~call.on /\ calls < MaxCalls
    /\ calls' = calls + 1
    /\ call' = [on |-> TRUE, req |-> req, port |-> port]
    /\ asked' = asked \cup {[req |-> req, port |-> port]}
    /\ rs' = << >> /\ result' = << >>
    /\ UNCHANGED <<wire, answers, sending>>

\* A key that is in the array keeps its place and gets the new payload.
stored(d) ==
    IF \E i \in DOMAIN rs : rs[i].seq = d.seq
    THEN [i \in DOMAIN rs |-> IF rs[i].seq = d.seq THEN d ELSE rs[i]]
    ELSE Append(rs, d)

\* Mutant of isReply: the request number is not compared.
isReplyAny(d) == TRUE

isReply(d) == d.req = call.req

\* implode joins in the order of insertion.
implode(s) == [i \in DOMAIN s |-> [answer |-> s[i].answer, seq |-> s[i].seq]]

\* response_decode: the count line comes first and CR LF last.  A value shorter
\* than its length line is returned as it is; the pieces in between look alike.
response_decode(s) ==
    /\ s[1].seq = 0
    /\ s[Len(s)].seq = answers[s[Len(s)].answer].size - 1

\* The kernel delivers to the port; numbers that differ are skipped.  When as
\* many different pieces are there as the last header says, the answer is
\* taken or refused as a whole.
recvfrom(d) ==
    /\ call.on /\ d \in wire /\ d.port = call.port
    /\ IF ~isReply(d) THEN UNCHANGED <<call, rs, result>>
       ELSE /\ rs' = stored(d)
            /\ IF Len(rs') = d.size
               THEN /\ call' = NoCall
                    /\ result' = IF response_decode(implode(rs')) THEN implode(rs') ELSE << >>
               ELSE UNCHANGED <<call, result>>
    /\ wire' \in {wire, wire \ {d}}
    /\ UNCHANGED <<calls, asked, answers, sending>>

\* SO_RCVTIMEO: nothing for 0.1 s ends the call.
recvTimeout ==
    /\ call.on
    /\ call' = NoCall /\ rs' = << >>
    /\ UNCHANGED <<calls, asked, wire, answers, sending, result>>

-----------------------------------------------------------------------------
(* The server *)

\* The keys are looked up at one moment; the number of datagrams follows from
\* the length of the reply.  A request that is repeated is answered again.
processCommandFromUdpClient(r) ==
    /\ r \in asked /\ sending.answer = 0 /\ Len(answers) < MaxAnswers
    /\ \E n \in Sizes :
         answers' = Append(answers, [size |-> n, req |-> r.req, port |-> r.port])
    /\ sending' = [answer |-> Len(answers'), seq |-> 0]
    /\ asked' \in {asked, asked \ {r}}
    /\ UNCHANGED <<calls, call, rs, wire, result>>

\* One datagram per piece; an error of sendto ends the loop.
anetUdpSendTo ==
    /\ sending.answer # 0
    /\ LET a == answers[sending.answer]
           d == [req |-> a.req, port |-> a.port, answer |-> sending.answer,
                 seq |-> sending.seq, size |-> a.size]
       IN  \/ /\ Cardinality(wire) < MaxSent
              /\ wire' = wire \cup {d}
              /\ sending' = IF sending.seq + 1 = a.size THEN [answer |-> 0, seq |-> 0]
                            ELSE [sending EXCEPT !.seq = @ + 1]
           \/ wire' = wire /\ sending' = [answer |-> 0, seq |-> 0]
    /\ UNCHANGED <<calls, call, rs, asked, answers, result>>

lose ==
    /\ \/ \E d \in wire : wire' = wire \ {d} /\ UNCHANGED asked
       \/ \E r \in asked : asked' = asked \ {r} /\ UNCHANGED wire
    /\ UNCHANGED <<calls, call, rs, answers, sending, result>>

udpNext ==
    \/ \E req \in Requests, port \in Ports : mget(req, port)
    \/ \E d \in wire : recvfrom(d)
    \/ recvTimeout
    \/ \E r \in asked : processCommandFromUdpClient(r)
    \/ anetUdpSendTo
    \/ lose

udpSpec == udpInit /\ [][udpNext]_udpVars

-----------------------------------------------------------------------------
OneAnswer(s) == \A i, j \in DOMAIN s : s[i].answer = s[j].answer

(***************************************************************************)
(* What a call returns has every number below its length once when it      *)
(* comes from one answer, in whatever order; pieces of several answers     *)
(* meet only if all of them were sent to the port and request number of    *)
(* the call (a repeated request, or a port and a number drawn again).      *)
(***************************************************************************)
ReplyExplained ==
    result # << >> =>
       /\ OneAnswer(result) =>
             {result[i].seq : i \in DOMAIN result} = 0 .. answers[result[1].answer].size - 1
       /\ \A i, j \in DOMAIN result :
             LET a == answers[result[i].answer]  b == answers[result[j].answer]
             IN  a.req = b.req /\ a.port = b.port

(***************************************************************************)
(* "The client should concatenate the payloads of the datagrams for a      *)
(* given response in sequence number order" (uRedis.php:41-42).            *)
(***************************************************************************)
SequenceOrder == \A i \in DOMAIN result : result[i].seq = i - 1

=============================================================================
