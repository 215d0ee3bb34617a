---------------------------- MODULE ReplyFraming ----------------------------
(***************************************************************************)
(* How redis-proxy finds the end of a reply (echo.c): after every read the *)
(* whole buffer is judged again from its first byte.  A buffer that does   *)
(* not end in CR LF is incomplete whatever it holds; one that does is      *)
(* walked header by header, a jump over each bulk's bytes.  Redis cuts its *)
(* reply into segments at any byte, and a bulk may hold CR LF, or what     *)
(* looks like a header, itself.                                            *)
(*                                                                         *)
(* Bytes are one-character strings.  Replies \cup Others is what redis     *)
(* sends: Others are the replies that the code has no validator for.       *)
(***************************************************************************)
EXTENDS Integers, Sequences, SequencesExt, FiniteSetsExt

CONSTANTS Payloads,   \* the bytes of a bulk
          MaxBulks    \* bound: bulks of a multi-bulk reply

VARIABLES reply,      \* what redis sends
          rlen,       \* bytes of it that the proxy has read
          verdict     \* what _processResponseBuffer said last: -1, 0, 1

framingVars == <<reply, rlen, verdict>>

CR == "r"
LF == "n"
EOL == <<CR, LF>>

Numeral == [d \in {"0", "1", "2", "3", "4", "5", "6", "7", "8", "9"} |->
              CHOOSE k \in 0..9 : ToString(k) = d]

-----------------------------------------------------------------------------
(* Redis: the replies of its protocol.                                     *)

Count(k)   == IF k < 0 THEN <<"-">> \o <<ToString(-k)>> ELSE <<ToString(k)>>
Bulk(s)    == <<"$">> \o Count(Len(s)) \o EOL \o s \o EOL
NullBulk   == <<"$", "-", "1">> \o EOL
Bulks      == {Bulk(s) : s \in Payloads} \cup {NullBulk}
Multi(bs)  == <<"*">> \o Count(Len(bs)) \o EOL \o FlattenSeq(bs)
Lines      == {<<t, "x">> \o EOL : t \in {"+", "-", ":"}}
Replies    == Lines \cup Bulks \cup {Multi(bs) : bs \in UNION {[1..n -> Bulks] : n \in 0..MaxBulks}}

\* A multi-bulk reply that is null, or has an integer, or another multi-bulk
\* reply, as an element: BLPOP, EXEC.
Others     == {<<"*">> \o Count(-1) \o EOL}
              \cup {Multi(<<b, e>>) : b \in Bulks, e \in {<<":", "1">> \o EOL, Multi(<<>>)}}

-----------------------------------------------------------------------------
(* The validators.  Offsets count from 0, as rbuf - op does.               *)

EndsLine(b) == Len(b) >= 3 /\ b[Len(b) - 1] = CR /\ b[Len(b)] = LF

At(b, p) == IF p < Len(b) THEN b[p + 1] ELSE "0"

\* strstr: the offset of the first CR LF from p on.
strstr(b, p) == Min({q \in p..(Len(b) - 2) : b[q + 1] = CR /\ b[q + 2] = LF})

\* atoi of the bytes from p to q: a sign and one digit are enough here.
atoi(b, p, q) ==
    CASE p < q /\ At(b, p) \in DOMAIN Numeral -> Numeral[At(b, p)]
      [] p + 1 < q /\ At(b, p) = "-" /\ At(b, p + 1) \in DOMAIN Numeral -> -Numeral[At(b, p + 1)]
      [] OTHER -> 0

\* A line of '+' that ends before the buffer does is an error.
validSingleLineResponseBuffer(b) ==
    IF ~EndsLine(b) THEN 0 ELSE IF strstr(b, 0) + 2 # Len(b) THEN -1 ELSE 1

\* The same for '-'.
validErrorMsgResponseBuffer(b) ==
    IF ~EndsLine(b) THEN 0 ELSE IF strstr(b, 0) + 2 # Len(b) THEN -1 ELSE 1

\* The same for ':'.
validIntegerReplyResponseBuffer(b) ==
    IF ~EndsLine(b) THEN 0 ELSE IF strstr(b, 0) + 2 # Len(b) THEN -1 ELSE 1

\* Mutant of bulkEnd: the CR LF after the data is forgotten.
bulkEndShort(b, p) ==
    LET q == strstr(b, p + 1)
        ilen == atoi(b, p + 1, q)
    IN  IF ilen = -1 THEN q + 2 ELSE q + 2 + ilen

\* The offset behind the bulk whose '$' is at p; it may lie behind the buffer.
bulkEnd(b, p) ==
    LET q == strstr(b, p + 1)
        ilen == atoi(b, p + 1, q)
    IN  IF ilen = -1 THEN q + 2 ELSE q + 2 + ilen + 2

validBulkReplyResponseBuffer(b) ==
    IF ~EndsLine(b) THEN 0
    ELSE LET e == bulkEnd(b, 0)
         IN  CASE e > Len(b) -> 0 [] e = Len(b) -> 1 [] e < Len(b) -> -1

\* argc more bulks begin at p.
bulksFrom(b) ==
    LET walk[argc \in Nat, p \in Nat] ==
          IF argc = 0 THEN IF p # Len(b) THEN -1 ELSE 1
          ELSE IF At(b, p) # "$" THEN -1
          ELSE LET e == bulkEnd(b, p)
               IN  IF e > Len(b) \/ (e = Len(b) /\ argc # 1) THEN 0
                   ELSE walk[argc - 1, e]
    IN  walk

validMultiBuckResponseBuffer(b) ==
    IF ~EndsLine(b) THEN 0
    ELSE LET q == strstr(b, 1)
             argc == atoi(b, 1, q)
         IN  CASE argc < 0 \/ argc > 1024 -> -1
               [] argc >= 0 /\ argc <= 1024 /\ q + 2 = Len(b) -> IF argc = 0 THEN 1 ELSE 0
               [] OTHER -> bulksFrom(b)[argc, q + 2]

processResponseBuffer(b) ==
    CASE b[1] = "+" -> validSingleLineResponseBuffer(b)
      [] b[1] = "-" -> validErrorMsgResponseBuffer(b)
      [] b[1] = ":" -> validIntegerReplyResponseBuffer(b)
      [] b[1] = "$" -> validBulkReplyResponseBuffer(b)
      [] b[1] = "*" -> validMultiBuckResponseBuffer(b)
      [] OTHER -> -1

-----------------------------------------------------------------------------
Init ==
    /\ reply \in Replies \cup Others
    /\ rlen = 0 /\ verdict = 0

\* A read returns some of what redis has sent; the buffer is judged, and a
\* verdict other than 0 ends the loop.
readSegment(n) ==
    /\ verdict = 0 /\ rlen + n <= Len(reply)
    /\ rlen' = rlen + n
    /\ verdict' = processResponseBuffer(SubSeq(reply, 1, rlen + n))
    /\ UNCHANGED reply

Next == \E n \in 1..Len(reply) : readSegment(n)

(***************************************************************************)
(* However the reply is cut, it is taken for complete at its last byte and *)
(* not before, and refused only if it is one the code does not know: then  *)
(* the error comes at the latest with the last byte, never a wait for more *)
(* that redis will not send, and never a success.                          *)
(***************************************************************************)
FramingExact ==
    IF reply \in Others
    THEN verdict # 1 /\ (rlen = Len(reply) => verdict = -1)
    ELSE verdict = (IF rlen = Len(reply) THEN 1 ELSE 0)

=============================================================================
