----------------------------- MODULE UuidServer -----------------------------
(***************************************************************************)
(* redis-uuid (redis-uuid/redis.c): several servers, each with its own     *)
(* server id, hand out identifiers made of the second, the server id and a *)
(* sequence number that starts at zero in every process.  One process is   *)
(* one event loop: a handler is one step, and only servers, their restarts *)
(* and the clock interleave.                                               *)
(*                                                                         *)
(* The widths are constants.  get_uuid_52bit has SidSpan = 2^18,           *)
(* MidSpan = 2^4, TimeSpan = 2^42; get_uuid, which redis-realloc.c and     *)
(* redis-ckw call, has 2^24, 2^8, 2^32 and Epoch = 0.                      *)
(***************************************************************************)
EXTENDS Integers, FiniteSets

CONSTANTS
    Servers, Conns,      \* hosts; connections of clients
    None,                \* a connection that is not open / no identifier
    Mid,                 \* the -u argument each host is started with
    SidSpan, MidSpan,    \* values the two low fields hold
    TimeSpan,            \* seconds the rest of the 64 bits holds
    Epoch,               \* the second subtracted, 515483463
    MaxClock,            \* bound: last second
    MaxBoot, MaxIssued,  \* bounds: starts of a host, identifiers ever made
    BufLen,              \* READ_BUF_LEN
    MaxReply,            \* bound: length of a reply, in write(2) units
    MaxClients           \* server.maxclients; 0 means no limit

ASSUME UuidAssumption ==
    /\ None \notin Servers
    /\ Mid \in [Servers -> Nat]
    /\ \A s, r \in Servers : Mid[s] = Mid[r] => s = r
    /\ SidSpan \in Nat \ {0} /\ MidSpan \in Nat \ {0}
    /\ TimeSpan \in Nat /\ Epoch \in 0 .. TimeSpan /\ MaxClock \in Nat
    /\ MaxClock < TimeSpan
    /\ MaxBoot \in Nat /\ MaxIssued \in Nat
    /\ BufLen \in Nat /\ BufLen >= 3
    /\ MaxReply \in Nat \ {0} /\ MaxClients \in Nat

VARIABLES
    clock,          \* what time(NULL) returns next, on whichever host
    boot,           \* how often each host's server was started
    up,             \* the servers that run
    sid,            \* sequence number of each process
    clients,        \* server.clients
    at,             \* the server a connection is open to
    event,          \* the event registered for it: "R", "W" or "none"
    rlen,           \* bytes in the request buffer
    wlen, wpos,     \* reply length and how much of it is sent
    issued          \* every identifier ever made, with its circumstances

vars == <<clock, boot, up, sid, clients, at, event, rlen, wlen, wpos, issued>>

connVars == <<at, event, rlen, wlen, wpos>>
hostVars == <<clock, boot, up>>

\* (unsigned long long) time - Epoch, as far as the shift leaves it: a clock
\* before the epoch wraps.
Seconds(t) == IF t >= Epoch THEN t - Epoch ELSE t - Epoch + TimeSpan

\* Mutant of get_uuid_52bit: the seconds are shifted by the server id's bits only.
uuidShortShift(t, m, n) == Seconds(t) * MidSpan + m * SidSpan + (n % SidSpan)

get_uuid_52bit(t, m, n) ==
    Seconds(t) * (MidSpan * SidSpan) + m * SidSpan + (n % SidSpan)

-----------------------------------------------------------------------------
Init ==
    /\ clock \in 0 .. MaxClock
    /\ boot = [s \in Servers |-> 0]
    /\ up = {}
    /\ sid = [s \in Servers |-> 0]
    /\ clients = [s \in Servers |-> 0]
    /\ at = [c \in Conns |-> None]
    /\ event = [c \in Conns |-> "none"]
    /\ rlen = [c \in Conns |-> 0]
    /\ wlen = [c \in Conns |-> 0]
    /\ wpos = [c \in Conns |-> 0]
    /\ issued = {}

\* Mutant of main: the argument of -u is not checked.
mainUnchecked(s) ==
    /\ s \notin up /\ boot[s] < MaxBoot
    /\ up' = up \cup {s}
    /\ boot' = [boot EXCEPT ![s] = @ + 1]
    /\ sid' = [sid EXCEPT ![s] = 0]
    /\ clients' = [clients EXCEPT ![s] = 0]
    /\ UNCHANGED <<clock, issued>> /\ UNCHANGED connVars

\* "mid must be a number between 0 and 15": any other number ends the process.
main(s) ==
    /\ s \notin up /\ boot[s] < MaxBoot
    /\ Mid[s] < MidSpan
    /\ up' = up \cup {s}
    /\ boot' = [boot EXCEPT ![s] = @ + 1]
    /\ sid' = [sid EXCEPT ![s] = 0]
    /\ clients' = [clients EXCEPT ![s] = 0]
    /\ UNCHANGED <<clock, issued>> /\ UNCHANGED connVars

\* SIGTERM or a crash: the connections of the process are gone.
sigtermHandler(s) ==
    /\ s \in up
    /\ up' = up \ {s}
    /\ LET left(f, v) == [c \in Conns |-> IF at[c] = s THEN v ELSE f[c]] IN
         /\ at' = left(at, None) /\ event' = left(event, "none")
         /\ rlen' = left(rlen, 0) /\ wlen' = left(wlen, 0) /\ wpos' = left(wpos, 0)
    /\ UNCHANGED <<clock, boot, sid, clients, issued>>

\* The next clock that is read may show any second: clocks move on, are set,
\* and differ between hosts.
setClock ==
    /\ clock' \in 0 .. MaxClock
    /\ UNCHANGED <<boot, up, sid, clients, issued>> /\ UNCHANGED connVars

\* createClient and the test of maxclients; a connection over the limit is
\* freed in the same handler and leaves no trace.
acceptHandler(s, c) ==
    /\ s \in up /\ at[c] = None
    /\ MaxClients = 0 \/ clients[s] + 1 <= MaxClients
    /\ at' = [at EXCEPT ![c] = s]
    /\ event' = [event EXCEPT ![c] = "R"]
    /\ rlen' = [rlen EXCEPT ![c] = 0]
    /\ wlen' = [wlen EXCEPT ![c] = 0]
    /\ wpos' = [wpos EXCEPT ![c] = 0]
    /\ clients' = [clients EXCEPT ![s] = @ + 1]
    /\ UNCHANGED <<sid, issued>> /\ UNCHANGED hostVars

freeClient(c) ==
    /\ at' = [at EXCEPT ![c] = None]
    /\ event' = [event EXCEPT ![c] = "none"]
    /\ rlen' = [rlen EXCEPT ![c] = 0]
    /\ wlen' = [wlen EXCEPT ![c] = 0]
    /\ wpos' = [wpos EXCEPT ![c] = 0]
    /\ clients' = [clients EXCEPT ![at[c]] = @ - 1]

\* The reply is in wbuf; AE_READABLE is deleted, and registering AE_WRITABLE
\* may fail, which leaves the client without an event.
reply(c, n) ==
    /\ \E e \in {"W", "none"} : event' = [event EXCEPT ![c] = e]
    /\ rlen' = [rlen EXCEPT ![c] = n]
    /\ \E k \in 1 .. MaxReply : wlen' = [wlen EXCEPT ![c] = k]
    /\ UNCHANGED <<at, wpos, clients>>

newUuid(s) ==
    [srv |-> s, boot |-> boot[s], at |-> clock, seq |-> sid[s] + 1,
     id |-> get_uuid_52bit(clock, Mid[s], sid[s] + 1)]

\* What ProcessRequestBuffer makes of n bytes: wait for more, close (protocol
\* error or quit), answer stats, or answer get with a new identifier.
processInputBuffer(c, n) ==
    LET s == at[c] IN
    \/ /\ rlen' = [rlen EXCEPT ![c] = n]
       /\ UNCHANGED <<at, event, wlen, wpos, clients, sid, issued>>
    \/ freeClient(c) /\ UNCHANGED <<sid, issued>>
    \/ reply(c, n) /\ UNCHANGED <<sid, issued>>
    \/ /\ Cardinality(issued) < MaxIssued
       /\ reply(c, n)
       /\ sid' = [sid EXCEPT ![s] = @ + 1]
       /\ issued' = issued \cup {newUuid(s)}

\* Mutant of readQueryFromClient: a full buffer is not refused.
readQueryTooLong(c) ==
    /\ event[c] = "R"
    /\ \E n \in 0 .. BufLen - rlen[c] - 1 :
         IF n = 0
         THEN freeClient(c) /\ UNCHANGED <<sid, issued>>
         ELSE processInputBuffer(c, rlen[c] + n)
    /\ UNCHANGED hostVars

\* read(2) may fill the buffer up to its last byte; zero bytes are taken for
\* the end of the connection; a full buffer is refused.  EAGAIN changes nothing.
readQueryFromClient(c) ==
    /\ event[c] = "R"
    /\ \E n \in 0 .. BufLen - rlen[c] - 1 :
         IF n = 0 \/ rlen[c] + n >= BufLen - 1
         THEN freeClient(c) /\ UNCHANGED <<sid, issued>>
         ELSE processInputBuffer(c, rlen[c] + n)
    /\ UNCHANGED hostVars

\* The registration at the end of resetClient may fail unnoticed.
resetClient(c) ==
    /\ \E e \in {"R", "none"} : event' = [event EXCEPT ![c] = e]
    /\ rlen' = [rlen EXCEPT ![c] = 0]
    /\ wlen' = [wlen EXCEPT ![c] = 0]
    /\ wpos' = [wpos EXCEPT ![c] = 0]
    /\ UNCHANGED <<at, clients>>

\* write(2) takes 0 (EAGAIN) to all of what is left, or fails.
sendReplyToClient(c) ==
    /\ event[c] = "W"
    /\ \/ freeClient(c)
       \/ \E n \in 0 .. wlen[c] - wpos[c] :
            IF wpos[c] + n = wlen[c]
            THEN resetClient(c)
            ELSE /\ wpos' = [wpos EXCEPT ![c] = @ + n]
                 /\ UNCHANGED <<at, event, rlen, wlen, clients>>
    /\ UNCHANGED <<sid, issued>> /\ UNCHANGED hostVars

Next ==
    \/ setClock
    \/ \E s \in Servers : main(s) \/ sigtermHandler(s)
    \/ \E s \in Servers, c \in Conns : acceptHandler(s, c)
    \/ \E c \in Conns : readQueryFromClient(c) \/ sendReplyToClient(c)

Spec == Init /\ [][Next]_vars

-----------------------------------------------------------------------------
Issues == [srv : Servers, boot : 1 .. MaxBoot, at : 0 .. MaxClock,
           seq : Nat, id : Nat]

TypeOK ==
    /\ clock \in 0 .. MaxClock
    /\ boot \in [Servers -> 0 .. MaxBoot]
    /\ up \in SUBSET Servers
    /\ sid \in [Servers -> Nat]
    /\ clients \in [Servers -> Nat]
    /\ at \in [Conns -> Servers \cup {None}]
    /\ event \in [Conns -> {"R", "W", "none"}]
    /\ rlen \in [Conns -> Nat]
    /\ wlen \in [Conns -> 0 .. MaxReply]
    /\ wpos \in [Conns -> 0 .. MaxReply]
    /\ issued \in SUBSET Issues

(***************************************************************************)
(* Two identifiers are equal only if the same server made them in the same *)
(* second, and either the process was restarted in between or the sequence *)
(* number came round: never across servers, whatever their clocks say, and *)
(* never because one field runs over into the next.  A process that makes  *)
(* at most SidSpan identifiers in a second and is not restarted within it  *)
(* therefore never repeats itself, unless the clock is set back.           *)
(***************************************************************************)
DuplicatesExplained ==
    \A i, j \in issued :
        i # j /\ i.id = j.id =>
            /\ i.srv = j.srv
            /\ i.at = j.at
            /\ i.seq % SidSpan = j.seq % SidSpan
            /\ i.boot = j.boot => i.seq # j.seq

(***************************************************************************)
(* Identifiers of all servers sort by the second they were made in, as     *)
(* long as no clock stands before the epoch.                               *)
(***************************************************************************)
TimeOrdered ==
    \A i, j \in issued :
        Epoch <= i.at /\ i.at < j.at => i.id < j.id

(***************************************************************************)
(* The next read(2) always has room for a byte and leaves room for the     *)
(* terminator that strstr relies on: otherwise a client with a full buffer *)
(* would be taken for one that has closed.                                 *)
(***************************************************************************)
BufferRoom ==
    \A c \in Conns : event[c] = "R" => BufLen - rlen[c] - 1 >= 1
=============================================================================
