---------------------------- MODULE MCRedisProxy ----------------------------
(* What has to happen in redis-proxy, checked by one run: the threaded      *)
(* server with requests that have to be answered, and the extension with    *)
(* jobs that have to end.  A behaviour is one of a single part; the         *)
(* variables of the other keep their initial values.                        *)
EXTENDS Backend

CONSTANTS Clients, Threads, Main, NoOne, MaxReply, PipeCap, MaxClientsConf, EpollMayFail

VARIABLES
    part,         \* "server" or "extension"
    live, clients, mask, rbuf, wlen, wpos, io_newjobs, io_processed,
    io_mutex, pipe, mpc, mc, tpc, tc

Server == INSTANCE ThreadedIO

serverVars == <<live, clients, mask, rbuf, wlen, wpos, io_newjobs, io_processed,
                io_mutex, pipe, mpc, mc, tpc, tc>>

MCInit == part \in {"server", "extension"} /\ Init /\ Server!Init

\* The run is over when the last job has ended.
AllJobsEnded == pc = "idle" /\ job = NumJobs /\ UNCHANGED vars

MCNext ==
    /\ UNCHANGED part
    /\ \/ part = "server" /\ Server!Next /\ UNCHANGED vars
       \/ part = "extension" /\ (Next \/ AllJobsEnded) /\ UNCHANGED serverVars

\* Each part is fair to its own steps.
MCSpec ==
    /\ MCInit /\ [][MCNext]_<<part, vars, serverVars>>
    /\ part = "server" => Server!Fairness
    /\ part = "extension" => Fairness

-----------------------------------------------------------------------------
(* Every request that was queued reaches the write handler (ThreadedIO).   *)
EveryJobCompletes == Server!EveryJobCompletes
=============================================================================
