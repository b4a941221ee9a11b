--------------------------- MODULE DaemonLifecycle ---------------------------
(***************************************************************************)
(* How the daemon of one worktree is started, found, used and stopped: the *)
(* daemon processes, the CLI processes that start and call them, and what  *)
(* they share: the exclusive lock on the store, which the operating system *)
(* drops when its holder ends, and the lock file and the connection file,  *)
(* which stay.                                                             *)
(*                                                                         *)
(* Each system call on a control file is a step: a file is created empty   *)
(* and then written, and it is judged by a read and removed afterwards by  *)
(* its path, whatever it holds by then.  A request is two things: the      *)
(* connection on which a client waits, and the handler, which runs on when *)
(* the client is gone.                                                     *)
(***************************************************************************)
EXTENDS Naturals

CONSTANTS
    Daemons,    \* process ids of daemons; the id of a process that has ended is free again
    Clients,    \* CLI processes that want a daemon
    MaxFaults,  \* bound on crashes, stops, expired deadlines and ids used again
    None

ASSUME LifecycleAssumption == MaxFaults \in Nat /\ None \notin Daemons

VARIABLES
    proc,       \* how far each daemon process is
    owner,      \* the daemon that holds the store's writer ownership
    lock, conn, \* the control files: which daemon wrote them, and whether fully
    calls,      \* the clients that wait for a daemon's answer to a request it has accepted
    lost,       \* daemons that handle at least one request whose client is gone
    work,       \* daemons that find queued or running jobs of an open session, or run an audit
    exit,       \* how far the idle exit of each daemon is
    used,       \* daemons a client has reached since their idle exit began
    client,
    twice,      \* daemons told to stop while they were stopping
    raced,      \* a file of a live daemon has been removed by another process
    reused,     \* processes that are no daemons have the ids of dead daemons
    faults

files == <<lock, conn, raced>>
handlers == <<calls, lost, work>>
vars == <<proc, owner, files, handlers, exit, used, client, twice, reused, faults>>

\* none: no process.  owner: started, store recovered.  unlocking: about to remove a stale
\* lock file.  locking, publishing: the file is created and still empty.  leaving: stopped,
\* with a handler or an idle exit that runs on.
Pc == {"none", "spawned", "owner", "unlocking", "locking", "locked", "publishing", "serving",
       "failed", "closing", "closed", "unpublished", "leaving"}

\* waiting: for readers to let go of the connection file.  removed: it is gone.  over: the
\* process is about to end.
Exit == {"no", "waiting", "removed", "over"}

\* Nothing tells dead processes apart: whatever names one names None from then on.
File == [of : Daemons \cup {None}, full : BOOLEAN] \cup {None}
ASSUME FileAssumption == None \notin [of : Daemons \cup {None}, full : BOOLEAN]

ClientState ==
    [pc : {"idle", "probing", "judging", "removing", "judgingLock", "removingLock",
           "spawning", "waiting", "ready", "calling"},
     d : Daemons \cup {None},   \* the daemon it knows, or its child
     unhealthy : BOOLEAN]       \* the daemon it knew refused its health check
Idle == [pc |-> "idle", d |-> None, unhealthy |-> FALSE]

TypeOK ==
    /\ proc \in [Daemons -> Pc]
    /\ owner \in Daemons \cup {None}
    /\ lock \in File /\ conn \in File
    /\ calls \in [Daemons -> SUBSET Clients] /\ lost \subseteq Daemons /\ work \subseteq Daemons
    /\ exit \in [Daemons -> Exit] /\ used \subseteq Daemons /\ twice \subseteq Daemons
    /\ client \in [Clients -> ClientState]
    /\ raced \in BOOLEAN /\ reused \in BOOLEAN /\ faults \in 0..MaxFaults
    /\ \A d \in Daemons : proc[d] = "none" => exit[d] = "no" /\ calls[d] = {} /\ d \notin lost

Init ==
    /\ proc = [d \in Daemons |-> "none"] /\ owner = None
    /\ lock = None /\ conn = None /\ raced = FALSE
    /\ calls = [d \in Daemons |-> {}] /\ lost = {} /\ work = {}
    /\ exit = [d \in Daemons |-> "no"] /\ used = {} /\ twice = {}
    /\ client = [c \in Clients |-> Idle]
    /\ reused = FALSE /\ faults = 0

Alive(d)     == d # None /\ proc[d] # "none"
Listening(d) == d # None /\ proc[d] \in {"publishing", "serving"}
Answers(d)   == d # None /\ proc[d] = "serving"
Written(f)   == f # None /\ f.full

InFlight(d)  == calls[d] # {} \/ d \in lost

\* isProcessAlive, which asks for the id and not for the daemon.
LooksAlive(d) == IF d = None THEN reused ELSE Alive(d)

\* Broken: an empty file is taken for one that is being written.
BrokenStale(f) == f # None /\ f.full /\ ~LooksAlive(f.of)
Stale(f) == f # None /\ (~f.full \/ ~LooksAlive(f.of))

Fault == faults < MaxFaults /\ faults' = faults + 1

Forget(f, d) == IF f # None /\ f.of = d THEN [of |-> None, full |-> f.full] ELSE f

\* A process ends, in whatever way, and leaves these files: the store's lock is dropped, its
\* handlers end and its connections break.
\* Broken: the connections stay.
BrokenEnds(d, held, published) ==
    /\ proc' = [proc EXCEPT ![d] = "none"]
    /\ owner' = (IF owner = d THEN None ELSE owner)
    /\ lock' = Forget(held, d) /\ conn' = Forget(published, d)
    /\ lost' = lost \ {d} /\ work' = work \ {d}
    /\ exit' = [exit EXCEPT ![d] = "no"] /\ used' = used \ {d} /\ twice' = twice \ {d}
    /\ UNCHANGED <<calls, client>>
Ends(d, held, published) ==
    /\ proc' = [proc EXCEPT ![d] = "none"]
    /\ owner' = (IF owner = d THEN None ELSE owner)
    /\ calls' = [calls EXCEPT ![d] = {}] /\ lost' = lost \ {d} /\ work' = work \ {d}
    /\ client' = [c \in Clients |-> IF c \in calls[d] THEN Idle
                                   ELSE IF client[c].d = d THEN [client[c] EXCEPT !.d = None]
                                   ELSE client[c]]
    /\ lock' = Forget(held, d) /\ conn' = Forget(published, d)
    /\ exit' = [exit EXCEPT ![d] = "no"] /\ used' = used \ {d} /\ twice' = twice \ {d}

Goto(d, pc) == proc' = [proc EXCEPT ![d] = pc]
Rest == <<handlers, exit, used, client, twice, reused, faults>>

\* What a handler, or its end, makes of the jobs that keep its daemon from an idle exit.
Works(d) == work' \in {work \cup {d}, work \ {d}}

-----------------------------------------------------------------------------
(* A daemon starts                                                         *)

\* Broken: whoever starts recovers the store, and then owns it.
BrokenMayOwn == TRUE
\* BEGIN EXCLUSIVE on the side file succeeds.
MayOwn == owner = None

\* runForegroundDaemon: ownership, migration and crash recovery come first, and then the
\* sessions of the last daemon, with their jobs.
Own(d) ==
    /\ proc[d] = "spawned"
    /\ IF MayOwn
       THEN /\ Goto(d, "owner") /\ owner' = d /\ Works(d)
            /\ UNCHANGED <<files, calls, lost, exit, used, client, twice, reused, faults>>
       ELSE Ends(d, lock, conn) /\ UNCHANGED <<raced, reused, faults>>

\* acquireDaemonLock: create exclusively, or remove a stale file and try again, or give up.
Lock(d) ==
    /\ proc[d] = "owner"
    /\ \/ /\ lock = None
          /\ lock' = [of |-> d, full |-> FALSE]
          /\ Goto(d, "locking") /\ UNCHANGED <<owner, conn, raced, Rest>>
       \/ Stale(lock) /\ Goto(d, "unlocking") /\ UNCHANGED <<owner, files, Rest>>
       \/ lock # None /\ ~Stale(lock) /\ Ends(d, lock, conn) /\ UNCHANGED <<raced, reused, faults>>

RemoveStale(d) ==
    /\ proc[d] = "unlocking"
    /\ lock' = None
    /\ Goto(d, "owner") /\ UNCHANGED <<owner, conn, raced, Rest>>

\* The body goes to the file that was created, and its path is opened again.
WriteLock(d) ==
    /\ proc[d] = "locking"
    /\ IF lock = None
       THEN Ends(d, lock, conn) /\ UNCHANGED <<raced, reused, faults>>
       ELSE /\ lock' = (IF lock = [of |-> d, full |-> FALSE] THEN [of |-> d, full |-> TRUE] ELSE lock)
            /\ Goto(d, "locked") /\ UNCHANGED <<owner, conn, raced, Rest>>

\* The server listens; the connection file is created exclusively, or the start is undone.
CreateConnection(d) ==
    /\ proc[d] = "locked"
    /\ IF conn = None
       THEN conn' = [of |-> d, full |-> FALSE] /\ Goto(d, "publishing")
       ELSE conn' = conn /\ Goto(d, "failed")
    /\ UNCHANGED <<owner, lock, raced, Rest>>

\* The body goes to the file that was created, even if its path is gone.
WriteConnection(d) ==
    /\ proc[d] = "publishing"
    /\ conn' = (IF conn = [of |-> d, full |-> FALSE] THEN [of |-> d, full |-> TRUE] ELSE conn)
    /\ Goto(d, "serving") /\ UNCHANGED <<owner, lock, raced, Rest>>

\* releaseFailedStart: the lock file is removed, and the process ends with the error.
ReleaseFailedStart(d) ==
    /\ proc[d] = "failed"
    /\ Ends(d, None, conn) /\ UNCHANGED <<raced, reused, faults>>

-----------------------------------------------------------------------------
(* A daemon ends                                                           *)

\* shutdown over RPC, SIGINT or SIGTERM: the server stops accepting.
Stop(d) ==
    /\ proc[d] = "serving" /\ Fault
    /\ Goto(d, "closing")
    /\ UNCHANGED <<owner, files, handlers, exit, used, client, twice, reused>>

\* A stop while another still waits has no server to wait for and closes the store at once.
ClosesAtOnce(d) ==
    /\ twice' = twice \cup {d}
    /\ owner' = (IF owner = d THEN None ELSE owner)

StopAgain(d) ==
    /\ proc[d] = "closing" /\ d \notin twice /\ Fault
    /\ ClosesAtOnce(d)
    /\ UNCHANGED <<proc, files, handlers, exit, used, client, reused>>

\* Broken: the store is closed without waiting for anyone.
BrokenDrained(d) == TRUE
\* server.close has waited for the connections, not for the handlers.
Drained(d) == calls[d] = {}

CloseStore(d) ==
    /\ proc[d] = "closing" /\ Drained(d)
    /\ Goto(d, "closed")
    /\ owner' = (IF owner = d THEN None ELSE owner)
    /\ UNCHANGED <<files, Rest>>

\* Broken: the lock file goes first.
BrokenUnpublish(d) ==
    /\ proc[d] = "closed"
    /\ lock' = None
    /\ Goto(d, "unpublished") /\ UNCHANGED <<owner, conn, raced, Rest>>
Unpublish(d) ==
    /\ proc[d] = "closed"
    /\ conn' = None
    /\ Goto(d, "unpublished") /\ UNCHANGED <<owner, lock, raced, Rest>>

\* Nothing ends the process but that nothing runs in it any more.
Unlock(d) ==
    /\ proc[d] = "unpublished"
    /\ lock' = None
    /\ Goto(d, "leaving") /\ UNCHANGED <<owner, conn, raced, Rest>>

Leave(d) ==
    /\ proc[d] = "leaving" /\ ~InFlight(d) /\ exit[d] = "no"
    /\ Ends(d, lock, conn) /\ UNCHANGED <<raced, reused, faults>>

\* The idle timer fires with no request in flight and no background work: the exit waits
\* until no reader keeps the connection file from being removed.
IdleBegin(d) ==
    /\ proc[d] = "serving" /\ exit[d] = "no"
    /\ ~InFlight(d) /\ d \notin work
    /\ exit' = [exit EXCEPT ![d] = "waiting"]
    /\ UNCHANGED <<proc, owner, files, handlers, used, client, twice, reused, faults>>

\* It removes by path: after a stop during the wait, the file may be the next daemon's.
IdleRemove(d) ==
    /\ exit[d] = "waiting"
    /\ conn' = None
    /\ raced' = (raced \/ (conn # None /\ conn.of # d /\ Listening(conn.of)))
    /\ exit' = [exit EXCEPT ![d] = "removed"]
    /\ UNCHANGED <<proc, owner, lock, handlers, used, client, twice, reused, faults>>

\* A client reached the daemon meanwhile: it publishes again and stays.
IdleStay(d) ==
    /\ exit[d] = "removed" /\ proc[d] = "serving"
    /\ InFlight(d) \/ d \in used
    /\ IF conn = None
       THEN conn' = [of |-> d, full |-> FALSE] /\ Goto(d, "publishing")
       ELSE UNCHANGED <<conn, proc>>
    /\ exit' = [exit EXCEPT ![d] = "no"] /\ used' = used \ {d}
    /\ UNCHANGED <<owner, lock, raced, handlers, client, twice, reused, faults>>

\* Nobody did: it stops.
IdleLeave(d) ==
    /\ exit[d] = "removed" /\ proc[d] = "serving"
    /\ ~InFlight(d) /\ d \notin used
    /\ exit' = [exit EXCEPT ![d] = "no"] /\ used' = used \ {d}
    /\ Goto(d, "closing")
    /\ UNCHANGED <<owner, files, handlers, client, twice, reused, faults>>

\* It has been stopped during the wait: the exit is one more stop ...
IdleOver(d) ==
    /\ exit[d] = "removed" /\ proc[d] \in {"closing", "closed", "unpublished", "leaving"}
    /\ exit' = [exit EXCEPT ![d] = "over"]
    /\ ClosesAtOnce(d)
    /\ UNCHANGED <<proc, files, handlers, used, client, reused, faults>>

\* ... and ends the process, whatever runs in it.
IdleEnd(d) ==
    /\ exit[d] = "over"
    /\ Ends(d, lock, conn) /\ UNCHANGED <<raced, reused, faults>>

Crash(d) == Alive(d) /\ Fault /\ Ends(d, lock, conn) /\ UNCHANGED <<raced, reused>>

-----------------------------------------------------------------------------
(* A client                                                                *)

Becomes(c, pc, d, unhealthy) ==
    client' = [client EXCEPT ![c] = [pc |-> pc, d |-> d, unhealthy |-> unhealthy]]

\* startBackgroundDaemon, discoverRunningDaemonInfo: a readable file names a daemon to probe.
Discover(c) ==
    /\ client[c].pc = "idle"
    /\ IF Written(conn) THEN Becomes(c, "probing", conn.of, FALSE)
       ELSE Becomes(c, "judging", None, FALSE)
    /\ UNCHANGED <<proc, owner, files, handlers, exit, used, twice, reused, faults>>

\* The daemon a client probes: the one it has read of, or whichever the file names when it polls.
Probed(c) == IF client[c].pc = "waiting" THEN IF Written(conn) THEN conn.of ELSE None
             ELSE client[c].d

\* An idle exit that has begun counts the requests.
Noticed(d) == IF exit[d] = "no" THEN {} ELSE {d}

\* The health check is answered.
Reach(c) ==
    /\ client[c].pc \in {"probing", "waiting"}
    /\ \E d \in Daemons :
         /\ d = Probed(c) /\ Answers(d)
         /\ used' = used \cup Noticed(d)
         /\ Becomes(c, "ready", d, FALSE)
    /\ UNCHANGED <<proc, owner, files, handlers, exit, twice, reused, faults>>

\* The health check times out although the process lives: it is busy, and nothing is removed.
Busy(c) ==
    /\ client[c].pc = "probing" /\ Listening(client[c].d) /\ Fault
    /\ client' = [client EXCEPT ![c] = Idle]
    /\ UNCHANGED <<proc, owner, files, handlers, exit, used, twice, reused>>

Refused(c) ==
    /\ client[c].pc = "probing" /\ ~Listening(client[c].d)
    /\ Becomes(c, "judging", None, TRUE)
    /\ UNCHANGED <<proc, owner, files, handlers, exit, used, twice, reused, faults>>

\* recoverStaleDaemonControlFiles, in its four steps.
JudgeConnection(c) ==
    /\ client[c].pc = "judging"
    /\ Becomes(c, IF Stale(conn) \/ (conn # None /\ client[c].unhealthy) THEN "removing" ELSE "judgingLock",
               None, FALSE)
    /\ UNCHANGED <<proc, owner, files, handlers, exit, used, twice, reused, faults>>

RemoveConnection(c) ==
    /\ client[c].pc = "removing"
    /\ conn' = None
    /\ raced' = (raced \/ (conn # None /\ Listening(conn.of)))
    /\ Becomes(c, "judgingLock", None, FALSE)
    /\ UNCHANGED <<proc, owner, lock, handlers, exit, used, twice, reused, faults>>

JudgeLock(c) ==
    /\ client[c].pc = "judgingLock"
    /\ Becomes(c, IF Stale(lock) THEN "removingLock" ELSE "spawning", None, FALSE)
    /\ UNCHANGED <<proc, owner, files, handlers, exit, used, twice, reused, faults>>

RemoveLock(c) ==
    /\ client[c].pc = "removingLock"
    /\ lock' = None
    /\ raced' = (raced \/ (lock # None /\ Alive(lock.of)))
    /\ Becomes(c, "spawning", None, FALSE)
    /\ UNCHANGED <<proc, owner, conn, handlers, exit, used, twice, reused, faults>>

Spawn(c) ==
    /\ client[c].pc = "spawning"
    /\ \E d \in Daemons :
         /\ ~Alive(d)
         /\ Goto(d, "spawned")
         /\ Becomes(c, "waiting", d, FALSE)
    /\ UNCHANGED <<owner, files, handlers, exit, used, twice, reused, faults>>

\* The child ended, or the deadline passes while it still starts.
GiveUp(c) ==
    /\ client[c].pc = "waiting"
    /\ IF Alive(client[c].d) THEN Fault ELSE UNCHANGED faults
    /\ client' = [client EXCEPT ![c] = Idle]
    /\ UNCHANGED <<proc, owner, files, handlers, exit, used, twice, reused>>

\* The request itself, which the daemon accepts if it still serves.
Call(c) ==
    /\ client[c].pc = "ready"
    /\ LET d == client[c].d IN
       IF Answers(d)
       THEN /\ calls' = [calls EXCEPT ![d] = @ \cup {c}]
            /\ used' = used \cup Noticed(d)
            /\ Becomes(c, "calling", d, FALSE)
       ELSE /\ client' = [client EXCEPT ![c] = Idle]
            /\ UNCHANGED <<calls, used>>
    /\ UNCHANGED <<proc, owner, files, lost, work, exit, twice, reused, faults>>

Respond(d, c) ==
    /\ c \in calls[d]
    /\ calls' = [calls EXCEPT ![d] = @ \ {c}] /\ Works(d)
    /\ client' = [client EXCEPT ![c] = Idle]
    /\ UNCHANGED <<proc, owner, files, lost, exit, used, twice, reused, faults>>

\* The client's deadline passes, it is cancelled or it dies: the connection is closed, and the
\* handler runs on.
Abort(d, c) ==
    /\ c \in calls[d] /\ Fault
    /\ calls' = [calls EXCEPT ![d] = @ \ {c}] /\ lost' = lost \cup {d}
    /\ client' = [client EXCEPT ![c] = Idle]
    /\ UNCHANGED <<proc, owner, files, work, exit, used, twice, reused>>

\* The last handler of a daemon that nobody waits for ends.
Finish(d) ==
    /\ d \in lost /\ lost' = lost \ {d} /\ Works(d)
    /\ UNCHANGED <<proc, owner, files, calls, exit, used, client, twice, reused, faults>>

\* An audit ends, or the worktree of a session is deleted.
WorkEnds(d) ==
    /\ d \in work /\ work' = work \ {d}
    /\ UNCHANGED <<proc, owner, files, calls, lost, exit, used, client, twice, reused, faults>>

\* Other processes get the ids of dead daemons, and end.
Reuse ==
    /\ ~reused /\ reused' = TRUE /\ Fault
    /\ UNCHANGED <<proc, owner, files, handlers, exit, used, client, twice>>
Vacate ==
    /\ reused /\ reused' = FALSE
    /\ UNCHANGED <<proc, owner, files, handlers, exit, used, client, twice, faults>>

-----------------------------------------------------------------------------
Starting(d) == \/ Own(d) \/ Lock(d) \/ RemoveStale(d) \/ WriteLock(d)
               \/ CreateConnection(d) \/ WriteConnection(d) \/ ReleaseFailedStart(d)
Ending(d)   == \/ CloseStore(d) \/ Unpublish(d) \/ Unlock(d) \/ Leave(d) \/ IdleRemove(d)
               \/ IdleStay(d) \/ IdleLeave(d) \/ IdleOver(d) \/ IdleEnd(d)
Asking(c)   == \/ Discover(c) \/ Reach(c) \/ Refused(c) \/ JudgeConnection(c) \/ RemoveConnection(c)
               \/ JudgeLock(c) \/ RemoveLock(c) \/ Spawn(c) \/ GiveUp(c)

Next ==
    \/ \E d \in Daemons : \/ Starting(d) \/ Ending(d) \/ IdleBegin(d) \/ Finish(d) \/ WorkEnds(d)
                          \/ Stop(d) \/ StopAgain(d) \/ Crash(d)
    \/ \E c \in Clients : Asking(c) \/ Busy(c) \/ Call(c)
    \/ \E d \in Daemons, c \in Clients : Respond(d, c) \/ Abort(d, c)
    \/ Reuse \/ Vacate

Spec == Init /\ [][Next]_vars

(* Processes run on, handlers end, an idle timer that is not switched off    *)
(* fires, a caller that was refused asks again; and a daemon that comes up   *)
(* again and again is met by a poll, which comes far more often than the     *)
(* idle timer.  Nothing is assumed of the jobs and of processes that are no  *)
(* daemons.                                                                  *)
FairSpec ==
    /\ Spec
    /\ \A d \in Daemons : /\ WF_vars(Starting(d)) /\ WF_vars(Ending(d))
                          /\ WF_vars(IdleBegin(d)) /\ WF_vars(Finish(d))
    /\ \A d \in Daemons : \A c \in Clients : WF_vars(Respond(d, c))
    /\ \A c \in Clients : WF_vars(Asking(c)) /\ WF_vars(Call(c)) /\ SF_vars(Reach(c))

-----------------------------------------------------------------------------
(* Properties                                                              *)

\* Whatever happens to the control files and whoever starts, stops or exits when, no two
\* daemons serve requests, and the one that does owns the store.
OneServer ==
    \A d \in Daemons : Answers(d) => owner = d /\ \A e \in Daemons : Answers(e) => e = d

\* A daemon that serves can be found: until another process has removed a file of a live
\* daemon, both files name it, through idle exits that are withdrawn, failed starts and the stops
\* of daemons before it, which remove the files by their paths.  Only an idle exit that has
\* just removed the connection file still serves, until it knows whether to stay.
ServerIsNamed ==
    ~raced => \A d \in Daemons :
                Answers(d) => /\ lock = [of |-> d, full |-> TRUE]
                              /\ exit[d] # "removed" => conn = [of |-> d, full |-> TRUE]

\* "recovery cannot tell a crashed writer's pending journal from a live one's, so no other
\* process may be writing": whoever becomes owner, and recovers, finds no handler running.
RecoversAlone ==
    [][\A d \in Daemons : owner' = d /\ owner # d => \A e \in Daemons : ~InFlight(e)]_vars

\* What a stop does wait for: no client still expects the answer of a daemon under which
\* another one recovers the store, unless the daemon was told to stop twice.
RecoversAfterAnswers ==
    [][\A d \in Daemons : owner' = d /\ owner # d => \A e \in Daemons \ twice : calls[e] = {}]_vars

Overtaken ==
    \/ lock # None /\ lock' = None /\ Alive(lock.of) /\ proc'[lock.of] \notin {"none", "leaving"}
    \/ conn # None /\ conn' = None /\ Listening(conn.of) /\ exit'[conn.of] # "removed"

\* As long as clients ask for a daemon, one is reached again, whatever crashed half way
\* through its start or its stop, and even if a daemon serves that no file names, provided
\* that three things do not last for ever: that others remove the files of live daemons,
\* that a daemon has background work, which keeps it from its idle exit, and that a process
\* that is no daemon has the id in a stale file.
Reached ==
    <>[][~Overtaken]_vars /\ (\A d \in Daemons : []<>(d \notin work)) /\ []<>(~reused)
    => ((\E c \in Clients : client[c].pc = "judging") ~> (\E c \in Clients : client[c].pc = "ready"))
=============================================================================
