------------------------ MODULE DaemonLifecycleProofs ------------------------
(***************************************************************************)
(* What the start and stop of daemons keep, for every number of daemons    *)
(* and clients and every number of crashes, stops, expired deadlines and   *)
(* ids used again.                                                         *)
(***************************************************************************)
EXTENDS DaemonLifecycle, TLAPS

USE LifecycleAssumption, FileAssumption

Starts   == {"owner", "unlocking", "locking", "locked", "publishing", "serving", "failed"}
Releases == {"closing", "closed", "unpublished"}

\* The store is owned from the first step of a start until it is closed, which a daemon
\* that was told to stop twice does early.
OwnerOK ==
    \A d \in Daemons :
      /\ owner = d => proc[d] \in Starts \cup {"closing"}
      /\ proc[d] \in Starts => owner = d
      /\ proc[d] = "closing" /\ d \notin twice => owner = d

\* Requests, idle exits and second stops belong to daemons that got that far, and a client
\* waits only until the store is closed.
InUse ==
    \A d \in Daemons :
      /\ calls[d] # {} => proc[d] \in {"publishing", "serving", "closing"}
      /\ d \in lost => proc[d] \in {"publishing", "serving", "leaving"} \cup Releases
      /\ exit[d] # "no" => proc[d] \in {"serving", "leaving"} \cup Releases
      /\ d \in twice => proc[d] \in {"leaving"} \cup Releases

\* A file names a daemon that got as far as to write it and has not ended.
NamesLive ==
    \A d \in Daemons :
      /\ lock # None /\ lock.of = d =>
           proc[d] \in {"locking", "locked", "publishing", "serving", "failed"} \cup Releases
      /\ conn # None /\ conn.of = d => proc[d] \in {"publishing", "serving", "closing", "closed"}

\* While no other process has removed a file of a live daemon, the lock file is that of the
\* one daemon that starts or stops, and a daemon finds nobody's when it takes it over.
LockOK ==
    ~raced =>
      \A d \in Daemons :
        /\ proc[d] = "locking" => lock = [of |-> d, full |-> FALSE]
        /\ proc[d] \in {"locked", "publishing", "serving", "failed"} \cup Releases =>
             lock = [of |-> d, full |-> TRUE]
        /\ proc[d] = "unlocking" => lock = None \/ lock.of = None

\* Nobody publishes while an idle exit has yet to decide.
ConnOK ==
    ~raced =>
      \A d \in Daemons :
        /\ proc[d] = "publishing" => conn = [of |-> d, full |-> FALSE]
        /\ proc[d] = "serving" =>
             conn = IF exit[d] = "removed" THEN None ELSE [of |-> d, full |-> TRUE]

IInv == TypeOK /\ OwnerOK /\ InUse /\ NamesLive /\ LockOK /\ ConnOK

-----------------------------------------------------------------------------
(* One step                                                                *)

\* The steps, one by one.
LEMMA NextActions ==
    ASSUME [Next]_vars
    PROVE  \/ \E d \in Daemons :
                \/ Own(d) \/ Lock(d) \/ RemoveStale(d) \/ WriteLock(d)
                \/ CreateConnection(d) \/ WriteConnection(d) \/ ReleaseFailedStart(d)
                \/ Stop(d) \/ StopAgain(d) \/ CloseStore(d) \/ Unpublish(d) \/ Unlock(d)
                \/ Leave(d) \/ IdleBegin(d) \/ IdleRemove(d) \/ IdleStay(d) \/ IdleLeave(d)
                \/ IdleOver(d) \/ IdleEnd(d) \/ Finish(d) \/ WorkEnds(d) \/ Crash(d)
           \/ \E c \in Clients :
                \/ Discover(c) \/ Reach(c) \/ Busy(c) \/ Refused(c) \/ JudgeConnection(c)
                \/ RemoveConnection(c) \/ JudgeLock(c) \/ RemoveLock(c) \/ Spawn(c)
                \/ GiveUp(c) \/ Call(c)
           \/ \E d \in Daemons, c \in Clients : Respond(d, c) \/ Abort(d, c)
           \/ Reuse \/ Vacate
           \/ UNCHANGED vars
  BY DEF Next, Starting, Ending, Asking

\* A file that named the daemon names nobody afterwards; other names stay.
LEMMA Forgotten ==
    ASSUME NEW f \in File, NEW d \in Daemons
    PROVE  /\ Forget(f, d) \in File
           /\ Forget(f, d) = None <=> f = None
           /\ \A e \in Daemons : Forget(f, d) # None /\ Forget(f, d).of = e => f # None /\ f.of = e /\ e # d
           /\ \A e \in Daemons \ {d}, b \in BOOLEAN :
                f = [of |-> e, full |-> b] => Forget(f, d) = [of |-> e, full |-> b]
           /\ f # None /\ f.of = None => Forget(f, d) # None /\ Forget(f, d).of = None
  BY DEF Forget, File

\* The end of a process disturbs the files of no other.
LEMMA EndKeepsFiles ==
    ASSUME IInv, NEW e \in Daemons, Ends(e, lock, conn), raced' = raced
    PROVE  LockOK' /\ ConnOK'
<1>1. lock' = Forget(lock, e) /\ conn' = Forget(conn, e) /\ lock \in File /\ conn \in File
  BY DEF Ends, IInv, TypeOK
<1>2. \A d \in Daemons : proc'[d] = (IF d = e THEN "none" ELSE proc[d])
  BY DEF Ends, IInv, TypeOK
<1>3. LockOK'
  <2>1. ASSUME ~raced, NEW d \in Daemons, d # e
        PROVE  /\ proc[d] = "locking" => lock' = [of |-> d, full |-> FALSE]
               /\ proc[d] \in {"locked", "publishing", "serving", "failed"} \cup Releases =>
                    lock' = [of |-> d, full |-> TRUE]
               /\ proc[d] = "unlocking" => lock' = None \/ lock'.of = None
    <3>1. /\ lock = [of |-> d, full |-> FALSE] => lock' = [of |-> d, full |-> FALSE]
          /\ lock = [of |-> d, full |-> TRUE] => lock' = [of |-> d, full |-> TRUE]
          /\ lock = None \/ lock.of = None => lock' = None \/ lock'.of = None
      BY <1>1, <2>1, Forgotten
    <3> QED
      BY <2>1, <3>1 DEF IInv, LockOK
  <2> QED
    BY <1>2, <2>1 DEF LockOK, Releases
<1>4. ConnOK'
  <2>1. \A d \in Daemons : d # e => exit'[d] = exit[d]
    BY DEF Ends, IInv, TypeOK
  <2>2. ASSUME ~raced, NEW d \in Daemons, d # e
        PROVE  /\ proc[d] = "publishing" => conn' = [of |-> d, full |-> FALSE]
               /\ proc[d] = "serving" =>
                    conn' = IF exit[d] = "removed" THEN None ELSE [of |-> d, full |-> TRUE]
    <3>1. /\ conn = [of |-> d, full |-> FALSE] => conn' = [of |-> d, full |-> FALSE]
          /\ conn = [of |-> d, full |-> TRUE] => conn' = [of |-> d, full |-> TRUE]
          /\ conn = None => conn' = None
      BY <1>1, <2>2, Forgotten
    <3> QED
      BY <2>2, <3>1 DEF IInv, ConnOK
  <2> QED
    BY <1>2, <2>1, <2>2 DEF ConnOK
<1> QED
  BY <1>3, <1>4

\* Ownership is taken at the start, given up at the close or the end.
LEMMA OwnerKept ==
    ASSUME IInv, [Next]_vars
    PROVE  OwnerOK'
<1> USE DEF IInv, TypeOK, OwnerOK, InUse, Starts, Releases, Pc
<1>1. CASE UNCHANGED <<proc, owner, twice>>
  BY <1>1
<1>2. ASSUME NEW e \in Daemons, Own(e) PROVE OwnerOK'
  BY <1>2 DEF Own, MayOwn, Ends, Forget, Goto, Works, files
<1>3. ASSUME NEW e \in Daemons, Lock(e) PROVE OwnerOK'
  BY <1>3 DEF Lock, Stale, LooksAlive, Alive, Ends, Forget, Goto, Rest, handlers, files
<1>4. ASSUME NEW e \in Daemons, RemoveStale(e) PROVE OwnerOK'
  BY <1>4 DEF RemoveStale, Goto, Rest, handlers
<1>5. ASSUME NEW e \in Daemons, WriteLock(e) PROVE OwnerOK'
  BY <1>5 DEF WriteLock, Ends, Forget, Goto, Rest, handlers
<1>6. ASSUME NEW e \in Daemons, CreateConnection(e) PROVE OwnerOK'
  BY <1>6 DEF CreateConnection, Goto, Rest, handlers
<1>7. ASSUME NEW e \in Daemons, WriteConnection(e) PROVE OwnerOK'
  BY <1>7 DEF WriteConnection, Goto, Rest, handlers
<1>8. ASSUME NEW e \in Daemons, ReleaseFailedStart(e) PROVE OwnerOK'
  BY <1>8 DEF ReleaseFailedStart, Ends, Forget
<1>9. ASSUME NEW e \in Daemons, Stop(e) PROVE OwnerOK'
  BY <1>9 DEF Stop, Goto, Fault, files, handlers
<1>10. ASSUME NEW e \in Daemons, StopAgain(e) PROVE OwnerOK'
  BY <1>10 DEF StopAgain, ClosesAtOnce, Fault, files, handlers
<1>11. ASSUME NEW e \in Daemons, CloseStore(e) PROVE OwnerOK'
  BY <1>11 DEF CloseStore, Drained, Goto, Rest, files, handlers
<1>12. ASSUME NEW e \in Daemons, Unpublish(e) PROVE OwnerOK'
  BY <1>12 DEF Unpublish, Goto, Rest, handlers
<1>13. ASSUME NEW e \in Daemons, Unlock(e) PROVE OwnerOK'
  BY <1>13 DEF Unlock, Goto, Rest, handlers
<1>14. ASSUME NEW e \in Daemons, Leave(e) PROVE OwnerOK'
  BY <1>14 DEF Leave, InFlight, Ends, Forget
<1>15. ASSUME NEW e \in Daemons, IdleStay(e) PROVE OwnerOK'
  BY <1>15 DEF IdleStay, Goto, handlers
<1>16. ASSUME NEW e \in Daemons, IdleLeave(e) PROVE OwnerOK'
  BY <1>16 DEF IdleLeave, Goto, files, handlers
<1>17. ASSUME NEW e \in Daemons, IdleOver(e) PROVE OwnerOK'
  BY <1>17 DEF IdleOver, ClosesAtOnce, files, handlers
<1>18. ASSUME NEW e \in Daemons, IdleEnd(e) PROVE OwnerOK'
  BY <1>18 DEF IdleEnd, Ends, Forget
<1>19. ASSUME NEW e \in Daemons, Crash(e) PROVE OwnerOK'
  BY <1>19 DEF Crash, Alive, Ends, Forget, Fault
<1>20. ASSUME NEW c \in Clients, Spawn(c) PROVE OwnerOK'
  BY <1>20 DEF Spawn, Alive, Goto, files, handlers
<1>21. QED
  BY <1>1, <1>2, <1>3, <1>4, <1>5, <1>6, <1>7, <1>8, <1>9, <1>10, <1>11, <1>12, <1>13, <1>14,
     <1>15, <1>16, <1>17, <1>18, <1>19, <1>20, NextActions DEF vars, IdleBegin, IdleRemove,
     Finish, WorkEnds, Discover, Reach, Busy, Refused, JudgeConnection, RemoveConnection,
     JudgeLock, RemoveLock, GiveUp, Call, Respond, Abort, Reuse, Vacate, files, handlers

\* Requests are accepted by a daemon that serves, and nobody waits when it closes the store.
LEMMA InUseKept ==
    ASSUME IInv, [Next]_vars
    PROVE  InUse'
<1> USE DEF IInv, TypeOK, InUse, Starts, Releases, Pc
<1>1. CASE UNCHANGED <<proc, calls, lost, exit, twice>>
  BY <1>1
<1>2. ASSUME NEW e \in Daemons, Own(e) PROVE InUse'
  BY <1>2 DEF Own, MayOwn, Ends, Forget, Goto, Works, files
<1>3. ASSUME NEW e \in Daemons, Lock(e) PROVE InUse'
  BY <1>3 DEF Lock, Stale, LooksAlive, Alive, Ends, Forget, Goto, Rest, handlers, files
<1>4. ASSUME NEW e \in Daemons, RemoveStale(e) PROVE InUse'
  BY <1>4 DEF RemoveStale, Goto, Rest, handlers
<1>5. ASSUME NEW e \in Daemons, WriteLock(e) PROVE InUse'
  BY <1>5 DEF WriteLock, Ends, Forget, Goto, Rest, handlers
<1>6. ASSUME NEW e \in Daemons, CreateConnection(e) PROVE InUse'
  BY <1>6 DEF CreateConnection, Goto, Rest, handlers
<1>7. ASSUME NEW e \in Daemons, WriteConnection(e) PROVE InUse'
  BY <1>7 DEF WriteConnection, Goto, Rest, handlers
<1>8. ASSUME NEW e \in Daemons, ReleaseFailedStart(e) PROVE InUse'
  BY <1>8 DEF ReleaseFailedStart, Ends, Forget
<1>9. ASSUME NEW e \in Daemons, Stop(e) PROVE InUse'
  BY <1>9 DEF Stop, Goto, Fault, files, handlers
<1>10. ASSUME NEW e \in Daemons, StopAgain(e) PROVE InUse'
  BY <1>10 DEF StopAgain, ClosesAtOnce, Fault, files, handlers
<1>11. ASSUME NEW e \in Daemons, CloseStore(e) PROVE InUse'
  BY <1>11 DEF CloseStore, Drained, Goto, Rest, files, handlers
<1>12. ASSUME NEW e \in Daemons, Unpublish(e) PROVE InUse'
  BY <1>12 DEF Unpublish, Goto, Rest, handlers
<1>13. ASSUME NEW e \in Daemons, Unlock(e) PROVE InUse'
  BY <1>13 DEF Unlock, Goto, Rest, handlers
<1>14. ASSUME NEW e \in Daemons, Leave(e) PROVE InUse'
  BY <1>14 DEF Leave, InFlight, Ends, Forget
<1>15. ASSUME NEW e \in Daemons, IdleBegin(e) PROVE InUse'
  BY <1>15 DEF IdleBegin, files, handlers
<1>16. ASSUME NEW e \in Daemons, IdleRemove(e) PROVE InUse'
  BY <1>16 DEF IdleRemove, Listening, handlers
<1>17. ASSUME NEW e \in Daemons, IdleStay(e) PROVE InUse'
  BY <1>17 DEF IdleStay, Goto, handlers
<1>18. ASSUME NEW e \in Daemons, IdleLeave(e) PROVE InUse'
  BY <1>18 DEF IdleLeave, Goto, files, handlers
<1>19. ASSUME NEW e \in Daemons, IdleOver(e) PROVE InUse'
  BY <1>19 DEF IdleOver, ClosesAtOnce, files, handlers
<1>20. ASSUME NEW e \in Daemons, IdleEnd(e) PROVE InUse'
  BY <1>20 DEF IdleEnd, Ends, Forget
<1>21. ASSUME NEW e \in Daemons, Finish(e) PROVE InUse'
  BY <1>21 DEF Finish, files
<1>22. ASSUME NEW e \in Daemons, Crash(e) PROVE InUse'
  BY <1>22 DEF Crash, Alive, Ends, Forget, Fault
<1>23. ASSUME NEW c \in Clients, Spawn(c) PROVE InUse'
  BY <1>23 DEF Spawn, Alive, Goto, files, handlers
<1>24. ASSUME NEW c \in Clients, Call(c) PROVE InUse'
  BY <1>24 DEF Call, Answers, files
<1>25. ASSUME NEW e \in Daemons, NEW c \in Clients, Respond(e, c) PROVE InUse'
  BY <1>25 DEF Respond, files
<1>26. ASSUME NEW e \in Daemons, NEW c \in Clients, Abort(e, c) PROVE InUse'
  BY <1>26 DEF Abort, files
<1>27. QED
  BY <1>1, <1>2, <1>3, <1>4, <1>5, <1>6, <1>7, <1>8, <1>9, <1>10, <1>11, <1>12, <1>13, <1>14,
     <1>15, <1>16, <1>17, <1>18, <1>19, <1>20, <1>21, <1>22, <1>23, <1>24, <1>25, <1>26,
     NextActions DEF vars, WorkEnds, Discover, Reach, Busy, Refused, JudgeConnection,
     RemoveConnection, JudgeLock, RemoveLock, GiveUp, Reuse, Vacate, files, handlers

\* A file names its writer until it ends.
LEMMA NamesKept ==
    ASSUME IInv, [Next]_vars
    PROVE  NamesLive'
<1> USE DEF IInv, TypeOK, NamesLive, Starts, Releases, Pc, File
<1>1. CASE UNCHANGED <<proc, lock, conn>>
  BY <1>1
<1>2. ASSUME NEW e \in Daemons, Own(e) PROVE NamesLive'
  BY <1>2 DEF Own, MayOwn, Ends, Forget, Goto, Works, files
<1>3. ASSUME NEW e \in Daemons, Lock(e) PROVE NamesLive'
  BY <1>3 DEF Lock, Stale, LooksAlive, Alive, Ends, Forget, Goto, Rest, handlers, files
<1>4. ASSUME NEW e \in Daemons, RemoveStale(e) PROVE NamesLive'
  BY <1>4 DEF RemoveStale, Goto, Rest, handlers
<1>5. ASSUME NEW e \in Daemons, WriteLock(e) PROVE NamesLive'
  BY <1>5 DEF WriteLock, Ends, Forget, Goto, Rest, handlers
<1>6. ASSUME NEW e \in Daemons, CreateConnection(e) PROVE NamesLive'
  BY <1>6 DEF CreateConnection, Goto, Rest, handlers
<1>7. ASSUME NEW e \in Daemons, WriteConnection(e) PROVE NamesLive'
  BY <1>7 DEF WriteConnection, Goto, Rest, handlers
<1>8. ASSUME NEW e \in Daemons, ReleaseFailedStart(e) PROVE NamesLive'
  BY <1>8 DEF ReleaseFailedStart, Ends, Forget
<1>9. ASSUME NEW e \in Daemons, Stop(e) PROVE NamesLive'
  BY <1>9 DEF Stop, Goto, Fault, files, handlers
<1>10. ASSUME NEW e \in Daemons, CloseStore(e) PROVE NamesLive'
  BY <1>10 DEF CloseStore, Drained, Goto, Rest, files, handlers
<1>11. ASSUME NEW e \in Daemons, Unpublish(e) PROVE NamesLive'
  BY <1>11 DEF Unpublish, Goto, Rest, handlers
<1>12. ASSUME NEW e \in Daemons, Unlock(e) PROVE NamesLive'
  BY <1>12 DEF Unlock, Goto, Rest, handlers
<1>13. ASSUME NEW e \in Daemons, Leave(e) PROVE NamesLive'
  BY <1>13 DEF Leave, InFlight, Ends, Forget
<1>14. ASSUME NEW e \in Daemons, IdleRemove(e) PROVE NamesLive'
  BY <1>14 DEF IdleRemove, Listening, handlers
<1>15. ASSUME NEW e \in Daemons, IdleStay(e) PROVE NamesLive'
  BY <1>15 DEF IdleStay, Goto, handlers
<1>16. ASSUME NEW e \in Daemons, IdleLeave(e) PROVE NamesLive'
  BY <1>16 DEF IdleLeave, Goto, files, handlers
<1>17. ASSUME NEW e \in Daemons, IdleEnd(e) PROVE NamesLive'
  BY <1>17 DEF IdleEnd, Ends, Forget
<1>18. ASSUME NEW e \in Daemons, Crash(e) PROVE NamesLive'
  BY <1>18 DEF Crash, Alive, Ends, Forget, Fault
<1>19. ASSUME NEW c \in Clients, RemoveConnection(c) PROVE NamesLive'
  BY <1>19 DEF RemoveConnection, Listening, handlers
<1>20. ASSUME NEW c \in Clients, RemoveLock(c) PROVE NamesLive'
  BY <1>20 DEF RemoveLock, Alive, handlers
<1>21. ASSUME NEW c \in Clients, Spawn(c) PROVE NamesLive'
  BY <1>21 DEF Spawn, Alive, Goto, files, handlers
<1>22. QED
  BY <1>1, <1>2, <1>3, <1>4, <1>5, <1>6, <1>7, <1>8, <1>9, <1>10, <1>11, <1>12, <1>13, <1>14,
     <1>15, <1>16, <1>17, <1>18, <1>19, <1>20, <1>21, NextActions DEF vars, StopAgain,
     IdleBegin, IdleOver, Finish, WorkEnds, Discover, Reach, Busy, Refused, JudgeConnection,
     JudgeLock, GiveUp, Call, Respond, Abort, Reuse, Vacate, files, handlers

\* The lock file changes hands only through one that is gone or dead.
LEMMA LockKept ==
    ASSUME IInv, [Next]_vars
    PROVE  LockOK'
<1> USE DEF IInv, TypeOK, OwnerOK, NamesLive, LockOK, Starts, Releases, Pc, File
<1>1. CASE UNCHANGED <<proc, lock, raced>>
  BY <1>1
<1>2. ASSUME NEW e \in Daemons, Own(e) PROVE LockOK'
  BY <1>2 DEF Own, MayOwn, Ends, Forget, Goto, Works, files
<1>3. ASSUME NEW e \in Daemons, Lock(e) PROVE LockOK'
  <2>1. CASE lock = None /\ proc' = [proc EXCEPT ![e] = "locking"] /\ lock' = [of |-> e, full |-> FALSE] /\ raced' = raced
    <3>1. \A d \in Daemons : [of |-> d, full |-> TRUE] # None /\ [of |-> d, full |-> FALSE] # None
      <4>1. \A d \in Daemons, b \in BOOLEAN : [of |-> d, full |-> b] \in [of : Daemons \cup {None}, full : BOOLEAN]
        OBVIOUS
      <4> QED
        BY <4>1
    <3>2. ~raced => \A d \in Daemons : proc[d] \notin {"locking", "locked", "publishing", "serving", "failed"} \cup Releases
      BY <2>1, <3>1 DEF IInv, LockOK, Releases
    <3>3. \A d \in Daemons : proc'[d] = (IF d = e THEN "locking" ELSE proc[d])
      BY <2>1 DEF IInv, TypeOK
    <3>4. \A d \in Daemons \ {e} : ~raced => proc[d] # "unlocking"
      BY <1>3 DEF Lock, IInv, OwnerOK, Starts
    <3> QED
      <4>1. ASSUME NEW d \in Daemons \ {e}, ~raced
            PROVE  proc'[d] \notin {"unlocking", "locking", "locked", "publishing", "serving", "failed"} \cup Releases
        BY <4>1, <3>2, <3>3, <3>4
      <4>2. proc'[e] = "locking"
        BY <3>3
      <4> QED
        BY <2>1, <4>1, <4>2 DEF LockOK, Releases
  <2>2. CASE Stale(lock) /\ proc' = [proc EXCEPT ![e] = "unlocking"] /\ UNCHANGED files
    <3>1. proc[e] = "owner" /\ owner = e
      BY <1>3 DEF Lock, IInv, OwnerOK, Starts
    <3>2. ~raced => lock.of = None
      <4> SUFFICES ASSUME ~raced, lock.of # None PROVE FALSE
        OBVIOUS
      <4>1. lock \in [of : Daemons \cup {None}, full : BOOLEAN]
        BY <2>2 DEF Stale, IInv, TypeOK, File
      <4> DEFINE d == lock.of
      <4>2. d \in Daemons /\ lock # None
        BY <4>1, <2>2 DEF Stale
      <4>3. proc[d] \in {"locking", "locked", "publishing", "serving", "failed"} \cup Releases
        BY <4>2 DEF IInv, NamesLive
      <4>4. proc[d] = "locking" \/ lock.full
        BY <4>2, <4>3 DEF IInv, LockOK
      <4>5. proc[d] # "none"
        BY <4>3 DEF Releases
      <4>6. proc[d] = "locking"
        BY <4>2, <4>4, <4>5, <2>2 DEF Stale, LooksAlive, Alive
      <4> QED
        BY <3>1, <4>2, <4>6 DEF IInv, OwnerOK, Starts
    <3> QED
      BY <2>2, <3>1, <3>2 DEF files, IInv, TypeOK, LockOK, Releases, Pc
  <2>3. CASE Ends(e, lock, conn) /\ raced' = raced
    BY <2>3, EndKeepsFiles
  <2> QED
    BY <1>3, <2>1, <2>2, <2>3 DEF Lock, Goto
<1>4. ASSUME NEW e \in Daemons, RemoveStale(e) PROVE LockOK'
  BY <1>4 DEF RemoveStale, Goto, Rest, handlers
<1>5. ASSUME NEW e \in Daemons, WriteLock(e) PROVE LockOK'
  BY <1>5 DEF WriteLock, Ends, Forget, Goto, Rest, handlers
<1>6. ASSUME NEW e \in Daemons, CreateConnection(e) PROVE LockOK'
  BY <1>6 DEF CreateConnection, Goto, Rest, handlers
<1>7. ASSUME NEW e \in Daemons, WriteConnection(e) PROVE LockOK'
  BY <1>7 DEF WriteConnection, Goto, Rest, handlers
<1>8. ASSUME NEW e \in Daemons, ReleaseFailedStart(e) PROVE LockOK'
  BY <1>8 DEF ReleaseFailedStart, Ends, Forget
<1>9. ASSUME NEW e \in Daemons, Stop(e) PROVE LockOK'
  BY <1>9 DEF Stop, Goto, Fault, files, handlers
<1>10. ASSUME NEW e \in Daemons, CloseStore(e) PROVE LockOK'
  BY <1>10 DEF CloseStore, Drained, Goto, Rest, files, handlers
<1>11. ASSUME NEW e \in Daemons, Unpublish(e) PROVE LockOK'
  BY <1>11 DEF Unpublish, Goto, Rest, handlers
<1>12. ASSUME NEW e \in Daemons, Unlock(e) PROVE LockOK'
  BY <1>12 DEF Unlock, Goto, Rest, handlers
<1>13. ASSUME NEW e \in Daemons, Leave(e) PROVE LockOK'
  BY <1>13, EndKeepsFiles DEF Leave
<1>14. ASSUME NEW e \in Daemons, IdleRemove(e) PROVE LockOK'
  BY <1>14 DEF IdleRemove, Listening, handlers
<1>15. ASSUME NEW e \in Daemons, IdleStay(e) PROVE LockOK'
  BY <1>15 DEF IdleStay, Goto, handlers
<1>16. ASSUME NEW e \in Daemons, IdleLeave(e) PROVE LockOK'
  BY <1>16 DEF IdleLeave, Goto, files, handlers
<1>17. ASSUME NEW e \in Daemons, IdleEnd(e) PROVE LockOK'
  BY <1>17, EndKeepsFiles DEF IdleEnd
<1>18. ASSUME NEW e \in Daemons, Crash(e) PROVE LockOK'
  BY <1>18, EndKeepsFiles DEF Crash
<1>19. ASSUME NEW c \in Clients, RemoveConnection(c) PROVE LockOK'
  BY <1>19 DEF RemoveConnection, Listening, handlers
<1>20. ASSUME NEW c \in Clients, RemoveLock(c) PROVE LockOK'
  <2>1. CASE raced'
    BY <2>1 DEF LockOK
  <2>2. CASE ~raced'
    <3>1. lock' = None /\ proc' = proc /\ ~raced /\ ~(lock # None /\ Alive(lock.of))
      BY <1>20, <2>2 DEF RemoveLock
    <3>2. \A d \in Daemons : lock # None => lock.of # d
      BY <3>1 DEF Alive, IInv, NamesLive, Releases
    <3>3. \A d \in Daemons, b \in BOOLEAN : lock # [of |-> d, full |-> b]
      BY <3>2
    <3> QED
      BY <3>1, <3>3 DEF IInv, LockOK
  <2> QED
    BY <2>1, <2>2
<1>21. ASSUME NEW c \in Clients, Spawn(c) PROVE LockOK'
  BY <1>21 DEF Spawn, Alive, Goto, files, handlers
<1>22. QED
  BY <1>1, <1>2, <1>3, <1>4, <1>5, <1>6, <1>7, <1>8, <1>9, <1>10, <1>11, <1>12, <1>13, <1>14,
     <1>15, <1>16, <1>17, <1>18, <1>19, <1>20, <1>21, NextActions DEF vars, StopAgain,
     IdleBegin, IdleOver, Finish, WorkEnds, Discover, Reach, Busy, Refused, JudgeConnection,
     JudgeLock, GiveUp, Call, Respond, Abort, Reuse, Vacate, files, handlers

\* Who serves holds the lock file, so nobody else removes or creates a connection file.
LEMMA ConnKept ==
    ASSUME IInv, [Next]_vars
    PROVE  ConnOK'
<1> USE DEF IInv, TypeOK, OwnerOK, NamesLive, InUse, LockOK, ConnOK, Starts, Releases, Pc,
     File
<1>1. CASE UNCHANGED <<proc, conn, raced, exit>>
  BY <1>1
<1>2. ASSUME NEW e \in Daemons, Own(e) PROVE ConnOK'
  BY <1>2 DEF Own, MayOwn, Ends, Forget, Goto, Works, files
<1>3. ASSUME NEW e \in Daemons, Lock(e) PROVE ConnOK'
  BY <1>3 DEF Lock, Stale, LooksAlive, Alive, Ends, Forget, Goto, Rest, handlers, files
<1>4. ASSUME NEW e \in Daemons, RemoveStale(e) PROVE ConnOK'
  BY <1>4 DEF RemoveStale, Goto, Rest, handlers
<1>5. ASSUME NEW e \in Daemons, WriteLock(e) PROVE ConnOK'
  BY <1>5 DEF WriteLock, Ends, Forget, Goto, Rest, handlers
<1>6. ASSUME NEW e \in Daemons, CreateConnection(e) PROVE ConnOK'
  BY <1>6 DEF CreateConnection, Goto, Rest, handlers
<1>7. ASSUME NEW e \in Daemons, WriteConnection(e) PROVE ConnOK'
  BY <1>7 DEF WriteConnection, Goto, Rest, handlers
<1>8. ASSUME NEW e \in Daemons, ReleaseFailedStart(e) PROVE ConnOK'
  BY <1>8 DEF ReleaseFailedStart, Ends, Forget
<1>9. ASSUME NEW e \in Daemons, Stop(e) PROVE ConnOK'
  BY <1>9 DEF Stop, Goto, Fault, files, handlers
<1>10. ASSUME NEW e \in Daemons, CloseStore(e) PROVE ConnOK'
  BY <1>10 DEF CloseStore, Drained, Goto, Rest, files, handlers
<1>11. ASSUME NEW e \in Daemons, Unpublish(e) PROVE ConnOK'
  BY <1>11 DEF Unpublish, Goto, Rest, handlers
<1>12. ASSUME NEW e \in Daemons, Unlock(e) PROVE ConnOK'
  BY <1>12 DEF Unlock, Goto, Rest, handlers
<1>13. ASSUME NEW e \in Daemons, Leave(e) PROVE ConnOK'
  BY <1>13, EndKeepsFiles DEF Leave
<1>14. ASSUME NEW e \in Daemons, IdleBegin(e) PROVE ConnOK'
  BY <1>14 DEF IdleBegin, files, handlers
<1>15. ASSUME NEW e \in Daemons, IdleRemove(e) PROVE ConnOK'
  <2>1. CASE raced'
    BY <2>1 DEF ConnOK
  <2>2. CASE ~raced'
    <3>1. conn' = None /\ proc' = proc /\ exit' = [exit EXCEPT ![e] = "removed"] /\ ~raced
      BY <1>15, <2>2 DEF IdleRemove
    <3>2. \A d \in Daemons \ {e} : proc[d] \in {"publishing", "serving"} => ~(conn # None /\ conn.of = d)
      <4>1. ~(conn # None /\ conn.of # e /\ Listening(conn.of))
        BY <1>15, <2>2 DEF IdleRemove
      <4> QED
        BY <4>1 DEF Listening
    <3>3. proc[e] # "publishing"
      BY <1>15 DEF IdleRemove
    <3>4. \A d \in Daemons, b \in BOOLEAN : [of |-> d, full |-> b] # None
      <4>1. \A d \in Daemons, b \in BOOLEAN :
              [of |-> d, full |-> b] \in [of : Daemons \cup {None}, full : BOOLEAN]
        OBVIOUS
      <4> QED
        BY <4>1
    <3>5. ASSUME NEW d \in Daemons \ {e}
          PROVE  proc[d] # "publishing" /\ (proc[d] = "serving" => exit[d] = "removed")
      <4>1. \A b \in BOOLEAN : conn = [of |-> d, full |-> b] => conn # None /\ conn.of = d
        BY <3>4
      <4>2. /\ proc[d] = "publishing" => conn = [of |-> d, full |-> FALSE]
            /\ proc[d] = "serving" /\ exit[d] # "removed" => conn = [of |-> d, full |-> TRUE]
        BY <3>1
      <4> QED
        BY <3>2, <4>1, <4>2
    <3>6. exit'[e] = "removed" /\ \A d \in Daemons \ {e} : exit'[d] = exit[d]
      BY <3>1
    <3> QED
      BY <3>1, <3>3, <3>5, <3>6
  <2> QED
    BY <2>1, <2>2
<1>16. ASSUME NEW e \in Daemons, IdleStay(e) PROVE ConnOK'
  BY <1>16 DEF IdleStay, Goto, handlers
<1>17. ASSUME NEW e \in Daemons, IdleLeave(e) PROVE ConnOK'
  BY <1>17 DEF IdleLeave, Goto, files, handlers
<1>18. ASSUME NEW e \in Daemons, IdleOver(e) PROVE ConnOK'
  BY <1>18 DEF IdleOver, ClosesAtOnce, files, handlers
<1>19. ASSUME NEW e \in Daemons, IdleEnd(e) PROVE ConnOK'
  BY <1>19, EndKeepsFiles DEF IdleEnd
<1>20. ASSUME NEW e \in Daemons, Crash(e) PROVE ConnOK'
  BY <1>20, EndKeepsFiles DEF Crash
<1>21. ASSUME NEW c \in Clients, RemoveConnection(c) PROVE ConnOK'
  <2>1. CASE raced'
    BY <2>1 DEF ConnOK
  <2>2. CASE ~raced'
    <3>1. conn' = None /\ UNCHANGED <<proc, exit>> /\ ~raced /\ ~(conn # None /\ Listening(conn.of))
      BY <1>21, <2>2 DEF RemoveConnection
    <3>2. \A d \in Daemons : proc[d] \in {"publishing", "serving"} => ~(conn # None /\ conn.of = d)
      BY <3>1 DEF Listening
    <3> QED
      BY <3>1, <3>2 DEF IInv, ConnOK
  <2> QED
    BY <2>1, <2>2
<1>22. ASSUME NEW c \in Clients, RemoveLock(c) PROVE ConnOK'
  BY <1>22 DEF RemoveLock, Alive, handlers
<1>23. ASSUME NEW c \in Clients, Spawn(c) PROVE ConnOK'
  BY <1>23 DEF Spawn, Alive, Goto, files, handlers
<1>24. QED
  BY <1>1, <1>2, <1>3, <1>4, <1>5, <1>6, <1>7, <1>8, <1>9, <1>10, <1>11, <1>12, <1>13, <1>14,
     <1>15, <1>16, <1>17, <1>18, <1>19, <1>20, <1>21, <1>22, <1>23, NextActions DEF vars,
     StopAgain, Finish, WorkEnds, Discover, Reach, Busy, Refused, JudgeConnection, JudgeLock,
     GiveUp, Call, Respond, Abort, Reuse, Vacate, files, handlers

\* What Ends and Becomes leave is well typed.
LEMMA EndTypes ==
    ASSUME TypeOK, InUse', NEW d \in Daemons, NEW held \in File, NEW published \in File,
           Ends(d, held, published), raced' = raced, reused' = reused, faults' \in 0..MaxFaults
    PROVE  TypeOK'
<1>1. lock' \in File /\ conn' \in File
  BY Forgotten DEF Ends
<1>2. \A c \in Clients : client'[c] \in ClientState
  <2> SUFFICES ASSUME NEW c \in Clients PROVE client'[c] \in ClientState
    OBVIOUS
  <2>1. client[c] \in ClientState
    BY DEF TypeOK
  <2>2. [client[c] EXCEPT !.d = None] \in ClientState
    BY <2>1 DEF ClientState
  <2>3. Idle \in ClientState
    BY DEF Idle, ClientState
  <2>4. client'[c] = IF c \in calls[d] THEN Idle
                     ELSE IF client[c].d = d THEN [client[c] EXCEPT !.d = None] ELSE client[c]
    BY DEF Ends
  <2> QED
    BY <2>1, <2>2, <2>3, <2>4
<1>3. client' \in [Clients -> ClientState]
  BY <1>2 DEF Ends
<1> QED
  BY <1>1, <1>3 DEF Ends, TypeOK, InUse, Releases, Pc, Exit

\* A client moves between states of a client.
LEMMA ClientTypes ==
    ASSUME TypeOK, NEW c \in Clients, NEW d \in Daemons \cup {None}, NEW b \in BOOLEAN,
           NEW pc \in {"idle", "probing", "judging", "removing", "judgingLock", "removingLock",
                        "spawning", "waiting", "ready", "calling"}
    PROVE  /\ Becomes(c, pc, d, b) => client' \in [Clients -> ClientState]
           /\ client' = [client EXCEPT ![c] = Idle] => client' \in [Clients -> ClientState]
<1>1. [pc |-> pc, d |-> d, unhealthy |-> b] \in ClientState /\ Idle \in ClientState
  BY DEF ClientState, Idle
<1> QED
  BY <1>1 DEF TypeOK, Becomes

\* A complete connection file names a daemon, or one that has ended.
LEMMA WrittenName ==
    ASSUME TypeOK
    PROVE  Written(conn) => conn.of \in Daemons \cup {None}
  BY DEF TypeOK, Written, File

\* What a daemon writes is a control file.
LEMMA FileTypes ==
    \A d \in Daemons, b \in BOOLEAN : [of |-> d, full |-> b] \in File /\ None \in File
  BY DEF File

\* Every step stays in the types.
LEMMA TypesKept ==
    ASSUME TypeOK, InUse', [Next]_vars
    PROVE  TypeOK'
<1> USE DEF TypeOK, InUse, Releases, Pc, Exit, File
<1>1. CASE UNCHANGED vars
  BY <1>1 DEF vars, files, handlers
<1>2. ASSUME NEW e \in Daemons, Own(e) PROVE TypeOK'
  <2>1. CASE Ends(e, lock, conn) /\ UNCHANGED <<raced, reused, faults>>
    BY <2>1, EndTypes
  <2>2. CASE /\ Goto(e, "owner") /\ owner' = e /\ Works(e)
             /\ UNCHANGED <<files, calls, lost, exit, used, client, twice, reused, faults>>
    BY <2>2 DEF Goto, Works, files
  <2> QED
    BY <1>2, <2>1, <2>2 DEF Own
<1>3. ASSUME NEW e \in Daemons, Lock(e) PROVE TypeOK'
  <2>1. CASE Ends(e, lock, conn) /\ UNCHANGED <<raced, reused, faults>>
    BY <2>1, EndTypes
  <2>2. CASE /\ lock' = [of |-> e, full |-> FALSE] /\ Goto(e, "locking")
             /\ UNCHANGED <<owner, conn, raced, Rest>>
    BY <2>2, FileTypes DEF Goto, Rest, handlers
  <2>3. CASE Goto(e, "unlocking") /\ UNCHANGED <<owner, files, Rest>>
    BY <2>3 DEF Goto, Rest, files, handlers
  <2> QED
    BY <1>3, <2>1, <2>2, <2>3 DEF Lock
<1>4. ASSUME NEW e \in Daemons, RemoveStale(e) PROVE TypeOK'
  BY <1>4, FileTypes DEF RemoveStale, Goto, Rest, handlers
<1>5. ASSUME NEW e \in Daemons, WriteLock(e) PROVE TypeOK'
  <2>1. CASE Ends(e, lock, conn) /\ UNCHANGED <<raced, reused, faults>>
    BY <2>1, EndTypes
  <2>2. CASE /\ lock' = [of |-> e, full |-> TRUE] \/ lock' = lock
             /\ Goto(e, "locked") /\ UNCHANGED <<owner, conn, raced, Rest>>
    <3>1. lock' \in File
      BY <2>2, FileTypes
    <3> QED
      BY <2>2, <3>1 DEF Goto, Rest, handlers
  <2> QED
    BY <1>5, <2>1, <2>2 DEF WriteLock
<1>6. ASSUME NEW e \in Daemons, CreateConnection(e) PROVE TypeOK'
  <2>1. conn' \in File
    BY <1>6, FileTypes DEF CreateConnection
  <2> QED
    BY <1>6, <2>1 DEF CreateConnection, Goto, Rest, handlers
<1>7. ASSUME NEW e \in Daemons, WriteConnection(e) PROVE TypeOK'
  <2>1. conn' \in File
    BY <1>7, FileTypes DEF WriteConnection
  <2> QED
    BY <1>7, <2>1 DEF WriteConnection, Goto, Rest, handlers
<1>8. ASSUME NEW e \in Daemons, ReleaseFailedStart(e) PROVE TypeOK'
  <2>1. Ends(e, None, conn) /\ UNCHANGED <<raced, reused>> /\ faults' \in 0..MaxFaults
    BY <1>8 DEF ReleaseFailedStart
  <2> QED
    BY <2>1, FileTypes, EndTypes
<1>9. ASSUME NEW e \in Daemons, Stop(e) PROVE TypeOK'
  BY <1>9 DEF Stop, Goto, Fault, files, handlers
<1>10. ASSUME NEW e \in Daemons, StopAgain(e) PROVE TypeOK'
  BY <1>10 DEF StopAgain, ClosesAtOnce, Fault, files, handlers
<1>11. ASSUME NEW e \in Daemons, CloseStore(e) PROVE TypeOK'
  BY <1>11 DEF CloseStore, Goto, Rest, files, handlers
<1>12. ASSUME NEW e \in Daemons, Unpublish(e) PROVE TypeOK'
  BY <1>12, FileTypes DEF Unpublish, Goto, Rest, handlers
<1>13. ASSUME NEW e \in Daemons, Unlock(e) PROVE TypeOK'
  BY <1>13, FileTypes DEF Unlock, Goto, Rest, handlers
<1>14. ASSUME NEW e \in Daemons, Leave(e) PROVE TypeOK'
  <2>1. Ends(e, lock, conn) /\ UNCHANGED <<raced, reused>> /\ faults' \in 0..MaxFaults
    BY <1>14 DEF Leave
  <2> QED
    BY <2>1, FileTypes, EndTypes
<1>15. ASSUME NEW e \in Daemons, IdleBegin(e) PROVE TypeOK'
  BY <1>15 DEF IdleBegin, files, handlers
<1>16. ASSUME NEW e \in Daemons, IdleRemove(e) PROVE TypeOK'
  BY <1>16, FileTypes DEF IdleRemove, Listening, handlers
<1>17. ASSUME NEW e \in Daemons, IdleStay(e) PROVE TypeOK'
  <2>1. conn' \in File
    BY <1>17, FileTypes DEF IdleStay
  <2> QED
    BY <1>17, <2>1 DEF IdleStay, Goto, handlers
<1>18. ASSUME NEW e \in Daemons, IdleLeave(e) PROVE TypeOK'
  BY <1>18 DEF IdleLeave, Goto, files, handlers
<1>19. ASSUME NEW e \in Daemons, IdleOver(e) PROVE TypeOK'
  BY <1>19 DEF IdleOver, ClosesAtOnce, files, handlers
<1>20. ASSUME NEW e \in Daemons, IdleEnd(e) PROVE TypeOK'
  <2>1. Ends(e, lock, conn) /\ UNCHANGED <<raced, reused>> /\ faults' \in 0..MaxFaults
    BY <1>20 DEF IdleEnd
  <2> QED
    BY <2>1, FileTypes, EndTypes
<1>21. ASSUME NEW e \in Daemons, Finish(e) PROVE TypeOK'
  BY <1>21 DEF Finish, files, Works
<1>22. ASSUME NEW e \in Daemons, WorkEnds(e) PROVE TypeOK'
  BY <1>22 DEF WorkEnds, files
<1>23. ASSUME NEW e \in Daemons, Crash(e) PROVE TypeOK'
  <2>1. Ends(e, lock, conn) /\ UNCHANGED <<raced, reused>> /\ faults' \in 0..MaxFaults
    BY <1>23 DEF Crash, Fault
  <2> QED
    BY <2>1, FileTypes, EndTypes
<1>24. ASSUME NEW c \in Clients, Discover(c) PROVE TypeOK'
  <2>1. client' \in [Clients -> ClientState]
    BY <1>24, ClientTypes, WrittenName DEF Discover
  <2> QED
    BY <1>24, <2>1 DEF Discover, files, handlers
<1>25. ASSUME NEW c \in Clients, Reach(c) PROVE TypeOK'
  <2>1. client' \in [Clients -> ClientState]
    BY <1>25, ClientTypes DEF Reach
  <2> QED
    BY <1>25, <2>1 DEF Reach, files, handlers, Noticed
<1>26. ASSUME NEW c \in Clients, Busy(c) PROVE TypeOK'
  <2>1. client' \in [Clients -> ClientState]
    BY <1>26, ClientTypes DEF Busy
  <2> QED
    BY <1>26, <2>1 DEF Busy, files, handlers, Fault
<1>27. ASSUME NEW c \in Clients, Refused(c) PROVE TypeOK'
  <2>1. client' \in [Clients -> ClientState]
    BY <1>27, ClientTypes DEF Refused
  <2> QED
    BY <1>27, <2>1 DEF Refused, files, handlers
<1>28. ASSUME NEW c \in Clients, JudgeConnection(c) PROVE TypeOK'
  <2>1. client' \in [Clients -> ClientState]
    BY <1>28, ClientTypes DEF JudgeConnection
  <2> QED
    BY <1>28, <2>1 DEF JudgeConnection, files, handlers
<1>29. ASSUME NEW c \in Clients, RemoveConnection(c) PROVE TypeOK'
  <2>1. client' \in [Clients -> ClientState]
    BY <1>29, ClientTypes DEF RemoveConnection
  <2> QED
    BY <1>29, <2>1 DEF RemoveConnection, Listening, handlers
<1>30. ASSUME NEW c \in Clients, JudgeLock(c) PROVE TypeOK'
  <2>1. client' \in [Clients -> ClientState]
    BY <1>30, ClientTypes DEF JudgeLock
  <2> QED
    BY <1>30, <2>1 DEF JudgeLock, files, handlers
<1>31. ASSUME NEW c \in Clients, RemoveLock(c) PROVE TypeOK'
  <2>1. client' \in [Clients -> ClientState]
    BY <1>31, ClientTypes DEF RemoveLock
  <2> QED
    BY <1>31, <2>1 DEF RemoveLock, handlers
<1>32. ASSUME NEW c \in Clients, Spawn(c) PROVE TypeOK'
  <2>1. client' \in [Clients -> ClientState]
    BY <1>32, ClientTypes DEF Spawn
  <2> QED
    BY <1>32, <2>1 DEF Spawn, Goto, files, handlers
<1>33. ASSUME NEW c \in Clients, GiveUp(c) PROVE TypeOK'
  <2>1. client' \in [Clients -> ClientState]
    BY <1>33, ClientTypes DEF GiveUp
  <2> QED
    BY <1>33, <2>1 DEF GiveUp, files, handlers, Fault
<1>34. ASSUME NEW c \in Clients, Call(c) PROVE TypeOK'
  <2>1. CASE Answers(client[c].d)
    <3> DEFINE d == client[c].d
    <3>1. d \in Daemons \cup {None} /\ d # None
      BY <2>1 DEF Answers, ClientState
    <3>2. /\ calls' = [calls EXCEPT ![d] = @ \cup {c}] /\ used' = used \cup Noticed(d)
          /\ Becomes(c, "calling", d, FALSE)
          /\ UNCHANGED <<proc, owner, files, lost, work, exit, twice, reused, faults>>
      BY <1>34, <2>1 DEF Call
    <3>3. client' \in [Clients -> ClientState]
      BY <3>1, <3>2, ClientTypes
    <3> HIDE DEF d
    <3> QED
      BY <3>1, <3>2, <3>3 DEF Noticed, files
  <2>2. CASE ~Answers(client[c].d)
    <3>1. /\ client' = [client EXCEPT ![c] = Idle]
          /\ UNCHANGED <<proc, owner, files, calls, lost, work, exit, used, twice, reused, faults>>
      BY <1>34, <2>2 DEF Call
    <3>2. client' \in [Clients -> ClientState]
      BY <3>1, ClientTypes
    <3> QED
      BY <3>1, <3>2 DEF files
  <2> QED
    BY <2>1, <2>2
<1>35. ASSUME NEW e \in Daemons, NEW c \in Clients, Respond(e, c) PROVE TypeOK'
  <2>1. client' \in [Clients -> ClientState]
    BY <1>35, ClientTypes DEF Respond
  <2> QED
    BY <1>35, <2>1 DEF Respond, files, Works
<1>36. ASSUME NEW e \in Daemons, NEW c \in Clients, Abort(e, c) PROVE TypeOK'
  <2>1. client' \in [Clients -> ClientState]
    BY <1>36, ClientTypes DEF Abort
  <2> QED
    BY <1>36, <2>1 DEF Abort, files, Fault
<1>37. ASSUME Reuse PROVE TypeOK'
  BY <1>37 DEF Reuse, files, handlers, Fault
<1>38. ASSUME Vacate PROVE TypeOK'
  BY <1>38 DEF Vacate, files, handlers
<1> QED
  BY <1>1, <1>2, <1>3, <1>4, <1>5, <1>6, <1>7, <1>8, <1>9, <1>10, <1>11, <1>12, <1>13, <1>14,
     <1>15, <1>16, <1>17, <1>18, <1>19, <1>20, <1>21, <1>22, <1>23, <1>24, <1>25, <1>26,
     <1>27, <1>28, <1>29, <1>30, <1>31, <1>32, <1>33, <1>34, <1>35, <1>36, <1>37, <1>38,
     NextActions

-----------------------------------------------------------------------------
(* The invariant and what it gives                                         *)

\* No daemon runs and there is no control file.
LEMMA InitInv == Init => IInv
<1> SUFFICES ASSUME Init PROVE IInv
  OBVIOUS
<1>1. client \in [Clients -> ClientState]
  BY DEF Init, Idle, ClientState
<1>2. TypeOK
  <2>1. lock \in File /\ conn \in File /\ faults \in 0..MaxFaults
    BY DEF Init, File
  <2> QED
    BY <1>1, <2>1 DEF Init, TypeOK, Pc, Exit
<1>3. OwnerOK /\ InUse /\ NamesLive /\ LockOK /\ ConnOK
  BY DEF Init, OwnerOK, InUse, NamesLive, LockOK, ConnOK, Starts, Releases
<1> QED
  BY <1>2, <1>3 DEF IInv

\* The strengthened invariant: who owns the store, what each daemon still holds, and, until
\* another process has removed a file of a live daemon, what the two files say.
THEOREM LifecycleInductive == Spec => []IInv
<1>1. IInv /\ [Next]_vars => IInv'
  BY OwnerKept, InUseKept, NamesKept, LockKept, ConnKept, TypesKept DEF IInv
<1> QED
  BY <1>1, InitInv, PTL DEF Spec

\* Type correctness of the daemons, the control files and the clients.
THEOREM LifecycleTypes == Spec => []TypeOK
<1>1. IInv => TypeOK
  BY DEF IInv
<1> QED
  BY <1>1, LifecycleInductive, PTL

\* No two daemons answer requests, and the one that does owns the store, whatever happens
\* to the control files, the lock file included.
THEOREM OneServerOnly == Spec => []OneServer
<1>1. IInv => OneServer
  BY DEF IInv, OneServer, OwnerOK, Answers, Starts
<1> QED
  BY <1>1, LifecycleInductive, PTL

\* A daemon that serves is named by both files, until another process has removed a file of
\* a live daemon: failed starts, stops and withdrawn idle exits do not hide it.
THEOREM ServersAreNamed == Spec => []ServerIsNamed
<1>1. IInv => ServerIsNamed
  BY DEF IInv, ServerIsNamed, LockOK, ConnOK, Answers
<1> QED
  BY <1>1, LifecycleInductive, PTL

\* Whoever becomes owner, and recovers the store, finds no client that waits for the answer
\* of another daemon, unless of one that was told to stop twice.
THEOREM AnswersComeFirst == Spec => RecoversAfterAnswers
<1> DEFINE Nobody == \A d \in Daemons :
                       owner' = d /\ owner # d => \A e \in Daemons \ twice : calls[e] = {}
<1>1. ASSUME IInv, [Next]_vars PROVE Nobody
  <2> SUFFICES ASSUME NEW d \in Daemons, owner' = d, owner # d,
                      NEW e \in Daemons \ twice, calls[e] # {}
               PROVE  FALSE
    OBVIOUS
  <2>1. owner = None
    BY <1>1, NextActions DEF vars, Own, Lock, RemoveStale, WriteLock, CreateConnection,
       WriteConnection, ReleaseFailedStart, Stop, StopAgain, CloseStore, Unpublish, Unlock,
       Leave, IdleBegin, IdleRemove, IdleStay, IdleLeave, IdleOver, IdleEnd, Finish, WorkEnds,
       Crash, Discover, Reach, Busy, Refused, JudgeConnection, RemoveConnection, JudgeLock,
       RemoveLock, Spawn, GiveUp, Call, Respond, Abort, Reuse, Vacate, MayOwn, Ends,
       ClosesAtOnce, files, handlers
  <2>2. proc[e] \in {"publishing", "serving", "closing"} /\ e # None
    BY <1>1 DEF IInv, InUse
  <2> QED
    BY <1>1, <2>1, <2>2 DEF IInv, OwnerOK, Starts
<1>2. IInv /\ [Next]_vars => [Nobody]_vars
  BY <1>1
<1> QED
  BY <1>2, LifecycleInductive, PTL DEF Spec, RecoversAfterAnswers
=============================================================================
