-------------------------- MODULE ExplorerFeedProofs --------------------------
(***************************************************************************)
(* What the feed's consumer and the projections keep for any number of     *)
(* pages and operations, any sizes of the feed's pages and of the cache,   *)
(* and any number of failures.                                             *)
(***************************************************************************)
EXTENDS ExplorerFeed, TLAPS

FeedOK == checkpoint <= head /\ AcknowledgedIsAnnounced

\* A drain has announced what precedes the record it is at, and holds records that exist.
DrainOK(t) ==
    task[t].pc \in {"processing", "acknowledging"} =>
        /\ task[t].upto <= head
        /\ \A n \in Records : n < task[t].next => n \in announced
        /\ IF task[t].pc = "processing" THEN task[t].next \in 1..task[t].upto
                                        ELSE task[t].next = task[t].upto + 1
DrainsOK == \A t \in Tasks : DrainOK(t)

\* A request that has its inputs has those of its cursor.
InputOK(t) == task[t].pc \in {"comparing", "saving", "serving"} => task[t].rows = task[t].at
InputsOK == \A t \in Tasks : InputOK(t)

IInv == TypeOK /\ FeedOK /\ DrainsOK /\ InputsOK /\ WholeProjections

USE ExplorerAssumption

\* The tasks that a step leaves alone.
Others(t) == \A u \in Tasks \ {t} : task'[u] = task[u]

-----------------------------------------------------------------------------
\* An empty ledger, and no projection.
LEMMA InitInv == Init => IInv
<1> SUFFICES ASSUME Init PROVE IInv
  OBVIOUS
<1>1. Idle \in Task /\ Blank \in Page
  BY DEF Idle, Task, Blank, Page
<1>2. TypeOK
  BY <1>1 DEF Init, TypeOK
<1>3. FeedOK /\ DrainsOK /\ InputsOK /\ WholeProjections
  BY <1>1 DEF Init, FeedOK, AcknowledgedIsAnnounced, DrainsOK, DrainOK, InputsOK, InputOK, WholeProjections, Idle, Blank
<1> QED
  BY <1>2, <1>3 DEF IInv

Pcs == {"idle", "authority", "listing", "processing", "acknowledging", "inputs",
        "comparing", "saving", "serving", "subscribing"}

Is(r, pc, at, rows, next, upto) ==
    /\ r \in Task
    /\ r.pc = pc /\ r.at = at /\ r.rows = rows /\ r.next = next /\ r.upto = upto

\* A step of a task changes that task, to one with these fields, and no other.
Moves(t, pc, at, rows, next, upto) ==
    task' \in [Tasks -> Task] /\ Others(t) /\ Is(task'[t], pc, at, rows, next, upto)

\* The fields of a task.
LEMMA TaskIs ==
    ASSUME NEW r \in Task
    PROVE  /\ Is(r, r.pc, r.at, r.rows, r.next, r.upto)
           /\ r.pc \in Pcs /\ r.at \in 0..MaxEvents /\ r.rows \in 0..MaxEvents
           /\ r.next \in 0..(MaxEvents + 1) /\ r.upto \in 0..MaxEvents /\ r.more \in BOOLEAN
  BY DEF Task, Pcs, Is

\* A task that has not begun is at zero.
LEMMA IdleIs ==
    ASSUME NEW pc \in Pcs
    PROVE  Is(Idle, "idle", 0, 0, 0, 0) /\ Is([Idle EXCEPT !.pc = pc], pc, 0, 0, 0, 0)
<1>1. Is(Idle, "idle", 0, 0, 0, 0)
  BY DEF Idle, Task, Is
<1> QED
  BY <1>1 DEF Task, Is, Pcs

\* A task whose batch is replaced.
LEMMA Batched ==
    ASSUME NEW r \in Task, NEW pc \in Pcs, NEW next \in 0..(MaxEvents + 1),
           NEW upto \in 0..MaxEvents, NEW more \in BOOLEAN
    PROVE  Is([r EXCEPT !.pc = pc, !.next = next, !.upto = upto, !.more = more],
              pc, r.at, r.rows, next, upto)
<1> DEFINE r1 == [r EXCEPT !.pc = pc]
           r2 == [r1 EXCEPT !.next = next]
           r3 == [r2 EXCEPT !.upto = upto]
           r4 == [r3 EXCEPT !.more = more]
<1>1. [r EXCEPT !.pc = pc, !.next = next, !.upto = upto, !.more = more] = r4
  OBVIOUS
<1>2. Is(r1, pc, r.at, r.rows, r.next, r.upto)
  BY DEF Task, Is, Pcs
<1> HIDE DEF r1
<1>3. Is(r2, pc, r.at, r.rows, next, r.upto)
  BY <1>2 DEF Is, Task
<1> HIDE DEF r2
<1>4. Is(r3, pc, r.at, r.rows, next, upto)
  BY <1>3 DEF Is, Task
<1> HIDE DEF r3
<1>5. Is(r4, pc, r.at, r.rows, next, upto)
  BY <1>4 DEF Is, Task
<1> QED
  BY <1>1, <1>5

\* A task that goes on with other inputs.
LEMMA Informed ==
    ASSUME NEW r \in Task, NEW pc \in Pcs, NEW at \in 0..MaxEvents, NEW rows \in 0..MaxEvents
    PROVE  /\ Is([r EXCEPT !.pc = pc], pc, r.at, r.rows, r.next, r.upto)
           /\ Is([r EXCEPT !.pc = pc, !.at = at], pc, at, r.rows, r.next, r.upto)
           /\ Is([r EXCEPT !.pc = pc, !.rows = rows], pc, r.at, rows, r.next, r.upto)
           /\ Is([r EXCEPT !.pc = pc, !.at = at, !.rows = rows], pc, at, rows, r.next, r.upto)
<1> DEFINE r1 == [r EXCEPT !.pc = pc]
           r2 == [r1 EXCEPT !.at = at]
           r3 == [r1 EXCEPT !.rows = rows]
           r4 == [r2 EXCEPT !.rows = rows]
<1>1. /\ [r EXCEPT !.pc = pc, !.at = at] = r2 /\ [r EXCEPT !.pc = pc, !.rows = rows] = r3
      /\ [r EXCEPT !.pc = pc, !.at = at, !.rows = rows] = r4
  OBVIOUS
<1>2. Is(r1, pc, r.at, r.rows, r.next, r.upto)
  BY DEF Task, Is, Pcs
<1>3. [r EXCEPT !.pc = pc] = r1
  OBVIOUS
<1> HIDE DEF r1
<1>4. Is(r2, pc, at, r.rows, r.next, r.upto) /\ Is(r3, pc, r.at, rows, r.next, r.upto)
  BY <1>2 DEF Is, Task
<1> HIDE DEF r2
<1>5. Is(r4, pc, at, rows, r.next, r.upto)
  BY <1>4 DEF Is, Task
<1> HIDE DEF r3, r4
<1> QED
  BY <1>1, <1>2, <1>3, <1>4, <1>5

\* Replacing one task by a task moves that one only.
LEMMA Placed ==
    ASSUME TypeOK, NEW t \in Tasks, NEW r, NEW pc, NEW at, NEW rows, NEW next, NEW upto,
           Is(r, pc, at, rows, next, upto), task' = [task EXCEPT ![t] = r]
    PROVE  Moves(t, pc, at, rows, next, upto)
  BY DEF TypeOK, Others, Moves, Is

\* Going to another step changes nothing else of the task.
LEMMA GotoMoves ==
    ASSUME TypeOK, NEW t \in Tasks, NEW pc \in Pcs, Goto(t, pc)
    PROVE  Moves(t, pc, task[t].at, task[t].rows, task[t].next, task[t].upto)
<1> DEFINE r == [task[t] EXCEPT !.pc = pc]
<1>1. task' = [task EXCEPT ![t] = r]
  BY DEF Goto
<1>2. Is(r, pc, task[t].at, task[t].rows, task[t].next, task[t].upto)
  BY Informed DEF TypeOK
<1> HIDE DEF r
<1> QED
  BY <1>1, <1>2, Placed

\* A drain that ends leaves its task idle, or goes on with its request.
LEMMA DrainEndMoves ==
    ASSUME TypeOK, NEW t \in Tasks, DrainEnds(t)
    PROVE  \E pc \in {"idle", "inputs"}, at \in 0..MaxEvents, rows \in 0..MaxEvents :
                Moves(t, pc, at, rows, 0, 0)
<1>1. CASE t \in Committers
  <2>1. Is(Idle, "idle", 0, 0, 0, 0)
    BY IdleIs DEF Pcs
  <2>2. Moves(t, "idle", 0, 0, 0, 0)
    BY <1>1, <2>1, Placed DEF DrainEnds
  <2> QED
    BY <2>2
<1>2. CASE t \notin Committers
  <2> DEFINE r == [task[t] EXCEPT !.pc = "inputs", !.next = 0, !.upto = 0, !.more = FALSE]
  <2>1. task' = [task EXCEPT ![t] = r]
    BY <1>2 DEF DrainEnds
  <2>2. Is(r, "inputs", task[t].at, task[t].rows, 0, 0)
    <3>1. task[t] \in Task /\ "inputs" \in Pcs /\ FALSE \in BOOLEAN /\ 0 \in 0..MaxEvents /\ 0 \in 0..(MaxEvents + 1)
      BY DEF TypeOK, Pcs
    <3> QED
      BY <3>1, Batched
  <2> HIDE DEF r
  <2>3. Moves(t, "inputs", task[t].at, task[t].rows, 0, 0)
    BY <2>1, <2>2, Placed
  <2> QED
    BY <2>3, TaskIs DEF TypeOK
<1> QED
  BY <1>1, <1>2

-----------------------------------------------------------------------------
(* Which tasks a step can disturb                                          *)

\* The parts about tasks, where one task moves and the feed only grows.
LEMMA TasksKept ==
    ASSUME TypeOK, DrainsOK, InputsOK, NEW t \in Tasks, Others(t),
           head' \in Nat, head <= head', announced \subseteq announced',
           DrainOK(t)', InputOK(t)'
    PROVE  DrainsOK' /\ InputsOK'
<1>1. ASSUME NEW u \in Tasks, u # t PROVE DrainOK(u)' /\ InputOK(u)'
  <2>1. task'[u] = task[u] /\ task[u].upto \in Nat /\ head \in Nat
    BY <1>1, TaskIs DEF Others, TypeOK
  <2>2. InputOK(u)'
    BY <2>1 DEF InputsOK, InputOK
  <2>3. DrainOK(u)'
    BY <2>1 DEF DrainsOK, DrainOK
  <2> QED
    BY <2>2, <2>3
<1> QED
  BY <1>1 DEF DrainsOK, InputsOK

\* A step after which the task holds no batch.
LEMMA Quiet ==
    ASSUME IInv, NEW t \in Tasks, NEW pc, NEW at, NEW rows, NEW next, NEW upto,
           Moves(t, pc, at, rows, next, upto),
           head' \in 0..MaxEvents, head <= head', UNCHANGED <<checkpoint, announced>>,
           pc \notin {"processing", "acknowledging"},
           pc \in {"comparing", "saving", "serving"} => rows = at
    PROVE  task' \in [Tasks -> Task] /\ FeedOK' /\ DrainsOK' /\ InputsOK'
<1>1. task' \in [Tasks -> Task] /\ DrainOK(t)' /\ InputOK(t)' /\ Others(t)
  BY DEF Moves, Is, DrainOK, InputOK
<1>2. head' \in Nat /\ announced \subseteq announced'
  OBVIOUS
<1>3. DrainsOK' /\ InputsOK'
  BY <1>1, <1>2, TasksKept DEF IInv
<1>4. FeedOK'
  BY DEF IInv, TypeOK, FeedOK, AcknowledgedIsAnnounced
<1> QED
  BY <1>1, <1>3, <1>4

-----------------------------------------------------------------------------
(* Drains                                                                  *)

\* A commit grows the ledger or repeats an append; its operation drains the feed next.
LEMMA CommitStep == ASSUME IInv, NEW c \in Committers, Commit(c) PROVE IInv'
<1>1. c \in Tasks /\ head' \in 0..MaxEvents /\ head <= head' /\ TypeOK
  BY DEF Tasks, Commit, IInv, TypeOK
<1>2. Is([Idle EXCEPT !.pc = "listing"], "listing", 0, 0, 0, 0)
  BY IdleIs DEF Pcs
<1>3. Moves(c, "listing", 0, 0, 0, 0)
  BY <1>1, <1>2, Placed DEF Commit
<1>4. task' \in [Tasks -> Task] /\ FeedOK' /\ DrainsOK' /\ InputsOK'
  BY <1>1, <1>3, Quiet DEF Commit
<1>5. TypeOK' /\ WholeProjections'
  BY <1>1, <1>4 DEF Commit, IInv, TypeOK, WholeProjections, cache
<1> QED
  BY <1>4, <1>5 DEF IInv

\* A batch ends at a record that exists, past the checkpoint.
LEMMA UptoIs ==
    ASSUME TypeOK, checkpoint < head
    PROVE  Upto(checkpoint) \in (checkpoint + 1)..head
  BY DEF TypeOK, Upto

\* Listing a batch begins right after the checkpoint.
LEMMA ListStep == ASSUME IInv, NEW t \in Tasks, List(t) PROVE IInv'
<1> USE DEF After
<1>1. TypeOK /\ head' = head /\ checkpoint <= head
  BY DEF IInv, List, FeedOK
<1>2. CASE checkpoint = head
  <2>1. PICK pc \in {"idle", "inputs"}, at \in 0..MaxEvents, rows \in 0..MaxEvents :
            Moves(t, pc, at, rows, 0, 0)
    BY <1>1, <1>2, DrainEndMoves DEF List
  <2>2. head' \in 0..MaxEvents /\ head <= head' /\ UNCHANGED <<checkpoint, announced, delivered>>
    BY <1>1, <1>2 DEF TypeOK, List
  <2>3. task' \in [Tasks -> Task] /\ FeedOK' /\ DrainsOK' /\ InputsOK'
    BY <2>1, <2>2, Quiet
  <2>4. TypeOK' /\ WholeProjections'
    BY <2>2, <2>3 DEF List, IInv, TypeOK, WholeProjections, cache
  <2> QED
    BY <2>3, <2>4 DEF IInv
<1>3. CASE checkpoint # head
  <2> DEFINE upto == Upto(checkpoint)
             more == Upto(checkpoint) < head
             r == [task[t] EXCEPT !.pc = "processing", !.next = checkpoint + 1,
                                  !.upto = upto, !.more = more]
  <2>1. upto \in (checkpoint + 1)..head /\ more \in BOOLEAN
    BY <1>1, <1>3, UptoIs DEF TypeOK
  <2> HIDE DEF upto, more
  <2>2. /\ task[t] \in Task /\ "processing" \in Pcs /\ checkpoint + 1 \in 0..(MaxEvents + 1)
        /\ upto \in 0..MaxEvents
    BY <1>1, <2>1 DEF TypeOK, Pcs
  <2>3. Is(r, "processing", task[t].at, task[t].rows, checkpoint + 1, upto)
    BY <2>1, <2>2, Batched
  <2>4. task' = [task EXCEPT ![t] = r]
    BY <1>3 DEF List, upto, more
  <2> HIDE DEF r
  <2>5. Moves(t, "processing", task[t].at, task[t].rows, checkpoint + 1, upto)
    BY <1>1, <2>3, <2>4, Placed
  <2>6. UNCHANGED <<head, checkpoint, announced, cache, page, faults>>
    BY DEF List
  <2>7. DrainOK(t)' /\ InputOK(t)' /\ Others(t) /\ task' \in [Tasks -> Task]
    <3>1. upto <= head /\ checkpoint + 1 \in 1..upto
      BY <1>1, <2>1 DEF TypeOK
    <3>2. \A n \in Records : n < checkpoint + 1 => n \in announced
      BY <1>1 DEF TypeOK, Records, IInv, FeedOK, AcknowledgedIsAnnounced
    <3> QED
      BY <2>5, <2>6, <3>1, <3>2 DEF DrainOK, InputOK, Moves, Is
  <2>8. DrainsOK' /\ InputsOK'
    BY <1>1, <2>6, <2>7, TasksKept DEF IInv, TypeOK
  <2>9. delivered' \in 0..MaxEvents
    BY <1>1, <1>3, <2>2 DEF List, TypeOK, upto
  <2> QED
    BY <2>6, <2>7, <2>8, <2>9
    DEF IInv, TypeOK, FeedOK, AcknowledgedIsAnnounced, WholeProjections, cache
<1> QED
  BY <1>2, <1>3

\* Records are announced in order.
LEMMA ProcessRecordStep == ASSUME IInv, NEW t \in Tasks, ProcessRecord(t) PROVE IInv'
<1> DEFINE v == task[t]
           pc == IF v.next = v.upto THEN "acknowledging" ELSE "processing"
           r1 == [v EXCEPT !.next = @ + 1]
           r == [r1 EXCEPT !.pc = pc]
<1>1. TypeOK /\ v \in Task /\ v.pc = "processing" /\ v.next \in Nat /\ v.upto \in 0..MaxEvents
  BY TaskIs DEF IInv, TypeOK, ProcessRecord, At
<1>2. /\ v.next \in 1..v.upto /\ v.upto <= head
      /\ \A n \in Records : n < v.next => n \in announced
  BY <1>1 DEF IInv, DrainsOK, DrainOK
<1>3. task' = [task EXCEPT ![t] = r]
  BY DEF ProcessRecord
<1>4. v.next + 1 \in 0..(MaxEvents + 1) /\ pc \in Pcs
  BY <1>1, <1>2 DEF Pcs
<1> HIDE DEF v, pc
<1>5. Is(r1, v.pc, v.at, v.rows, v.next + 1, v.upto)
  BY <1>1, <1>4 DEF Task, Is
<1> HIDE DEF r1
<1>6. Is(r, pc, v.at, v.rows, v.next + 1, v.upto)
  BY <1>4, <1>5 DEF Task, Is, Pcs
<1> HIDE DEF r
<1>7. Moves(t, pc, v.at, v.rows, v.next + 1, v.upto)
  BY <1>1, <1>3, <1>6, Placed
<1>8. /\ announced' = announced \cup {v.next}
      /\ UNCHANGED <<head, checkpoint, delivered, cached, faults>>
  BY DEF ProcessRecord, v
<1>9. DrainOK(t)' /\ InputOK(t)' /\ Others(t) /\ task' \in [Tasks -> Task]
  <2>1. \A n \in Records : n < v.next + 1 => n \in announced'
    BY <1>1, <1>2, <1>8 DEF Records
  <2>2. v.upto <= head'
    BY <1>2, <1>8
  <2>3. /\ pc \in {"processing", "acknowledging"}
        /\ IF pc = "processing" THEN v.next + 1 \in 1..v.upto ELSE v.next + 1 = v.upto + 1
    BY <1>1, <1>2 DEF pc
  <2> QED
    BY <1>7, <2>1, <2>2, <2>3 DEF DrainOK, InputOK, Moves, Is
<1>10. DrainsOK' /\ InputsOK'
  BY <1>1, <1>8, <1>9, TasksKept DEF IInv, TypeOK
<1>11. /\ page' \in [Pages -> Page]
       /\ \A p \in Pages : page'[p].shown = page[p].shown
  BY <1>1 DEF ProcessRecord, TypeOK, Page
<1>12. TypeOK'
  <2>1. v.next \in Records
    BY <1>1, <1>2 DEF Records
  <2>2. invalid' \subseteq cached
    BY <1>1 DEF ProcessRecord, TypeOK
  <2> QED
    BY <1>1, <1>8, <1>9, <1>11, <2>1, <2>2 DEF TypeOK
<1>13. FeedOK' /\ WholeProjections'
  BY <1>8, <1>11 DEF IInv, FeedOK, AcknowledgedIsAnnounced, WholeProjections
<1> QED
  BY <1>9, <1>10, <1>12, <1>13 DEF IInv

\* The checkpoint moves to the end of a batch whose records were announced.
LEMMA AcknowledgeStep == ASSUME IInv, NEW t \in Tasks, Acknowledge(t) PROVE IInv'
<1>1. /\ TypeOK /\ task[t] \in Task /\ task[t].upto \in 0..MaxEvents
      /\ UNCHANGED <<head, delivered, announced, cache, page, faults>>
  BY TaskIs DEF IInv, TypeOK, Acknowledge
<1>2. task[t].upto <= head /\ \A n \in Records : n < task[t].upto + 1 => n \in announced
  BY DEF IInv, DrainsOK, DrainOK, Acknowledge, At
<1>3. checkpoint' \in 0..MaxEvents /\ FeedOK'
  <2>1. checkpoint' = checkpoint \/ checkpoint' = task[t].upto
    BY DEF Acknowledge, AckUpto
  <2>2. CASE checkpoint' = checkpoint
    BY <1>1, <2>2 DEF IInv, TypeOK, FeedOK, AcknowledgedIsAnnounced
  <2>3. CASE checkpoint' = task[t].upto
    BY <1>1, <1>2, <2>3 DEF FeedOK, AcknowledgedIsAnnounced, Records
  <2> QED
    BY <2>1, <2>2, <2>3
<1>4. \E pc \in {"listing", "idle", "inputs"} : \E at, rows, next, upto :
          Moves(t, pc, at, rows, next, upto)
  <2>1. CASE task[t].more
    BY <1>1, <2>1, GotoMoves DEF Acknowledge, Pcs
  <2>2. CASE ~task[t].more
    BY <1>1, <2>2, DrainEndMoves DEF Acknowledge
  <2> QED
    BY <2>1, <2>2
<1>5. task' \in [Tasks -> Task] /\ Others(t) /\ DrainOK(t)' /\ InputOK(t)'
  BY <1>4 DEF Moves, Is, DrainOK, InputOK
<1>6. DrainsOK' /\ InputsOK'
  BY <1>1, <1>5, TasksKept DEF IInv, TypeOK
<1>7. TypeOK' /\ WholeProjections'
  BY <1>1, <1>3, <1>5 DEF IInv, TypeOK, WholeProjections, cache
<1> QED
  BY <1>3, <1>6, <1>7 DEF IInv

-----------------------------------------------------------------------------
(* Requests                                                                *)

\* What a step of a request, or the end of any task, has to show of the rest.
LEMMA Answered ==
    ASSUME IInv, NEW t \in Tasks, NEW pc, NEW at, NEW rows, NEW next, NEW upto,
           Moves(t, pc, at, rows, next, upto), UNCHANGED feed,
           pc \notin {"processing", "acknowledging"},
           pc \in {"comparing", "saving", "serving"} => rows = at,
           page' \in [Pages -> Page], cached' \subseteq Projection, invalid' \subseteq cached',
           faults' \in 0..MaxFaults, WholeProjections'
    PROVE  IInv'
<1>1. /\ head' \in 0..MaxEvents /\ head <= head'
      /\ UNCHANGED <<checkpoint, delivered, announced>>
  BY DEF IInv, TypeOK, feed
<1>2. task' \in [Tasks -> Task] /\ FeedOK' /\ DrainsOK' /\ InputsOK'
  BY <1>1, Quiet
<1>3. TypeOK'
  BY <1>1, <1>2 DEF IInv, TypeOK
<1> QED
  BY <1>2, <1>3 DEF IInv

\* Steps that leave cache and pages alone show nothing.
LEMMA Unshown ==
    ASSUME IInv, UNCHANGED <<cache, page>>
    PROVE  /\ page' \in [Pages -> Page] /\ cached' \subseteq Projection /\ invalid' \subseteq cached'
           /\ WholeProjections'
  BY DEF IInv, TypeOK, WholeProjections, cache

\* A task that ends, whatever it was at.
LEMMA EndsStep ==
    ASSUME IInv, NEW t \in Tasks, task' = [task EXCEPT ![t] = Idle],
           UNCHANGED <<feed, cache, page>>, faults' \in 0..MaxFaults
    PROVE  IInv'
<1>1. TypeOK /\ Is(Idle, "idle", 0, 0, 0, 0)
  BY IdleIs DEF IInv, Pcs
<1>2. Moves(t, "idle", 0, 0, 0, 0)
  BY <1>1, Placed
<1> QED
  BY <1>2, Answered, Unshown

\* A call that fails ends its task.
LEMMA FailStep == ASSUME IInv, NEW t \in Tasks, Fail(t) PROVE IInv'
<1>1. faults' \in 0..MaxFaults
  BY DEF Fail, Fault, IInv, TypeOK
<1> QED
  BY <1>1, EndsStep DEF Fail

\* A page that is not open.
LEMMA BlankIsPage == Blank \in Page
  BY DEF Blank, Page

\* A request begins with nothing read.
LEMMA RequestStep == ASSUME IInv, NEW p \in Pages, Request(p) PROVE IInv'
<1>1. p \in Tasks /\ TypeOK /\ faults' \in 0..MaxFaults
  BY DEF Tasks, Request, IInv, TypeOK
<1>2. Is([Idle EXCEPT !.pc = "authority"], "authority", 0, 0, 0, 0)
  BY IdleIs DEF Pcs
<1>3. Moves(p, "authority", 0, 0, 0, 0)
  BY <1>1, <1>2, Placed DEF Request
<1>4. page' = [page EXCEPT ![p] = Blank] /\ UNCHANGED <<feed, cache>>
  BY DEF Request
<1>5. Blank.shown = None
  BY DEF Blank
<1>6. page' \in [Pages -> Page]
  BY <1>1, <1>4, BlankIsPage DEF TypeOK
<1>7. WholeProjections' /\ cached' \subseteq Projection /\ invalid' \subseteq cached'
  BY <1>1, <1>4, <1>5 DEF IInv, TypeOK, WholeProjections, cache
<1> QED
  BY <1>1, <1>3, <1>4, <1>6, <1>7, Answered

\* The cursor is that of the rows there are.
LEMMA ReadAuthorityStep == ASSUME IInv, NEW p \in Pages, ReadAuthority(p) PROVE IInv'
<1>1. p \in Tasks /\ TypeOK /\ faults' \in 0..MaxFaults /\ UNCHANGED <<feed, cache, page>>
  BY DEF Tasks, ReadAuthority, IInv, TypeOK
<1>2. CASE RequestFails(p)
  BY <1>1, <1>2, EndsStep DEF RequestFails
<1>3. CASE task' = [task EXCEPT ![p].pc = "listing", ![p].at = head]
  <2> DEFINE r == [task[p] EXCEPT !.pc = "listing", !.at = head]
  <2>1. task' = [task EXCEPT ![p] = r]
    BY <1>3
  <2>2. task[p] \in Task /\ "listing" \in Pcs /\ head \in 0..MaxEvents
    BY <1>1 DEF TypeOK, Pcs
  <2>3. Is(r, "listing", head, task[p].rows, task[p].next, task[p].upto)
    BY <2>2, Informed
  <2> HIDE DEF r
  <2>4. Moves(p, "listing", head, task[p].rows, task[p].next, task[p].upto)
    BY <1>1, <2>1, <2>3, Placed
  <2> QED
    BY <1>1, <2>4, Answered, Unshown
<1> QED
  BY <1>2, <1>3 DEF ReadAuthority

\* Inputs are read with the cursor they belong to.
LEMMA ReadInputsStep == ASSUME IInv, NEW p \in Pages, ReadInputs(p) PROVE IInv'
<1>1. /\ p \in Tasks /\ TypeOK /\ faults' \in 0..MaxFaults /\ UNCHANGED <<feed, cache, page>>
      /\ task[p] \in Task /\ task[p].at \in 0..MaxEvents
      /\ "comparing" \in Pcs /\ "serving" \in Pcs
  BY TaskIs DEF Tasks, ReadInputs, IInv, TypeOK, Pcs
<1>2. CASE RequestFails(p)
  BY <1>1, <1>2, EndsStep DEF RequestFails
<1>3. CASE /\ task[p].at = 0 \/ CursorIsCurrent(p)
           /\ task' = [task EXCEPT ![p].pc = "comparing", ![p].rows = Rows(p)]
  <2> DEFINE r == [task[p] EXCEPT !.pc = "comparing", !.rows = Rows(p)]
  <2>1. Rows(p) = task[p].at
    BY <1>3 DEF Rows, CursorIsCurrent
  <2>2. task' = [task EXCEPT ![p] = r]
    BY <1>3
  <2>3. Is(r, "comparing", task[p].at, Rows(p), task[p].next, task[p].upto)
    BY <1>1, <2>1, Informed
  <2> HIDE DEF r
  <2>4. Moves(p, "comparing", task[p].at, Rows(p), task[p].next, task[p].upto)
    BY <1>1, <2>2, <2>3, Placed
  <2> QED
    BY <1>1, <2>1, <2>4, Answered, Unshown
<1>4. CASE \E x \in Hits(p) :
               task' = [task EXCEPT ![p].pc = "serving", ![p].at = x.at, ![p].rows = x.rows]
  <2>1. PICK x \in Hits(p) :
            task' = [task EXCEPT ![p].pc = "serving", ![p].at = x.at, ![p].rows = x.rows]
    BY <1>4
  <2> DEFINE at == x.at
             rows == x.rows
             r == [task[p] EXCEPT !.pc = "serving", !.at = at, !.rows = rows]
  <2>2. at \in 0..MaxEvents /\ rows \in 0..MaxEvents /\ rows = at
    BY DEF Hits, IInv, TypeOK, Projection, WholeProjections, Whole
  <2>3. task' = [task EXCEPT ![p] = r]
    BY <2>1
  <2> HIDE DEF at, rows
  <2>4. Is(r, "serving", at, rows, task[p].next, task[p].upto)
    BY <1>1, <2>2, Informed
  <2> HIDE DEF r
  <2>5. Moves(p, "serving", at, rows, task[p].next, task[p].upto)
    BY <1>1, <2>3, <2>4, Placed
  <2> QED
    BY <1>1, <2>2, <2>5, Answered, Unshown
<1> QED
  BY <1>2, <1>3, <1>4 DEF ReadInputs

\* Comparing only marks cached projections.
LEMMA CompareStep == ASSUME IInv, NEW p \in Pages, Compare(p) PROVE IInv'
<1>1. /\ p \in Tasks /\ TypeOK /\ faults' \in 0..MaxFaults /\ "saving" \in Pcs
      /\ UNCHANGED <<feed, cached, page>> /\ task[p].rows = task[p].at
  BY DEF Tasks, Compare, At, IInv, TypeOK, Pcs, InputsOK, InputOK
<1>2. Moves(p, "saving", task[p].at, task[p].rows, task[p].next, task[p].upto)
  BY <1>1, GotoMoves DEF Compare
<1>3. /\ page' \in [Pages -> Page] /\ cached' \subseteq Projection /\ invalid' \subseteq cached'
      /\ WholeProjections'
  BY <1>1 DEF Compare, IInv, TypeOK, WholeProjections
<1> QED
  BY <1>1, <1>2, <1>3, Answered

\* What a request compiles combines rows with their own cursor.
LEMMA CompiledIsWhole ==
    ASSUME IInv, NEW p \in Pages, task[p].pc \in {"comparing", "saving", "serving"}
    PROVE  Compiled(p) \in Projection /\ Whole(Compiled(p))
<1>1. p \in Tasks /\ task[p] \in Task
  BY DEF Tasks, IInv, TypeOK
<1>2. task[p].at \in 0..MaxEvents /\ task[p].rows \in 0..MaxEvents /\ task[p].rows = task[p].at
  BY <1>1, TaskIs DEF IInv, InputsOK, InputOK
<1> QED
  BY <1>2 DEF Compiled, Projected, Projection, Whole

\* What is saved is what was compiled.
LEMMA SaveStep == ASSUME IInv, NEW p \in Pages, Save(p) PROVE IInv'
<1>1. /\ p \in Tasks /\ TypeOK /\ faults' \in 0..MaxFaults /\ "serving" \in Pcs
      /\ UNCHANGED feed /\ task[p].rows = task[p].at /\ task[p].pc = "saving"
  BY DEF Tasks, Save, At, IInv, TypeOK, Pcs, InputsOK, InputOK
<1>2. Moves(p, "serving", task[p].at, task[p].rows, task[p].next, task[p].upto)
  BY <1>1, GotoMoves DEF Save
<1>3. Compiled(p) \in Projection /\ Whole(Compiled(p))
  BY <1>1, CompiledIsWhole
<1>4. cached' \subseteq cached \cup {Compiled(p)} /\ invalid' = {}
  BY DEF Save
<1>5. /\ page' \in [Pages -> Page]
      /\ \A q \in Pages : page'[q].shown = page[q].shown
  <2>1. PICK told \in BOOLEAN : page' = [q \in Pages |-> [page[q] EXCEPT !.reload = @ \/
            (told /\ page[q].live /\ page[q].shown # Compiled(p))]]
    BY DEF Save
  <2> QED
    BY <1>1, <2>1 DEF TypeOK, Page
<1>6. WholeProjections' /\ cached' \subseteq Projection
  BY <1>1, <1>3, <1>4, <1>5 DEF IInv, TypeOK, WholeProjections
<1> QED
  BY <1>1, <1>2, <1>4, <1>5, <1>6, Answered

\* What is served is cached or was compiled.
LEMMA ServeStep == ASSUME IInv, NEW p \in Pages, Serve(p) PROVE IInv'
<1>1. /\ p \in Tasks /\ TypeOK /\ faults' \in 0..MaxFaults /\ "subscribing" \in Pcs
      /\ UNCHANGED <<feed, cache>> /\ task[p].pc = "serving"
  BY DEF Tasks, Serve, At, IInv, TypeOK, Pcs
<1>2. Is([Idle EXCEPT !.pc = "subscribing"], "subscribing", 0, 0, 0, 0)
  BY <1>1, IdleIs
<1>3. Moves(p, "subscribing", 0, 0, 0, 0)
  BY <1>1, <1>2, Placed DEF Serve
<1>4. Compiled(p) \in Projection /\ Whole(Compiled(p))
  BY <1>1, CompiledIsWhole
<1>5. /\ page' \in [Pages -> Page] /\ page'[p].shown = Compiled(p)
      /\ \A q \in Pages \ {p} : page'[q].shown = page[q].shown
  BY <1>1, <1>4 DEF Serve, TypeOK, Page
<1>6. WholeProjections' /\ cached' \subseteq Projection /\ invalid' \subseteq cached'
  BY <1>1, <1>4, <1>5 DEF IInv, TypeOK, WholeProjections, cache
<1> QED
  BY <1>1, <1>3, <1>5, <1>6, Answered

\* Opening a stream shows nothing new.
LEMMA SubscribeStep == ASSUME IInv, NEW p \in Pages, Subscribe(p) PROVE IInv'
<1>1. /\ p \in Tasks /\ TypeOK /\ faults' \in 0..MaxFaults /\ UNCHANGED <<feed, cache>>
  BY DEF Tasks, Subscribe, IInv, TypeOK
<1>2. Is(Idle, "idle", 0, 0, 0, 0)
  BY IdleIs DEF Pcs
<1>3. Moves(p, "idle", 0, 0, 0, 0)
  BY <1>1, <1>2, Placed DEF Subscribe
<1>4. /\ page' \in [Pages -> Page]
      /\ \A q \in Pages : page'[q].shown = page[q].shown
  BY <1>1 DEF Subscribe, TypeOK, Page
<1>5. WholeProjections' /\ cached' \subseteq Projection /\ invalid' \subseteq cached'
  BY <1>1, <1>4 DEF IInv, TypeOK, WholeProjections, cache
<1> QED
  BY <1>1, <1>3, <1>4, <1>5, Answered

-----------------------------------------------------------------------------
(* The end of a session and of the daemon                                  *)

\* Ending the streams leaves what the pages show.
LEMMA DarkIs ==
    ASSUME TypeOK
    PROVE  Dark \in [Pages -> Page] /\ \A p \in Pages : Dark[p].shown = page[p].shown
  BY DEF Dark, TypeOK, Page

\* The session ends; its pages keep what they show.
LEMMA EndSessionStep == ASSUME IInv, EndSession PROVE IInv'
<1>1. TypeOK' /\ WholeProjections'
  BY DarkIs DEF EndSession, IInv, TypeOK, WholeProjections, feed, cache
<1>2. FeedOK' /\ DrainsOK' /\ InputsOK'
  BY DEF EndSession, IInv, FeedOK, AcknowledgedIsAnnounced, DrainsOK, DrainOK, InputsOK, InputOK, feed
<1> QED
  BY <1>1, <1>2 DEF IInv

\* Tasks and streams die; the ledger and the feed stay, and some of the cache.
LEMMA CrashStep == ASSUME IInv, Crash PROVE IInv'
<1>1. /\ task' = [t \in Tasks |-> Idle] /\ page' = Dark /\ cached' \subseteq cached
      /\ invalid' = {} /\ UNCHANGED feed /\ faults' \in 0..MaxFaults
  BY DEF Crash, Fault, IInv, TypeOK
<1>2. Idle \in Task /\ Idle.pc = "idle"
  BY IdleIs DEF Pcs, Is
<1>3. TypeOK' /\ WholeProjections'
  BY <1>1, <1>2, DarkIs DEF IInv, TypeOK, WholeProjections, feed
<1>4. FeedOK' /\ DrainsOK' /\ InputsOK'
  BY <1>1, <1>2 DEF IInv, FeedOK, AcknowledgedIsAnnounced, DrainsOK, DrainOK, InputsOK, InputOK, feed
<1> QED
  BY <1>3, <1>4 DEF IInv

-----------------------------------------------------------------------------
\* The strengthened invariant: what each drain has announced of its batch, and that a
\* request which has its inputs has those of its cursor.
THEOREM ExplorerInductive == Spec => []IInv
<1>1. ASSUME IInv, [Next]_vars PROVE IInv'
  <2>1. ASSUME NEW t \in Tasks, Drain(t) \/ Fail(t) PROVE IInv'
    BY <1>1, <2>1, ListStep, ProcessRecordStep, AcknowledgeStep, FailStep DEF Drain
  <2>2. ASSUME NEW p \in Pages, Answer(p) PROVE IInv'
    BY <1>1, <2>2, ReadAuthorityStep, ReadInputsStep, CompareStep, SaveStep, ServeStep, SubscribeStep
    DEF Answer
  <2>3. ASSUME NEW p \in Pages, Visit(p) \/ Reload(p) PROVE IInv'
    BY <1>1, <2>3, RequestStep DEF Visit, Reload
  <2>4. CASE EndSession \/ Crash
    BY <1>1, <2>4, EndSessionStep, CrashStep
  <2>5. CASE UNCHANGED vars
    BY <1>1, <2>5 DEF vars, cache, IInv, TypeOK, FeedOK, AcknowledgedIsAnnounced, DrainsOK, DrainOK,
       InputsOK, InputOK, WholeProjections
  <2> QED
    BY <1>1, <2>1, <2>2, <2>3, <2>4, <2>5, CommitStep DEF Next
<1> QED
  BY <1>1, InitInv, PTL DEF Spec

\* Type correctness of the feed, the cache, the drains, the requests and the pages.
THEOREM ExplorerTypes == Spec => []TypeOK
<1>1. IInv => TypeOK
  BY DEF IInv
<1> QED
  BY <1>1, ExplorerInductive, PTL

\* The consumer acknowledges no record before its invalidation was announced, however many
\* drains overlap, overtake one another, fail or die with the daemon.
THEOREM NothingIsSkipped == Spec => []AcknowledgedIsAnnounced
<1>1. IInv => AcknowledgedIsAnnounced
  BY DEF IInv, FeedOK
<1> QED
  BY <1>1, ExplorerInductive, PTL

\* No projection, cached or shown, combines rows of the ledger with another cursor.
THEOREM ProjectionsAreWhole == Spec => []WholeProjections
<1>1. IInv => WholeProjections
  BY DEF IInv
<1> QED
  BY <1>1, ExplorerInductive, PTL
=============================================================================
