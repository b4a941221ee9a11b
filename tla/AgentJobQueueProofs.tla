-------------------------- MODULE AgentJobQueueProofs --------------------------
(***************************************************************************)
(* What the job queue keeps for every number of rows, workers, hooks and   *)
(* audits, every cap and every sequence of retries and cancels.            *)
(***************************************************************************)
EXTENDS AgentJobQueue, FiniteSetTheorems, TLAPS

\* A row is leased exactly while it runs, and is not active with its attempts used up.
RowOK(row) ==
    /\ row.status = "running" <=> row.owner # None
    /\ row.dead \/ row.attempts > row.max => row.status \notin Active
RowsOK == \A j \in Rows : RowOK(jobs[j])

\* A report acts on a row that exists, and is about to expire none of an audit.
ReportsOK ==
    \A r \in Reports : report[r].pc # "idle" =>
      /\ report[r].job \in Rows
      /\ report[r].plan = "expired" => jobs[report[r].job].kind # AuditKind

\* A sweep has listed rows that exist, and none of an audit.
HooksOK == \A h \in Hooks : \A j \in hook[h].left : j \in Rows /\ jobs[j].kind # AuditKind

IInv == TypeOK /\ OneActive /\ RowsOK /\ WorkersCapped /\ ReportsOK /\ HooksOK

HandlerTypes ==
    /\ hook \in [Hooks -> HookState] /\ report \in [Reports -> ReportState]
    /\ audit \in [Audits -> AuditState]

\* No sweep lists anything new in this step, and no report begins.
NothingBegins ==
    /\ \A h \in Hooks : hook'[h].left \subseteq hook[h].left
    /\ \A r \in Reports : report'[r].pc # "idle" =>
         /\ report[r].pc # "idle"
         /\ report'[r].job = report[r].job /\ report'[r].plan = report[r].plan

USE QueueAssumption, RowAssumption

-----------------------------------------------------------------------------
(* Rows                                                                    *)

\* Rows are numbered up to a bound, so every set of them can be counted.
LEMMA RowsFinite ==
    /\ IsFiniteSet(JobIds)
    /\ \A S \in SUBSET JobIds : IsFiniteSet(S) /\ Cardinality(S) \in Nat
<1>1. IsFiniteSet(JobIds)
  BY FS_Interval DEF JobIds
<1> QED
  BY <1>1, FS_Subset, FS_CardinalityType

\* What each operator on rows changes.
LEMMA ReleasedRow ==
    ASSUME NEW row \in Row, NEW status \in Status \ {"running"}
    PROVE  /\ Released(row, status) \in Row
           /\ Released(row, status).status = status
           /\ Released(row, status).owner = None
           /\ Released(row, status).kind = row.kind
           /\ Released(row, status).head = row.head
           /\ Released(row, status).pri = row.pri /\ Released(row, status).digest = row.digest
           /\ Released(row, status).attempts = row.attempts
           /\ Released(row, status).max = row.max
           /\ Released(row, status).dead = row.dead
  BY DEF Released, Row, Owners

\* Dead-lettering fails the row, frees it and keeps everything else.
LEMMA DeadRow ==
    ASSUME NEW row \in Row
    PROVE  /\ DeadLettered(row) \in Row
           /\ DeadLettered(row).status = "failed"
           /\ DeadLettered(row).owner = None
           /\ DeadLettered(row).kind = row.kind
           /\ DeadLettered(row).head = row.head
           /\ DeadLettered(row).pri = row.pri /\ DeadLettered(row).digest = row.digest
           /\ DeadLettered(row).attempts = row.attempts
           /\ DeadLettered(row).max = row.max
<1> DEFINE r == Released(row, "failed")
<1>1. "failed" \in Status \ {"running"}
  BY DEF Status
<1>2. /\ r \in Row /\ r.status = "failed" /\ r.owner = None /\ r.kind = row.kind
      /\ r.head = row.head /\ r.pri = row.pri /\ r.digest = row.digest /\ r.attempts = row.attempts /\ r.max = row.max
  BY <1>1, ReleasedRow
<1>3. DeadLettered(row) = [r EXCEPT !.dead = TRUE]
  BY DEF DeadLettered
<1> HIDE DEF r
<1> QED
  BY <1>2, <1>3 DEF Row

\* A claim uses up an attempt; past the last one the row is dead-lettered instead.
LEMMA TakenRow ==
    ASSUME NEW row \in Row, NEW p \in Workers \cup {Daemon}, row.attempts <= row.max
    PROVE  /\ Taken(row, p) \in Row
           /\ Taken(row, p).kind = row.kind
           /\ Taken(row, p).head = row.head
           /\ Taken(row, p).pri = row.pri /\ Taken(row, p).digest = row.digest
           /\ Taken(row, p).max = row.max
           /\ Taken(row, p).attempts = row.attempts + 1
           /\ row.attempts + 1 > row.max =>
                Taken(row, p).status = "failed" /\ Taken(row, p).owner = None
           /\ row.attempts + 1 <= row.max =>
                /\ Taken(row, p).status = "running"
                /\ Taken(row, p).owner = p
                /\ Taken(row, p).dead = row.dead
<1>1. row.attempts + 1 \in 0..(MaxAttempts + 1)
  BY DEF Row
<1>2. CASE row.attempts + 1 > row.max
  <2> DEFINE d == DeadLettered(row)
  <2>1. /\ d \in Row /\ d.status = "failed" /\ d.owner = None /\ d.kind = row.kind
        /\ d.head = row.head /\ d.pri = row.pri /\ d.digest = row.digest /\ d.attempts = row.attempts /\ d.max = row.max
    BY DeadRow
  <2>2. Taken(row, p) = [d EXCEPT !.attempts = d.attempts + 1]
    BY <1>2 DEF Taken
  <2> HIDE DEF d
  <2> QED
    BY <1>1, <1>2, <2>1, <2>2 DEF Row
<1>3. CASE row.attempts + 1 <= row.max
  <2> DEFINE t == Taken(row, p)
             o == p
             n == row.attempts + 1
  <2>1. o \in Owners
    BY DEF Owners
  <2>2. t = [row EXCEPT !.status = "running", !.attempts = n, !.owner = o, !.waiting = TRUE]
    BY <1>3 DEF Taken, Row
  <2>3. n \in 0..(MaxAttempts + 1) /\ "running" \in Status
    BY <1>1 DEF Status
  <2>4. ~(n > row.max)
    BY <1>3 DEF Row
  <2> HIDE DEF t, o, n
  <2>5. /\ t \in Row /\ t.kind = row.kind /\ t.head = row.head /\ t.pri = row.pri /\ t.digest = row.digest /\ t.max = row.max
        /\ t.attempts = n /\ t.status = "running" /\ t.owner = o /\ t.dead = row.dead
    BY <2>1, <2>2, <2>3 DEF Row
  <2> QED
    BY <2>4, <2>5 DEF t, o, n
<1> QED
  BY <1>2, <1>3 DEF Row

\* A failed attempt goes back to the queue while attempts are left.
LEMMA RetriedRow ==
    ASSUME NEW row \in Row
    PROVE  /\ Retried(row) \in Row
           /\ Retried(row).kind = row.kind
           /\ Retried(row).head = row.head
           /\ Retried(row).pri = row.pri /\ Retried(row).digest = row.digest
           /\ Retried(row).attempts = row.attempts
           /\ Retried(row).max = row.max
           /\ Retried(row).owner = None
           /\ row.attempts >= row.max => Retried(row).status = "failed"
           /\ row.attempts < row.max => Retried(row).status = "queued" /\ Retried(row).dead = FALSE
<1>1. CASE row.attempts >= row.max
  <2>1. Retried(row) = DeadLettered(row)
    BY <1>1 DEF Retried
  <2>2. ~(row.attempts < row.max)
    BY <1>1 DEF Row
  <2> QED
    BY <2>1, <2>2, DeadRow
<1>2. CASE ~(row.attempts >= row.max)
  <2> DEFINE r == Released(row, "queued")
             t == Retried(row)
  <2>1. "queued" \in Status \ {"running"}
    BY DEF Status
  <2>2. /\ r \in Row /\ r.status = "queued" /\ r.owner = None /\ r.kind = row.kind
        /\ r.head = row.head /\ r.pri = row.pri /\ r.digest = row.digest /\ r.attempts = row.attempts /\ r.max = row.max
    BY <2>1, ReleasedRow
  <2>3. t = [r EXCEPT !.dead = FALSE]
    BY <1>2 DEF Retried
  <2> HIDE DEF r, t
  <2>4. /\ t \in Row /\ t.status = "queued" /\ t.owner = None /\ t.kind = row.kind /\ t.dead = FALSE
        /\ t.head = row.head /\ t.pri = row.pri /\ t.digest = row.digest /\ t.attempts = row.attempts /\ t.max = row.max
    BY <2>2, <2>3 DEF Row
  <2> QED
    BY <1>2, <2>4 DEF t
<1> QED
  BY <1>1, <1>2

\* Settling a row gives it its status and frees it.
LEMMA CompletedRow ==
    ASSUME NEW row \in Row, NEW status \in {"succeeded", "failed"}
    PROVE  /\ Completed(row, status) \in Row
           /\ Completed(row, status).status = status
           /\ Completed(row, status).owner = None
           /\ Completed(row, status).kind = row.kind
           /\ Completed(row, status).head = row.head
           /\ Completed(row, status).pri = row.pri /\ Completed(row, status).digest = row.digest
           /\ Completed(row, status).attempts = row.attempts
           /\ Completed(row, status).max = row.max
<1>1. status \in Status \ {"running"}
  BY DEF Status
<1>2. CASE status = "failed" /\ row.attempts >= row.max
  BY <1>2, DeadRow DEF Completed
<1>3. CASE ~(status = "failed" /\ row.attempts >= row.max)
  <2>1. Completed(row, status) = Released(row, status)
    BY <1>3 DEF Completed
  <2> QED
    BY <1>1, <2>1, ReleasedRow
<1> QED
  BY <1>2, <1>3

\* A report leaves the row alone, completes it if the check passes, or expires it.
LEMMA SettledRow ==
    ASSUME NEW row \in Row, NEW id, NEW plan \in {"succeeded", "failed", "expired"}
    PROVE  LET new == Settled(row, id, plan)
           IN  /\ new \in Row
               /\ \/ new = row
                  \/ new.status \in {"succeeded", "failed", "expired"} /\ new.owner = None
               /\ new.status = "succeeded" /\ row.status = "running" => MayComplete(row, id)
               /\ new.status = "expired" /\ row.status = "running" => plan = "expired"
               /\ new.kind = row.kind /\ new.head = row.head /\ new.pri = row.pri /\ new.digest = row.digest
               /\ new.attempts = row.attempts /\ new.max = row.max
<1>1. "expired" \in Status \ {"running"}
  BY DEF Status
<1>2. CASE plan = "expired"
  <2>1. Settled(row, id, plan) = Released(row, "expired")
    BY <1>2 DEF Settled
  <2> QED
    BY <1>1, <1>2, <2>1, ReleasedRow
<1>3. CASE plan # "expired" /\ MayComplete(row, id)
  <2>1. Settled(row, id, plan) = Completed(row, plan) /\ plan \in {"succeeded", "failed"}
    BY <1>3 DEF Settled
  <2> QED
    BY <1>3, <2>1, CompletedRow
<1>4. CASE plan # "expired" /\ ~MayComplete(row, id)
  BY <1>4 DEF Settled
<1> QED
  BY <1>2, <1>3, <1>4

-----------------------------------------------------------------------------
(* Updates of the table                                                    *)

\* An update of one row that does not make it active against its twin, nor leased to a
\* worker past the cap.
LEMMA RowUpdate ==
    ASSUME TypeOK, OneActive, RowsOK, WorkersCapped,
           NEW j \in Rows, NEW r \in Row, RowOK(r),
           r.kind = jobs[j].kind, r.head = jobs[j].head,
           r.status \in Active => jobs[j].status \in Active \/ Unique(j),
           r.status = "running" /\ r.waiting /\ r.owner \in Workers =>
             \/ jobs[j].status = "running" /\ jobs[j].waiting /\ jobs[j].owner \in Workers
             \/ MayClaim,
           jobs' = [jobs EXCEPT ![j] = r]
    PROVE  /\ jobs' \in [JobIds -> Row \cup {None}]
           /\ Rows' = Rows
           /\ jobs'[j] = r
           /\ \A k \in JobIds : k # j => jobs'[k] = jobs[k]
           /\ OneActive' /\ RowsOK' /\ WorkersCapped'
<1>1. /\ jobs' \in [JobIds -> Row \cup {None}]
      /\ jobs'[j] = r
      /\ \A k \in JobIds : k # j => jobs'[k] = jobs[k]
  BY DEF TypeOK, Rows
<1>2. Rows' = Rows
  BY <1>1 DEF Rows
<1>3. OneActive'
  <2> SUFFICES ASSUME NEW a \in Rows, NEW b \in Rows,
                      jobs'[a].status \in Active, jobs'[b].status \in Active,
                      jobs'[a].kind = jobs'[b].kind, jobs'[a].head = jobs'[b].head
               PROVE  a = b
    BY <1>2 DEF OneActive
  <2>1. CASE a = j /\ b # j
    BY <1>1, <2>1 DEF OneActive, Unique, SameWork, Rows
  <2>2. CASE a # j /\ b = j
    BY <1>1, <2>2 DEF OneActive, Unique, SameWork, Rows
  <2>3. CASE a # j /\ b # j
    BY <1>1, <2>3 DEF OneActive, Rows
  <2> QED
    BY <2>1, <2>2, <2>3
<1>4. RowsOK'
  BY <1>1, <1>2 DEF RowsOK, RowOK, Rows
<1>5. WorkersCapped'
  <2> DEFINE W == {k \in LiveLeases : jobs[k].owner \in Workers}
  <2>1. W' \subseteq W \cup {j}
    BY <1>1, <1>2 DEF LiveLeases, With, Rows
  <2>2. W \subseteq LiveLeases /\ LiveLeases \subseteq JobIds
    BY DEF LiveLeases, With, Rows
  <2>3. /\ IsFiniteSet(W) /\ IsFiniteSet(LiveLeases) /\ Cardinality(W) <= Cardinality(LiveLeases)
        /\ Cardinality(W) \in Nat /\ Cardinality(LiveLeases) \in Nat
    BY <2>2, RowsFinite, FS_Subset
  <2>4. /\ IsFiniteSet(W \cup {j}) /\ Cardinality(W \cup {j}) \in Nat
        /\ Cardinality(W \cup {j}) <= Cardinality(W) + 1
    <3>1. /\ IsFiniteSet(W \cup {j})
          /\ Cardinality(W \cup {j}) = IF j \in W THEN Cardinality(W) ELSE Cardinality(W) + 1
      BY <2>3, FS_AddElement
    <3> QED
      BY <2>3, <3>1
  <2>5. CASE j \notin W' \/ j \in W
    <3>1. W' \subseteq W
      BY <2>1, <2>5
    <3>2. Cardinality(W') <= Cardinality(W) /\ Cardinality(W') \in Nat
      BY <3>1, <2>3, FS_Subset, FS_CardinalityType
    <3> QED
      BY <3>2, <2>3 DEF WorkersCapped
  <2>6. CASE j \in W' /\ j \notin W
    <3>1. MayClaim
      BY <2>6, <1>1, <1>2 DEF LiveLeases, With, Rows
    <3>2. Cardinality(W') <= Cardinality(W \cup {j}) /\ Cardinality(W') \in Nat
      BY <2>1, <2>4, FS_Subset, FS_CardinalityType
    <3> QED
      BY <3>1, <3>2, <2>3, <2>4 DEF WorkersCapped, MayClaim
  <2> QED
    BY <2>5, <2>6
<1> QED
  BY <1>1, <1>2, <1>3, <1>4, <1>5

\* A row is inserted: what was queued may leave the queue, what ran runs on.
LEMMA InsertKeeps ==
    ASSUME TypeOK, OneActive, RowsOK, WorkersCapped,
           NEW j \in JobIds, j \notin Rows, NEW row \in Row, RowOK(row), row.status = "queued",
           SameWork(row.kind, row.head) = {},
           NEW E \in SUBSET With("queued"), Insert(j, row, E)
    PROVE  /\ jobs' \in [JobIds -> Row \cup {None}]
           /\ Rows' = Rows \cup {j}
           /\ jobs'[j] = row
           /\ \A k \in Rows :
                /\ jobs'[k].kind = jobs[k].kind /\ jobs'[k].head = jobs[k].head /\ jobs'[k].digest = jobs[k].digest
                /\ jobs'[k].max = jobs[k].max /\ jobs'[k].attempts = jobs[k].attempts
                /\ \/ jobs'[k] = jobs[k]
                   \/ /\ jobs[k].status = "queued" /\ jobs'[k].status \in {"superseded", "expired"}
                      /\ jobs'[k].owner = None
           /\ OneActive' /\ RowsOK' /\ WorkersCapped'
<1> DEFINE S == Superseded(row.kind)
<1>1. S \subseteq With("queued") /\ With("queued") \subseteq Rows /\ Rows \subseteq JobIds
  BY DEF Superseded, With, Rows
<1>2. "superseded" \in Status \ {"running"} /\ "expired" \in Status \ {"running"}
  BY DEF Status
<1>3. \A k \in Rows : jobs[k] \in Row
  BY DEF TypeOK, Rows
<1>4. /\ jobs'[j] = row
      /\ \A k \in JobIds : k # j =>
           jobs'[k] = IF k \in S THEN Released(jobs[k], "superseded")
                      ELSE IF k \in E THEN Released(jobs[k], "expired") ELSE jobs[k]
      /\ DOMAIN jobs' = JobIds /\ jobs' = [k \in JobIds |-> jobs'[k]]
  BY DEF Insert
<1> HIDE DEF S
<1>5. ASSUME NEW k \in Rows
      PROVE  /\ jobs'[k] \in Row
             /\ jobs'[k].kind = jobs[k].kind /\ jobs'[k].head = jobs[k].head /\ jobs'[k].digest = jobs[k].digest
             /\ jobs'[k].max = jobs[k].max /\ jobs'[k].attempts = jobs[k].attempts
             /\ \/ jobs'[k] = jobs[k]
                \/ /\ jobs[k].status = "queued" /\ jobs'[k].status \in {"superseded", "expired"}
                   /\ jobs'[k].owner = None
  <2>0. k \in JobIds /\ k # j
    BY <1>1
  <2>1. CASE k \in S
    <3>1. jobs'[k] = Released(jobs[k], "superseded") /\ jobs[k].status = "queued"
      BY <1>1, <1>4, <2>0, <2>1 DEF With
    <3> QED
      BY <1>2, <1>3, <3>1, ReleasedRow
  <2>2. CASE k \notin S /\ k \in E
    <3>1. jobs'[k] = Released(jobs[k], "expired") /\ jobs[k].status = "queued"
      BY <1>4, <2>0, <2>2 DEF With
    <3> QED
      BY <1>2, <1>3, <3>1, ReleasedRow
  <2>3. CASE k \notin S /\ k \notin E
    BY <1>3, <1>4, <2>0, <2>3
  <2> QED
    BY <2>1, <2>2, <2>3
<1>6. \A k \in JobIds : k # j /\ k \notin Rows => jobs'[k] = None
  BY <1>1, <1>4 DEF Rows
<1>7. jobs' \in [JobIds -> Row \cup {None}]
  BY <1>4, <1>5, <1>6
<1>8. Rows' = Rows \cup {j}
  <2>1. \A k \in Rows : jobs'[k] # None
    BY <1>5
  <2>2. jobs'[j] # None
    BY <1>4
  <2> QED
    BY <1>1, <1>6, <2>1, <2>2 DEF Rows
<1>9. OneActive'
  <2> SUFFICES ASSUME NEW a \in Rows \cup {j}, NEW b \in Rows \cup {j},
                      jobs'[a].status \in Active, jobs'[b].status \in Active,
                      jobs'[a].kind = jobs'[b].kind, jobs'[a].head = jobs'[b].head
               PROVE  a = b
    BY <1>8 DEF OneActive
  <2>1. \A k \in Rows : jobs'[k].status \in Active => jobs[k].status \in Active
    BY <1>5 DEF Active
  <2>2. \A k \in Rows : jobs[k].status \in Active => ~(jobs[k].kind = row.kind /\ jobs[k].head = row.head)
    BY DEF SameWork
  <2>3. CASE a \in Rows /\ b \in Rows
    BY <1>5, <2>1, <2>3 DEF OneActive
  <2>4. CASE a = j /\ b \in Rows
    BY <1>4, <1>5, <2>1, <2>2, <2>4
  <2>5. CASE a \in Rows /\ b = j
    BY <1>4, <1>5, <2>1, <2>2, <2>5
  <2> QED
    BY <2>3, <2>4, <2>5
<1>10. RowsOK'
  <2> SUFFICES ASSUME NEW k \in Rows \cup {j}
               PROVE  RowOK(jobs'[k])
    BY <1>8 DEF RowsOK
  <2>1. CASE k = j
    BY <1>4, <2>1
  <2>2. CASE k \in Rows
    BY <1>5, <2>2 DEF RowsOK, RowOK, Active
  <2> QED
    BY <2>1, <2>2
<1>11. WorkersCapped'
  <2>1. \A k \in Rows : jobs'[k].status = "running" => jobs'[k] = jobs[k]
    BY <1>5
  <2>2. {k \in LiveLeases : jobs[k].owner \in Workers}' \subseteq {k \in LiveLeases : jobs[k].owner \in Workers}
    BY <1>4, <1>8, <2>1 DEF LiveLeases, With
  <2>3. {k \in LiveLeases : jobs[k].owner \in Workers} \subseteq JobIds
    BY DEF LiveLeases, With, Rows
  <2>4. {k \in LiveLeases : jobs[k].owner \in Workers}' \subseteq JobIds
    BY <2>2, <2>3
  <2>5. /\ Cardinality({k \in LiveLeases : jobs[k].owner \in Workers}')
             <= Cardinality({k \in LiveLeases : jobs[k].owner \in Workers})
        /\ Cardinality({k \in LiveLeases : jobs[k].owner \in Workers}') \in Nat
        /\ Cardinality({k \in LiveLeases : jobs[k].owner \in Workers}) \in Nat
    BY <2>2, <2>3, <2>4, RowsFinite, FS_Subset
  <2> QED
    BY <2>5 DEF WorkersCapped
<1> QED
  BY <1>4, <1>5, <1>7, <1>8, <1>9, <1>10, <1>11

-----------------------------------------------------------------------------
(* The handlers                                                            *)

\* What the handlers rely on stays while nothing begins and rows keep their kind.
LEMMA HandlersKeep ==
    ASSUME ReportsOK, HooksOK, Rows \subseteq Rows', NothingBegins,
           \A k \in Rows : jobs'[k].kind = jobs[k].kind
    PROVE  ReportsOK' /\ HooksOK'
  BY DEF ReportsOK, HooksOK, NothingBegins

\* Handlers that did not move.
LEMMA StillHandlers ==
    ASSUME TypeOK, UNCHANGED <<hook, report>>
    PROVE  NothingBegins
  BY DEF NothingBegins, TypeOK

\* What workers and audits have in common: taking a claimable row.
LEMMA ClaimKeeps ==
    ASSUME IInv, NEW p \in Workers \cup {Daemon}, NEW j \in Claimable,
           p \in Workers => MayClaim,
           jobs' = [jobs EXCEPT ![j] = Taken(jobs[j], p)],
           audit' \in [Audits -> AuditState],
           UNCHANGED <<hook, report, git, ledger, touches>>
    PROVE  IInv'
<1> DEFINE r == Taken(jobs[j], p)
<1>1. j \in Rows /\ j \in JobIds /\ jobs[j] \in Row /\ jobs[j].status \in Active
  BY DEF IInv, TypeOK, Rows, Claimable
<1>2. RowOK(jobs[j]) /\ jobs[j].attempts <= jobs[j].max /\ ~jobs[j].dead
  <2>1. RowOK(jobs[j])
    BY <1>1 DEF IInv, RowsOK
  <2>2. ~(jobs[j].attempts > jobs[j].max) /\ ~jobs[j].dead
    BY <1>1, <2>1 DEF RowOK
  <2> QED
    BY <1>1, <2>1, <2>2 DEF Row
<1>3. /\ r \in Row /\ r.kind = jobs[j].kind /\ r.head = jobs[j].head /\ r.max = jobs[j].max
      /\ r.attempts = jobs[j].attempts + 1
      /\ jobs[j].attempts + 1 > jobs[j].max => r.status = "failed" /\ r.owner = None
      /\ jobs[j].attempts + 1 <= jobs[j].max =>
           r.status = "running" /\ r.owner = p /\ r.dead = jobs[j].dead
  BY <1>1, <1>2, TakenRow
<1>4. p # None
  OBVIOUS
<1> HIDE DEF r
<1>5. RowOK(r)
  <2>1. CASE jobs[j].attempts + 1 > jobs[j].max
    BY <1>3, <2>1 DEF RowOK, Active
  <2>2. CASE ~(jobs[j].attempts + 1 > jobs[j].max)
    <3>1. jobs[j].attempts + 1 <= jobs[j].max /\ jobs[j].attempts \in Nat /\ jobs[j].max \in Nat
      BY <1>1, <2>2 DEF Row
    <3>2. ~(r.attempts > r.max) /\ ~r.dead
      BY <1>2, <1>3, <3>1
    <3> QED
      BY <1>3, <1>4, <3>1, <3>2 DEF RowOK
  <2> QED
    BY <2>1, <2>2
<1>6. r.status = "running" /\ r.owner \in Workers => MayClaim
  <2>1. jobs[j].attempts + 1 > jobs[j].max \/ jobs[j].attempts + 1 <= jobs[j].max
    BY <1>1 DEF Row
  <2> QED
    BY <1>3, <2>1
<1>7. /\ jobs' \in [JobIds -> Row \cup {None}] /\ Rows' = Rows /\ jobs'[j] = r
      /\ \A k \in JobIds : k # j => jobs'[k] = jobs[k]
      /\ OneActive' /\ RowsOK' /\ WorkersCapped'
  <2>1. jobs' = [jobs EXCEPT ![j] = r]
    BY DEF r
  <2> QED
    BY <1>1, <1>3, <1>5, <1>6, <2>1, RowUpdate DEF IInv
<1>8. TypeOK'
  BY <1>7 DEF IInv, TypeOK
<1>9. ReportsOK' /\ HooksOK'
  <2>1. \A k \in Rows : jobs'[k].kind = jobs[k].kind
    BY <1>3, <1>7 DEF Rows
  <2> QED
    BY <1>7, <2>1, StillHandlers, HandlersKeep DEF IInv
<1> QED
  BY <1>7, <1>8, <1>9 DEF IInv

-----------------------------------------------------------------------------
(* The invariant                                                           *)

\* Updates of one row that start no run: sweeps, reports, retries, cancels, time.
LEMMA QuietUpdate ==
    ASSUME IInv, NEW j \in Rows, NEW r \in Row, RowOK(r),
           r.kind = jobs[j].kind, r.head = jobs[j].head,
           r.status \in Active => jobs[j].status \in Active \/ Unique(j),
           r.status = "running" =>
             jobs[j].status = "running" /\ r.owner = jobs[j].owner /\ (r.waiting => jobs[j].waiting),
           jobs' = [jobs EXCEPT ![j] = r],
           HandlerTypes', NothingBegins,
           touches' \in 0..MaxTouches, UNCHANGED <<git, ledger>>
    PROVE  IInv'
<1>1. /\ jobs' \in [JobIds -> Row \cup {None}] /\ Rows' = Rows /\ jobs'[j] = r
      /\ \A k \in JobIds : k # j => jobs'[k] = jobs[k]
      /\ OneActive' /\ RowsOK' /\ WorkersCapped'
  BY RowUpdate DEF IInv
<1>2. TypeOK'
  BY <1>1 DEF IInv, TypeOK, HandlerTypes
<1>3. \A k \in Rows : jobs'[k].kind = jobs[k].kind
  BY <1>1 DEF Rows
<1>4. ReportsOK' /\ HooksOK'
  BY <1>1, <1>3, HandlersKeep DEF IInv
<1> QED
  BY <1>1, <1>2, <1>4 DEF IInv

\* Steps that touch no row.
LEMMA SameJobs ==
    ASSUME IInv, jobs' = jobs, HandlerTypes', ReportsOK', HooksOK',
           git' \in Cursors, ledger' \in Cursors \cup {None}, touches' \in 0..MaxTouches
    PROVE  IInv'
<1>1. TypeOK'
  BY DEF IInv, TypeOK, HandlerTypes
<1>2. OneActive' /\ RowsOK'
  BY DEF IInv, OneActive, RowsOK, RowOK, Rows
<1>3. WorkersCapped'
  BY DEF IInv, WorkersCapped, LiveLeases, With, Rows
<1> QED
  BY <1>1, <1>2, <1>3 DEF IInv

\* Steps of handlers that neither touch a row nor begin anything.
LEMMA QuietHandlers ==
    ASSUME IInv, jobs' = jobs, HandlerTypes', NothingBegins, UNCHANGED <<git, ledger, touches>>
    PROVE  IInv'
<1>1. ReportsOK' /\ HooksOK'
  BY HandlersKeep DEF IInv, Rows
<1> QED
  BY <1>1, SameJobs DEF IInv, TypeOK

\* A row more, and nothing begins.
LEMMA InsertedRow ==
    ASSUME IInv, NEW j \in JobIds, j \notin Rows, NEW row \in Row, RowOK(row), row.status = "queued",
           SameWork(row.kind, row.head) = {}, NEW E \in SUBSET With("queued"), Insert(j, row, E),
           HandlerTypes', NothingBegins, UNCHANGED <<git, ledger, touches>>
    PROVE  IInv'
<1>1. /\ jobs' \in [JobIds -> Row \cup {None}] /\ Rows' = Rows \cup {j}
      /\ \A k \in Rows : jobs'[k].kind = jobs[k].kind
      /\ OneActive' /\ RowsOK' /\ WorkersCapped'
  BY InsertKeeps DEF IInv
<1>2. ReportsOK' /\ HooksOK'
  BY <1>1, HandlersKeep DEF IInv
<1> QED
  BY <1>1, <1>2 DEF IInv, TypeOK, HandlerTypes

\* An empty queue.
LEMMA InitIInv == Init => IInv
<1> SUFFICES ASSUME Init PROVE IInv
  OBVIOUS
<1>1. Rows = {}
  BY DEF Init, Rows
<1>2. TypeOK
  BY DEF Init, TypeOK, Cursors, IdleHook, HookState, IdleReport, ReportState, IdleAudit, AuditState,
         Owners
<1>3. OneActive /\ RowsOK
  BY <1>1 DEF OneActive, RowsOK
<1>4. WorkersCapped
  <2>1. {j \in LiveLeases : jobs[j].owner \in Workers} = {}
    BY <1>1 DEF LiveLeases, With
  <2> QED
    BY <2>1, FS_EmptySet DEF WorkersCapped
<1>5. ReportsOK /\ HooksOK
  BY DEF Init, ReportsOK, HooksOK, IdleReport, IdleHook
<1> QED
  BY <1>2, <1>3, <1>4, <1>5 DEF IInv

-----------------------------------------------------------------------------
(* Each action keeps it                                                    *)

\* A handler scopes its work by a commit there has been.
LEMMA ScopeType ==
    ASSUME TypeOK, NEW read \in 0..git
    PROVE  ScopeHead(read) \in Cursors /\ ScopeDigest \in Cursors
  BY DEF TypeOK, ScopeHead, ScopeDigest, Cursors

\* A hook resolves its scope and reads the change.
LEMMA HookReadsKeep ==
    ASSUME IInv, NEW h \in Hooks, HookRead(h) \/ \E read \in 0..git : HookScope(h, read)
    PROVE  IInv'
<1>1. hook' \in [Hooks -> HookState] /\ \A g \in Hooks : hook'[g].left \subseteq hook[g].left
  <2>1. CASE HookRead(h)
    BY <2>1 DEF HookRead, IInv, TypeOK, HookState
  <2>2. ASSUME NEW read \in 0..git, HookScope(h, read)
        PROVE  hook' \in [Hooks -> HookState] /\ \A g \in Hooks : hook'[g].left \subseteq hook[g].left
    <3>1. ScopeHead(read) \in Cursors /\ ScopeDigest \in Cursors
      BY ScopeType DEF IInv
    <3> DEFINE new == [hook[h] EXCEPT !.pc = "scoped", !.head = ScopeHead(read), !.digest = ScopeDigest]
    <3>2. hook' = [hook EXCEPT ![h] = new]
      BY <2>2 DEF HookScope
    <3>3. new \in HookState /\ new.left = hook[h].left
      BY <3>1 DEF IInv, TypeOK, HookState
    <3> HIDE DEF new
    <3> QED
      BY <3>2, <3>3 DEF IInv, TypeOK
  <2> QED
    BY <2>1, <2>2
<1>2. UNCHANGED <<jobs, report, audit, git, ledger, touches>>
  BY DEF HookRead, HookScope
<1>3. HandlerTypes' /\ NothingBegins
  BY <1>1, <1>2 DEF HandlerTypes, NothingBegins, IInv, TypeOK
<1> QED
  BY <1>2, <1>3, QuietHandlers

\* Listing touches no row: what it lists exists, and none of it is an audit.
LEMMA HookListKeeps ==
    ASSUME IInv, NEW h \in Hooks, HookList(h)
    PROVE  IInv'
<1> DEFINE left == {j \in Rows : jobs[j].status \in Active
                                   /\ IsStale(jobs[j], hook[h].head, hook[h].digest)}
<1>1. left \in SUBSET JobIds
  BY DEF Rows
<1>2. hook' = [hook EXCEPT ![h].pc = "sweeping", ![h].left = left]
  BY DEF HookList
<1>3. \A j \in left : j \in Rows /\ jobs[j].kind # AuditKind
  BY DEF IsStale
<1> HIDE DEF left
<1>4. hook' \in [Hooks -> HookState]
  <2>1. [hook[h] EXCEPT !.pc = "sweeping", !.left = left] \in HookState
    BY <1>1 DEF IInv, TypeOK, HookState
  <2> QED
    BY <1>2, <2>1 DEF IInv, TypeOK
<1>5. UNCHANGED <<jobs, report, audit, git, ledger, touches>>
  BY DEF HookList
<1>6. HooksOK'
  <2> SUFFICES ASSUME NEW g \in Hooks, NEW j \in hook'[g].left
               PROVE  j \in Rows /\ jobs[j].kind # AuditKind
    BY <1>5 DEF HooksOK, Rows
  <2>1. CASE g = h
    BY <1>2, <1>3, <2>1 DEF IInv, TypeOK
  <2>2. CASE g # h
    BY <1>2, <2>2 DEF IInv, TypeOK, HooksOK
  <2> QED
    BY <2>1, <2>2
<1>7. ReportsOK'
  BY <1>5 DEF IInv, ReportsOK, Rows
<1> QED
  BY <1>4, <1>5, <1>6, <1>7, SameJobs DEF IInv, TypeOK, HandlerTypes

\* A sweep only ends rows, those of an older scope.
LEMMA HookSweepKeeps ==
    ASSUME IInv, NEW h \in Hooks, HookSweep(h)
    PROVE  IInv'
<1>1. PICK j \in hook[h].left :
        /\ jobs' = [jobs EXCEPT ![j] = Released(jobs[j], "expired")]
        /\ hook' = [hook EXCEPT ![h].left = @ \ {j}]
  BY DEF HookSweep
<1>2. j \in Rows /\ jobs[j] \in Row /\ "expired" \in Status \ {"running"} /\ "expired" \notin Active
  BY DEF IInv, HooksOK, TypeOK, Rows, Status, Active
<1>3. hook' \in [Hooks -> HookState] /\ \A g \in Hooks : hook'[g].left \subseteq hook[g].left
  BY <1>1 DEF IInv, TypeOK, HookState
<1>4. RowOK(Released(jobs[j], "expired"))
  BY <1>2, ReleasedRow DEF RowOK
<1>5. UNCHANGED <<report, audit, git, ledger, touches>>
  BY DEF HookSweep
<1>6. HandlerTypes' /\ NothingBegins /\ touches' \in 0..MaxTouches
  BY <1>3, <1>5 DEF HandlerTypes, NothingBegins, IInv, TypeOK
<1> DEFINE r == Released(jobs[j], "expired")
<1>7. /\ r \in Row /\ r.kind = jobs[j].kind /\ r.head = jobs[j].head
      /\ r.status = "expired" /\ RowOK(r)
      /\ jobs' = [jobs EXCEPT ![j] = r]
  BY <1>1, <1>2, <1>4, ReleasedRow
<1> HIDE DEF r
<1> QED
  BY <1>2, <1>5, <1>6, <1>7, QuietUpdate

\* A handler that ends leaves no sweep behind.
LEMMA HookEnds ==
    ASSUME TypeOK, NEW h \in Hooks, hook' = [hook EXCEPT ![h] = IdleHook]
    PROVE  /\ hook' \in [Hooks -> HookState]
           /\ \A g \in Hooks : hook'[g].left \subseteq hook[g].left
<1>1. IdleHook \in HookState /\ IdleHook.left = {}
  BY DEF IdleHook, HookState, Cursors
<1> QED
  BY <1>1 DEF TypeOK

\* A hook that inserts a row inserts a new one, for work nobody else has.
LEMMA HookInserts ==
    ASSUME IInv, NEW h \in Hooks, NEW kind \in Kinds, NEW pri \in Priorities,
           NEW debounce \in Debounces, HookEnqueue(h, kind, pri, debounce), jobs' # jobs
    PROVE  \E j \in JobIds, E \in Evictions(kind, pri), row \in Row :
             /\ j \notin Rows /\ RowOK(row) /\ row.status = "queued" /\ row.kind = kind
             /\ row.head = hook[h].mine /\ row.digest = hook[h].digest /\ row.pri = pri
             /\ SameWork(row.kind, row.head) = {} /\ E \in SUBSET With("queued") /\ Insert(j, row, E)
<1> DEFINE row == NewRow(kind, hook[h].mine, hook[h].digest, pri, MaxAttempts, debounce)
<1>1. PICK j \in JobIds, E \in Evictions(kind, pri) : Fresh(j) /\ Insert(j, row, E)
  BY DEF HookEnqueue
<1>2. SameWork(kind, hook[h].mine) = {}
  BY DEF HookEnqueue
<1>3. /\ row \in Row /\ row.kind = kind /\ row.head = hook[h].mine /\ row.digest = hook[h].digest
      /\ row.pri = pri /\ row.status = "queued" /\ row.owner = None /\ row.dead = FALSE
      /\ row.attempts = 0 /\ row.max = MaxAttempts
  BY DEF NewRow, Row, IInv, TypeOK, HookState, Status, Owners
<1> HIDE DEF row
<1>4. RowOK(row) /\ E \in SUBSET With("queued") /\ j \notin Rows
  BY <1>1, <1>3 DEF RowOK, Evictions, Evictable, Fresh
<1> QED
  BY <1>1, <1>2, <1>3, <1>4

\* An enqueue adds a row of its scope and evicts queued ones down to the cap.
LEMMA HookEnqueueKeeps ==
    ASSUME IInv, NEW h \in Hooks, NEW kind \in Kinds, NEW pri \in Priorities,
           NEW debounce \in Debounces, HookEnqueue(h, kind, pri, debounce)
    PROVE  IInv'
<1>1. /\ hook' \in [Hooks -> HookState]
      /\ \A g \in Hooks : hook'[g].left \subseteq hook[g].left
  BY HookEnds DEF HookEnqueue, IInv
<1>2. UNCHANGED <<report, audit, git, ledger, touches>>
  BY DEF HookEnqueue
<1>3. HandlerTypes' /\ NothingBegins
  BY <1>1, <1>2 DEF HandlerTypes, NothingBegins, IInv, TypeOK
<1>4. CASE jobs' = jobs
  BY <1>2, <1>3, <1>4, QuietHandlers
<1>5. CASE jobs' # jobs
  <2>1. PICK j \in JobIds, E \in SUBSET With("queued"), row \in Row :
          /\ j \notin Rows /\ RowOK(row) /\ row.status = "queued"
          /\ SameWork(row.kind, row.head) = {} /\ Insert(j, row, E)
    BY <1>5, HookInserts
  <2> QED
    BY <1>2, <1>3, <2>1, InsertedRow
<1> QED
  BY <1>4, <1>5

\* A worker takes a row below the cap.
LEMMA WorkerClaimKeeps ==
    ASSUME IInv, NEW w \in Workers, Claim(w)
    PROVE  IInv'
<1>1. PICK j \in First(Claimable) : jobs' = [jobs EXCEPT ![j] = Taken(jobs[j], w)]
  BY DEF Claim
<1>2. j \in Claimable /\ MayClaim /\ UNCHANGED <<hook, report, audit, git, ledger, touches>>
  BY DEF First, Claim
<1>3. audit' \in [Audits -> AuditState]
  BY <1>2 DEF IInv, TypeOK
<1> QED
  BY <1>1, <1>2, <1>3, ClaimKeeps

\* An audit's own state is of the right type whatever it does next.
LEMMA AuditTypes ==
    ASSUME TypeOK, NEW a \in Audits, NEW new \in AuditState, audit' = [audit EXCEPT ![a] = new],
           UNCHANGED <<hook, report>>
    PROVE  HandlerTypes' /\ NothingBegins
<1>1. NothingBegins
  BY StillHandlers
<1> QED
  BY <1>1 DEF TypeOK, HandlerTypes

\* An audit resolves its scope.
LEMMA AuditScopeKeeps ==
    ASSUME IInv, NEW a \in Audits, NEW read \in 0..git, AuditScope(a, read)
    PROVE  IInv'
<1> DEFINE new == [pc |-> "scoped", head |-> ScopeHead(read), job |-> 0]
<1>1. new \in AuditState
  BY ScopeType DEF IInv, AuditState
<1>2. audit' = [audit EXCEPT ![a] = new] /\ UNCHANGED <<jobs, hook, report, git, ledger, touches>>
  BY DEF AuditScope
<1> HIDE DEF new
<1> QED
  BY <1>1, <1>2, AuditTypes, QuietHandlers DEF IInv

\* An audit takes the row it has enqueued.
LEMMA AuditClaimKeeps ==
    ASSUME IInv, NEW a \in Audits, AuditClaim(a)
    PROVE  IInv'
<1> DEFINE j == audit[a].job
<1>1. UNCHANGED <<hook, report, git, ledger, touches>>
  BY DEF AuditClaim
<1>2. /\ IdleAudit \in AuditState /\ audit[a] \in AuditState
      /\ [audit[a] EXCEPT !.pc = "busy"] \in AuditState
  BY DEF IInv, TypeOK, IdleAudit, AuditState, Cursors
<1>3. PICK new \in AuditState : audit' = [audit EXCEPT ![a] = new]
  BY <1>2 DEF AuditClaim
<1>4. HandlerTypes' /\ NothingBegins
  BY <1>1, <1>3, AuditTypes DEF IInv
<1>5. CASE j \in Claimable
  <2>1. jobs' = [jobs EXCEPT ![j] = Taken(jobs[j], Daemon)]
    BY <1>5 DEF AuditClaim
  <2> HIDE DEF j
  <2> QED
    BY <1>1, <1>4, <1>5, <2>1, ClaimKeeps DEF HandlerTypes
<1>6. CASE j \notin Claimable
  <2>1. jobs' = jobs
    BY <1>6 DEF AuditClaim
  <2> QED
    BY <1>1, <1>4, <2>1, QuietHandlers
<1> QED
  BY <1>5, <1>6

\* An audit that inserts a row inserts a new one of its own kind and waits to claim it.
LEMMA AuditInserts ==
    ASSUME IInv, NEW a \in Audits, AuditEnqueue(a), jobs' # jobs
    PROVE  \E j \in JobIds, row \in Row :
             /\ j \notin Rows /\ RowOK(row) /\ row.status = "queued" /\ row.kind = AuditKind
             /\ SameWork(row.kind, row.head) = {} /\ {} \in SUBSET With("queued")
             /\ Insert(j, row, {})
             /\ audit' = [audit EXCEPT ![a] = [IdleAudit EXCEPT !.pc = "claiming", !.job = j]]
<1> DEFINE row == NewRow(AuditKind, audit[a].head, audit[a].head, 0, 1, FALSE)
<1>1. PICK j \in JobIds :
        /\ Fresh(j) /\ Insert(j, row, {})
        /\ audit' = [audit EXCEPT ![a] = [IdleAudit EXCEPT !.pc = "claiming", !.job = j]]
  BY DEF AuditEnqueue
<1>2. SameWork(AuditKind, audit[a].head) = {}
  BY DEF AuditEnqueue
<1>3. /\ row \in Row /\ row.kind = AuditKind /\ row.head = audit[a].head
      /\ row.status = "queued" /\ row.owner = None /\ row.dead = FALSE /\ row.attempts = 0 /\ row.max = 1
  <2>1. audit[a].head \in Cursors
    BY DEF IInv, TypeOK, AuditState
  <2> QED
    BY <2>1 DEF NewRow, Row, Status, Owners
<1> HIDE DEF row
<1>4. RowOK(row) /\ {} \in SUBSET With("queued") /\ j \notin Rows
  BY <1>1, <1>3 DEF RowOK, Fresh
<1> QED
  BY <1>1, <1>2, <1>3, <1>4

\* An audit enqueues a row that has a single attempt, or ends.
LEMMA AuditEnqueueKeeps ==
    ASSUME IInv, NEW a \in Audits, AuditEnqueue(a)
    PROVE  IInv'
<1>1. UNCHANGED <<hook, report, git, ledger, touches>>
  BY DEF AuditEnqueue
<1>2. /\ IdleAudit \in AuditState
      /\ \A j \in JobIds : [IdleAudit EXCEPT !.pc = "claiming", !.job = j] \in AuditState
  <2>1. 0 \in Cursors /\ 0 \in 0..MaxJobs /\ \A j \in JobIds : j \in 0..MaxJobs
    BY DEF Cursors, JobIds
  <2>2. IdleAudit \in AuditState
    BY <2>1 DEF IdleAudit, AuditState
  <2> QED
    BY <2>1, <2>2 DEF AuditState
<1>3. PICK new \in AuditState : audit' = [audit EXCEPT ![a] = new]
  <2>1. CASE audit' = [audit EXCEPT ![a] = IdleAudit]
    BY <1>2, <2>1
  <2>2. CASE \E j \in JobIds : audit' = [audit EXCEPT ![a] = [IdleAudit EXCEPT !.pc = "claiming", !.job = j]]
    BY <1>2, <2>2
  <2> QED
    BY <2>1, <2>2 DEF AuditEnqueue
<1>4. HandlerTypes' /\ NothingBegins
  BY <1>1, <1>3, AuditTypes DEF IInv
<1>5. CASE jobs' = jobs
  BY <1>1, <1>4, <1>5, QuietHandlers
<1>6. CASE jobs' # jobs
  BY <1>1, <1>4, <1>6, AuditInserts, InsertedRow
<1> QED
  BY <1>5, <1>6

\* What a report is about to do suits the row.
LEMMA BeginKeeps ==
    ASSUME IInv, NEW r \in Reports, NEW j \in JobIds, NEW id \in Owners,
           NEW outcome \in {"succeeded", "failed"}, NEW read \in 0..git,
           Begin(r, j, id, outcome, read), audit' \in [Audits -> AuditState]
    PROVE  IInv'
<1> DEFINE plan == Plan(jobs[j], outcome, read)
           new == [pc |-> "scoped", job |-> j, id |-> id, plan |-> plan]
<1>1. report' = [report EXCEPT ![r] = new] /\ UNCHANGED <<jobs, hook, git, ledger, touches>> /\ j \in Rows
  BY DEF Begin
<1>2. plan \in {"succeeded", "failed", "expired"} /\ (plan = "expired" => jobs[j].kind # AuditKind)
  BY DEF Plan, IsStale
<1> HIDE DEF plan
<1>3. new \in ReportState /\ new.job = j /\ new.plan = plan
  BY <1>2 DEF ReportState, JobIds
<1> HIDE DEF new
<1>4. HandlerTypes'
  BY <1>1, <1>3 DEF IInv, TypeOK, HandlerTypes
<1>5. ReportsOK' /\ HooksOK'
  BY <1>1, <1>2, <1>3 DEF IInv, TypeOK, ReportsOK, HooksOK, Rows
<1> QED
  BY <1>1, <1>4, <1>5, SameJobs DEF IInv, TypeOK

\* Reports of clients and of the daemon's audits begin.
LEMMA ReportsBegin ==
    ASSUME IInv,
           \/ \E r \in Reports, j \in JobIds, id \in Workers \cup {None},
                 outcome \in {"succeeded", "failed"}, read \in 0..git : Report(r, j, id, outcome, read)
           \/ \E a \in Audits, r \in Reports, outcome \in {"succeeded", "failed"}, read \in 0..git :
                 AuditReport(a, r, outcome, read)
    PROVE  IInv'
<1>1. ASSUME NEW r \in Reports, NEW j \in JobIds, NEW id \in Workers \cup {None},
             NEW outcome \in {"succeeded", "failed"}, NEW read \in 0..git,
             Report(r, j, id, outcome, read)
      PROVE  IInv'
  <2>1. id \in Owners /\ audit' \in [Audits -> AuditState] /\ Begin(r, j, id, outcome, read)
    BY <1>1 DEF Report, Owners, IInv, TypeOK
  <2> QED
    BY <2>1, BeginKeeps
<1>2. ASSUME NEW a \in Audits, NEW r \in Reports, NEW outcome \in {"succeeded", "failed"},
             NEW read \in 0..git, AuditReport(a, r, outcome, read)
      PROVE  IInv'
  <2>1. /\ Begin(r, audit[a].job, Daemon, outcome, read) /\ audit' = [audit EXCEPT ![a] = IdleAudit]
        /\ audit[a].job \in JobIds /\ Daemon \in Owners
    BY <1>2 DEF AuditReport, Begin, Rows, Owners
  <2>2. audit' \in [Audits -> AuditState]
    BY <2>1 DEF IInv, TypeOK, IdleAudit, AuditState, Cursors
  <2> QED
    BY <2>1, <2>2, BeginKeeps
<1> QED
  BY <1>1, <1>2

\* A report looks at its row.
LEMMA ReportListKeeps ==
    ASSUME IInv, NEW r \in Reports, ReportList(r)
    PROVE  IInv'
<1>1. UNCHANGED <<jobs, hook, audit, git, ledger, touches>> /\ report[r].pc # "idle"
  BY DEF ReportList
<1>2. report' \in [Reports -> ReportState]
      /\ \A s \in Reports : report'[s].pc # "idle" =>
           /\ report[s].pc # "idle"
           /\ report'[s].job = report[s].job /\ report'[s].plan = report[s].plan
  BY <1>1 DEF ReportList, IInv, TypeOK, ReportState, IdleReport, Owners
<1>3. HandlerTypes' /\ NothingBegins
  BY <1>1, <1>2 DEF HandlerTypes, NothingBegins, IInv, TypeOK
<1> QED
  BY <1>1, <1>3, QuietHandlers

\* What a report makes of its row.
LEMMA ReportSettles ==
    ASSUME IInv, NEW r \in Reports, ReportSettle(r)
    PROVE  LET j == report[r].job
               new == Settled(jobs[j], report[r].id, report[r].plan)
           IN  /\ j \in Rows /\ jobs[j] \in Row /\ RowOK(jobs[j])
               /\ jobs' = [jobs EXCEPT ![j] = new] /\ report' = [report EXCEPT ![r] = IdleReport]
               /\ report[r].plan \in {"succeeded", "failed", "expired"}
               /\ report[r].plan = "expired" => jobs[j].kind # AuditKind
<1>1. report[r].pc # "idle"
  BY DEF ReportSettle
<1>2. report[r].job \in Rows /\ report[r] \in ReportState
      /\ (report[r].plan = "expired" => jobs[report[r].job].kind # AuditKind)
  BY <1>1 DEF IInv, TypeOK, ReportsOK
<1>3. jobs[report[r].job] \in Row /\ RowOK(jobs[report[r].job])
  BY <1>2 DEF IInv, TypeOK, Rows, RowsOK
<1> QED
  BY <1>2, <1>3 DEF ReportSettle, ReportState

\* A report settles its row.
LEMMA ReportSettleKeeps ==
    ASSUME IInv, NEW r \in Reports, ReportSettle(r)
    PROVE  IInv'
<1> DEFINE j == report[r].job
           new == Settled(jobs[j], report[r].id, report[r].plan)
<1>1. /\ j \in Rows /\ jobs[j] \in Row /\ RowOK(jobs[j])
      /\ jobs' = [jobs EXCEPT ![j] = new] /\ report' = [report EXCEPT ![r] = IdleReport]
      /\ report[r].plan \in {"succeeded", "failed", "expired"}
  BY ReportSettles
<1>2. /\ new \in Row /\ new.kind = jobs[j].kind /\ new.head = jobs[j].head
      /\ new.attempts = jobs[j].attempts /\ new.max = jobs[j].max
      /\ \/ new = jobs[j]
         \/ new.status \in {"succeeded", "failed", "expired"} /\ new.owner = None
  BY <1>1, SettledRow
<1> HIDE DEF new
<1>3. RowOK(new)
  BY <1>1, <1>2 DEF RowOK, Active
<1>4. /\ new.status \in Active => jobs[j].status \in Active
      /\ new.status = "running" =>
           jobs[j].status = "running" /\ new.owner = jobs[j].owner /\ (new.waiting => jobs[j].waiting)
  BY <1>2 DEF Active
<1>5. UNCHANGED <<hook, audit, git, ledger, touches>>
  BY DEF ReportSettle
<1>6. HandlerTypes' /\ NothingBegins /\ touches' \in 0..MaxTouches
  BY <1>1, <1>5 DEF HandlerTypes, NothingBegins, IInv, TypeOK, ReportState, IdleReport, Owners
<1> HIDE DEF j
<1> QED
  BY <1>1, <1>2, <1>3, <1>4, <1>5, <1>6, QuietUpdate

\* The operator and the clock move no handler.
LEMMA Bystanders ==
    ASSUME IInv, UNCHANGED <<hook, report, audit>>
    PROVE  HandlerTypes' /\ NothingBegins
  BY StillHandlers DEF IInv, TypeOK, HandlerTypes

\* A retry by hand queues the row if no active row does the same work, or dead-letters it.
LEMMA RetryKeeps ==
    ASSUME IInv, NEW j \in JobIds, Retry(j)
    PROVE  IInv'
<1> DEFINE r == Retried(jobs[j])
<1>1. /\ j \in Rows /\ jobs[j] \in Row /\ jobs' = [jobs EXCEPT ![j] = r]
      /\ touches < MaxTouches /\ touches' = touches + 1 /\ UNCHANGED <<hook, report, audit, git, ledger>>
      /\ jobs[j].attempts < jobs[j].max => Unique(j)
  BY DEF Retry, Rows, IInv, TypeOK
<1>2. jobs[j].attempts >= jobs[j].max \/ jobs[j].attempts < jobs[j].max
  BY <1>1 DEF Row
<1>3. /\ r \in Row /\ r.kind = jobs[j].kind /\ r.head = jobs[j].head
      /\ r.attempts = jobs[j].attempts /\ r.max = jobs[j].max /\ r.owner = None
      /\ \/ r.status = "failed"
         \/ r.status = "queued" /\ r.dead = FALSE /\ jobs[j].attempts < jobs[j].max
  BY <1>1, <1>2, RetriedRow
<1> HIDE DEF r
<1>4. RowOK(r)
  <2>1. CASE r.status = "failed"
    BY <1>3, <2>1 DEF RowOK, Active
  <2>2. CASE r.status = "queued" /\ r.dead = FALSE /\ jobs[j].attempts < jobs[j].max
    <3>1. ~(r.attempts > r.max)
      BY <1>1, <1>3, <2>2 DEF Row
    <3> QED
      BY <1>3, <2>2, <3>1 DEF RowOK
  <2> QED
    BY <1>3, <2>1, <2>2
<1>5. r.status \in Active => Unique(j)
  BY <1>1, <1>3 DEF Active
<1>6. HandlerTypes' /\ NothingBegins /\ touches' \in 0..MaxTouches /\ r.status # "running"
  BY <1>1, <1>3, Bystanders DEF IInv, TypeOK
<1> QED
  BY <1>1, <1>3, <1>4, <1>5, <1>6, QuietUpdate

\* A cancel frees the row; its runner finds out when it settles.
LEMMA CancelKeeps ==
    ASSUME IInv, NEW j \in JobIds, NEW status \in CancelStatuses, Cancel(j, status)
    PROVE  IInv'
<1> DEFINE r == Released(jobs[j], status)
<1>1. /\ j \in Rows /\ jobs[j] \in Row /\ jobs' = [jobs EXCEPT ![j] = r]
      /\ touches < MaxTouches /\ touches' = touches + 1 /\ UNCHANGED <<hook, report, audit, git, ledger>>
  BY DEF Cancel, Rows, IInv, TypeOK
<1>2. status \in Status \ {"running"} /\ status \notin Active
  BY DEF Status, Active
<1>3. /\ r \in Row /\ r.kind = jobs[j].kind /\ r.head = jobs[j].head
      /\ r.attempts = jobs[j].attempts /\ r.max = jobs[j].max /\ r.owner = None
      /\ r.status = status
  BY <1>1, <1>2, ReleasedRow
<1> HIDE DEF r
<1>4. RowOK(r) /\ r.status # "running" /\ r.status \notin Active
  BY <1>2, <1>3 DEF RowOK
<1>5. HandlerTypes' /\ NothingBegins /\ touches' \in 0..MaxTouches
  BY <1>1, Bystanders DEF IInv, TypeOK
<1> QED
  BY <1>1, <1>3, <1>4, <1>5, QuietUpdate

\* A debounce or a lease is over: the row may be claimed, and nothing else changes.
LEMMA TickKeeps ==
    ASSUME IInv, NEW j \in JobIds, Tick(j)
    PROVE  IInv'
<1> DEFINE r == [jobs[j] EXCEPT !.waiting = FALSE]
<1>1. /\ j \in Rows /\ jobs[j] \in Row /\ RowOK(jobs[j])
      /\ UNCHANGED <<hook, report, audit, git, ledger, touches>>
  BY DEF Tick, Rows, IInv, TypeOK, RowsOK
<1>2. jobs' = [jobs EXCEPT ![j] = r]
  BY <1>1 DEF Tick, IInv, TypeOK, Row, Rows
<1>3. /\ r \in Row /\ r.kind = jobs[j].kind /\ r.head = jobs[j].head
      /\ r.attempts = jobs[j].attempts /\ r.max = jobs[j].max /\ r.owner = jobs[j].owner
      /\ r.status = jobs[j].status /\ r.dead = jobs[j].dead /\ r.waiting = FALSE
  BY <1>1 DEF Row
<1> HIDE DEF r
<1>4. RowOK(r)
  BY <1>1, <1>3 DEF RowOK
<1>5. HandlerTypes' /\ NothingBegins /\ touches' \in 0..MaxTouches
  BY <1>1, Bystanders DEF IInv, TypeOK
<1> QED
  BY <1>1, <1>2, <1>3, <1>4, <1>5, QuietUpdate

\* Commits, ledger events and restarts leave the rows alone.
LEMMA WorldKeeps ==
    ASSUME IInv, Commit \/ LedgerEvent \/ Restart \/ UNCHANGED vars
    PROVE  IInv'
<1>1. CASE Commit \/ LedgerEvent \/ UNCHANGED vars
  <2>1. UNCHANGED <<jobs, hook, report, audit, touches>>
    BY <1>1 DEF Commit, LedgerEvent, vars
  <2>2. git' \in Cursors /\ ledger' \in Cursors \cup {None}
    BY <1>1 DEF Commit, LedgerEvent, vars, IInv, TypeOK, Cursors
  <2>3. ReportsOK' /\ HooksOK'
    BY <2>1 DEF IInv, ReportsOK, HooksOK, Rows
  <2> QED
    BY <2>1, <2>2, <2>3, Bystanders, SameJobs DEF IInv, TypeOK
<1>2. CASE Restart
  <2>1. /\ UNCHANGED <<jobs, git, ledger, touches>>
        /\ hook' = [h \in Hooks |-> IdleHook] /\ report' = [r \in Reports |-> IdleReport]
        /\ audit' = [a \in Audits |-> IdleAudit]
    BY <1>2 DEF Restart
  <2>2. IdleHook \in HookState /\ IdleReport \in ReportState /\ IdleAudit \in AuditState
    BY DEF IdleHook, HookState, Cursors, IdleReport, ReportState, IdleAudit, AuditState, Owners
  <2>3. HandlerTypes' /\ NothingBegins
    BY <2>1, <2>2 DEF HandlerTypes, NothingBegins, IdleHook, IdleReport
  <2> QED
    BY <2>1, <2>3, QuietHandlers
<1> QED
  BY <1>1, <1>2

\* Every step preserves the invariant.
LEMMA StepIInv == IInv /\ [Next]_vars => IInv'
<1> SUFFICES ASSUME IInv, [Next]_vars PROVE IInv'
  OBVIOUS
<1>1. ASSUME NEW h \in Hooks, HookStep(h) PROVE IInv'
  BY <1>1, HookReadsKeep, HookListKeeps, HookSweepKeeps, HookEnqueueKeeps DEF HookStep
<1>2. ASSUME NEW w \in Workers, Claim(w) PROVE IInv'
  BY <1>2, WorkerClaimKeeps
<1>3. ASSUME NEW a \in Audits, AuditStep(a) PROVE IInv'
  BY <1>3, AuditScopeKeeps, AuditEnqueueKeeps, AuditClaimKeeps, ReportsBegin DEF AuditStep
<1>4. ASSUME NEW r \in Reports, ReportStep(r) PROVE IInv'
  BY <1>4, ReportsBegin, ReportListKeeps, ReportSettleKeeps DEF ReportStep
<1>5. CASE Operator
  BY <1>5, RetryKeeps, CancelKeeps DEF Operator
<1>6. ASSUME NEW j \in JobIds, Tick(j) PROVE IInv'
  BY <1>6, TickKeeps
<1>7. CASE Commit \/ LedgerEvent \/ Restart \/ UNCHANGED vars
  BY <1>7, WorldKeeps
<1> QED
  BY <1>1, <1>2, <1>3, <1>4, <1>5, <1>6, <1>7 DEF Next

-----------------------------------------------------------------------------
(* The theorems                                                            *)

\* The inductive invariant holds of every behaviour of the queue.
THEOREM QueueInductive == Spec => []IInv
BY InitIInv, StepIInv, PTL DEF Spec

\* Rows, handlers, workers and audits keep their types, for any number of them.
THEOREM QueueTypes == Spec => []TypeOK
<1>1. IInv => TypeOK
  BY DEF IInv
<1> QED
  BY <1>1, QueueInductive, PTL

\* However hooks, workers, audits and retries interleave, no two active jobs have the
\* same fingerprint: the unique index and the checks before an insert agree.
THEOREM OneActiveJob == Spec => []OneActive
<1>1. IInv => OneActive
  BY DEF IInv
<1> QED
  BY <1>1, QueueInductive, PTL

\* A row has a lease owner exactly while it runs.
THEOREM LeasedWhileRunning == Spec => []LeaseWhileRunning
<1>1. IInv => LeaseWhileRunning
  BY DEF IInv, RowsOK, RowOK, LeaseWhileRunning
<1> QED
  BY <1>1, QueueInductive, PTL

\* A row that was dead-lettered, or has been claimed once too often, is never active.
THEOREM DeadLettersStayDead == Spec => []DeadForGood
<1>1. IInv => DeadForGood
  BY DEF IInv, RowsOK, RowOK, DeadForGood
<1> QED
  BY <1>1, QueueInductive, PTL

\* At most maxRunningJobs leases of workers are alive, for any number of workers.
THEOREM CappedWorkers == Spec => []WorkersCapped
<1>1. IInv => WorkersCapped
  BY DEF IInv
<1> QED
  BY <1>1, QueueInductive, PTL

-----------------------------------------------------------------------------
(* What a step may not do                                                  *)

\* How a running row may stop running.
Ended(j) ==
    \/ jobs'[j].status = "failed"
    \/ jobs'[j].status = "queued"
    \/ jobs'[j].status = "expired" /\ jobs[j].kind # AuditKind
    \/ \E status \in CancelStatuses : Cancel(j, status) /\ jobs'[j].status # "succeeded"
    \/ /\ jobs'[j].status = "succeeded"
       /\ \E r \in Reports : /\ report[r].job = j /\ report'[r] = IdleReport
                             /\ report[r].id \in {jobs[j].owner, None}

\* What any step does to a row: it stays, with its kind and cursor, and a run ends as
\* Ended says.
LEMMA RowStep ==
    ASSUME IInv, [Next]_vars, NEW j \in Rows
    PROVE  /\ jobs'[j] # None /\ jobs'[j].kind = jobs[j].kind
           /\ jobs'[j].head = jobs[j].head /\ jobs'[j].digest = jobs[j].digest
           /\ jobs[j].status = "running" => jobs'[j].status = "running" \/ Ended(j)
<1> DEFINE Good == /\ jobs'[j] # None /\ jobs'[j].kind = jobs[j].kind
                   /\ jobs'[j].head = jobs[j].head /\ jobs'[j].digest = jobs[j].digest
                   /\ jobs[j].status = "running" => jobs'[j].status = "running" \/ Ended(j)
<1>1. j \in JobIds /\ jobs[j] \in Row /\ jobs[j] # None /\ jobs \in [JobIds -> Row \cup {None}]
  BY DEF Rows, IInv, TypeOK
<1>2. ASSUME jobs' = jobs PROVE jobs'[j] = jobs[j]
  BY <1>2
<1>3. ASSUME NEW i \in Rows, NEW r \in Row, r.kind = jobs[i].kind, r.head = jobs[i].head,
             r.digest = jobs[i].digest, jobs' = [jobs EXCEPT ![i] = r],
             jobs[i].status = "running" => r.status = "running" \/ (jobs'[i] = r => Ended(i))
      PROVE  Good
  <2>1. CASE i = j
    <3>1. jobs'[j] = r /\ r # None
      BY <1>1, <1>3, <2>1
    <3> QED
      BY <1>3, <2>1, <3>1
  <2>2. CASE i # j
    BY <1>1, <1>3, <2>2
  <2> QED
    BY <2>1, <2>2
<1>4. ASSUME NEW i \in JobIds, i \notin Rows, NEW row \in Row, RowOK(row), row.status = "queued",
             SameWork(row.kind, row.head) = {}, NEW E \in SUBSET With("queued"), Insert(i, row, E)
      PROVE  Good
  <2>1. /\ Rows' = Rows \cup {i} /\ jobs'[j].kind = jobs[j].kind
        /\ jobs'[j].head = jobs[j].head /\ jobs'[j].digest = jobs[j].digest
        /\ jobs'[j] = jobs[j] \/ jobs[j].status = "queued"
    BY <1>4, InsertKeeps DEF IInv
  <2>2. jobs'[j] # None
    BY <2>1 DEF Rows
  <2> QED
    BY <2>1, <2>2
<1>5. ASSUME NEW h \in Hooks, HookStep(h)
      PROVE  Good
  <2>1. CASE HookRead(h) \/ HookList(h) \/ \E read \in 0..git : HookScope(h, read)
    <3>1. jobs' = jobs
      BY <2>1 DEF HookRead, HookList, HookScope
    <3> QED
      BY <1>1, <3>1
  <2>2. CASE HookSweep(h)
    <3>1. PICK i \in Rows : /\ jobs' = [jobs EXCEPT ![i] = Released(jobs[i], "expired")]
                            /\ jobs[i].kind # AuditKind
      BY <2>2 DEF HookSweep, IInv, HooksOK
    <3> DEFINE r == Released(jobs[i], "expired")
    <3>2. /\ r \in Row /\ r.status = "expired" /\ r.kind = jobs[i].kind /\ r.head = jobs[i].head /\ r.digest = jobs[i].digest
          /\ jobs' = [jobs EXCEPT ![i] = r]
      <4>1. jobs[i] \in Row /\ "expired" \in Status \ {"running"}
        BY DEF Rows, IInv, TypeOK, Status
      <4> QED
        BY <3>1, <4>1, ReleasedRow
    <3> HIDE DEF r
    <3>3. jobs'[i] = r => Ended(i)
      BY <3>1, <3>2 DEF Ended
    <3> QED
      BY <1>3, <3>2, <3>3
  <2>3. CASE \E kind \in Kinds, pri \in Priorities, debounce \in Debounces :
               HookEnqueue(h, kind, pri, debounce)
    <3>1. CASE jobs' = jobs
      BY <1>1, <3>1
    <3>2. CASE jobs' # jobs
      BY <1>4, <2>3, <3>2, HookInserts
    <3> QED
      BY <3>1, <3>2
  <2> QED
    BY <1>5, <2>1, <2>2, <2>3 DEF HookStep
<1>6. ASSUME NEW p \in Workers \cup {Daemon}, NEW i \in Claimable, jobs' = [jobs EXCEPT ![i] = Taken(jobs[i], p)]
      PROVE  Good
  <2> DEFINE r == Taken(jobs[i], p)
  <2>1. i \in Rows /\ jobs[i] \in Row /\ jobs[i].status \in Active /\ RowOK(jobs[i])
    BY DEF Claimable, Rows, IInv, TypeOK, RowsOK
  <2>2. jobs[i].attempts <= jobs[i].max
    BY <2>1 DEF RowOK, Row
  <2>3. /\ r \in Row /\ r.kind = jobs[i].kind /\ r.head = jobs[i].head /\ r.digest = jobs[i].digest
        /\ r.status = "running" \/ r.status = "failed"
    <3>1. jobs[i].attempts + 1 > jobs[i].max \/ jobs[i].attempts + 1 <= jobs[i].max
      BY <2>1 DEF Row
    <3> QED
      BY <2>1, <2>2, <3>1, TakenRow
  <2>4. jobs' = [jobs EXCEPT ![i] = r]
    BY <1>6
  <2> HIDE DEF r
  <2>5. r.status = "running" \/ (jobs'[i] = r => Ended(i))
    BY <2>3 DEF Ended
  <2> QED
    BY <1>3, <2>1, <2>3, <2>4, <2>5
<1>7. ASSUME NEW q \in Reports, ReportSettle(q)
      PROVE  Good
  <2> DEFINE i == report[q].job
             r == Settled(jobs[i], report[q].id, report[q].plan)
  <2>1. /\ i \in Rows /\ jobs[i] \in Row /\ RowOK(jobs[i])
        /\ jobs' = [jobs EXCEPT ![i] = r] /\ report' = [report EXCEPT ![q] = IdleReport]
        /\ report[q].plan \in {"succeeded", "failed", "expired"}
        /\ report[q].plan = "expired" => jobs[i].kind # AuditKind
    BY <1>7, ReportSettles
  <2>2. /\ r \in Row /\ r.kind = jobs[i].kind /\ r.head = jobs[i].head /\ r.digest = jobs[i].digest
        /\ r = jobs[i] \/ r.status \in {"succeeded", "failed", "expired"}
        /\ r.status = "succeeded" /\ jobs[i].status = "running" => MayComplete(jobs[i], report[q].id)
        /\ r.status = "expired" /\ jobs[i].status = "running" => report[q].plan = "expired"
    BY <2>1, SettledRow
  <2>3. jobs[i].status = "running" /\ MayComplete(jobs[i], report[q].id)
          => report[q].id \in {jobs[i].owner, None}
    BY <2>1 DEF MayComplete, RowOK
  <2>4. report'[q] = IdleReport
    BY <2>1 DEF IInv, TypeOK
  <2> HIDE DEF r
  <2>5. jobs[i].status = "running" => r.status = "running" \/ (jobs'[i] = r => Ended(i))
    BY <2>1, <2>2, <2>3, <2>4 DEF Ended
  <2> HIDE DEF i
  <2> QED
    BY <1>3, <2>1, <2>2, <2>5
<1>8. ASSUME NEW a \in Audits, AuditStep(a)
      PROVE  Good
  <2>1. CASE jobs' = jobs
    BY <1>1, <2>1
  <2>2. CASE AuditEnqueue(a) /\ jobs' # jobs
    BY <1>4, <2>2, AuditInserts
  <2>3. CASE AuditClaim(a) /\ jobs' # jobs
    BY <1>6, <2>3 DEF AuditClaim
  <2> QED
    BY <1>8, <2>1, <2>2, <2>3 DEF AuditStep, AuditScope, AuditReport, Begin
<1>9. ASSUME NEW q \in Reports, ReportStep(q)
       PROVE  Good
  <2>1. CASE jobs' = jobs
    BY <1>1, <2>1
  <2> QED
    BY <1>7, <1>9, <2>1 DEF ReportStep, Report, Begin, ReportList
<1>10. ASSUME NEW w \in Workers, Claim(w)
       PROVE  Good
  BY <1>6, <1>10 DEF Claim, First
<1>11. ASSUME NEW i \in JobIds, Retry(i)
      PROVE  Good
  <2> DEFINE r == Retried(jobs[i])
  <2>1. i \in Rows /\ jobs[i] \in Row /\ jobs' = [jobs EXCEPT ![i] = r]
    BY <1>11 DEF Retry, Rows, IInv, TypeOK
  <2>2. jobs[i].attempts >= jobs[i].max \/ jobs[i].attempts < jobs[i].max
    BY <2>1 DEF Row
  <2>3. /\ r \in Row /\ r.kind = jobs[i].kind /\ r.head = jobs[i].head /\ r.digest = jobs[i].digest
        /\ r.status = "failed" \/ r.status = "queued"
    BY <2>1, <2>2, RetriedRow
  <2> HIDE DEF r
  <2>4. jobs'[i] = r => Ended(i)
    BY <2>3 DEF Ended
  <2> QED
    BY <1>3, <2>1, <2>3, <2>4
<1>12. ASSUME NEW i \in JobIds, NEW status \in CancelStatuses, Cancel(i, status)
      PROVE  Good
  <2> DEFINE r == Released(jobs[i], status)
  <2>1. i \in Rows /\ jobs[i] \in Row /\ jobs' = [jobs EXCEPT ![i] = r]
    BY <1>12 DEF Cancel, Rows, IInv, TypeOK
  <2>2. status \in Status \ {"running"} /\ status # "succeeded"
    BY DEF Status
  <2>3. /\ r \in Row /\ r.kind = jobs[i].kind /\ r.head = jobs[i].head
        /\ r.digest = jobs[i].digest /\ r.status = status
    BY <2>1, <2>2, ReleasedRow
  <2> HIDE DEF r
  <2>4. jobs'[i] = r => Ended(i)
    BY <1>12, <2>2, <2>3 DEF Ended
  <2> QED
    BY <1>3, <2>1, <2>3, <2>4
<1>13. ASSUME NEW i \in JobIds, Tick(i)
      PROVE  Good
  <2> DEFINE r == [jobs[i] EXCEPT !.waiting = FALSE]
  <2>1. i \in Rows /\ jobs[i] \in Row /\ jobs' = [jobs EXCEPT ![i] = r]
    BY <1>13 DEF Tick, Rows, IInv, TypeOK, Row
  <2>2. /\ r \in Row /\ r.kind = jobs[i].kind /\ r.head = jobs[i].head
        /\ r.digest = jobs[i].digest /\ r.status = jobs[i].status
    BY <2>1 DEF Row
  <2> HIDE DEF r
  <2> QED
    BY <1>3, <2>1, <2>2
<1>14. CASE Commit \/ LedgerEvent \/ Restart \/ UNCHANGED vars
  <2>1. jobs' = jobs
    BY <1>14 DEF Commit, LedgerEvent, Restart, vars
  <2> QED
    BY <1>1, <2>1
<1> QED
  BY <1>5, <1>8, <1>9, <1>10, <1>11, <1>12, <1>13, <1>14 DEF Next, Operator

\* A running audit is cancelled, superseded or expired by jobs.cancel and nothing else.
THEOREM AuditsAreSpared == Spec => AuditSpared
<1>1. ASSUME IInv, [Next]_vars, NEW j \in Rows, jobs[j].kind = AuditKind, jobs[j].status = "running",
             jobs'[j].status \in {"cancelled", "superseded", "expired"}
      PROVE  \E status \in CancelStatuses : Cancel(j, status)
  BY <1>1, RowStep DEF Ended
<1>2. IInv /\ [Next]_vars =>
        [\A j \in Rows :
           /\ jobs[j].kind = AuditKind /\ jobs[j].status = "running"
           /\ jobs'[j].status \in {"cancelled", "superseded", "expired"}
           => \E status \in CancelStatuses : Cancel(j, status)]_vars
  BY <1>1
<1> QED
  BY <1>2, QueueInductive, PTL DEF Spec, AuditSpared

\* A running job succeeds only with a report of its lease's owner, or of nobody.
THEOREM ReportedByHolder == Spec => ReportsByHolder
<1>1. ASSUME IInv, [Next]_vars, NEW j \in Rows, jobs[j].status = "running", jobs'[j].status = "succeeded"
      PROVE  \E r \in Reports : /\ report[r].job = j /\ report'[r] = IdleReport
                                /\ report[r].id \in {jobs[j].owner, None}
  BY <1>1, RowStep DEF Ended
<1>2. IInv /\ [Next]_vars =>
        [\A j \in Rows :
           jobs[j].status = "running" /\ jobs'[j].status = "succeeded"
           => \E r \in Reports : /\ report[r].job = j /\ report'[r] = IdleReport
                                 /\ report[r].id \in {jobs[j].owner, None}]_vars
  BY <1>1
<1> QED
  BY <1>2, QueueInductive, PTL DEF Spec, ReportsByHolder

-----------------------------------------------------------------------------
(* Refusals                                                                *)

\* Until the branch has a ledger event, cursors are moments of this worktree: a hook looks
\* at the files before it reads HEAD, and a report that finds its job stale has seen a
\* commit made since.
CursorsOK ==
    ledger = None =>
      /\ \A j \in Rows : jobs[j].kind # AuditKind => jobs[j].digest <= jobs[j].head /\ jobs[j].head <= git
      /\ \A h \in Hooks :
           /\ hook[h].pc = "scoped" => hook[h].digest <= git
           /\ hook[h].pc \in {"read", "sweeping"} => hook[h].digest <= hook[h].mine /\ hook[h].mine <= git
      /\ \A r \in Reports :
           report[r].pc # "idle" /\ report[r].plan = "expired" => jobs[report[r].job].digest < git

\* Rows are new only after an insert.
LEMMA NewRowStep ==
    ASSUME IInv, [Next]_vars, NEW j \in JobIds \ Rows, jobs'[j] # None
    PROVE  \/ \E h \in Hooks, kind \in Kinds, pri \in Priorities, debounce \in Debounces :
                HookEnqueue(h, kind, pri, debounce)
           \/ \E a \in Audits : AuditEnqueue(a)
<1>1. jobs[j] = None /\ jobs \in [JobIds -> Row \cup {None}]
  BY DEF Rows, IInv, TypeOK
<1>2. ASSUME NEW i \in Rows, NEW r, jobs' = [jobs EXCEPT ![i] = r] PROVE FALSE
  <2>1. i # j
    OBVIOUS
  <2> QED
    BY <1>1, <1>2, <2>1
<1>3. jobs' # jobs
  BY <1>1
<1>4. ASSUME NEW h \in Hooks, HookRead(h) \/ HookList(h) \/ \E read \in 0..git : HookScope(h, read)
      PROVE FALSE
  BY <1>3, <1>4 DEF HookRead, HookList, HookScope
<1>5. ASSUME NEW h \in Hooks, HookSweep(h) PROVE FALSE
  BY <1>2, <1>5 DEF HookSweep, IInv, HooksOK
<1>6. ASSUME NEW w \in Workers, Claim(w) PROVE FALSE
  <2>1. \A i \in First(Claimable) : i \in Rows
    BY DEF Claimable, First
  <2> QED
    BY <1>2, <1>6, <2>1 DEF Claim
<1>7. ASSUME NEW a \in Audits, AuditClaim(a) \/ \E read \in 0..git : AuditScope(a, read) PROVE FALSE
  <2>1. \A i \in Claimable : i \in Rows
    BY DEF Claimable
  <2> QED
    BY <1>2, <1>3, <1>7, <2>1 DEF AuditClaim, AuditScope
<1>8. ASSUME NEW r \in Reports, ReportSettle(r) PROVE FALSE
  BY <1>2, <1>8, ReportSettles
<1>9. ASSUME NEW r, NEW i, NEW id, NEW outcome, NEW read, Begin(r, i, id, outcome, read) PROVE FALSE
  BY <1>3, <1>9 DEF Begin
<1>10. ASSUME NEW a \in Audits, NEW r, NEW outcome, NEW read, AuditReport(a, r, outcome, read) PROVE FALSE
  BY <1>9, <1>10 DEF AuditReport
<1>11. ASSUME NEW r \in Reports, ReportStep(r) PROVE FALSE
  BY <1>3, <1>8, <1>9, <1>11 DEF ReportStep, ReportList, Report
<1>12. ASSUME NEW i \in JobIds, Retry(i) \/ (\E status \in CancelStatuses : Cancel(i, status)) PROVE FALSE
  BY <1>2, <1>12 DEF Retry, Cancel
<1>13. ASSUME NEW i \in JobIds, Tick(i) PROVE FALSE
  <2>1. jobs' = [jobs EXCEPT ![i] = [jobs[i] EXCEPT !.waiting = FALSE]] /\ i \in Rows
    BY <1>13 DEF Tick
  <2> QED
    BY <1>2, <2>1
<1>14. ASSUME Commit \/ LedgerEvent \/ Restart \/ UNCHANGED vars PROVE FALSE
  BY <1>3, <1>14 DEF Commit, LedgerEvent, Restart, vars
<1> QED
  BY <1>4, <1>5, <1>6, <1>7, <1>10, <1>11, <1>12, <1>13, <1>14 DEF Next, HookStep, AuditStep, Operator

\* The ledger does not lose its events, and HEAD moves forward only.
LEMMA TimeMoves ==
    ASSUME IInv, [Next]_vars, ledger' = None
    PROVE  ledger = None /\ git \in Nat /\ git' \in Nat /\ git <= git'
<1>1. git \in Nat /\ git' \in Nat
  BY StepIInv DEF IInv, TypeOK, Cursors
<1>2. CASE LedgerEvent
  BY <1>2 DEF LedgerEvent, IInv, TypeOK
<1>3. CASE Commit
  BY <1>1, <1>3 DEF Commit
<1>4. CASE ~LedgerEvent /\ ~Commit
  <2>1. ledger' = ledger /\ git' = git
    BY <1>4 DEF Next, HookStep, HookScope, HookRead, HookList, HookSweep, HookEnqueue, Claim, AuditStep,
                AuditScope, AuditEnqueue, AuditClaim, AuditReport, ReportStep, Report, Begin, ReportList,
                ReportSettle, Operator, Retry, Cancel, Tick, Restart, vars
  <2> QED
    BY <1>1, <2>1
<1> QED
  BY <1>2, <1>3, <1>4

\* A hook looks at the files, then at HEAD.
LEMMA CursorsHook ==
    ASSUME IInv, CursorsOK, [Next]_vars, ledger' = None, NEW h \in Hooks
    PROVE  /\ hook'[h].pc = "scoped" => hook'[h].digest <= git'
           /\ hook'[h].pc \in {"read", "sweeping"} => hook'[h].digest <= hook'[h].mine /\ hook'[h].mine <= git'
<1> DEFINE Good == /\ hook'[h].pc = "scoped" => hook'[h].digest <= git'
                   /\ hook'[h].pc \in {"read", "sweeping"} =>
                        hook'[h].digest <= hook'[h].mine /\ hook'[h].mine <= git'
<1>1. ledger = None /\ git \in Nat /\ git' \in Nat /\ git <= git'
  BY TimeMoves
<1>2. /\ hook[h].pc = "scoped" => hook[h].digest <= git
      /\ hook[h].pc \in {"read", "sweeping"} => hook[h].digest <= hook[h].mine /\ hook[h].mine <= git
      /\ hook[h].digest \in Nat /\ hook[h].mine \in Nat /\ hook \in [Hooks -> HookState]
  BY <1>1 DEF CursorsOK, IInv, TypeOK, HookState, Cursors
<1>3. ASSUME hook'[h] = hook[h] PROVE Good
  BY <1>1, <1>2, <1>3
<1>4. ASSUME NEW g \in Hooks, HookStep(g) PROVE Good
  <2>1. ASSUME NEW read \in 0..git, HookScope(g, read) PROVE Good
    BY <1>1, <1>2, <1>3, <2>1 DEF HookScope, ScopeDigest
  <2>2. CASE HookRead(g)
    BY <1>1, <1>2, <1>3, <2>2 DEF HookRead
  <2>3. CASE HookList(g)
    BY <1>1, <1>2, <1>3, <2>3 DEF HookList
  <2>4. CASE HookSweep(g)
    BY <1>1, <1>2, <1>3, <2>4 DEF HookSweep
  <2>5. ASSUME NEW kind, NEW pri, NEW debounce, HookEnqueue(g, kind, pri, debounce) PROVE Good
    BY <1>2, <1>3, <2>5 DEF HookEnqueue, IdleHook
  <2> QED
    BY <1>4, <2>1, <2>2, <2>3, <2>4, <2>5 DEF HookStep
<1>5. CASE Restart
  BY <1>5 DEF Restart, IdleHook
<1>6. CASE ~Restart /\ ~\E g \in Hooks : HookStep(g)
  <2>1. hook' = hook
    BY <1>6 DEF Next, Claim, AuditStep, AuditScope, AuditEnqueue, AuditClaim, AuditReport, ReportStep,
                Report, Begin, ReportList, ReportSettle, Operator, Retry, Cancel, Tick, Commit,
                LedgerEvent, vars
  <2> QED
    BY <1>3, <2>1
<1> QED
  BY <1>4, <1>5, <1>6

\* A hook's new row carries files no newer than its HEAD, and a HEAD there has been.
LEMMA CursorsRow ==
    ASSUME IInv, CursorsOK, [Next]_vars, ledger' = None, NEW j \in JobIds, jobs'[j] # None,
           jobs'[j].kind # AuditKind
    PROVE  jobs'[j].digest <= jobs'[j].head /\ jobs'[j].head <= git'
<1>1. ledger = None /\ git \in Nat /\ git' \in Nat /\ git <= git'
  BY TimeMoves
<1>2. CASE j \in Rows
  <2>1. /\ jobs'[j].kind = jobs[j].kind /\ jobs'[j].head = jobs[j].head
        /\ jobs'[j].digest = jobs[j].digest /\ jobs[j].head \in Nat
    BY <1>2, RowStep DEF IInv, TypeOK, Rows, Row, Cursors
  <2> QED
    BY <1>1, <1>2, <2>1 DEF CursorsOK
<1>3. CASE j \notin Rows
  <2>1. ASSUME NEW i \in JobIds, i \notin Rows, NEW row \in Row, RowOK(row), row.status = "queued",
               SameWork(row.kind, row.head) = {}, NEW E \in SUBSET With("queued"), Insert(i, row, E)
        PROVE  jobs'[j] = row
    <3>1. Rows' = Rows \cup {i} /\ jobs'[i] = row
      BY <2>1, InsertKeeps DEF IInv
    <3>2. j \in Rows'
      BY DEF Rows
    <3> QED
      BY <1>3, <3>1, <3>2
  <2>2. jobs' # jobs
    BY <1>3 DEF Rows
  <2>3. ASSUME NEW h \in Hooks, NEW kind \in Kinds, NEW pri \in Priorities, NEW debounce \in Debounces,
               HookEnqueue(h, kind, pri, debounce)
        PROVE  jobs'[j].digest <= jobs'[j].head /\ jobs'[j].head <= git'
    <3>1. PICK i \in JobIds, E \in SUBSET With("queued"), row \in Row :
            /\ i \notin Rows /\ RowOK(row) /\ row.status = "queued"
            /\ row.head = hook[h].mine /\ row.digest = hook[h].digest
            /\ SameWork(row.kind, row.head) = {} /\ Insert(i, row, E)
      BY <2>2, <2>3, HookInserts
    <3>2. jobs'[j] = row
      BY <2>1, <3>1
    <3>3. hook[h].digest <= hook[h].mine /\ hook[h].mine <= git /\ hook[h].mine \in Nat
      BY <1>1, <2>3 DEF HookEnqueue, CursorsOK, IInv, TypeOK, HookState, Cursors
    <3> QED
      BY <1>1, <3>1, <3>2, <3>3
  <2>4. ASSUME NEW a \in Audits, AuditEnqueue(a) PROVE FALSE
    <3>1. PICK i \in JobIds, row \in Row :
            /\ i \notin Rows /\ RowOK(row) /\ row.status = "queued" /\ row.kind = AuditKind
            /\ SameWork(row.kind, row.head) = {} /\ {} \in SUBSET With("queued") /\ Insert(i, row, {})
      BY <2>2, <2>4, AuditInserts
    <3> QED
      BY <2>1, <3>1
  <2> QED
    BY <1>3, <2>3, <2>4, NewRowStep
<1> QED
  BY <1>2, <1>3

\* A report judged by HEAD and files as they are refuses only what a commit has overtaken.
LEMMA JudgedStale ==
    ASSUME IInv, CursorsOK, ledger = None, NEW j \in Rows, NEW outcome \in {"succeeded", "failed"},
           NEW read \in 0..git, read >= jobs[j].head, Plan(jobs[j], outcome, read) = "expired"
    PROVE  jobs[j].digest < git
<1>1. IsStale(jobs[j], read, git)
  BY DEF Plan, ScopeHead, ScopeDigest
<1>2. jobs[j].digest <= jobs[j].head /\ jobs[j].head <= git
  BY <1>1 DEF CursorsOK, IsStale
<1>3. jobs[j].digest \in Nat /\ jobs[j].head \in Nat /\ git \in Nat /\ read \in Nat /\ read <= git
  BY DEF IInv, TypeOK, Rows, Row, Cursors
<1>4. jobs[j].head # read \/ jobs[j].digest # git
  BY <1>1 DEF IsStale
<1> QED
  BY <1>2, <1>3, <1>4

\* What a report has found stale stays so.
LEMMA CursorsReport ==
    ASSUME IInv, CursorsOK, [Next]_vars, ledger' = None, NEW r \in Reports,
           report'[r].pc # "idle", report'[r].plan = "expired"
    PROVE  jobs'[report'[r].job].digest < git'
<1>1. ledger = None /\ git \in Nat /\ git' \in Nat /\ git <= git'
  BY TimeMoves
<1>2. ASSUME report[r].pc # "idle", report'[r].job = report[r].job, report'[r].plan = report[r].plan
      PROVE  jobs'[report'[r].job].digest < git'
  <2>1. report[r].job \in Rows /\ jobs[report[r].job].digest < git
    BY <1>1, <1>2 DEF CursorsOK, IInv, ReportsOK
  <2>2. jobs'[report[r].job].digest = jobs[report[r].job].digest /\ jobs[report[r].job].digest \in Nat
    BY <2>1, RowStep DEF IInv, TypeOK, Rows, Row, Cursors
  <2> QED
    BY <1>1, <1>2, <2>1, <2>2
<1>3. report \in [Reports -> ReportState]
  BY DEF IInv, TypeOK
<1>4. ASSUME NEW s \in Reports, NEW j \in JobIds, NEW id, NEW outcome \in {"succeeded", "failed"},
             NEW read \in 0..git, Begin(s, j, id, outcome, read)
      PROVE  jobs'[report'[r].job].digest < git'
  <2>1. CASE s # r
    <3>1. report'[r] = report[r]
      BY <1>3, <1>4, <2>1 DEF Begin
    <3> QED
      BY <1>2, <3>1
  <2>2. CASE s = r
    <3> DEFINE plan == Plan(jobs[j], outcome, read)
    <3>1. /\ report' = [report EXCEPT ![r] = [pc |-> "scoped", job |-> j, id |-> id, plan |-> plan]]
          /\ j \in Rows /\ read >= jobs[j].head /\ jobs' = jobs
      BY <1>4, <2>2 DEF Begin
    <3> HIDE DEF plan
    <3>2. report'[r].job = j /\ plan = "expired"
      BY <1>3, <3>1
    <3>3. jobs[j].digest < git /\ jobs[j].digest \in Nat
      BY <1>1, <3>1, <3>2, JudgedStale DEF plan, IInv, TypeOK, Rows, Row, Cursors
    <3> QED
      BY <1>1, <3>1, <3>2, <3>3
  <2> QED
    BY <2>1, <2>2
<1>5. ASSUME NEW s \in Reports, ReportStep(s) PROVE jobs'[report'[r].job].digest < git'
  <2>1. CASE ReportList(s) \/ ReportSettle(s)
    <3>1. report'[r] = report[r] \/ report'[r] = IdleReport \/ report'[r] = [report[r] EXCEPT !.pc = "listed"]
      BY <1>3, <2>1 DEF ReportList, ReportSettle
    <3>2. report'[r].job = report[r].job /\ report'[r].plan = report[r].plan
      BY <1>3, <3>1 DEF ReportState, IdleReport
    <3>3. report[r].pc # "idle"
      BY <1>3, <2>1, <3>1 DEF ReportState, IdleReport, ReportList, ReportSettle
    <3> QED
      BY <1>2, <3>2, <3>3
  <2>2. CASE ~(ReportList(s) \/ ReportSettle(s))
    BY <1>4, <1>5, <2>2 DEF ReportStep, Report
  <2> QED
    BY <2>1, <2>2
<1>6. ASSUME NEW a \in Audits, NEW s \in Reports, NEW outcome \in {"succeeded", "failed"},
             NEW read \in 0..git, AuditReport(a, s, outcome, read)
      PROVE  jobs'[report'[r].job].digest < git'
  <2>1. Begin(s, audit[a].job, Daemon, outcome, read) /\ audit[a].job \in JobIds
    BY <1>6 DEF AuditReport, Begin, Rows
  <2> QED
    BY <1>4, <2>1
<1>7. CASE Restart
  BY <1>7 DEF Restart, IdleReport
<1>8. CASE /\ ~Restart /\ ~\E s \in Reports : ReportStep(s)
           /\ ~\E a \in Audits, s \in Reports, outcome \in {"succeeded", "failed"}, read \in 0..git :
                 AuditReport(a, s, outcome, read)
  <2>1. report' = report
    BY <1>8 DEF Next, HookStep, HookScope, HookRead, HookList, HookSweep, HookEnqueue, Claim, AuditStep,
                AuditScope, AuditEnqueue, AuditClaim, Operator, Retry, Cancel, Tick, Commit, LedgerEvent,
                vars
  <2> QED
    BY <1>2, <2>1
<1> QED
  BY <1>5, <1>6, <1>7, <1>8

\* Every step preserves what relates rows and handlers to the commits.
LEMMA CursorsStep == IInv /\ CursorsOK /\ [Next]_vars => CursorsOK'
<1> SUFFICES ASSUME IInv, CursorsOK, [Next]_vars, ledger' = None PROVE CursorsOK'
  BY DEF CursorsOK
<1>1. \A j \in Rows' : jobs'[j].kind # AuditKind =>
        jobs'[j].digest <= jobs'[j].head /\ jobs'[j].head <= git'
  BY CursorsRow DEF Rows
<1> QED
  BY <1>1, CursorsHook, CursorsReport DEF CursorsOK

\* While the branch has no ledger event, a success is refused as stale only after a commit
\* that the hook of its job had not seen in the files.
THEOREM RefusalsFollowCommits == Spec => RefusalFollowsCommit
<1>1. Init => CursorsOK
  BY DEF Init, CursorsOK, Rows, IdleHook, IdleReport
<1>2. Spec => [](IInv /\ CursorsOK)
  BY <1>1, InitIInv, StepIInv, CursorsStep, PTL DEF Spec
<1>3. ASSUME IInv, CursorsOK, NEW r \in Reports, ledger = None, RefusedAsStale(r)
      PROVE  jobs[report[r].job].digest # git
  <2>1. report[r].job \in Rows /\ jobs[report[r].job].digest < git
    BY <1>3 DEF RefusedAsStale, CursorsOK, IInv, ReportsOK
  <2>2. jobs[report[r].job].digest \in Nat /\ git \in Nat
    BY <1>3, <2>1 DEF IInv, TypeOK, Rows, Row, Cursors
  <2> QED
    BY <2>1, <2>2
<1>4. IInv /\ CursorsOK /\ [Next]_vars =>
        [\A r \in Reports : ledger = None /\ RefusedAsStale(r) => jobs[report[r].job].digest # git]_vars
  BY <1>3
<1> QED
  BY <1>2, <1>4, PTL DEF Spec, RefusalFollowsCommit

-----------------------------------------------------------------------------
(* The cap of a hook                                                       *)

QueuedNext == {k \in JobIds : jobs'[k] # None /\ jobs'[k].status = "queued"}

\* An enqueue evicts as many as leave room for one.
LEMMA EvictedRoom ==
    ASSUME IInv, NEW kind, NEW pri, NEW E \in Evictions(kind, pri)
    PROVE  LET kept == (With("queued") \ Superseded(kind)) \ E IN
             /\ IsFiniteSet(kept) /\ Cardinality(kept) \in Nat
             /\ Cardinality(kept) + 1 <= MaxQueued
<1> DEFINE open == With("queued") \ Superseded(kind)
           kept == open \ E
<1>1. open \in SUBSET JobIds /\ E \subseteq open /\ kept \in SUBSET JobIds
  BY DEF With, Rows, Evictions, Evictable
<1>2. /\ IsFiniteSet(open) /\ Cardinality(open) \in Nat
      /\ IsFiniteSet(kept) /\ Cardinality(kept) \in Nat
  BY <1>1, RowsFinite
<1>3. Cardinality(kept) = Cardinality(open) - Cardinality(open \cap E)
  BY <1>2, FS_Difference
<1>4. open \cap E = E
  BY <1>1
<1>5. Cardinality(E) = Required(Cardinality(open))
  BY DEF Evictions
<1> HIDE DEF open, kept
<1> DEFINE n == Cardinality(open)
           m == Cardinality(kept)
<1>6. n \in Nat /\ m \in Nat /\ m = n - Required(n)
  BY <1>2, <1>3, <1>4, <1>5
<1> HIDE DEF n, m
<1>7. m + 1 <= MaxQueued
  <2>1. CASE n >= MaxQueued
    BY <1>6, <2>1 DEF Required
  <2>2. CASE ~(n >= MaxQueued)
    BY <1>6, <2>2 DEF Required
  <2> QED
    BY <2>1, <2>2
<1> QED
  BY <1>2, <1>7 DEF m, kept, open

\* A hook's insert leaves at most maxQueuedJobs queued, and expires nothing more urgent.
LEMMA HookInsertCap ==
    ASSUME IInv, NEW h \in Hooks, NEW kind \in Kinds, NEW pri \in Priorities,
           NEW debounce \in Debounces, HookEnqueue(h, kind, pri, debounce), jobs' # jobs,
           NEW j \in JobIds \ Rows, jobs'[j] # None
    PROVE  /\ Cardinality(QueuedNext) <= MaxQueued
           /\ \A k \in With("queued") : jobs'[k].status = "expired" => jobs[k].pri <= jobs'[j].pri
<1>1. PICK i \in JobIds, E \in Evictions(kind, pri), row \in Row :
        /\ i \notin Rows /\ RowOK(row) /\ row.status = "queued" /\ row.kind = kind /\ row.pri = pri
        /\ SameWork(row.kind, row.head) = {} /\ E \in SUBSET With("queued") /\ Insert(i, row, E)
  BY HookInserts
<1> DEFINE S == Superseded(kind)
           kept == (With("queued") \ S) \ E
<1>2. Rows' = Rows \cup {i} /\ jobs'[i] = row
  BY <1>1, InsertKeeps DEF IInv
<1>3. j = i /\ jobs'[j].pri = pri
  <2>1. j \in Rows'
    BY DEF Rows
  <2> QED
    BY <1>1, <1>2, <2>1
<1>4. \A k \in Rows : /\ k \in S => jobs'[k].status = "superseded"
                      /\ k \notin S /\ k \in E => jobs'[k].status = "expired"
                      /\ k \notin S /\ k \notin E => jobs'[k] = jobs[k]
  <2> SUFFICES ASSUME NEW k \in Rows
               PROVE  /\ k \in S => jobs'[k].status = "superseded"
                      /\ k \notin S /\ k \in E => jobs'[k].status = "expired"
                      /\ k \notin S /\ k \notin E => jobs'[k] = jobs[k]
    OBVIOUS
  <2>1. jobs[k] \in Row /\ k # i /\ k \in JobIds
    BY <1>1 DEF IInv, TypeOK, Rows
  <2>2. "superseded" \in Status \ {"running"} /\ "expired" \in Status \ {"running"}
    BY DEF Status
  <2>3. jobs'[k] = IF k \in S THEN Released(jobs[k], "superseded")
                   ELSE IF k \in E THEN Released(jobs[k], "expired") ELSE jobs[k]
    BY <1>1, <2>1 DEF Insert
  <2> QED
    BY <2>1, <2>2, <2>3, ReleasedRow
<1>5. QueuedNext = kept \cup {i}
  <2>1. QueuedNext = {k \in Rows \cup {i} : jobs'[k].status = "queued"}
    BY <1>2 DEF QueuedNext, Rows
  <2>2. S \subseteq With("queued") /\ E \subseteq With("queued") /\ With("queued") \subseteq Rows
    BY <1>1 DEF Superseded, With
  <2>3. \A k \in Rows : jobs'[k].status = "queued" <=> k \in kept
    BY <1>4, <2>2 DEF With
  <2>4. jobs'[i].status = "queued" /\ kept \subseteq Rows
    BY <1>1, <1>2, <2>2
  <2> QED
    BY <2>1, <2>3, <2>4
<1>6. IsFiniteSet(kept) /\ Cardinality(kept) \in Nat /\ Cardinality(kept) + 1 <= MaxQueued
  BY <1>1, EvictedRoom
<1>7. i \notin kept
  BY <1>1 DEF With
<1> HIDE DEF kept
<1>8. Cardinality(QueuedNext) = Cardinality(kept) + 1
  BY <1>5, <1>6, <1>7, FS_AddElement
<1>9. ASSUME NEW k \in With("queued"), jobs'[k].status = "expired" PROVE jobs[k].pri <= pri
  <2>1. k \in Rows /\ jobs[k].status = "queued"
    BY DEF With
  <2>2. k \in E
    BY <1>4, <1>9, <2>1
  <2> QED
    BY <1>1, <2>2 DEF Evictions, Evictable
<1> QED
  BY <1>3, <1>6, <1>8, <1>9

\* After a hook has queued a job, no more than maxQueuedJobs are queued, however many
\* were before, and it has expired none of higher priority than its own.
THEOREM HooksKeepTheCap == Spec => HookKeepsCap
<1>1. ASSUME IInv, [Next]_vars, NEW j \in JobIds \ Rows, jobs'[j] # None, jobs'[j].kind # AuditKind
      PROVE  /\ Cardinality(QueuedNext) <= MaxQueued
             /\ \A k \in With("queued") : jobs'[k].status = "expired" => jobs[k].pri <= jobs'[j].pri
  <2>1. jobs' # jobs
    BY <1>1 DEF Rows
  <2>2. ASSUME NEW a \in Audits, AuditEnqueue(a) PROVE FALSE
    <3>1. PICK i \in JobIds, row \in Row :
            /\ i \notin Rows /\ RowOK(row) /\ row.status = "queued" /\ row.kind = AuditKind
            /\ SameWork(row.kind, row.head) = {} /\ {} \in SUBSET With("queued") /\ Insert(i, row, {})
      BY <1>1, <2>1, <2>2, AuditInserts
    <3>2. Rows' = Rows \cup {i} /\ jobs'[i] = row
      BY <1>1, <3>1, InsertKeeps DEF IInv
    <3>3. j \in Rows'
      BY <1>1 DEF Rows
    <3> QED
      BY <1>1, <3>1, <3>2, <3>3
  <2> QED
    BY <1>1, <2>1, <2>2, NewRowStep, HookInsertCap
<1>2. IInv /\ [Next]_vars =>
        [\A j \in JobIds \ Rows :
           jobs'[j] # None /\ jobs'[j].kind # AuditKind
           => /\ Cardinality({k \in JobIds : jobs'[k] # None /\ jobs'[k].status = "queued"}) <= MaxQueued
              /\ \A k \in With("queued") :
                   jobs'[k].status = "expired" => jobs[k].pri <= jobs'[j].pri]_vars
  BY <1>1 DEF QueuedNext
<1> QED
  BY <1>2, QueueInductive, PTL DEF Spec, HookKeepsCap
=============================================================================
