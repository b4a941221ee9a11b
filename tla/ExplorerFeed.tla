---------------------------- MODULE ExplorerFeed ----------------------------
(***************************************************************************)
(* The Explorer of one worktree: the change feed of the ledger, drained by *)
(* whoever has appended to the ledger and by every request for a           *)
(* projection; the projections, compiled from inputs read across awaits    *)
(* and cached under all that went into them; and the pages in a browser,   *)
(* which render one projection and reload when the daemon's stream tells   *)
(* them to.                                                                *)
(*                                                                         *)
(* A step is what the daemon does between two awaits, but for the reads of *)
(* the ledger's rows, which all compare the same cursor and are one.       *)
(* Events and their feed records are numbers.  Which cached projections a  *)
(* change concerns is data, and any of them may be; that the files are no  *)
(* longer those of the request's scope may be found wherever the request   *)
(* looks for it.                                                           *)
(***************************************************************************)
EXTENDS Naturals, FiniteSets

CONSTANTS
    Pages,       \* browser tabs; all show one view
    Committers,  \* operations of the daemon that append to the ledger
    Query,       \* what each page asks for: focus, level, budget
    Batch,       \* feed records of one page of the feed
    CacheLimit,  \* cached projections kept
    MaxEvents, MaxFaults,
    None

ASSUME ExplorerAssumption ==
    /\ Pages \cap Committers = {}
    /\ Batch \in Nat \ {0} /\ CacheLimit \in Nat \ {0}
    /\ MaxEvents \in Nat /\ MaxFaults \in Nat
    /\ DOMAIN Query = Pages

VARIABLES
    head,        \* events in the ledger, each with its feed record
    checkpoint, delivered,  \* the consumer's row: acknowledged, handed out
    announced,   \* records whose page notification has been sent
    cached, invalid,  \* the projection cache, and those of it marked invalidated
    task,        \* what each page's request and each committer is at
    page,
    faults

vars == <<head, checkpoint, delivered, announced, cached, invalid, task, page, faults>>

Tasks == Pages \cup Committers
Records == 1..MaxEvents

\* at is the event a projection names as its authority cursor, rows the one its rows of
\* the ledger were read at.
Projection == [query : {Query[p] : p \in Pages}, at : 0..MaxEvents, rows : 0..MaxEvents]

Task == [pc : {"idle", "authority", "listing", "processing", "acknowledging",
               "inputs", "comparing", "saving", "serving", "subscribing"},
         at : 0..MaxEvents, rows : 0..MaxEvents,
         next : 0..(MaxEvents + 1), upto : 0..MaxEvents, more : BOOLEAN]  \* its batch
Idle == [pc |-> "idle", at |-> 0, rows |-> 0, next |-> 0, upto |-> 0, more |-> FALSE]

Page == [shown : Projection \cup {None}, live : BOOLEAN, reload : BOOLEAN]
Blank == [shown |-> None, live |-> FALSE, reload |-> FALSE]

TypeOK ==
    /\ head \in 0..MaxEvents
    /\ checkpoint \in 0..MaxEvents /\ delivered \in 0..MaxEvents
    /\ announced \subseteq Records
    /\ cached \subseteq Projection /\ invalid \subseteq cached
    /\ task \in [Tasks -> Task] /\ page \in [Pages -> Page]
    /\ faults \in 0..MaxFaults

Init ==
    /\ head = 0 /\ checkpoint = 0 /\ delivered = 0 /\ announced = {}
    /\ cached = {} /\ invalid = {}
    /\ task = [t \in Tasks |-> Idle] /\ page = [p \in Pages |-> Blank]
    /\ faults = 0

At(t, pc) == task[t].pc = pc
Goto(t, pc) == task' = [task EXCEPT ![t].pc = pc]
Fault == faults < MaxFaults /\ faults' = faults + 1

feed == <<head, checkpoint, delivered, announced>>
cache == <<cached, invalid>>
-----------------------------------------------------------------------------
(* Drains: the daemon's one consumer of the feed, by any number of tasks. *)

\* appendArchitectureEventsWithFeed: the event and its record in one transaction, or an
\* event that is there already; either way the feed is drained.
Commit(c) ==
    /\ At(c, "idle")
    /\ task' = [task EXCEPT ![c] = [Idle EXCEPT !.pc = "listing"]]
    /\ \/ head < MaxEvents /\ head' = head + 1
       \/ head > 0 /\ UNCHANGED head
    /\ UNCHANGED <<checkpoint, delivered, announced, cache, page, faults>>

DrainEnds(t) ==
    task' = IF t \in Committers THEN [task EXCEPT ![t] = Idle]
            ELSE [task EXCEPT ![t].pc = "inputs", ![t].next = 0, ![t].upto = 0, ![t].more = FALSE]

Upto(from) == IF head - from > Batch THEN from + Batch ELSE head

\* Broken: goes on after what has been handed out, whether or not it was acknowledged.
BrokenAfterDelivered == delivered
After == checkpoint

List(t) ==
    /\ At(t, "listing")
    /\ IF After = head
       THEN DrainEnds(t) /\ UNCHANGED delivered
       ELSE /\ task' = [task EXCEPT ![t].pc = "processing", ![t].next = After + 1,
                                    ![t].upto = Upto(After), ![t].more = Upto(After) < head]
            /\ delivered' = IF delivered > Upto(After) THEN delivered ELSE Upto(After)
    /\ UNCHANGED <<head, checkpoint, announced, cache, page, faults>>

\* listAffectedExplorerOccurrences, invalidateExplorerOccurrences: a projection is marked,
\* and stays in the cache, when one of its occurrences depends on what the record changes.
\* notifyExplorerAuthorityInvalidation: every page on the stream schedules a reload.
ProcessRecord(t) ==
    /\ At(t, "processing")
    /\ \E gone \in SUBSET (cached \ invalid) : invalid' = invalid \cup gone
    /\ announced' = announced \cup {task[t].next}
    /\ page' = [p \in Pages |-> [page[p] EXCEPT !.reload = @ \/ page[p].live]]
    /\ task' = [task EXCEPT ![t].next = @ + 1,
           ![t].pc = IF task[t].next = task[t].upto THEN "acknowledging" ELSE "processing"]
    /\ UNCHANGED <<head, checkpoint, delivered, cached, faults>>

\* An acknowledgement behind the checkpoint, of a drain that others have overtaken, is
\* ignored.  The end of a page of the feed that was not its last lists again.
\* Broken: acknowledges all that has been handed out, to whichever drain.
BrokenAckDelivered(t) == delivered
\* Broken: acknowledges the record the next page begins with.
BrokenAckNext(t) == task[t].upto + 1
AckUpto(t) == IF task[t].upto > checkpoint THEN task[t].upto ELSE checkpoint

Acknowledge(t) ==
    /\ At(t, "acknowledging")
    /\ checkpoint' = AckUpto(t)
    /\ IF task[t].more THEN Goto(t, "listing") ELSE DrainEnds(t)
    /\ UNCHANGED <<head, delivered, announced, cache, page, faults>>
-----------------------------------------------------------------------------
(* A request for a projection.                                            *)

\* The page is left, and its stream with it.
Request(p) ==
    /\ At(p, "idle")
    /\ page' = [page EXCEPT ![p] = Blank]
    /\ task' = [task EXCEPT ![p] = [Idle EXCEPT !.pc = "authority"]]
    /\ UNCHANGED <<feed, cache, faults>>

Visit(p) == ~page[p].reload /\ Request(p)
Reload(p) == page[p].reload /\ Request(p)

\* An error answers the request; the page has nothing to show and no stream.
RequestFails(p) == task' = [task EXCEPT ![p] = Idle]

\* The authority's cursor, and the model files, if they are still those of the scope.
ReadAuthority(p) ==
    /\ At(p, "authority")
    /\ \/ task' = [task EXCEPT ![p].pc = "listing", ![p].at = head]
       \/ RequestFails(p)
    /\ UNCHANGED <<feed, cache, page, faults>>

\* Rows of the ledger are read only while the cursor is the ledger's: the graph where the
\* ledger is the authority, bindings and backlinks where the files are.
\* Broken: the ledger may have moved on.
BrokenNotCompared(p) == TRUE
CursorIsCurrent(p) == task[p].at = head

\* Without an event the ledger has no rows to read.
Rows(p) == IF task[p].at = 0 THEN 0 ELSE head

Projected(p, rows) == [query |-> Query[p], at |-> task[p].at, rows |-> rows]
Compiled(p) == Projected(p, task[p].rows)

\* A projection is cached under the digest of all its inputs.
\* Broken: whatever the inputs, as long as nobody has marked it.
BrokenLatestOfQuery(p) == {x \in cached \ invalid : x.query = Query[p]}
Hits(p) == {x \in cached \ invalid : x = Projected(p, Rows(p))}

ReadInputs(p) ==
    /\ At(p, "inputs")
    /\ \/ RequestFails(p)
       \/ /\ task[p].at = 0 \/ CursorIsCurrent(p)
          /\ Hits(p) = {}
          /\ task' = [task EXCEPT ![p].pc = "comparing", ![p].rows = Rows(p)]
       \/ /\ task[p].at = 0 \/ CursorIsCurrent(p)
          /\ \E x \in Hits(p) :
                task' = [task EXCEPT ![p].pc = "serving", ![p].at = x.at, ![p].rows = x.rows]
    /\ UNCHANGED <<feed, cache, page, faults>>

\* Against the latest valid projection of the view, whatever its query: all that share an
\* occurrence in which the two differ are marked.
Compare(p) ==
    /\ At(p, "comparing")
    /\ \E gone \in SUBSET (cached \ invalid) :
        /\ gone # {} => cached \ invalid # {Compiled(p)}
        /\ invalid' = invalid \cup gone
    /\ Goto(p, "saving")
    /\ UNCHANGED <<feed, cached, page, faults>>

\* Saving one that is cached does not clear its mark, and the collection that is part of
\* the save deletes every marked one, and others by age and size.  Pages of the view that
\* show anything else are told to reload, unless this is what they were last told of: that
\* is not kept here, so they are told or are not.
Save(p) ==
    LET saved == {Compiled(p)} \ invalid
    IN  /\ At(p, "saving")
        /\ \E kept \in SUBSET (cached \ (invalid \cup saved)) :
            /\ Cardinality(kept \cup saved) <= CacheLimit
            /\ cached' = kept \cup saved
        /\ invalid' = {}
        /\ \E told \in BOOLEAN : page' = [q \in Pages |-> [page[q] EXCEPT !.reload = @ \/
               (told /\ page[q].live /\ page[q].shown # Compiled(p))]]
        /\ Goto(p, "serving")
        /\ UNCHANGED <<feed, faults>>

Serve(p) ==
    /\ At(p, "serving")
    /\ page' = [page EXCEPT ![p].shown = Compiled(p)]
    /\ task' = [task EXCEPT ![p] = [Idle EXCEPT !.pc = "subscribing"]]
    /\ UNCHANGED <<feed, cache, faults>>

\* The stream is refused when the session has ended.  It tells of nothing that was sent
\* before it was opened.
Subscribe(p) ==
    /\ At(p, "subscribing")
    /\ \E open \in BOOLEAN : page' = [page EXCEPT ![p].live = open]
    /\ task' = [task EXCEPT ![p] = Idle]
    /\ UNCHANGED <<feed, cache, faults>>
-----------------------------------------------------------------------------
\* A call on the store or the code graph fails.
Fail(t) ==
    /\ task[t].pc \in {"authority", "listing", "processing", "acknowledging", "inputs",
                       "comparing", "saving"}
    /\ Fault
    /\ task' = [task EXCEPT ![t] = Idle]
    /\ UNCHANGED <<feed, cache, page>>

\* Stopped, revoked or expired: the streams end and with them the reloads that were due.
Dark == [p \in Pages |-> [page[p] EXCEPT !.live = FALSE, !.reload = FALSE]]

EndSession ==
    /\ page' = Dark
    /\ UNCHANGED <<feed, cache, task, faults>>

\* The daemon is killed and another takes over; what it collects when it opens the store
\* is what the next save would.
Crash ==
    /\ Fault
    /\ task' = [t \in Tasks |-> Idle]
    /\ page' = Dark
    /\ \E kept \in SUBSET (cached \ invalid) : cached' = kept
    /\ invalid' = {}
    /\ UNCHANGED feed

Drain(t) == List(t) \/ ProcessRecord(t) \/ Acknowledge(t)
Answer(p) == \/ ReadAuthority(p) \/ ReadInputs(p) \/ Compare(p) \/ Save(p)
             \/ Serve(p) \/ Subscribe(p)

Next ==
    \/ \E t \in Tasks : Drain(t) \/ Fail(t)
    \/ \E p \in Pages : Answer(p) \/ Visit(p) \/ Reload(p)
    \/ \E c \in Committers : Commit(c)
    \/ EndSession \/ Crash

Spec == Init /\ [][Next]_vars

\* What the daemon has begun goes on, and a page's timer fires.  Nobody has to visit, and
\* nothing has to be committed.
FairSpec ==
    /\ Spec
    /\ \A t \in Tasks : WF_vars(Drain(t))
    /\ \A p \in Pages : WF_vars(Answer(p)) /\ WF_vars(Reload(p))
-----------------------------------------------------------------------------
(* The consumer has acknowledged only records whose invalidation has been  *)
(* announced, however many drains overlap, fail or die.                    *)
AcknowledgedIsAnnounced == 1..checkpoint \subseteq announced

(* What a projection was compiled from is what it says it was compiled     *)
(* from, though its inputs are read one after another while others commit: *)
(* a request never combines facts of different cursors.                    *)
Whole(x) == x.rows = x.at
WholeProjections ==
    /\ \A x \in cached : Whole(x)
    /\ \A p \in Pages : page[p].shown # None => Whole(page[p].shown)

KeepsDraining == []<><<\E t \in Tasks : List(t)>>_vars

(* A record whose drain has failed or died is delivered again: as long as  *)
(* the feed is drained now and then, the consumer catches up with it.      *)
FeedIsDelivered == KeepsDraining => []<>(checkpoint = head)

Shows(p, n) == page[p].shown # None /\ page[p].shown.at >= n
Disconnected(p) == At(p, "idle") /\ ~page[p].live

(* A page that is on the stream before a record is announced comes to show *)
(* a projection of that event or a later one, or has lost its stream.      *)
LivePagesFollow ==
    KeepsDraining =>
        \A p \in Pages, n \in Records :
            (page[p].live /\ head >= n /\ n \notin announced) ~> (Shows(p, n) \/ Disconnected(p))
=============================================================================
