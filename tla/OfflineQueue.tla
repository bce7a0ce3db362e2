---------------------------- MODULE OfflineQueue ----------------------------
(***************************************************************************)
(* The agent's offline queue (agent/internal/storage/store.go) and the     *)
(* loop that fills and empties it (tick and flush of                       *)
(* agent/internal/agent/agent.go).                                         *)
(*                                                                         *)
(* The file is replaced by a rename, so a store operation takes effect in  *)
(* one step or not at all.  The lock does not reach edge-agentctl, which   *)
(* is another process: it may archive the file between the load and the    *)
(* write of an operation.                                                  *)
(***************************************************************************)
EXTENDS Naturals, Sequences, FiniteSets, FiniteSetsExt

CONSTANTS
    Batch,      \* how many items a flush takes (16)
    MaxBytes,   \* Storage.MaxQueueBytes
    MaxAge,     \* Storage.MaxQueueAge (0: no limit)
    Size,       \* ApproxBytes of a report of each kind
    Times,      \* bound: the readings of the wall clock
    MaxItems,   \* bound: reports ever buffered
    MaxFaults   \* bound: crashes and failed file operations

Kinds == {"heartbeat", "telemetry", "inventory"}

ASSUME QueueAssumption ==
    /\ Batch \in Nat \ {0} /\ MaxBytes \in Nat /\ MaxAge \in Nat
    /\ Size \in [Kinds -> Nat \ {0}] /\ Size["heartbeat"] <= MaxBytes
ASSUME QueueBounds == Times \subseteq Nat /\ 0 \in Times /\ MaxItems \in Nat /\ MaxFaults \in Nat

VARIABLES
    queue,      \* queue.jsonl: a sequence of items
    dropped,    \* Store.dropped
    pc,         \* where tick is
    hand,       \* what flush has dequeued and not yet sent or put back
    now,        \* the wall clock, which may be set forward and back
    up,         \* whether the cloud answers
    made,       \* reports buffered so far
    cloud,      \* the buffered reports that the cloud has received
    archive,    \* the reports in archived queue files
    faults

vars == <<queue, dropped, pc, hand, now, up, made, cloud, archive, faults>>
world == <<now, up>>

Init ==
    /\ queue = <<>> /\ dropped = 0
    /\ pc = "flush" /\ hand = <<>>
    /\ now = 0 /\ up \in BOOLEAN
    /\ made = 0 /\ cloud = {} /\ archive = {}
    /\ faults = 0

-----------------------------------------------------------------------------
(* The store.                                                              *)

Priority(kind) == CASE kind = "telemetry" -> 0 [] kind = "inventory" -> 1 [] kind = "heartbeat" -> 2
High == 2
Ids(s) == {s[i].id : i \in DOMAIN s}

\* The bytes of the first n items, for every n, and of all of them.
Totals(s) ==
    LET total[n \in 0..Len(s)] == IF n = 0 THEN 0 ELSE total[n - 1] + Size[s[n].kind]
    IN  total
Bytes(s) == Totals(s)[Len(s)]

Fresh(it) == MaxAge = 0 \/ now <= it.born + MaxAge \/ Priority(it.kind) = High

\* The stable sort of prune: by priority, the higher first, then by age.
Before(a, b) ==
    \/ Priority(a.kind) > Priority(b.kind)
    \/ Priority(a.kind) = Priority(b.kind) /\ a.born < b.born
Earlier(s, i, j) == Before(s[i], s[j]) \/ (~Before(s[j], s[i]) /\ i < j)
\* The items of s at the places kept, each behind all that come earlier.
Sorted(s, kept) ==
    LET At(n) == CHOOSE i \in kept : Cardinality({j \in kept : Earlier(s, j, i)}) = n - 1
    IN  [n \in 1..Cardinality(kept) |-> s[At(n)]]

\* Fault variant: the cut does not look at what is left.
Fitting_OneMore(s) == SubSeq(s, 1, Max({n \in 0..Len(s) : n = 0 \/ Totals(s)[n - 1] <= MaxBytes}))

\* Items are cut off the end until the rest fits; one "high" item stays.
Fitting(s) ==
    LET Stop(n) == Totals(s)[n] <= MaxBytes \/ (n = 1 /\ Priority(s[1].kind) = High)
    IN  SubSeq(s, 1, Max({n \in 0..Len(s) : Stop(n)}))

\* Fault variant: what is old goes first, whatever its priority.
prune_NoSort(s) == {Fitting(SelectSeq(s, Fresh))}

\* The one result of prune, as a set.
prune(s) == {Fitting(sorted) : sorted \in {Sorted(s, {i \in DOMAIN s : Fresh(s[i])})}}

\* The file is replaced.  An archive that edge-agentctl makes between load
\* and write keeps the old content, but does not clear the queue.
Replace(s) == queue' = s /\ archive' \in {archive, archive \cup Ids(queue)}

Enqueue(it) ==
    \E kept \in prune(Append(queue, it)) :
        /\ Replace(kept)
        /\ dropped' = dropped + Len(queue) + 1 - Len(kept)
        /\ UNCHANGED faults

\* Every caller ignores the error or just logs it: the item is gone.
EnqueueFails ==
    /\ faults < MaxFaults /\ faults' = faults + 1
    /\ UNCHANGED <<queue, dropped, archive>>

\* Fault variant: the rest is not written back.
Dequeue_Keeps(n) == Replace(queue) /\ hand' = SubSeq(queue, 1, n)

Dequeue(n) == Replace(SubSeq(queue, n + 1, Len(queue))) /\ hand' = SubSeq(queue, 1, n)

-----------------------------------------------------------------------------
(* tick: flush what is buffered, then send the current reports.            *)

\* Fault variant: an empty batch is sent too.
Flush_AlwaysSends ==
    /\ pc = "flush"
    /\ Dequeue(IF Batch > Len(queue) THEN Len(queue) ELSE Batch)
    /\ pc' = "send"
    /\ UNCHANGED <<dropped, made, cloud, faults, world>>

\* Fault variant: flush waits until it has a whole batch to send.
Flush_WholeBatch ==
    /\ pc = "flush"
    /\ Dequeue(IF Batch > Len(queue) THEN 0 ELSE Batch)
    /\ pc' = IF Batch > Len(queue) THEN "heartbeat" ELSE "send"
    /\ UNCHANGED <<dropped, made, cloud, faults, world>>

Flush ==
    /\ pc = "flush"
    /\ \/ LET n == IF Batch > Len(queue) THEN Len(queue) ELSE Batch IN
          /\ Dequeue(n)
          /\ pc' = IF n = 0 THEN "heartbeat" ELSE "send"
          /\ UNCHANGED faults
       \/ /\ faults < MaxFaults /\ faults' = faults + 1 /\ pc' = "heartbeat"
          /\ UNCHANGED <<queue, archive, hand>>
    /\ UNCHANGED <<dropped, made, cloud, world>>

\* PostEnvelope fails after its retries: the cloud may have the report.
Unanswered(id) == ~up /\ cloud' \in {cloud, cloud \cup {id}}

Send ==
    /\ pc = "send"
    /\ \/ /\ up /\ cloud' = cloud \cup {Head(hand).id}
          /\ hand' = Tail(hand)
          /\ pc' = IF Tail(hand) = <<>> THEN "heartbeat" ELSE "send"
       \/ Unanswered(Head(hand).id) /\ pc' = "requeue" /\ UNCHANGED hand
    /\ UNCHANGED <<queue, dropped, made, archive, faults, world>>

\* Fault variant: the item that failed is not among those put back.
Requeue_Skips ==
    /\ pc = "requeue"
    /\ IF Tail(hand) # <<>> THEN Enqueue(hand[2])
       ELSE UNCHANGED <<queue, dropped, archive, faults>>
    /\ hand' = IF Tail(hand) = <<>> THEN <<>> ELSE Tail(Tail(hand))
    /\ pc' = IF hand' = <<>> THEN "heartbeat" ELSE "requeue"
    /\ UNCHANGED <<made, cloud, world>>

\* flush puts back the item that failed and the ones behind it, one by one.
Requeue ==
    /\ pc = "requeue"
    /\ Enqueue(Head(hand)) \/ EnqueueFails
    /\ hand' = Tail(hand)
    /\ pc' = IF Tail(hand) = <<>> THEN "heartbeat" ELSE "requeue"
    /\ UNCHANGED <<made, cloud, world>>

\* The current report goes out, or is buffered with its creation time.  After
\* a heartbeat that fails the tick ends.
Collect(kind) ==
    /\ pc = kind
    /\ \/ /\ up
          /\ pc' = CASE kind = "heartbeat" -> "telemetry" [] kind = "telemetry" -> "inventory"
                     [] kind = "inventory" -> "flush"
          /\ UNCHANGED <<queue, dropped, made, cloud, archive, faults>>
       \/ /\ made < MaxItems /\ made' = made + 1
          /\ Unanswered(made + 1)
          /\ Enqueue([id |-> made + 1, kind |-> kind, born |-> now]) \/ EnqueueFails
          /\ pc' = IF kind = "telemetry" THEN "inventory" ELSE "flush"
    /\ UNCHANGED <<hand, world>>

-----------------------------------------------------------------------------
(* The surroundings.                                                       *)

Archive ==
    /\ queue # <<>>
    /\ archive' = archive \cup Ids(queue) /\ queue' = <<>>
    /\ UNCHANGED <<dropped, pc, hand, made, cloud, faults, world>>

\* The agent dies and is started again.
Restart ==
    /\ faults < MaxFaults /\ faults' = faults + 1
    /\ pc' = "flush" /\ hand' = <<>> /\ dropped' = 0
    /\ UNCHANGED <<queue, made, cloud, archive, world>>

Link == up' = ~up /\ UNCHANGED <<queue, dropped, pc, hand, now, made, cloud, archive, faults>>
Clock ==
    /\ now' \in Times \ {now}
    /\ UNCHANGED <<queue, dropped, pc, hand, up, made, cloud, archive, faults>>

Tick == Flush \/ Send \/ Requeue \/ \E kind \in Kinds : Collect(kind)
Next == Tick \/ Archive \/ Restart \/ Link \/ Clock
Spec == Init /\ [][Next]_vars

\* The ticker drives the loop, and every request ends.
FairSpec == Spec /\ WF_vars(Tick)

-----------------------------------------------------------------------------
(* What must hold.                                                         *)

Item == [id : 1..MaxItems, kind : Kinds, born : Times]
\* Every variable has its type; flush holds items just while it sends them or
\* puts them back.
TypeOK ==
    /\ queue \in Seq(Item) /\ hand \in Seq(Item)
    /\ dropped \in Nat /\ made \in 0..MaxItems /\ faults \in 0..MaxFaults
    /\ pc \in Kinds \cup {"flush", "send", "requeue"}
    /\ hand # <<>> <=> pc \in {"send", "requeue"}
    /\ now \in Times /\ up \in BOOLEAN
    /\ cloud \subseteq 1..made /\ archive \subseteq 1..made

\* "The queue is bounded by bytes", whatever mix of kinds is buffered, taken
\* out by a flush that fails and put back while the clock moves.
WithinBudget == Bytes(queue) <= MaxBytes

\* A report is never twice in the hands of the agent: a failed flush does not
\* multiply what it puts back.
NoCopies ==
    Cardinality(Ids(queue \o hand)) = Len(queue \o hand)

\* Where the reports are that are not lost.
Held == Ids(queue) \cup Ids(hand) \cup cloud \cup archive

\* No report vanishes in silence: what a step loses, the DroppedItems counter
\* tells, whatever the link and edge-agentctl do in between; and a crash or a
\* disk error loses at most the one batch that flush has in its hands.
LossIsAccounted ==
    [][(made' - made) + Cardinality(Held) - Cardinality(Held')
         <= IF faults' = faults THEN dropped' - dropped ELSE Batch]_vars

\* The items that a step of the agent writes to the queue, before prune.
Offered ==
    queue \o (IF pc = "requeue" /\ hand' # hand THEN <<Head(hand)>>
              ELSE IF made' # made THEN <<[id |-> made', kind |-> pc, born |-> now]>> ELSE <<>>)
\* Whether the step dropped item it.
Drops(it) == pc # "flush" /\ faults' = faults /\ it.id \notin Ids(queue')

\* "High-priority records are retained ahead of low-priority telemetry": an
\* item that is dropped for want of space never leaves one of lower priority
\* behind, whether a new report or one put back by flush needs the space.
PriorityKept ==
    [][\A i \in DOMAIN Offered, j \in DOMAIN queue' :
          Drops(Offered[i]) /\ Fresh(Offered[i])
          => Priority(Offered[i].kind) <= Priority(queue'[j].kind)]_vars

\* Once the cloud answers for good, the backlog is sent: the queue is empty
\* again and again.
BacklogDrains == <>[]up => []<>(queue = <<>>)
=============================================================================
