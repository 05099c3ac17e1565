----------------------------- MODULE TelemetryStore -----------------------------
(***************************************************************************)
(* The control plane's event store (src/apexfabric/control_plane):         *)
(* collectors insert streamed events, a background pool attaches their     *)
(* snapshots, and retention evicts the oldest events with the snapshots    *)
(* that no other event refers to.  Snapshots are files named by their      *)
(* content; rows in the database name the files.                           *)
(***************************************************************************)
EXTENDS Integers, Sequences, FiniteSetsExt

CONSTANTS
    StoredEvents,
    Contents,       \* snapshot contents
    Attached,       \* [StoredEvents -> SUBSET Contents], what an event refers to
    Size,           \* [Contents -> Nat], of a snapshot; an event has size 1
    High, Low,      \* watermarks of the byte budget
    MaxEvents,      \* retention's limit on the number of events
    Batch,          \* events evicted at once
    MaxCrashes      \* bound on the crashes of the server

ASSUME StoreAssumption ==
    /\ Attached \in [StoredEvents -> SUBSET Contents]
    /\ Size \in [Contents -> Nat]
    /\ {High, Low, MaxCrashes} \subseteq Nat
    /\ {MaxEvents, Batch} \subseteq Nat \ {0}

VARIABLES
    stored,         \* events table, oldest first
    snapshots,      \* snapshots table, contents
    links,          \* event_snapshots table
    onDisk,         \* contents on disk
    jobs,           \* attachments in the thread pool: [event, content]
    torn,           \* history: unlinked by an eviction that was not committed
    crashes,        \* number of crashes so far
    target,         \* the workload is one to collect from
    registered,     \* its name is in telemetry_collectors
    collecting,     \* collector threads that read its stream
    leaving         \* collector threads that left their loop

storeVars == <<stored, snapshots, links, onDisk, jobs, torn, crashes>>
collectorVars == <<target, registered, collecting, leaving>>
telemetryVars == <<storeVars, collectorVars>>

AttachJob == StoredEvents \X Contents

TelemetryType ==
    /\ stored \in Seq(StoredEvents)
    /\ snapshots \subseteq Contents
    /\ links \subseteq AttachJob
    /\ onDisk \subseteq Contents
    /\ jobs \subseteq AttachJob
    /\ torn \subseteq Contents
    /\ crashes \in 0..MaxCrashes
    /\ {target, registered} \subseteq BOOLEAN
    /\ {collecting, leaving} \subseteq Nat

TelemetryInit ==
    /\ stored = <<>>
    /\ snapshots = {} /\ links = {} /\ onDisk = {} /\ jobs = {} /\ torn = {}
    /\ crashes = 0
    /\ target = FALSE /\ registered = FALSE
    /\ collecting = 0 /\ leaving = 0

-------------------------------------------------------------------------------
Stored(e) == \E i \in DOMAIN stored : stored[i] = e

Referenced(remaining) == {l[2] : l \in {k \in links : k[1] \in remaining}}

Remaining(n) == {stored[i] : i \in (n + 1)..Len(stored)}

LogicalBytes(remaining, kept) ==
    Cardinality(remaining) + MapThenSumSet(LAMBDA c : Size[c], kept)

(* Snapshots that are left after the n oldest events were deleted; a       *)
(* pass that deletes nothing looks for no orphans.                         *)
KeptRows(n) == IF n = 0 THEN snapshots ELSE snapshots \cap Referenced(Remaining(n))

BytesAfter(n) == LogicalBytes(Remaining(n), KeptRows(n))

(* Mutant: the newest event is never evicted. *)
BatchKeepingNewest(n) ==
    LET left == Len(stored) - n
    IN IF left <= 1 THEN 0 ELSE Min({Batch, left - 1})

(* _oldest_batch: all but the newest of those that are left, or that one. *)
OldestBatch(n) ==
    LET left == Len(stored) - n
    IN IF left = 0 THEN 0 ELSE IF left = 1 THEN 1 ELSE Min({Batch, left - 1})

(* The byte loop: evict batches while the budget is exceeded. *)
EvictBytes[n \in 0..Len(stored)] ==
    IF BytesAfter(n) < High \/ OldestBatch(n) = 0 THEN n
    ELSE LET m == n + OldestBatch(n)
         IN IF BytesAfter(m) <= Low THEN m ELSE EvictBytes[m]

(* The disk loop: evict batches until the disk has room or no event is left. *)
EvictDisk[n \in 0..Len(stored)] ==
    IF OldestBatch(n) = 0 THEN {n} ELSE {n} \cup EvictDisk[n + OldestBatch(n)]

(* aged: events older than the maximum age. *)
Evicted(aged) == EvictDisk[EvictBytes[Max({aged, Len(stored) - MaxEvents})]]

(* _delete_events: orphaned snapshots lose their file and their row. *)
DeleteEvents(n) ==
    /\ stored' = SubSeq(stored, n + 1, Len(stored))
    /\ links' = {l \in links : l[1] \in Remaining(n)}
    /\ snapshots' = KeptRows(n)
    /\ onDisk' = onDisk \ (snapshots \ KeptRows(n))
    /\ UNCHANGED <<jobs, torn, crashes, collectorVars>>

(* After every insertion, and from the supervisor every ten seconds. *)
EnforceRetention ==
    \E aged \in 0..Len(stored) : \E n \in Evicted(aged) : DeleteEvents(n)

(* ingest, in the collector's thread; retention follows in a transaction   *)
(* of its own.  The snapshots of the event, were it known or not, are      *)
(* handed to the pool.                                                     *)
Collect(e) ==
    /\ collecting > 0
    /\ stored' = IF Stored(e) THEN stored ELSE Append(stored, e)
    /\ jobs' = jobs \cup {<<e, c>> : c \in Attached[e]}
    /\ UNCHANGED <<snapshots, links, onDisk, torn, crashes, collectorVars>>

(* A fetch may fail: the job ends. *)
FetchFails(j) ==
    /\ j \in jobs
    /\ jobs' = jobs \ {j}
    /\ UNCHANGED <<stored, snapshots, links, onDisk, torn, crashes, collectorVars>>

(* Mutant: the event is taken to be stored still. *)
AttachUnchecked(j) ==
    /\ j \in jobs
    /\ jobs' = jobs \ {j}
    /\ snapshots' = snapshots \cup {j[2]}
    /\ onDisk' = onDisk \cup {j[2]}
    /\ links' = links \cup {j}
    /\ UNCHANGED <<stored, torn, crashes, collectorVars>>

(* attach_snapshots looks for its event again once it has the content; if  *)
(* it is gone, so are the event's other attachments.                       *)
Attach(j) ==
    /\ j \in jobs
    /\ IF Stored(j[1])
         THEN /\ jobs' = jobs \ {j}
              /\ snapshots' = snapshots \cup {j[2]}
              /\ onDisk' = onDisk \cup {j[2]}
              /\ links' = links \cup {j}
         ELSE /\ jobs' = {k \in jobs : k[1] # j[1]}
              /\ UNCHANGED <<snapshots, onDisk, links>>
    /\ torn' = torn \ onDisk'
    /\ UNCHANGED <<stored, crashes, collectorVars>>

(* Files are written and unlinked before their transaction commits. *)
ServerEnds ==
    /\ crashes < MaxCrashes
    /\ crashes' = crashes + 1
    /\ jobs' = {}
    /\ \/ UNCHANGED <<onDisk, torn>>
       \/ \E j \in jobs : /\ Stored(j[1])
                          /\ onDisk' = onDisk \cup {j[2]}
                          /\ torn' = torn \ {j[2]}
       \/ \E n \in 1..Len(stored) :
            /\ onDisk' = onDisk \ (snapshots \ KeptRows(n))
            /\ torn' = torn \cup (snapshots \ KeptRows(n))
    /\ target' = FALSE /\ registered' = FALSE
    /\ collecting' = 0 /\ leaving' = 0
    /\ UNCHANGED <<stored, snapshots, links>>

-------------------------------------------------------------------------------
(* _telemetry_supervisor reads the deployments and starts what is missing. *)
Supervise ==
    /\ target' \in BOOLEAN
    /\ registered' = (registered \/ target')
    /\ collecting' = IF target' /\ ~registered THEN collecting + 1 ELSE collecting
    /\ UNCHANGED <<storeVars, leaving>>

(* A collector looks at the targets between two connections, and gives its *)
(* name back in a second step.                                             *)
LeaveLoop ==
    /\ collecting > 0
    /\ ~target
    /\ collecting' = collecting - 1
    /\ leaving' = leaving + 1
    /\ UNCHANGED <<storeVars, target, registered>>

Unregister ==
    /\ leaving > 0
    /\ leaving' = leaving - 1
    /\ registered' = FALSE
    /\ UNCHANGED <<storeVars, target, collecting>>

TelemetryNext ==
    \/ \E e \in StoredEvents : Collect(e)
    \/ \E j \in jobs : FetchFails(j) \/ Attach(j)
    \/ EnforceRetention
    \/ ServerEnds
    \/ Supervise
    \/ LeaveLoop
    \/ Unregister

-------------------------------------------------------------------------------
(* A snapshot row has its file, unless a crash interrupted its eviction,   *)
(* and belongs to an event that is still stored, though several events     *)
(* share a content and attachments run while their events are evicted.     *)
SnapshotsServed ==
    /\ snapshots \ torn \subseteq onDisk
    /\ snapshots = {l[2] : l \in links}
    /\ \A l \in links : Stored(l[1])

(* Retention leaves a store within its limits, if need be an empty one. *)
WithinLimits == Len(stored) <= MaxEvents /\ BytesAfter(0) < High

RetentionEffective == [][EnforceRetention => WithinLimits']_telemetryVars

===============================================================================
