----------------------------- MODULE FlowArchive -----------------------------
(***************************************************************************)
(* The long-term archive of flows: the observations of a cycle become rows *)
(* of the flows table (collector/src/normalize.ts, storage.ts), the        *)
(* table's change stream feeds a Lambda (collector/src/archive-transform.  *)
(* ts), and Firehose writes what it accepts to a partition per day, as     *)
(* infra/lib/data-stack.ts sets them up.                                   *)
(*                                                                         *)
(* An endpoint is [pod, instance, ip], 0 for a field it lacks.  A row      *)
(* keeps the fields that identify it, its value and its day.               *)
(***************************************************************************)
EXTENDS Naturals, Sequences, FiniteSets, SequencesExt

CONSTANTS
    Cycles,     \* the sets of observations that a cycle may come back with
    RetryAttempts, \* of the event source
    MaxEdges,   \* edges that a snapshot keeps
    BatchSize,  \* batchSize of the event source
    MaxCycles,  \* bound of the model
    MaxEvents,  \* bound of the model: failed calls, expired and hourly rows
    MaxDropped  \* bound of the model: rows that a write leaves out

ASSUME ArchiveAssumption ==
    {RetryAttempts, MaxEdges, BatchSize, MaxCycles, MaxEvents, MaxDropped} \subseteq Nat

\* A cycle's observations are finitely many, each of a bucket and with a value.
ASSUME ObservationAssumption ==
    \A observed \in Cycles :
        /\ IsFiniteSet(observed)
        /\ \A o \in observed :
              {o.local.pod, o.local.instance, o.local.ip,
               o.remote.pod, o.remote.instance, o.remote.ip, o.bucket, o.value} \subseteq Nat

VARIABLES
    seen,     \* the observations of the cycles so far
    put,      \* the flow rows that the table ever took
    dropped,  \* the rows that batchWriteAll counted as dropped, or never reached
    table,    \* the flow rows that the table holds
    stream,   \* the changes that the Lambda has not read
    work,     \* the batches in the Lambda's hands, the first at work
    buffer,   \* the rows that Firehose accepted and has not delivered
    archive,  \* the delivered rows, each with the partition it is in
    logged,   \* the rows of partial failures, which the Lambda logs
    spent,    \* the rows of batches whose retries are used up
    cycles, events

archiveVars == <<seen, put, dropped, table, stream, work, buffer, archive,
                 logged, spent, cycles, events>>

-----------------------------------------------------------------------------
(* Normalisation.                                                          *)

\* The key of an endpoint: kinds are in the order of their prefixes.
EndpointKey(e) ==
    IF e.pod # 0 THEN <<3, e.pod>>
    ELSE IF e.instance # 0 THEN <<1, e.instance>> ELSE <<2, e.ip>>

NotAfter(k, l) == k[1] < l[1] \/ (k[1] = l[1] /\ k[2] <= l[2])

EdgeHash(e, f, port) == <<{EndpointKey(e), EndpointKey(f)}, port>>

Ends(o) ==
    IF NotAfter(EndpointKey(o.local), EndpointKey(o.remote))
    THEN <<o.local, o.remote>> ELSE <<o.remote, o.local>>

NormalizeRow(o) ==
    [hash |-> EdgeHash(o.local, o.remote, o.port), a |-> Ends(o)[1], b |-> Ends(o)[2],
     monitor |-> o.monitor, metric |-> o.metric, bucket |-> o.bucket, value |-> o.value]

\* What two rows of one edge agree in: the table's key of a row.
RowKey(r) == <<r.bucket, r.monitor, r.metric, r.hash>>

DedupeEdges(rows) ==
    {CHOOSE r \in {q \in rows : RowKey(q) = key} :
       \A q \in rows : RowKey(q) = key => q.value <= r.value
     : key \in {RowKey(r) : r \in rows}}

CycleRows(observed) == DedupeEdges({NormalizeRow(o) : o \in observed})

-----------------------------------------------------------------------------
(* The snapshot of the topology that a cycle keeps.                        *)

NodeKind(e) ==
    IF e.pod # 0 THEN "pod" ELSE IF e.instance # 0 THEN "node" ELSE "external"

NodeOf(e) == [id |-> EndpointKey(e), kind |-> NodeKind(e)]

\* Two monitors may see one flow: its latency is the worse, its counts add up.
MergedMetric(rows, metric) ==
    LET own == {r \in rows : r.metric = metric} IN
    IF metric = "ROUND_TRIP_TIME" THEN Max({r.value : r \in own} \cup {0})
    ELSE MapThenSumSet(LAMBDA r : r.value, own)

TopologyEdge(rows, hash) ==
    LET own == {r \in rows : r.hash = hash}
        one == CHOOSE r \in own : TRUE
    IN [id |-> hash, source |-> EndpointKey(one.a), target |-> EndpointKey(one.b),
        metrics |-> [m \in {r.metric : r \in own} |-> MergedMetric(own, m)]]

Bytes(edge) ==
    IF "DATA_TRANSFERRED" \in DOMAIN edge.metrics THEN edge.metrics["DATA_TRANSFERRED"] ELSE 0

\* As many edges as a snapshot keeps, none lighter than one left out.
Heaviest(all) ==
    CHOOSE kept \in SUBSET all :
        /\ Cardinality(kept) = Min({MaxEdges, Cardinality(all)})
        /\ \A e \in kept, f \in all \ kept : Bytes(e) >= Bytes(f)

\* The edges that carry most, and the nodes they use.
BuildTopology(rows) ==
    LET edges == Heaviest({TopologyEdge(rows, h) : h \in {r.hash : r \in rows}})
        nodes == {NodeOf(e) : e \in UNION {{r.a, r.b} : r \in rows}}
    IN [nodes |-> {n \in nodes : \E e \in edges : n.id \in {e.source, e.target}},
        edges |-> edges]

-----------------------------------------------------------------------------
(* The columns of a flattened row, and those of the Glue table.            *)

\* A column is of the row or of one of its ends, a_ or b_.
EndpointFields ==
    {"ip", "instance_id", "subnet_id", "az", "vpc_id", "region",
     "pod_name", "pod_namespace", "service_name"}

\* Owner, name and JSON type of each field; dt is taken out as the partition.
FlatColumns ==
    {<<"row", c, "text">> : c \in {"edge_hash", "monitor", "metric", "category", "bucket",
                                 "unit", "snat_ip", "dnat_ip", "traversed_constructs"}}
    \cup {<<"row", c, "number">> : c \in {"value", "target_port"}}
    \cup {<<end, c, "text">> : end \in {"a", "b"}, c \in EndpointFields}

GlueColumns ==
    {<<"row", "edge_hash", "string">>, <<"row", "monitor", "string">>,
     <<"row", "metric", "string">>, <<"row", "category", "string">>,
     <<"row", "bucket", "string">>, <<"row", "value", "double">>, <<"row", "unit", "string">>,
     <<"a", "ip", "string">>, <<"a", "instance_id", "string">>, <<"a", "subnet_id", "string">>,
     <<"a", "az", "string">>, <<"a", "vpc_id", "string">>, <<"a", "region", "string">>,
     <<"a", "pod_name", "string">>, <<"a", "pod_namespace", "string">>,
     <<"a", "service_name", "string">>,
     <<"b", "ip", "string">>, <<"b", "instance_id", "string">>, <<"b", "subnet_id", "string">>,
     <<"b", "az", "string">>, <<"b", "vpc_id", "string">>, <<"b", "region", "string">>,
     <<"b", "pod_name", "string">>, <<"b", "pod_namespace", "string">>,
     <<"b", "service_name", "string">>,
     <<"row", "snat_ip", "string">>, <<"row", "dnat_ip", "string">>,
     <<"row", "target_port", "int">>, <<"row", "traversed_constructs", "string">>}

JsonType(type) == IF type = "string" THEN "text" ELSE "number"

\* Firehose can convert the rows to the table's format.
Convertible == FlatColumns = {<<c[1], c[2], JsonType(c[3])>> : c \in GlueColumns}

-----------------------------------------------------------------------------
Day(bucket) == bucket \div 10

ArchiveInit ==
    /\ seen = {} /\ put = {} /\ dropped = {} /\ table = {}
    /\ stream = <<>> /\ work = <<>> /\ buffer = <<>> /\ archive = <<>>
    /\ logged = {} /\ spent = {} /\ cycles = 0 /\ events = 0

Change(event, kind, row) == [event |-> event, kind |-> kind, row |-> row]

\* A put of a row changes its expiry at least, so it always is a change.
PutChange(r) ==
    Change(IF \E s \in table : RowKey(s) = RowKey(r) THEN "MODIFY" ELSE "INSERT", "FLOW", r)

(***************************************************************************)
(* A cycle writes its rows; those in `left` are given up after four tries, *)
(* or not reached because a call failed or the invocation ended between    *)
(* the batches of 25.                                                      *)
(***************************************************************************)
WriteCycle(observed, left) ==
    LET rows == CycleRows(observed) \ left
    IN /\ cycles < MaxCycles
       /\ left \subseteq CycleRows(observed) /\ Cardinality(left) <= MaxDropped
       /\ cycles' = cycles + 1
       /\ seen' = seen \cup observed
       /\ put' = put \cup rows
       /\ dropped' = dropped \cup left
       /\ table' = {s \in table : \A r \in rows : RowKey(r) # RowKey(s)} \cup rows
       /\ stream' = stream \o SetToSeq({PutChange(r) : r \in rows})
       /\ UNCHANGED <<work, buffer, archive, logged, spent, events>>

\* A row expires after its seven days, or the hour close puts an hourly row.
OtherChange ==
    /\ events < MaxEvents /\ events' = events + 1
    /\ \E r \in table :
        /\ \/ /\ stream' = Append(stream, Change("REMOVE", "FLOW", r))
              /\ table' = table \ {r}
           \/ /\ stream' = Append(stream, Change("INSERT", "HFLOW", r))
              /\ UNCHANGED table
        /\ UNCHANGED <<seen, put, dropped, work, buffer, archive, logged, spent, cycles>>

\* The event source hands the Lambda the next batch of its shard.
TakeBatch ==
    /\ work = <<>> /\ stream # <<>>
    /\ \E n \in 1..BatchSize :
         /\ n <= Len(stream)
         /\ work' = <<[changes |-> SubSeq(stream, 1, n), tries |-> 0]>>
         /\ stream' = SubSeq(stream, n + 1, Len(stream))
    /\ UNCHANGED <<seen, put, dropped, table, buffer, archive, logged, spent, cycles, events>>

IsFlow(change) == change.kind = "FLOW"
HasImage(change) == change.event \in {"INSERT", "MODIFY"}

\* The members of a sequence at some positions, in their order.
Subsequence(s, chosen) ==
    [i \in 1 .. Cardinality(chosen) |->
        s[CHOOSE j \in chosen : Cardinality({k \in chosen : k <= j}) = i]]

\* The rows that the handler sends for a batch.
Flattened(batch) ==
    LET changes == batch.changes
        kept == Subsequence(changes, {i \in DOMAIN changes : HasImage(changes[i]) /\ IsFlow(changes[i])})
    IN [i \in DOMAIN kept |-> kept[i].row]

\* The batch is sent; some of its rows may be refused.
Send ==
    /\ work # <<>>
    /\ LET rows == Flattened(Head(work))
       IN \E refused \in SUBSET DOMAIN rows :
            /\ buffer' = buffer \o Subsequence(rows, DOMAIN rows \ refused)
            /\ logged' = logged \cup {rows[i] : i \in refused}
    /\ work' = Tail(work)
    /\ UNCHANGED <<seen, put, dropped, table, stream, archive, spent, cycles, events>>

\* What the event source does with a batch whose invocation failed.
Again(batch) ==
    LET n == Len(batch.changes) IN
    IF n > 1 THEN
        <<[batch EXCEPT !.changes = SubSeq(@, 1, n \div 2)],
          [batch EXCEPT !.changes = SubSeq(@, n \div 2 + 1, n)]>>
    ELSE IF batch.tries < RetryAttempts THEN <<[batch EXCEPT !.tries = @ + 1]>> ELSE <<>>

\* Mutation of SendFails: the error is logged like a partial failure's.
SendFailsQuietly ==
    /\ work # <<>> /\ Flattened(Head(work)) # <<>>
    /\ work' = Tail(work)
    /\ UNCHANGED <<seen, put, dropped, table, stream, buffer, archive, logged, spent, cycles, events>>

\* The call fails, before or after Firehose took the rows: the handler throws.
SendFails ==
    /\ work # <<>> /\ Flattened(Head(work)) # <<>>
    /\ events < MaxEvents /\ events' = events + 1
    /\ LET rows == Flattened(Head(work))
       IN /\ buffer' \in {buffer, buffer \o rows}
          /\ work' = Again(Head(work)) \o Tail(work)
          /\ spent' = IF Again(Head(work)) = <<>> THEN spent \cup ToSet(rows) ELSE spent
    /\ UNCHANGED <<seen, put, dropped, table, stream, archive, logged, cycles>>

\* Firehose delivers its buffer, each row to the partition of its own dt.
Deliver ==
    /\ buffer # <<>> /\ Convertible
    /\ archive' = archive \o [i \in DOMAIN buffer |-> [dt |-> Day(buffer[i].bucket), row |-> buffer[i]]]
    /\ buffer' = <<>>
    /\ UNCHANGED <<seen, put, dropped, table, stream, work, logged, spent, cycles, events>>

ArchiveStep ==
    \/ \E observed \in Cycles : \E left \in SUBSET CycleRows(observed) :
         WriteCycle(observed, left)
    \/ OtherChange
    \/ TakeBatch
    \/ Send
    \/ SendFails
    \/ Deliver

ArchiveSpec == ArchiveInit /\ [][ArchiveStep]_archiveVars

-----------------------------------------------------------------------------
Changes == ToSet(stream) \cup UNION {ToSet(work[i].changes) : i \in DOMAIN work}
OnTheWay == {c.row : c \in {d \in Changes : IsFlow(d) /\ HasImage(d)}} \cup ToSet(buffer)
Archived == {archive[i].row : i \in DOMAIN archive}

\* The snapshot of a cycle: its edges meet their nodes, no busier edge is
\* left out, and no flow that two monitors saw gets a latency of its own.
SnapshotsHold ==
    \A observed \in Cycles :
        LET rows == CycleRows(observed)
            snapshot == BuildTopology(rows)
        IN /\ \A e \in snapshot.edges :
                /\ {e.source, e.target} \subseteq {n.id : n \in snapshot.nodes}
                /\ \A r \in rows : r.hash = e.id /\ r.metric = "ROUND_TRIP_TIME" =>
                     \E q \in rows : q.hash = e.id /\ q.value = e.metrics["ROUND_TRIP_TIME"]
           /\ \A r \in rows, e \in snapshot.edges :
                r.metric = "DATA_TRANSFERRED" /\ r.value > Bytes(e)
                => \E f \in snapshot.edges : f.id = r.hash
           /\ \A n, k \in snapshot.nodes : n.id = k.id => n = k

(***************************************************************************)
(* No observation vanishes without a trace.  For every one, a row of its   *)
(* edge with at least its value was stored or left out by the write of its *)
(* cycle; a stored row is on its way to the archive, in it, logged as      *)
(* refused, or of a batch that used up its retries; the archive holds      *)
(* nothing else, each row in the partition of its day; and the two views   *)
(* of one connection are one row, with its ends in one order               *)
(* (archive-transform.ts:58-61).                                           *)
(***************************************************************************)
NothingVanishes ==
    /\ \A o \in seen : \E r \in put \cup dropped :
         RowKey(r) = RowKey(NormalizeRow(o)) /\ r.value >= o.value
    /\ put \subseteq OnTheWay \cup Archived \cup logged \cup spent
    /\ Archived \subseteq put
    /\ \A i \in DOMAIN archive : archive[i].dt = Day(archive[i].row.bucket)
    /\ \A r, s \in put : r.hash = s.hash => EndpointKey(r.a) = EndpointKey(s.a)
    /\ buffer # <<>> => Convertible
    /\ SnapshotsHold
=============================================================================
