------------------------------ MODULE MemoryStore ------------------------------
(* The persistent memory store of one tenant and workspace: memory records with  *)
(* optimistic versions, the knowledge graph derived from them, and the outbox of *)
(* graph evolutions.  Every operation of SqliteMemoryStore is one transaction on *)
(* a synchronous connection, and every operation of InMemoryMemoryStore used     *)
(* here runs without yielding, so an operation is a function from the tables to  *)
(* the tables after it.  All keys carry tenant and workspace: one is enough.     *)
EXTENDS Naturals, Sequences, FiniteSets

CONSTANTS
    Memories,      \* identifiers of memory records
    NoMemory,      \* provenance that names no record
    Facts,         \* canonical keys of graph nodes
    Contents,      \* what a version of a record says, see Content
    Unreadable,    \* a content the extractor gives up on
    MaxAttempts,   \* OUTBOX_MAX_ATTEMPTS_DEFAULT
    Limit          \* records listed by one drain

ASSUME BoundsArePositive == MaxAttempts \in Nat \ {0} /\ Limit \in Nat \ {0}

\* What the extractor finds in a content: the facts above the confidence threshold,
\* which of them contradict what is known (properties supersedes, replaces, ...),
\* the relations between them, and which of those replace an earlier relation.
Content == [facts : SUBSET Facts, replaces : SUBSET Facts,
            links : SUBSET (Facts \X Facts), relinks : SUBSET (Facts \X Facts)]

ASSUME ContentsAreExtracted ==
    /\ Unreadable \in Contents
    /\ \A c \in Contents : /\ c \in Content /\ c.replaces \subseteq c.facts
                           /\ c.links \subseteq c.facts \X c.facts /\ c.relinks \subseteq c.links

ASSUME NoMemoryIsNone == NoMemory \notin Memories

\* A delivery carries the identity of what it delivers (computeEvolutionDeliveryId):
\* the record, its version and the candidates extracted from that version.
Deliveries == Memories \X Nat \X Contents

\* node-<hash> is <<fact, 0>>; the replacement node-<hash>-v<n> is <<fact, n>>.
NodeIds == Facts \X Nat
EdgeIds == NodeIds \X NodeIds \X Nat

MemoryRecord == [status : {"NONE", "PROPOSED", "ACTIVE", "TOMBSTONED"}, version : Nat,
                 source : Memories \cup {NoMemory}]

\* parts: the record versions whose properties are merged into the node.
GraphNode == [owner : Memories, version : Nat, last : Nat, state : {"current", "superseded"},
              parts : SUBSET (Memories \X Nat)]
GraphEdge == [source : Memories, version : Nat, last : Nat, state : {"current", "superseded"}]

\* clock: whether the lease of a PROCESSING delivery, or the backoff of a FAILED one,
\* is still running.
OutboxRecord == [status : {"PENDING", "PROCESSING", "FAILED", "COMPLETED", "DEAD_LETTER"},
                 attempts : Nat, clock : {"running", "over"}]

VARIABLES
    records,     \* memory_records
    nodes,       \* graph_nodes
    edges,       \* graph_edges
    outbox,      \* memory_evolution_outbox
    created      \* its rows in the order of created_at

storeVars == <<records, nodes, edges, outbox, created>>

StoreInit ==
    /\ records = [m \in Memories |-> [status |-> "NONE", version |-> 0, source |-> NoMemory]]
    /\ nodes = << >> /\ edges = << >> /\ outbox = << >> /\ created = << >>

Put(f, k, v) == [x \in DOMAIN f \cup {k} |-> IF x = k THEN v ELSE f[x]]
Keep(f, S) == [x \in DOMAIN f \cap S |-> f[x]]

--------------------------------------------------------------------------------
(* Records *)

\* getById: a record that exists and is not tombstoned.
found(m) == records[m].status \in {"PROPOSED", "ACTIVE"}

\* The row of a new delivery; a row with the same identity is left as it is.
registered(d) ==
    /\ outbox' = IF d \in DOMAIN outbox THEN outbox
                 ELSE Put(outbox, d, [status |-> "PENDING", attempts |-> 0, clock |-> "over"])
    /\ created' = IF d \in DOMAIN outbox THEN created ELSE Append(created, d)

\* Record and delivery in one transaction; NoDelivery when there is nothing to deliver.
NoDelivery == << >>
commitRecord(m, r, d) ==
    /\ records' = [records EXCEPT ![m] = r]
    /\ IF d = NoDelivery THEN UNCHANGED <<outbox, created>> ELSE registered(d)
    /\ UNCHANGED <<nodes, edges>>

create(m, status, source, d) ==
    /\ records[m].status = "NONE"
    /\ commitRecord(m, [status |-> status, version |-> 1, source |-> source], d)

\* Slip: the optimistic lock is left out.
UpdatableUnlocked(m, expected) == found(m)

updatable(m, expected) == found(m) /\ records[m].version = expected
update(m, expected, d) ==
    /\ updatable(m, expected)
    /\ commitRecord(m, [records[m] EXCEPT !.version = @ + 1], d)

\* The records that cite m as their source.
derivedFrom(m) == {x \in Memories : found(x) /\ records[x].source = m}

buried(S) == [x \in Memories |-> IF x \in S
                 THEN [records[x] EXCEPT !.status = "TOMBSTONED", !.version = @ + 1]
                 ELSE records[x]]

\* Nodes of m go, and with them the edges that touch them or were drawn from m.
ownedBy(m) == {n \in DOMAIN nodes : nodes[n].owner = m}
revokeGraphForMemory(m) ==
    /\ nodes' = Keep(nodes, DOMAIN nodes \ ownedBy(m))
    /\ edges' = Keep(edges, {e \in DOMAIN edges : /\ {e[1], e[2]} \cap ownedBy(m) = {}
                                                  /\ edges[e].source # m})

tombstone(m) ==
    /\ found(m)
    /\ records' = buried({m} \cup derivedFrom(m))
    /\ revokeGraphForMemory(m)
    /\ UNCHANGED <<outbox, created>>

markDerivedCompressionsTombstoned(m) == records' = buried(derivedFrom(m))

--------------------------------------------------------------------------------
(* Outbox *)

\* A plausible slip: what a claimant that died has left behind is forgotten.
EligibleUnlessClaimed(d) ==
    /\ d \in DOMAIN outbox
    /\ \/ outbox[d].status = "PENDING"
       \/ outbox[d].status = "FAILED" /\ outbox[d].clock = "over"

\* Waiting, or due again after its backoff, or orphaned by a claimant that died.
eligible(d) ==
    /\ d \in DOMAIN outbox
    /\ \/ outbox[d].status = "PENDING"
       \/ outbox[d].status = "FAILED" /\ outbox[d].clock = "over"
       \/ outbox[d].status = "PROCESSING" /\ outbox[d].clock = "over"

\* drainPending asks for the oldest ones.  With ignoreLeaseTimeout the list also has
\* PROCESSING records, which the claim then refuses: nothing changes for them.
pendingRows == {i \in DOMAIN created :
                  eligible(created[i]) /\ Cardinality({j \in 1..i : eligible(created[j])}) <= Limit}

\* The one list of these rows in the order of created_at.
listPendingOutboxRecords == {rows \in [1..Cardinality(pendingRows) -> pendingRows] :
                               \A i, j \in DOMAIN rows : i < j => rows[i] < rows[j]}

claimOutboxRecord(d) ==
    outbox' = [outbox EXCEPT ![d].status = "PROCESSING", ![d].clock = "running"]

updateOutboxStatus(d, status, attempts) ==
    outbox' = [outbox EXCEPT ![d] = [status |-> status, attempts |-> attempts, clock |-> "running"]]

--------------------------------------------------------------------------------
(* evolveGraph: a plan has one entry per fact and one per relation, each made from *)
(* the row that was read while planning.  All of it is applied, or nothing.        *)

NodePlan == [op : {"ADD", "REFINE", "SUPERSEDE", "NONE"}, base : Nat,
             parts : SUBSET (Memories \X Nat)]
EdgePlan == [op : {"ADD", "SUPERSEDE", "NONE"}, base : Nat]

\* The node a fact is written to: the canonical one, or its immutable replacement.
nodeOf(plan, f) == IF plan[f].op = "SUPERSEDE" THEN <<f, plan[f].base + 1>> ELSE <<f, 0>>
edgeOf(plan, l, n) == <<nodeOf(plan, l[1]), nodeOf(plan, l[2]), n>>

\* Optimistic locking, and the primary key of the replacement.
nodeFits(plan, f) ==
    /\ plan[f].op \in {"REFINE", "SUPERSEDE"} =>
           <<f, 0>> \in DOMAIN nodes /\ nodes[<<f, 0>>].version = plan[f].base
    /\ plan[f].op = "SUPERSEDE" => nodeOf(plan, f) \notin DOMAIN nodes
edgeFits(plan, links, l) ==
    links[l].op = "SUPERSEDE" =>
        /\ edgeOf(plan, l, 0) \in DOMAIN edges
        /\ edges[edgeOf(plan, l, 0)].version = links[l].base
        /\ edgeOf(plan, l, links[l].base + 1) \notin DOMAIN edges
applicable(plan, links) ==
    /\ \A f \in DOMAIN plan : nodeFits(plan, f)
    /\ \A l \in DOMAIN links : edgeFits(plan, links, l)

\* The row of a fact that is new, and of one that replaces or refines what was read.
\* A refined node keeps the owner it was created with.
newNode(m, v, last, p) == [owner |-> m, version |-> 1, last |-> last, state |-> "current",
                           parts |-> p.parts \cup {<<m, v>>}]
nodesAfter(m, v, last, plan) ==
    LET added == {<<f, 0>> : f \in {g \in DOMAIN plan : plan[g].op = "ADD"}} \ DOMAIN nodes
        fresh == added \cup {nodeOf(plan, f) : f \in {g \in DOMAIN plan : plan[g].op = "SUPERSEDE"}}
        op(n) == IF n[2] = 0 /\ n[1] \in DOMAIN plan THEN plan[n[1]].op ELSE "NONE"
    IN [n \in DOMAIN nodes \cup fresh |->
          IF n \in fresh THEN newNode(m, v, last, plan[n[1]])
          ELSE CASE op(n) = "REFINE" ->
                      [nodes[n] EXCEPT !.version = @ + 1, !.last = last,
                                       !.parts = plan[n[1]].parts \cup {<<m, v>>}]
                 [] op(n) = "SUPERSEDE" ->
                      [nodes[n] EXCEPT !.version = @ + 1, !.last = last, !.state = "superseded"]
                 [] OTHER -> nodes[n]]

newEdge(m, last) == [source |-> m, version |-> 1, last |-> last, state |-> "current"]
\* Edges to insert: SUPERSEDES edges from each replacement, new relations, replacements.
edgesAfter(m, last, plan, links) ==
    LET lineage == {<<nodeOf(plan, f), <<f, 0>>, 0>> : f \in {g \in DOMAIN plan : plan[g].op = "SUPERSEDE"}}
        drawn(k) == {l \in DOMAIN links : links[l].op = k}
        fresh == ((lineage \cup {edgeOf(plan, l, 0) : l \in drawn("ADD")}) \ DOMAIN edges)
                 \cup {edgeOf(plan, l, links[l].base + 1) : l \in drawn("SUPERSEDE")}
        retired == {edgeOf(plan, l, 0) : l \in drawn("SUPERSEDE")}
    IN [e \in DOMAIN edges \cup fresh |->
          IF e \in fresh THEN newEdge(m, last)
          ELSE IF e \in retired
               THEN [edges[e] EXCEPT !.version = @ + 1, !.last = last, !.state = "superseded"]
               ELSE edges[e]]

evolveGraph(m, v, last, plan, links) ==
    /\ nodes' = nodesAfter(m, v, last, plan)
    /\ edges' = edgesAfter(m, last, plan, links)
================================================================================
