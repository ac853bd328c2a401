---------------------------- MODULE MemoryEvolution ----------------------------
(* Calls of the memory service that run against one memory store: writes with    *)
(* their immediate delivery, drains of the outbox, direct evolutions and the     *)
(* forgetting of a record.  One step is what a call does between two awaits, so  *)
(* calls interleave at every read and write of the store; a crash of the process *)
(* loses all calls and keeps the tables.                                         *)
EXTENDS MemoryStore

CONSTANTS
    Calls,           \* calls that may be under way together
    MaxVersion,      \* bound: versions of one record
    MaxRequests,     \* bound: requests of clients, drains not counted
    MaxCrashes       \* bound: crashes of the process

ASSUME BoundsAreNatural == {MaxVersion, MaxRequests, MaxCrashes} \subseteq Nat

VARIABLES
    call,        \* what each call has in hand
    requests,    \* how many there were, and crashes
    crashes,
    \* history
    committed,   \* deliveries due to the writes that were committed
    failures     \* per delivery, the failures that were recorded

vars == <<storeVars, call, requests, crashes, committed, failures>>

Pc == {"idle", "store", "claim", "load", "check", "plan", "apply", "settle", "reject", "revoke", "cascade"}

\* d: the delivery, or the evolution that was asked for directly; v: the version the
\* caller expects, then the version of the parent record handed to the engine; tries:
\* attemptCount as it was read; queue: what the drain still has to process.
Idle == [pc |-> "idle", kind |-> "none", m |-> NoMemory, d |-> NoDelivery, v |-> 0, tries |-> 0,
         queue |-> << >>, plan |-> << >>, links |-> << >>]

TypeOK ==
    /\ records \in [Memories -> MemoryRecord]
    /\ DOMAIN nodes \subseteq NodeIds /\ \A n \in DOMAIN nodes : nodes[n] \in GraphNode
    /\ DOMAIN edges \subseteq EdgeIds /\ \A e \in DOMAIN edges : edges[e] \in GraphEdge
    /\ DOMAIN outbox \subseteq Deliveries /\ \A d \in DOMAIN outbox : outbox[d] \in OutboxRecord
    /\ \A w \in Calls : call[w].pc \in Pc

Init ==
    /\ StoreInit
    /\ call = [w \in Calls |-> Idle]
    /\ requests = 0 /\ crashes = 0 /\ committed = {} /\ failures = << >>

idle(w) == call[w].pc = "idle"
at(w, pc) == call[w].pc = pc
goto(w, pc) == call' = [call EXCEPT ![w].pc = pc]

\* A call that is done with a delivery takes the next one of its drain, or returns.
next(w) ==
    LET q == call[w].queue
    IN call' = [call EXCEPT ![w] = IF q = << >> THEN Idle
                  ELSE [Idle EXCEPT !.pc = "claim", !.kind = "deliver", !.m = q[1].d[1],
                                    !.d = q[1].d, !.tries = q[1].tries, !.queue = Tail(q)]]

\* A client asks for something, when a call is free.
request(w) == idle(w) /\ requests < MaxRequests /\ requests' = requests + 1

noHistory == UNCHANGED <<crashes, committed, failures>>

--------------------------------------------------------------------------------
(* Writes *)

\* The delivery of a write, if there is anything to deliver.
delivery(m, status, version, c) ==
    IF status = "ACTIVE" /\ c # Unreadable THEN <<m, version, c>> ELSE NoDelivery

\* After the write: the immediate delivery.  A record whose content was not readable is
\* handed to the engine, which cannot read it either.
deliverNow(w, m, d) ==
    call' = [call EXCEPT ![w] = IF d = NoDelivery THEN Idle
                                ELSE [Idle EXCEPT !.pc = "claim", !.kind = "deliver", !.m = m, !.d = d]]

\* What the write that was just committed owes.
committedWith(m, d) ==
    /\ committed' = IF d = NoDelivery THEN committed
                    ELSE committed \cup {<<m, records'[m].version, d[3]>>}
    /\ failures' = IF d = NoDelivery THEN failures ELSE Put(failures, d, 0)
    /\ UNCHANGED crashes

createMemory(w, m, status, source, c) ==
    LET d == delivery(m, status, 1, c)
    IN /\ request(w)
       /\ create(m, status, source, d)
       /\ deliverNow(w, m, d)
       /\ committedWith(m, d)

\* The record is read to build the delivery of the version that will follow it.  One
\* that is not found is not found by the write either, which throws.
updateMemory(w, m, expected, c) ==
    /\ request(w) /\ found(m)
    /\ records[m].version < MaxVersion
    /\ call' = [call EXCEPT ![w] = [Idle EXCEPT !.pc = "store", !.kind = "deliver", !.m = m, !.v = expected,
                  !.d = delivery(m, records[m].status, records[m].version + 1, c)]]
    /\ UNCHANGED storeVars /\ noHistory

storeUpdate(w) ==
    LET m == call[w].m  d == call[w].d
    IN /\ at(w, "store")
       /\ IF updatable(m, call[w].v)
          THEN /\ update(m, call[w].v, d)
               /\ deliverNow(w, m, d)
               /\ committedWith(m, d)
          ELSE call' = [call EXCEPT ![w] = Idle] /\ UNCHANGED storeVars /\ noHistory

--------------------------------------------------------------------------------
(* Forgetting: the store tombstones the record with its derived records and its    *)
(* graph, and the service then asks for both cascades again.                       *)

tombstoneMemory(w, m) ==
    /\ request(w)
    /\ tombstone(m)
    /\ call' = [call EXCEPT ![w] = [Idle EXCEPT !.pc = "revoke", !.m = m]]
    /\ noHistory

revokeProjections(w) ==
    /\ at(w, "revoke")
    /\ revokeGraphForMemory(call[w].m)
    /\ goto(w, "cascade")
    /\ UNCHANGED <<records, outbox, created>> /\ noHistory

cascadeDerived(w) ==
    /\ at(w, "cascade")
    /\ markDerivedCompressionsTombstoned(call[w].m)
    /\ call' = [call EXCEPT ![w] = Idle]
    /\ UNCHANGED <<nodes, edges, outbox, created>> /\ noHistory

--------------------------------------------------------------------------------
(* Deliveries *)

drainPending(w) ==
    /\ idle(w) /\ pendingRows # {}
    /\ \E rows \in listPendingOutboxRecords :
         LET q == [i \in DOMAIN rows |-> [d |-> created[rows[i]], tries |-> outbox[created[rows[i]]].attempts]]
         IN call' = [call EXCEPT ![w] = [Idle EXCEPT !.pc = "claim", !.kind = "deliver",
                       !.m = q[1].d[1], !.d = q[1].d, !.tries = q[1].tries, !.queue = Tail(q)]]
    /\ UNCHANGED storeVars /\ noHistory

claim(w) ==
    /\ at(w, "claim")
    /\ IF eligible(call[w].d)
       THEN claimOutboxRecord(call[w].d) /\ goto(w, "load")
       ELSE next(w) /\ UNCHANGED outbox
    /\ UNCHANGED <<records, nodes, edges, created>> /\ noHistory

\* The parent as it is now is what the engine evolves from, whatever version the
\* delivery was made for.  A parent that is gone or inactive ends the delivery.
load(w) ==
    LET m == call[w].m  d == call[w].d
    IN /\ at(w, "load")
       /\ IF records[m].status = "ACTIVE"
          THEN call' = [call EXCEPT ![w].pc = "check", ![w].v = records[m].version] /\ UNCHANGED outbox
          ELSE updateOutboxStatus(d, "DEAD_LETTER", outbox[d].attempts) /\ goto(w, "reject")
       /\ UNCHANGED <<records, nodes, edges, created>> /\ noHistory

\* The catch block: the count is the one that was read with the delivery, plus one.
\* No other call looks at a delivery that is being processed.
failed(w, permanent) ==
    LET d == call[w].d  n == call[w].tries + 1
    IN /\ updateOutboxStatus(d, IF permanent \/ n >= MaxAttempts THEN "DEAD_LETTER" ELSE "FAILED", n)
       /\ failures' = [failures EXCEPT ![d] = @ + 1]
       /\ next(w)
       /\ UNCHANGED <<crashes, committed>>

reject(w) ==
    /\ at(w, "reject")
    /\ failed(w, TRUE)
    /\ UNCHANGED <<records, nodes, edges, created>>

settle(w) ==
    LET d == call[w].d
    IN /\ at(w, "settle")
       /\ \/ updateOutboxStatus(d, "COMPLETED", outbox[d].attempts) /\ next(w) /\ noHistory
          \/ failed(w, FALSE)
       /\ UNCHANGED <<records, nodes, edges, created>>

--------------------------------------------------------------------------------
(* evolveCandidates *)

evolveDirectly(w, m, c) ==
    /\ request(w) /\ found(m) /\ c # Unreadable
    /\ call' = [call EXCEPT ![w] = [Idle EXCEPT !.pc = "check", !.kind = "direct", !.m = m,
                                       !.d = <<m, records[m].version, c>>, !.v = records[m].version]]
    /\ UNCHANGED storeVars /\ noHistory

\* An error leaves the engine: the caller of a direct evolution gets it.
thrown(w, permanent) ==
    IF call[w].kind = "direct"
    THEN call' = [call EXCEPT ![w] = Idle] /\ UNCHANGED outbox /\ noHistory
    ELSE failed(w, permanent)

\* The parent must be ACTIVE.  One that expired, or a secret in a candidate, is refused
\* just the same: dates and secrets are not modelled, so any evolution may end here.
checkParent(w) ==
    /\ at(w, "check")
    /\ \/ records[call[w].m].status = "ACTIVE" /\ goto(w, "plan") /\ UNCHANGED outbox /\ noHistory
       \/ thrown(w, TRUE)
    /\ UNCHANGED <<records, nodes, edges, created>>

\* Slip: no fence.
NeverFenced(last, v) == FALSE

\* The fence compares the version of the parent with the version applied last.
fenced(last, v) == v < last

planNode(f, v, c) ==
    IF <<f, 0>> \notin DOMAIN nodes THEN [op |-> "ADD", base |-> 0, parts |-> {}]
    ELSE LET n == nodes[<<f, 0>>]
         IN [op |-> IF fenced(n.last, v) THEN "NONE" ELSE IF f \in c.replaces THEN "SUPERSEDE" ELSE "REFINE",
             base |-> n.version, parts |-> n.parts]

planEdge(e, l, v, c) ==
    IF e \notin DOMAIN edges THEN [op |-> "ADD", base |-> 0]
    ELSE [op |-> IF ~fenced(edges[e].last, v) /\ l \in c.relinks /\ edges[e].state = "current"
                 THEN "SUPERSEDE" ELSE "NONE",
          base |-> edges[e].version]

\* The rows of all candidates are read in one step: the store compares each of them with
\* what was read when it applies the plan, and skips what was inserted meanwhile.
planEvolution(w) ==
    LET c == call[w].d[3]  v == call[w].v
        plan == [f \in c.facts |-> planNode(f, v, c)]
    IN /\ at(w, "plan")
       /\ call' = [call EXCEPT ![w].pc = "apply", ![w].plan = plan,
                     ![w].links = [l \in c.links |-> planEdge(edgeOf(plan, l, 0), l, v, c)]]
       /\ UNCHANGED storeVars /\ noHistory

\* The store applies the plan, or refuses it (a conflict, or any other error).
applyPlan(w) ==
    LET k == call[w]
    IN /\ at(w, "apply")
       /\ \/ /\ applicable(k.plan, k.links)
             /\ evolveGraph(k.m, k.d[2], k.v, k.plan, k.links)
             /\ call' = [call EXCEPT ![w] = IF k.kind = "direct" THEN Idle
                           ELSE [k EXCEPT !.pc = "settle", !.v = 0, !.plan = << >>, !.links = << >>]]
             /\ UNCHANGED outbox /\ noHistory
          \/ thrown(w, FALSE) /\ UNCHANGED <<nodes, edges>>
       /\ UNCHANGED <<records, created>>

--------------------------------------------------------------------------------
(* Environment *)

Crash ==
    /\ crashes < MaxCrashes /\ \E w \in Calls : ~idle(w)
    /\ crashes' = crashes + 1
    /\ call' = [w \in Calls |-> Idle]
    /\ UNCHANGED <<storeVars, requests, committed, failures>>

\* No call keeps a delivery longer than its lease (five minutes) or its backoff (two
\* seconds or more): every await of a call is on the store, which answers at once.
inHand(w) == IF idle(w) THEN {} ELSE {call[w].d} \cup {call[w].queue[i].d : i \in DOMAIN call[w].queue}

Elapse(d) ==
    /\ outbox[d].status \in {"PROCESSING", "FAILED"} /\ outbox[d].clock = "running"
    /\ \A w \in Calls : d \notin inHand(w)
    /\ outbox' = [outbox EXCEPT ![d].clock = "over"]
    /\ UNCHANGED <<records, nodes, edges, created, call, requests>> /\ noHistory

Step(w) ==
    \/ storeUpdate(w) \/ revokeProjections(w) \/ cascadeDerived(w)
    \/ claim(w) \/ load(w) \/ reject(w) \/ settle(w)
    \/ checkParent(w) \/ planEvolution(w) \/ applyPlan(w)

\* A record gets an identifier that no other has.
unused == {m \in Memories : records[m].status = "NONE"}
newId == CHOOSE m \in unused : TRUE

Call(w) ==
    \/ unused # {} /\ \E status \in {"PROPOSED", "ACTIVE"}, s \in Memories \cup {NoMemory}, c \in Contents :
          (s # NoMemory => found(s)) /\ createMemory(w, newId, status, s, c)
    \/ \E m \in Memories, e \in 1..MaxVersion, c \in Contents :
          e <= records[m].version /\ updateMemory(w, m, e, c)
    \/ \E m \in Memories : tombstoneMemory(w, m)
    \/ \E m \in Memories, c \in Contents : evolveDirectly(w, m, c)

Next ==
    \/ \E w \in Calls : Call(w) \/ ((Step(w) \/ drainPending(w)) /\ UNCHANGED requests)
    \/ Crash
    \/ \E d \in DOMAIN outbox : Elapse(d)

\* Calls run to their end, time passes, and drains are run "upon system startup,
\* scheduled intervals, or maintenance tasks" (recoverPendingEvolutions).
Fairness ==
    /\ \A w \in Calls : WF_vars(Step(w) /\ UNCHANGED requests)
    /\ SF_vars(\E w \in Calls : drainPending(w) /\ UNCHANGED requests)
    /\ WF_vars(\E d \in DOMAIN outbox : Elapse(d))

Spec == Init /\ [][Next]_vars /\ Fairness

--------------------------------------------------------------------------------
(* Properties *)

\* Every committed write of an active, readable record has its delivery, and there is no
\* delivery for a write that was refused: record and delivery are one transaction, and the
\* delivery was built for the version the write produced (updateMemory reads first).
OutboxIsExact == DOMAIN outbox = committed

\* A delivery that was completed or given up is never taken up again: neither a drain
\* that listed it before nor a second claimant writes its status afterwards.
TerminalDeliveries ==
    [][\A d \in DOMAIN outbox : outbox[d].status \in {"COMPLETED", "DEAD_LETTER"} =>
          outbox'[d].status = outbox[d].status]_vars

\* The attempts of a delivery are the failures it had, and they are bounded: the count
\* is written from a value read when the delivery was listed (processRecord).
FailuresCounted ==
    \A d \in DOMAIN outbox : outbox[d].attempts = failures[d] /\ failures[d] <= MaxAttempts

\* The outbox is the record of what is owed: a delivery for each committed write and for
\* nothing else, with the failures it had so far (updateMemory, processRecord).
DeliveriesExact == OutboxIsExact /\ FailuresCounted

kept == DOMAIN nodes \cap DOMAIN nodes'

\* As long as nothing was forgotten, no evolution undoes another one: the version of a node
\* and the record version applied last never decrease, what was merged into it stays, and a
\* superseded node does not become current again.  Plans are made from rows read earlier
\* (evolveCandidates), so this is the optimistic locking of evolveGraph at work.
GraphMovesForward ==
    [][(\A m \in Memories : records[m].status # "TOMBSTONED") =>
          \A n \in kept :
              LET a == nodes[n]  b == nodes'[n]
              IN /\ a.version <= b.version /\ a.last <= b.last /\ a.parts \subseteq b.parts
                 /\ a.state = "superseded" => b.state = "superseded"
                 /\ a # b => a.version < b.version]_vars

\* What is settled stays settled, among drains that work from what they listed or read
\* earlier: the deliveries, and the graph (processRecord, evolveCandidates).
NothingIsUndone == TerminalDeliveries /\ GraphMovesForward

\* What one evolution merged into a node is not overwritten by another one that did not see
\* it: the "OCC expectedVersion check at persist time" is to guard replays and refinements
\* (evolveCandidates).  A node that was revoked and created anew starts again at version 1.
RefinementsSurvive == [][\A n \in kept : nodes[n].parts \subseteq nodes'[n].parts]_vars

\* Once clients stop writing, the outbox drains: every delivery is completed or given up,
\* whatever calls fail and whenever the process crashes between claim and completion.
OutboxDrains == []<>(\A d \in DOMAIN outbox : outbox[d].status \in {"COMPLETED", "DEAD_LETTER"})
================================================================================
