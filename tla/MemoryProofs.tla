----------------------------- MODULE MemoryProofs -----------------------------
(***************************************************************************)
(* Proofs about the memory service and its outbox.  They hold for every    *)
(* number of records, contents, calls, retries and crashes.                *)
(***************************************************************************)
EXTENDS MemoryEvolution, FiniteSetTheorems, SequenceTheorems, TLAPS

-----------------------------------------------------------------------------
(* The outbox.                                                             *)

CallState(k) ==
  k \in [pc : Pc, kind : {"none", "deliver", "direct"}, m : Memories \cup {NoMemory},
         d : Deliveries \cup {NoDelivery}, v : Nat, tries : Nat,
         queue : Seq([d : Deliveries, tries : Nat]), plan : {k.plan}, links : {k.links}]

\* No delivery is of a version that its record has not reached.
TablesFit ==
  /\ records \in [Memories -> MemoryRecord]
  /\ \A m \in Memories : records[m].status = "NONE" => records[m].version = 0
  /\ DOMAIN outbox \subseteq Deliveries /\ outbox \in [DOMAIN outbox -> OutboxRecord]
  /\ failures \in [DOMAIN outbox -> Nat]
  /\ created \in Seq(Deliveries)
  /\ \A d \in DOMAIN outbox :
       /\ d[2] <= records[d[1]].version
       /\ outbox[d].status # "DEAD_LETTER" => outbox[d].attempts < MaxAttempts

\* What a call has read of a delivery is still true when it may claim it.
Listed(d, n) == d \in DOMAIN outbox /\ (eligible(d) => outbox[d].attempts = n)

\* A call that has claimed a delivery, and the row of that delivery.
Owns(k) == k.pc \in {"load", "check", "plan", "apply", "settle", "reject"} /\ k.kind = "deliver"
RowFits(k) ==
  /\ k.d \in DOMAIN outbox /\ outbox[k.d].attempts = k.tries
  /\ IF k.pc = "reject" THEN outbox[k.d].status = "DEAD_LETTER" /\ k.tries < MaxAttempts
                        ELSE outbox[k.d].status = "PROCESSING" /\ outbox[k.d].clock = "running"

\* A write whose lock still holds has the delivery of the version it makes.
WriteFits(k) ==
  /\ k.m \in Memories
  /\ k.d # NoDelivery => k.d[1] = k.m /\ k.v < k.d[2] /\ k.d[2] <= records[k.m].version + 1

CallFits(k) ==
  /\ CallState(k)
  /\ k.pc = "idle" => k.queue = << >>
  /\ k.pc = "store" => WriteFits(k)
  /\ k.pc \in {"claim", "load", "settle", "reject"} => k.kind = "deliver"
  /\ k.pc \in {"check", "plan", "apply"} => k.d \in Deliveries /\ k.kind # "none"
  /\ k.pc \in {"claim", "load"} => k.d \in Deliveries /\ k.m = k.d[1]
  /\ k.pc = "claim" => Listed(k.d, k.tries)
  /\ \A i \in DOMAIN k.queue : Listed(k.queue[i].d, k.queue[i].tries)
  /\ Owns(k) => RowFits(k)

CallsFit ==
  /\ call = [w \in Calls |-> call[w]]
  /\ \A w \in Calls : CallFits(call[w])
  /\ \A w, x \in Calls : Owns(call[w]) /\ Owns(call[x]) /\ w # x => call[w].d # call[x].d

DeliveryIInv == TablesFit /\ CallsFit /\ DeliveriesExact

InHand(k) == IF k.pc = "idle" THEN {} ELSE {k.d} \cup {k.queue[i].d : i \in DOMAIN k.queue}

\* What a step may do to the row of d for somebody who has it in hand.
RowMoves(d) ==
  d \in DOMAIN outbox =>
    d \in DOMAIN outbox' /\ (eligible(d)' => eligible(d) /\ outbox'[d].attempts = outbox[d].attempts)

\* Versions only grow.
RecordsMove ==
  /\ records' \in [Memories -> MemoryRecord]
  /\ \A m \in Memories : /\ records[m].version <= records'[m].version
                         /\ records'[m].status = "NONE" => records'[m].version = 0

LEMMA NoneIsNoDelivery == NoDelivery \notin Deliveries
  BY DEF NoDelivery, Deliveries

LEMMA ListedStill ==
  ASSUME NEW d, NEW n, Listed(d, n), RowMoves(d)
  PROVE  Listed(d, n)'
  BY DEF Listed, RowMoves

\* A call that has not moved still fits.
LEMMA FitsStill ==
  ASSUME TablesFit, RecordsMove, NEW k, CallFits(k), \A d \in InHand(k) : RowMoves(d),
         Owns(k) => k.d \in DOMAIN outbox' /\ outbox'[k.d] = outbox[k.d]
  PROVE  CallFits(k)'
  <1>1. CallState(k)
    BY DEF CallFits
  <1>2. k.pc = "store" => WriteFits(k)'
    <2> SUFFICES ASSUME k.pc = "store" PROVE WriteFits(k)'
      OBVIOUS
    <2>1. WriteFits(k) /\ k.m \in Memories
      BY DEF CallFits, WriteFits
    <2>2. records[k.m].version <= records'[k.m].version /\ records[k.m].version \in Nat /\ records'[k.m].version \in Nat
      BY <2>1 DEF RecordsMove, TablesFit, MemoryRecord
    <2>3. k.d # NoDelivery => k.d \in Deliveries /\ k.d[2] \in Nat
      BY <1>1 DEF CallState, Deliveries
    <2> QED
      BY <2>1, <2>2, <2>3 DEF WriteFits
  <1>3. k.pc = "claim" => Listed(k.d, k.tries)'
    BY ListedStill DEF CallFits, InHand
  <1>4. ASSUME NEW i \in DOMAIN k.queue PROVE Listed(k.queue[i].d, k.queue[i].tries)'
    <2>1. Listed(k.queue[i].d, k.queue[i].tries)
      BY DEF CallFits
    <2>2. k.pc # "idle"
      BY DEF CallFits
    <2>3. k.queue[i].d \in InHand(k)
      BY <2>2 DEF InHand
    <2> QED
      BY <2>1, <2>3, ListedStill
  <1>5. Owns(k) => RowFits(k)'
    BY DEF CallFits, RowFits
  <1> QED
    BY <1>1, <1>2, <1>3, <1>4, <1>5 DEF CallFits

\* One call moves.
LEMMA OneMoves ==
  ASSUME CallsFit, NEW w \in Calls, NEW k, call' = [call EXCEPT ![w] = k], CallFits(k)',
         \A y : \A x \in Calls \ {w} : y = call[x] => CallFits(y)',
         Owns(k) => \A x \in Calls \ {w} : Owns(call[x]) => call[x].d # k.d
  PROVE  CallsFit'
  <1>1. /\ call' = [x \in Calls |-> call'[x]] /\ call'[w] = k
        /\ \A x \in Calls \ {w} : call'[x] = call[x]
    BY DEF CallsFit
  <1>2. ASSUME NEW x \in Calls PROVE CallFits(call[x])'
    <2>1. CASE x = w
      BY <1>1, <2>1 DEF CallFits
    <2>2. CASE x # w
      <3>1. PICK y : y = call[x]
        OBVIOUS
      <3>2. CallFits(y)' /\ call'[x] = y
        BY <1>1, <2>2, <3>1
      <3> QED
        BY <3>2 DEF CallFits
    <2> QED
      BY <2>1, <2>2
  <1>3. ASSUME NEW x \in Calls, NEW y \in Calls, Owns(call'[x]), Owns(call'[y]), x # y
        PROVE  call'[x].d # call'[y].d
    BY <1>1, <1>3 DEF CallsFit
  <1> QED
    BY <1>1, <1>2, <1>3 DEF CallsFit

\* The record of a call that takes the next delivery of its drain, or returns.
NextOf(k) ==
  IF k.queue = << >> THEN Idle
  ELSE [Idle EXCEPT !.pc = "claim", !.kind = "deliver", !.m = k.queue[1].d[1],
                    !.d = k.queue[1].d, !.tries = k.queue[1].tries, !.queue = Tail(k.queue)]

LEMMA CallStateOf ==
  ASSUME NEW n, NEW pc \in Pc, NEW kind \in {"none", "deliver", "direct"}, NEW m \in Memories \cup {NoMemory},
         NEW d \in Deliveries \cup {NoDelivery}, NEW v \in Nat, NEW tries \in Nat,
         NEW queue \in Seq([d : Deliveries, tries : Nat]), NEW plan, NEW links,
         n = [pc |-> pc, kind |-> kind, m |-> m, d |-> d, v |-> v, tries |-> tries,
              queue |-> queue, plan |-> plan, links |-> links]
  PROVE  CallState(n)
  <1>1. n.plan = plan /\ n.links = links
    OBVIOUS
  <1> QED
    BY <1>1 DEF CallState

LEMMA IdleFits ==
  ASSUME NEW n, n = Idle
  PROVE  CallFits(n) /\ CallFits(n)' /\ ~Owns(n)
  <1>1. /\ n.pc = "idle" /\ n.kind = "none" /\ n.queue = << >>
        /\ n = [pc |-> "idle", kind |-> "none", m |-> NoMemory, d |-> NoDelivery, v |-> 0, tries |-> 0,
                queue |-> << >>, plan |-> n.plan, links |-> n.links]
    BY DEF Idle
  <1>2. CallState(n)
    <2>1. "idle" \in Pc /\ << >> \in Seq([d : Deliveries, tries : Nat])
      BY DEF Pc
    <2> QED
      BY <1>1, <2>1, CallStateOf
  <1>3. DOMAIN n.queue = {}
    BY <1>1
  <1> QED
    BY <1>1, <1>2, <1>3 DEF CallFits, Owns

LEMMA NextOwnsNothing ==
  ASSUME NEW k, NEW n, n = NextOf(k)
  PROVE  ~Owns(n)
  BY DEF NextOf, Idle, Owns

LEMMA NextFits ==
  ASSUME NEW k, CallState(k), NEW n, n = NextOf(k),
         \A i \in DOMAIN k.queue : Listed(k.queue[i].d, k.queue[i].tries)'
  PROVE  CallFits(n)' /\ ~Owns(n)
  <1>1. CASE k.queue = << >>
    BY <1>1, IdleFits DEF NextOf
  <1>2. CASE k.queue # << >>
    <2> DEFINE q == k.queue
    <2>1. /\ q \in Seq([d : Deliveries, tries : Nat]) /\ q # << >>
          /\ 1 \in DOMAIN q /\ Tail(q) \in Seq([d : Deliveries, tries : Nat])
          /\ \A i \in DOMAIN Tail(q) : i + 1 \in DOMAIN q /\ Tail(q)[i] = q[i + 1]
      BY <1>2 DEF CallState
    <2>2. q[1].d \in Deliveries /\ q[1].tries \in Nat /\ q[1].d[1] \in Memories
      <3>1. q[1] \in [d : Deliveries, tries : Nat]
        <4> DEFINE S == [d : Deliveries, tries : Nat]
        <4>1. q \in Seq(S) /\ q # << >>
          BY <2>1
        <4> HIDE DEF S, q
        <4>2. q[1] \in S
          BY <4>1
        <4> QED
          BY <4>2 DEF S
      <3>2. PICK a : a = q[1]
        OBVIOUS
      <3>3. a.d \in Deliveries /\ a.tries \in Nat
        BY <3>1, <3>2
      <3> QED
        BY <3>2, <3>3 DEF Deliveries
    <2>3. n = [pc |-> "claim", kind |-> "deliver", m |-> q[1].d[1], d |-> q[1].d, v |-> 0,
               tries |-> q[1].tries, queue |-> Tail(q), plan |-> n.plan, links |-> n.links]
      BY <1>2 DEF NextOf, Idle
    <2>4. CallState(n)
      <3>1. "claim" \in Pc
        BY DEF Pc
      <3> HIDE DEF q
      <3> QED
        BY <2>1, <2>2, <2>3, <3>1, CallStateOf
    <2>5. /\ n.pc = "claim" /\ n.kind = "deliver" /\ n.m = q[1].d[1] /\ n.d = q[1].d
          /\ n.tries = q[1].tries /\ n.queue = Tail(q)
      BY <2>3
    <2>6. Listed(n.d, n.tries)'
      BY <2>1, <2>5
    <2>7. ASSUME NEW i \in DOMAIN n.queue PROVE Listed(n.queue[i].d, n.queue[i].tries)'
      BY <2>1, <2>5
    <2> QED
      BY <2>2, <2>4, <2>5, <2>6, <2>7 DEF CallFits, Owns
  <1> QED
    BY <1>1, <1>2

\* A step of w, in terms of the rows it writes.
LEMMA CallsFitStill ==
  ASSUME DeliveryIInv, RecordsMove, NEW w \in Calls, NEW k, call' = [call EXCEPT ![w] = k], CallFits(k)',
         \A d : RowMoves(d),
         \A x \in Calls \ {w} : Owns(call[x]) =>
            /\ call[x].d \in DOMAIN outbox' /\ outbox'[call[x].d] = outbox[call[x].d]
            /\ Owns(k) => call[x].d # k.d
  PROVE  CallsFit'
  <1>1. ASSUME NEW y, NEW x \in Calls \ {w}, y = call[x] PROVE CallFits(y)'
    <2>1. CallFits(y) /\ TablesFit
      BY <1>1 DEF DeliveryIInv, CallsFit
    <2>2. Owns(y) => y.d \in DOMAIN outbox' /\ outbox'[y.d] = outbox[y.d]
      BY <1>1
    <2> QED
      BY <2>1, <2>2, FitsStill
  <1> QED
    BY <1>1, OneMoves DEF DeliveryIInv

\* A step that leaves the outbox alone.
LEMMA QuietStep ==
  ASSUME DeliveryIInv, RecordsMove, UNCHANGED <<outbox, created, committed, failures>>,
         NEW w \in Calls, NEW k, call' = [call EXCEPT ![w] = k], CallFits(k),
         Owns(k) => Owns(call[w]) /\ k.d = call[w].d
  PROVE  DeliveryIInv'
  <1>1. \A d : RowMoves(d)
    BY DEF RowMoves, eligible
  <1>2. Owns(k) => k.d \in DOMAIN outbox' /\ outbox'[k.d] = outbox[k.d]
    BY DEF CallFits, RowFits
  <1>3. CallFits(k)'
    BY <1>1, <1>2, FitsStill DEF DeliveryIInv
  <1>4. ASSUME NEW x \in Calls \ {w}, Owns(call[x])
        PROVE  /\ call[x].d \in DOMAIN outbox' /\ outbox'[call[x].d] = outbox[call[x].d]
               /\ Owns(k) => call[x].d # k.d
    BY <1>4 DEF DeliveryIInv, CallsFit, CallFits, RowFits
  <1>5. CallsFit'
    BY <1>1, <1>3, <1>4, CallsFitStill
  <1>6. TablesFit'
    <2>1. \A d \in DOMAIN outbox : /\ d[1] \in Memories /\ d[2] \in Nat /\ records[d[1]].version \in Nat
                                   /\ records'[d[1]].version \in Nat
      BY DEF DeliveryIInv, TablesFit, Deliveries, MemoryRecord, RecordsMove
    <2>2. \A d \in DOMAIN outbox : d[2] <= records'[d[1]].version
      BY <2>1 DEF DeliveryIInv, TablesFit, RecordsMove
    <2> QED
      BY <2>2 DEF DeliveryIInv, TablesFit, RecordsMove
  <1> QED
    BY <1>5, <1>6 DEF DeliveryIInv, DeliveriesExact, OutboxIsExact, FailuresCounted

\* A delivery whose row is overwritten is not eligible before its clock runs out.
LEMMA OverwrittenRow ==
  ASSUME DeliveryIInv, NEW d \in DOMAIN outbox, NEW r \in OutboxRecord, outbox' = [outbox EXCEPT ![d] = r],
         r.status # "PENDING", r.clock = "running"
  PROVE  /\ \A e : RowMoves(e)
         /\ DOMAIN outbox' = DOMAIN outbox /\ outbox' \in [DOMAIN outbox' -> OutboxRecord] /\ outbox'[d] = r
         /\ \A e \in DOMAIN outbox : e # d => outbox'[e] = outbox[e]
  <1>1. /\ DOMAIN outbox' = DOMAIN outbox /\ outbox' \in [DOMAIN outbox' -> OutboxRecord] /\ outbox'[d] = r
        /\ \A e \in DOMAIN outbox : e # d => outbox'[e] = outbox[e]
    BY DEF DeliveryIInv, TablesFit
  <1>2. ASSUME NEW e, e \in DOMAIN outbox, eligible(e)' PROVE eligible(e) /\ outbox'[e].attempts = outbox[e].attempts
    <2>1. e # d
      BY <1>1, <1>2 DEF eligible
    <2> QED
      BY <1>1, <1>2, <2>1 DEF eligible
  <1> QED
    BY <1>1, <1>2 DEF RowMoves

\* The rows of others than w are not the one that w has claimed.
LEMMA OthersElsewhere ==
  ASSUME DeliveryIInv, NEW w \in Calls, Owns(call[w]), NEW x \in Calls \ {w}, Owns(call[x])
  PROVE  call[x].d \in DOMAIN outbox /\ call[x].d # call[w].d
  BY DEF DeliveryIInv, CallsFit, CallFits, RowFits

\* A call settles its delivery, or fails it once more.
LEMMA StatusStep ==
  ASSUME DeliveryIInv, UNCHANGED <<records, created, committed>>, NEW w \in Calls, Owns(call[w]),
         NEW d, d = call[w].d, NEW s \in {"FAILED", "COMPLETED", "DEAD_LETTER"}, NEW n \in Nat,
         updateOutboxStatus(d, s, n), n <= MaxAttempts, s # "DEAD_LETTER" => n < MaxAttempts,
         \/ n = outbox[d].attempts /\ UNCHANGED failures
         \/ n = outbox[d].attempts + 1 /\ failures' = [failures EXCEPT ![d] = @ + 1],
         NEW k, call' = [call EXCEPT ![w] = k], Owns(k) => k.d = d,
         (\A e : RowMoves(e)) => CallFits(k)'
  PROVE  DeliveryIInv'
  <1> DEFINE r == [status |-> s, attempts |-> n, clock |-> "running"]
  <1>1. d \in DOMAIN outbox /\ r \in OutboxRecord /\ outbox' = [outbox EXCEPT ![d] = r]
    BY DEF DeliveryIInv, CallsFit, CallFits, RowFits, OutboxRecord, updateOutboxStatus
  <1>2. r.status = s /\ r.attempts = n /\ r.clock = "running" /\ s # "PENDING"
    OBVIOUS
  <1> HIDE DEF r
  <1>3. /\ \A e : RowMoves(e)
        /\ DOMAIN outbox' = DOMAIN outbox /\ outbox' \in [DOMAIN outbox' -> OutboxRecord] /\ outbox'[d] = r
        /\ \A e \in DOMAIN outbox : e # d => outbox'[e] = outbox[e]
    BY <1>1, <1>2, OverwrittenRow
  <1>4. RecordsMove
    BY DEF RecordsMove, DeliveryIInv, TablesFit, MemoryRecord
  <1>5. CallsFit'
    <2>1. ASSUME NEW x \in Calls \ {w}, Owns(call[x])
          PROVE  /\ call[x].d \in DOMAIN outbox' /\ outbox'[call[x].d] = outbox[call[x].d]
                 /\ Owns(k) => call[x].d # k.d
      BY <1>3, <2>1, OthersElsewhere
    <2> QED
      BY <1>3, <1>4, <2>1, CallsFitStill
  <1>6. failures' \in [DOMAIN outbox' -> Nat] /\ failures'[d] = n /\ \A e \in DOMAIN outbox : e # d => failures'[e] = failures[e]
    <2>1. failures \in [DOMAIN outbox -> Nat] /\ failures[d] = outbox[d].attempts
      BY <1>1 DEF DeliveryIInv, TablesFit, DeliveriesExact, FailuresCounted
    <2> QED
      BY <1>1, <1>3, <2>1
  <1>7. TablesFit'
    BY <1>2, <1>3, <1>6 DEF DeliveryIInv, TablesFit
  <1>8. DeliveriesExact'
    BY <1>2, <1>3, <1>6 DEF DeliveryIInv, DeliveriesExact, OutboxIsExact, FailuresCounted
  <1> QED
    BY <1>5, <1>7, <1>8 DEF DeliveryIInv

\* What the row of a claimed delivery says.
LEMMA OwnedRow ==
  ASSUME DeliveryIInv, NEW w \in Calls, Owns(call[w])
  PROVE  /\ CallState(call[w]) /\ call[w].d \in DOMAIN outbox /\ call[w].tries \in Nat
         /\ outbox[call[w].d].attempts = call[w].tries /\ call[w].tries < MaxAttempts
  <1>1. CallFits(call[w]) /\ RowFits(call[w]) /\ CallState(call[w])
    BY DEF DeliveryIInv, CallsFit, CallFits
  <1>2. call[w].tries \in Nat
    BY <1>1 DEF CallState
  <1> QED
    BY <1>1, <1>2 DEF RowFits, DeliveryIInv, TablesFit

\* After the step a call has what it still has to do.
LEMMA NextFitsStill ==
  ASSUME DeliveryIInv, NEW w \in Calls, NEW k, k = NextOf(call[w]), \A e : RowMoves(e)
  PROVE  CallFits(k)' /\ ~Owns(k)
  <1>1. PICK c : c = call[w]
    OBVIOUS
  <1>2. CallFits(c)
    BY <1>1 DEF DeliveryIInv, CallsFit
  <1>3. \A i \in DOMAIN c.queue : Listed(c.queue[i].d, c.queue[i].tries)'
    BY <1>2, ListedStill DEF CallFits
  <1>4. CallState(c) /\ k = NextOf(c)
    BY <1>1, <1>2 DEF CallFits
  <1> QED
    BY <1>3, <1>4, NextFits

\* The catch block.
LEMMA FailedStep ==
  ASSUME DeliveryIInv, UNCHANGED <<records, created>>, NEW w \in Calls, Owns(call[w]), NEW permanent \in BOOLEAN,
         failed(w, permanent)
  PROVE  DeliveryIInv'
  <1> DEFINE d == call[w].d
             n == call[w].tries + 1
             s == IF permanent \/ n >= MaxAttempts THEN "DEAD_LETTER" ELSE "FAILED"
  <1>1. PICK k : k = NextOf(call[w])
    OBVIOUS
  <1>2. (\A e : RowMoves(e)) => CallFits(k)' /\ ~Owns(k)
    BY <1>1, NextFitsStill
  <1>3. /\ CallState(call[w]) /\ d \in DOMAIN outbox /\ call[w].tries \in Nat
        /\ outbox[d].attempts = call[w].tries /\ call[w].tries < MaxAttempts
    BY OwnedRow
  <1>4. n \in Nat /\ n <= MaxAttempts /\ n = outbox[d].attempts + 1
    BY <1>3, BoundsArePositive
  <1>5. s \in {"FAILED", "COMPLETED", "DEAD_LETTER"} /\ (s # "DEAD_LETTER" => n < MaxAttempts)
    BY <1>4, BoundsArePositive
  <1>6. updateOutboxStatus(d, s, n) /\ failures' = [failures EXCEPT ![d] = @ + 1] /\ UNCHANGED committed
    BY DEF failed
  <1>7. call' = [call EXCEPT ![w] = k]
    BY <1>1 DEF failed, next, NextOf
  <1>8. Owns(k) => k.d = d
    BY <1>1, NextOwnsNothing
  <1> HIDE DEF d, s, n
  <1> QED
    BY <1>2, <1>4, <1>5, <1>6, <1>7, <1>8, StatusStep DEF d

\* Steps that leave the records alone.
LEMMA RecordsStay ==
  ASSUME DeliveryIInv, UNCHANGED records
  PROVE  RecordsMove
  BY DEF RecordsMove, DeliveryIInv, TablesFit, MemoryRecord

\* A call that goes on with the same delivery.
LEMMA GoesOn ==
  ASSUME DeliveryIInv, NEW w \in Calls, NEW pc \in Pc, NEW k, k = [call[w] EXCEPT !.pc = pc]
  PROVE  /\ CallState(k) /\ k.pc = pc /\ k.kind = call[w].kind /\ k.m = call[w].m /\ k.d = call[w].d
         /\ k.v = call[w].v /\ k.tries = call[w].tries /\ k.queue = call[w].queue
         /\ k.plan = call[w].plan /\ k.links = call[w].links
  <1>1. PICK c : c = call[w]
    OBVIOUS
  <1>2. CallState(c)
    BY <1>1 DEF DeliveryIInv, CallsFit, CallFits
  <1>3. /\ c.kind \in {"none", "deliver", "direct"} /\ c.m \in Memories \cup {NoMemory} /\ c.d \in Deliveries \cup {NoDelivery}
        /\ c.v \in Nat /\ c.tries \in Nat /\ c.queue \in Seq([d : Deliveries, tries : Nat])
    BY <1>2 DEF CallState
  <1>4. k = [pc |-> pc, kind |-> c.kind, m |-> c.m, d |-> c.d, v |-> c.v, tries |-> c.tries,
             queue |-> c.queue, plan |-> c.plan, links |-> c.links]
    <2>1. c = [pc |-> c.pc, kind |-> c.kind, m |-> c.m, d |-> c.d, v |-> c.v, tries |-> c.tries,
               queue |-> c.queue, plan |-> c.plan, links |-> c.links]
      BY <1>2 DEF CallState
    <2>2. k = [c EXCEPT !.pc = pc]
      BY <1>1
    <2> QED
      BY <2>1, <2>2
  <1>5. CallState(k)
    <2>1. PICK a \in {"none", "deliver", "direct"}, m \in Memories \cup {NoMemory}, d \in Deliveries \cup {NoDelivery},
               v \in Nat, n \in Nat, q \in Seq([d : Deliveries, tries : Nat]) :
            a = c.kind /\ m = c.m /\ d = c.d /\ v = c.v /\ n = c.tries /\ q = c.queue
      BY <1>3
    <2>2. PICK p, l : p = c.plan /\ l = c.links
      OBVIOUS
    <2>3. k = [pc |-> pc, kind |-> a, m |-> m, d |-> d, v |-> v, tries |-> n, queue |-> q, plan |-> p, links |-> l]
      BY <1>4, <2>1, <2>2
    <2>4. k.plan = p /\ k.links = l
      BY <2>3
    <2> QED
      BY <2>3, <2>4 DEF CallState
  <1> QED
    BY <1>1, <1>4, <1>5

LEMMA ClaimStep ==
  ASSUME DeliveryIInv, NEW w \in Calls, claim(w)
  PROVE  DeliveryIInv'
  <1> DEFINE d == call[w].d
  <1>1. /\ UNCHANGED <<records, created, committed, failures>> /\ RecordsMove
        /\ CallFits(call[w]) /\ call[w].pc = "claim" /\ call[w].kind = "deliver" /\ Listed(d, call[w].tries)
    BY RecordsStay DEF claim, at, noHistory, DeliveryIInv, CallsFit, CallFits
  <1>2. CASE ~eligible(d)
    <2>1. PICK k : k = NextOf(call[w])
      OBVIOUS
    <2>2. UNCHANGED outbox /\ call' = [call EXCEPT ![w] = k]
      BY <1>2, <2>1 DEF claim, next, NextOf
    <2>3. \A e : RowMoves(e)
      BY <2>2 DEF RowMoves, eligible
    <2>4. CallFits(k)' /\ ~Owns(k)
      BY <2>1, <2>3, NextFitsStill
    <2>5. CallFits(k)
      BY <2>2, <2>4, <1>1 DEF CallFits, Listed, eligible, RowFits, WriteFits
    <2> QED
      BY <1>1, <2>2, <2>4, <2>5, QuietStep
  <1>3. CASE eligible(d)
    <2>1. PICK k : k = [call[w] EXCEPT !.pc = "load"]
      OBVIOUS
    <2>2. /\ CallState(k) /\ k.pc = "load" /\ k.kind = "deliver" /\ k.m = call[w].m /\ k.d = d
          /\ k.tries = call[w].tries /\ k.queue = call[w].queue
      BY <1>1, <2>1, GoesOn DEF Pc
    <2>3. call' = [call EXCEPT ![w] = k] /\ claimOutboxRecord(d)
      BY <1>3, <2>1 DEF claim, goto
    <2> DEFINE r == [outbox[d] EXCEPT !.status = "PROCESSING", !.clock = "running"]
    <2>4. /\ d \in DOMAIN outbox /\ outbox[d] \in OutboxRecord /\ outbox[d].attempts = call[w].tries
          /\ outbox[d].status # "DEAD_LETTER" /\ outbox[d].attempts < MaxAttempts
      BY <1>1, <1>3 DEF Listed, eligible, DeliveryIInv, TablesFit
    <2>5. /\ r \in OutboxRecord /\ r.status = "PROCESSING" /\ r.clock = "running" /\ r.attempts = call[w].tries
          /\ outbox' = [outbox EXCEPT ![d] = r]
      BY <2>3, <2>4 DEF OutboxRecord, claimOutboxRecord
    <2> HIDE DEF r
    <2>6. /\ \A e : RowMoves(e)
          /\ DOMAIN outbox' = DOMAIN outbox /\ outbox' \in [DOMAIN outbox' -> OutboxRecord] /\ outbox'[d] = r
          /\ \A e \in DOMAIN outbox : e # d => outbox'[e] = outbox[e]
      BY <2>4, <2>5, OverwrittenRow
    <2>7. \A i \in DOMAIN k.queue : Listed(k.queue[i].d, k.queue[i].tries)'
      BY <1>1, <2>2, <2>6, ListedStill DEF CallFits
    <2>8. RowFits(k)'
      BY <2>2, <2>4, <2>5, <2>6 DEF RowFits
    <2>9. CallFits(k)'
      BY <1>1, <2>2, <2>7, <2>8 DEF CallFits
    <2>10. ASSUME NEW x \in Calls \ {w}, Owns(call[x])
           PROVE  call[x].d \in DOMAIN outbox' /\ outbox'[call[x].d] = outbox[call[x].d] /\ call[x].d # k.d
      <3>1. RowFits(call[x])
        BY <2>10 DEF DeliveryIInv, CallsFit, CallFits
      <3>2. call[x].d # d
        BY <1>3, <3>1 DEF RowFits, eligible
      <3> QED
        BY <2>2, <2>6, <3>1, <3>2 DEF RowFits
    <2>11. CallsFit'
      BY <1>1, <2>3, <2>6, <2>9, <2>10, CallsFitStill
    <2>12. TablesFit'
      BY <1>1, <2>4, <2>5, <2>6 DEF DeliveryIInv, TablesFit
    <2>13. DeliveriesExact'
      BY <1>1, <2>4, <2>5, <2>6 DEF DeliveryIInv, DeliveriesExact, OutboxIsExact, FailuresCounted
    <2> QED
      BY <2>11, <2>12, <2>13 DEF DeliveryIInv
  <1> QED
    BY <1>2, <1>3

LEMMA LoadStep ==
  ASSUME DeliveryIInv, NEW w \in Calls, load(w)
  PROVE  DeliveryIInv'
  <1> DEFINE d == call[w].d
  <1>1. /\ UNCHANGED <<records, created, committed, failures>> /\ RecordsMove
        /\ CallFits(call[w]) /\ call[w].pc = "load" /\ Owns(call[w]) /\ call[w].kind = "deliver"
        /\ d \in Deliveries /\ call[w].m = d[1]
    BY RecordsStay DEF load, at, noHistory, DeliveryIInv, CallsFit, CallFits, Owns
  <1>2. d[1] \in Memories /\ records[call[w].m].version \in Nat
    BY <1>1 DEF Deliveries, DeliveryIInv, TablesFit, MemoryRecord
  <1>3. CASE records[call[w].m].status = "ACTIVE"
    <2>1. PICK c : c = call[w]
      OBVIOUS
    <2>2. PICK v : v = records[c.m].version
      OBVIOUS
    <2>3. PICK k : k = [c EXCEPT !.pc = "check", !.v = v]
      OBVIOUS
    <2>4. CallFits(c) /\ c.pc = "load" /\ c.kind = "deliver" /\ c.d \in Deliveries /\ v \in Nat
      BY <1>1, <1>2, <2>1, <2>2
    <2>5. /\ c.m \in Memories \cup {NoMemory} /\ c.tries \in Nat /\ c.queue \in Seq([d : Deliveries, tries : Nat])
          /\ k = [pc |-> "check", kind |-> c.kind, m |-> c.m, d |-> c.d, v |-> v, tries |-> c.tries,
                  queue |-> c.queue, plan |-> c.plan, links |-> c.links]
      BY <2>3, <2>4 DEF CallFits, CallState
    <2>6. CallState(k) /\ k.pc = "check" /\ k.kind = "deliver" /\ k.d = c.d /\ k.tries = c.tries /\ k.queue = c.queue
      <3>1. "check" \in Pc
        BY DEF Pc
      <3>2. CallState(k)
        BY <2>4, <2>5, <3>1, CallStateOf
      <3> QED
        BY <2>4, <2>5, <3>2
    <2>7. RowFits(k)
      BY <2>4, <2>6 DEF CallFits, Owns, RowFits
    <2>8. CallFits(k)
      BY <2>4, <2>6, <2>7 DEF CallFits
    <2>9. UNCHANGED outbox /\ call' = [call EXCEPT ![w] = k]
      BY <1>3, <2>1, <2>2, <2>3 DEF load
    <2> QED
      BY <1>1, <2>1, <2>6, <2>8, <2>9, QuietStep
  <1>4. CASE records[call[w].m].status # "ACTIVE"
    <2>1. PICK k : k = [call[w] EXCEPT !.pc = "reject"]
      OBVIOUS
    <2>2. /\ CallState(k) /\ k.pc = "reject" /\ k.kind = "deliver" /\ k.m = call[w].m /\ k.d = d
          /\ k.tries = call[w].tries /\ k.queue = call[w].queue
      BY <1>1, <2>1, GoesOn DEF Pc
    <2>3. call' = [call EXCEPT ![w] = k] /\ updateOutboxStatus(d, "DEAD_LETTER", outbox[d].attempts)
      BY <1>4, <2>1 DEF load, goto
    <2>4. PICK n : n = outbox[d].attempts
      OBVIOUS
    <2>5. /\ d \in DOMAIN outbox /\ n \in Nat /\ n = call[w].tries /\ n < MaxAttempts
      BY <1>1, <2>4, OwnedRow
    <2>6. ASSUME \A e : RowMoves(e) PROVE CallFits(k)'
      <3>1. \A i \in DOMAIN k.queue : Listed(k.queue[i].d, k.queue[i].tries)'
        BY <1>1, <2>2, <2>6, ListedStill DEF CallFits
      <3>2. outbox \in [DOMAIN outbox -> OutboxRecord]
        BY DEF DeliveryIInv, TablesFit
      <3>3. /\ d \in DOMAIN outbox' /\ outbox'[d].status = "DEAD_LETTER" /\ outbox'[d].attempts = n
        BY <2>3, <2>4, <2>5, <3>2 DEF updateOutboxStatus
      <3>4. RowFits(k)'
        BY <2>2, <2>5, <3>3 DEF RowFits
      <3> QED
        BY <2>2, <3>1, <3>4 DEF CallFits
    <2>7. n <= MaxAttempts
      BY <2>5, BoundsArePositive
    <2> QED
      BY <1>1, <2>2, <2>3, <2>4, <2>5, <2>6, <2>7, StatusStep
  <1> QED
    BY <1>3, <1>4

LEMMA RejectStep ==
  ASSUME DeliveryIInv, NEW w \in Calls, reject(w)
  PROVE  DeliveryIInv'
  <1>1. Owns(call[w]) /\ failed(w, TRUE) /\ UNCHANGED <<records, created>>
    BY DEF reject, at, DeliveryIInv, CallsFit, CallFits, Owns
  <1> QED
    BY <1>1, FailedStep

LEMMA SettleStep ==
  ASSUME DeliveryIInv, NEW w \in Calls, settle(w)
  PROVE  DeliveryIInv'
  <1> DEFINE d == call[w].d
  <1>1. Owns(call[w]) /\ call[w].pc = "settle" /\ UNCHANGED <<records, created>>
    BY DEF settle, at, DeliveryIInv, CallsFit, CallFits, Owns
  <1>2. CASE failed(w, FALSE)
    BY <1>1, <1>2, FailedStep
  <1>3. CASE updateOutboxStatus(d, "COMPLETED", outbox[d].attempts) /\ next(w) /\ noHistory
    <2>1. PICK k : k = NextOf(call[w])
      OBVIOUS
    <2>2. call' = [call EXCEPT ![w] = k] /\ UNCHANGED <<committed, failures>>
      BY <1>3, <2>1 DEF next, NextOf, noHistory
    <2>3. PICK n : n = outbox[d].attempts
      OBVIOUS
    <2>4. d \in DOMAIN outbox /\ n \in Nat /\ n < MaxAttempts
      BY <1>1, <2>3, OwnedRow
    <2>5. n <= MaxAttempts
      BY <2>4, BoundsArePositive
    <2>6. (\A e : RowMoves(e)) => CallFits(k)' /\ ~Owns(k)
      BY <2>1, NextFitsStill
    <2>7. ~Owns(k)
      BY <2>1, NextOwnsNothing
    <2> QED
      BY <1>1, <1>3, <2>2, <2>3, <2>4, <2>5, <2>6, <2>7, StatusStep
  <1> QED
    BY <1>2, <1>3 DEF settle

LEMMA ThrownStep ==
  ASSUME DeliveryIInv, NEW w \in Calls, call[w].pc \in {"check", "apply"}, NEW permanent \in BOOLEAN,
         thrown(w, permanent), UNCHANGED <<records, created>>
  PROVE  DeliveryIInv'
  <1>1. CASE call[w].kind = "direct"
    <2>1. PICK k : k = Idle
      OBVIOUS
    <2>2. call' = [call EXCEPT ![w] = k] /\ UNCHANGED <<outbox, committed, failures>>
      BY <1>1, <2>1 DEF thrown, noHistory
    <2> QED
      BY <2>1, <2>2, IdleFits, RecordsStay, QuietStep
  <1>2. CASE call[w].kind # "direct"
    <2>1. Owns(call[w])
      <3>1. CallFits(call[w]) /\ CallState(call[w])
        BY DEF DeliveryIInv, CallsFit, CallFits
      <3>2. call[w].kind \in {"none", "deliver", "direct"} /\ call[w].kind # "none"
        BY <3>1 DEF CallFits, CallState
      <3> QED
        BY <1>2, <3>2 DEF Owns
    <2> QED
      BY <1>2, <2>1, FailedStep DEF thrown
  <1> QED
    BY <1>1, <1>2

\* The record of a call that starts, or starts over.
Begun(pc, kind, m, d, v) ==
  [pc |-> pc, kind |-> kind, m |-> m, d |-> d, v |-> v, tries |-> 0,
   queue |-> << >>, plan |-> << >>, links |-> << >>]

LEMMA Begins ==
  ASSUME NEW pc \in Pc, NEW kind \in {"none", "deliver", "direct"}, NEW m \in Memories \cup {NoMemory},
         NEW d \in Deliveries \cup {NoDelivery}, NEW v \in Nat, NEW k, k = Begun(pc, kind, m, d, v)
  PROVE  /\ CallState(k) /\ k.pc = pc /\ k.kind = kind /\ k.m = m /\ k.d = d /\ k.v = v /\ k.tries = 0
         /\ k.queue = << >> /\ DOMAIN k.queue = {}
  <1>1. /\ k.pc = pc /\ k.kind = kind /\ k.m = m /\ k.d = d /\ k.v = v /\ k.tries = 0 /\ k.queue = << >>
        /\ k = [pc |-> pc, kind |-> kind, m |-> m, d |-> d, v |-> v, tries |-> 0,
                queue |-> << >>, plan |-> k.plan, links |-> k.links]
    BY DEF Begun
  <1>2. << >> \in Seq([d : Deliveries, tries : Nat])
    OBVIOUS
  <1>3. CallState(k)
    <2>1. PICK q \in Seq([d : Deliveries, tries : Nat]) : q = << >>
      BY <1>2
    <2>2. PICK a, b : a = k.plan /\ b = k.links
      OBVIOUS
    <2>3. k = [pc |-> pc, kind |-> kind, m |-> m, d |-> d, v |-> v, tries |-> 0,
               queue |-> q, plan |-> a, links |-> b]
      BY <1>1, <2>1, <2>2
    <2> QED
      BY <2>3, CallStateOf
  <1>4. DOMAIN k.queue = {}
    BY <1>1
  <1> QED
    BY <1>1, <1>3, <1>4

LEMMA BuriedMoves ==
  ASSUME DeliveryIInv, NEW S \in SUBSET Memories, \A m \in S : found(m), records' = buried(S)
  PROVE  RecordsMove
  <1>1. ASSUME NEW m \in Memories
        PROVE  /\ records'[m] \in MemoryRecord /\ records[m].version <= records'[m].version
               /\ records'[m].status = "NONE" => records'[m].version = 0
    <2>1. /\ records[m] \in MemoryRecord /\ (records[m].status = "NONE" => records[m].version = 0)
          /\ records[m].version \in Nat
      BY DEF DeliveryIInv, TablesFit, MemoryRecord
    <2>2. CASE m \in S
      <3>1. records'[m] = [records[m] EXCEPT !.status = "TOMBSTONED", !.version = @ + 1]
        BY <2>2 DEF buried
      <3>2. PICK r \in MemoryRecord : r = records[m]
        BY <2>1
      <3>3. records'[m] = [status |-> "TOMBSTONED", version |-> r.version + 1, source |-> r.source]
        BY <3>1, <3>2 DEF MemoryRecord
      <3>4. r.version \in Nat /\ r.source \in Memories \cup {NoMemory}
        BY DEF MemoryRecord
      <3> QED
        BY <3>2, <3>3, <3>4 DEF MemoryRecord
    <2>3. CASE m \notin S
      <3>1. records'[m] = records[m]
        BY <2>3 DEF buried
      <3> QED
        BY <2>1, <3>1
    <2> QED
      BY <2>2, <2>3
  <1> QED
    BY <1>1 DEF RecordsMove, buried

LEMMA UpdateMemoryStep ==
  ASSUME DeliveryIInv, NEW w \in Calls, NEW m \in Memories, NEW e \in 1 .. MaxVersion, NEW c \in Contents,
         e <= records[m].version, updateMemory(w, m, e, c)
  PROVE  DeliveryIInv'
  <1>1. PICK d : d = delivery(m, records[m].status, records[m].version + 1, c)
    OBVIOUS
  <1>2. PICK k : k = Begun("store", "deliver", m, d, e)
    OBVIOUS
  <1>3. call' = [call EXCEPT ![w] = k] /\ UNCHANGED <<records, outbox, created, committed, failures>>
    <2>1. PICK j : j = [Idle EXCEPT !.pc = "store", !.kind = "deliver", !.m = m, !.v = e, !.d = d]
      OBVIOUS
    <2>2. j = [pc |-> "store", kind |-> "deliver", m |-> m, d |-> d, v |-> e, tries |-> 0,
               queue |-> << >>, plan |-> << >>, links |-> << >>]
      BY <2>1 DEF Idle
    <2>3. k = j
      BY <1>2, <2>2 DEF Begun
    <2> QED
      BY <1>1, <2>1, <2>3 DEF updateMemory, noHistory, storeVars
  <1>4. records[m].version \in Nat /\ e \in Nat
    BY BoundsAreNatural DEF DeliveryIInv, TablesFit, MemoryRecord
  <1>5. d = NoDelivery \/ d = <<m, records[m].version + 1, c>>
    BY <1>1 DEF delivery
  <1>6. d \in Deliveries \cup {NoDelivery}
    BY <1>4, <1>5 DEF Deliveries
  <1>7. "store" \in Pc
    BY DEF Pc
  <1>8. /\ CallState(k) /\ k.pc = "store" /\ k.m = m /\ k.d = d /\ k.v = e /\ DOMAIN k.queue = {}
    BY <1>2, <1>4, <1>6, <1>7, Begins
  <1>9. WriteFits(k)
    BY <1>4, <1>5, <1>8 DEF WriteFits
  <1>10. CallFits(k) /\ ~Owns(k)
    BY <1>8, <1>9 DEF CallFits, Owns
  <1> QED
    BY <1>3, <1>10, RecordsStay, QuietStep

LEMMA ForgettingStep ==
  ASSUME DeliveryIInv, NEW w \in Calls,
         (\E m \in Memories : tombstoneMemory(w, m)) \/ revokeProjections(w) \/ cascadeDerived(w)
  PROVE  DeliveryIInv'
  <1>1. ASSUME NEW m \in Memories, tombstoneMemory(w, m) PROVE DeliveryIInv'
    <2>1. PICK k : k = Begun("revoke", "none", m, NoDelivery, 0)
      OBVIOUS
    <2>2. call' = [call EXCEPT ![w] = k] /\ UNCHANGED <<outbox, created, committed, failures>>
      <3>1. PICK j : j = [Idle EXCEPT !.pc = "revoke", !.m = m]
        OBVIOUS
      <3>2. j = [pc |-> "revoke", kind |-> "none", m |-> m, d |-> NoDelivery, v |-> 0, tries |-> 0,
                 queue |-> << >>, plan |-> << >>, links |-> << >>]
        BY <3>1 DEF Idle
      <3>3. k = j
        BY <2>1, <3>2 DEF Begun
      <3> QED
        BY <1>1, <3>1, <3>3 DEF tombstoneMemory, tombstone, noHistory
    <2>3. RecordsMove
      <3>1. /\ records' = buried({m} \cup derivedFrom(m)) /\ {m} \cup derivedFrom(m) \subseteq Memories
            /\ \A x \in {m} \cup derivedFrom(m) : found(x)
        BY <1>1 DEF tombstoneMemory, tombstone, derivedFrom
      <3> QED
        BY <3>1, BuriedMoves
    <2>4. CallState(k) /\ k.pc = "revoke" /\ DOMAIN k.queue = {}
      <3>1. PICK p \in Pc, a \in {"none", "deliver", "direct"}, b \in Memories \cup {NoMemory},
                 d \in Deliveries \cup {NoDelivery}, v \in Nat :
              p = "revoke" /\ a = "none" /\ b = m /\ d = NoDelivery /\ v = 0
        BY DEF Pc
      <3>2. k = Begun(p, a, b, d, v)
        BY <2>1, <3>1
      <3>3. CallState(k) /\ k.pc = p /\ DOMAIN k.queue = {}
        BY <3>2, Begins
      <3> QED
        BY <3>1, <3>3
    <2>5. CallFits(k) /\ ~Owns(k)
      BY <2>4 DEF CallFits, Owns
    <2> QED
      BY <2>2, <2>3, <2>5, QuietStep
  <1>2. ASSUME revokeProjections(w) PROVE DeliveryIInv'
    <2>1. PICK k : k = [call[w] EXCEPT !.pc = "cascade"]
      OBVIOUS
    <2>2. /\ call' = [call EXCEPT ![w] = k] /\ UNCHANGED <<records, outbox, created, committed, failures>>
      BY <1>2, <2>1 DEF revokeProjections, goto, noHistory
    <2>3. CallState(k) /\ k.pc = "cascade" /\ k.queue = call[w].queue
      BY <2>1, GoesOn DEF Pc
    <2>4. CallFits(k) /\ ~Owns(k)
      BY <2>3 DEF DeliveryIInv, CallsFit, CallFits, Owns
    <2> QED
      BY <2>2, <2>4, RecordsStay, QuietStep
  <1>3. ASSUME cascadeDerived(w) PROVE DeliveryIInv'
    <2>1. PICK k : k = Idle
      OBVIOUS
    <2>2. /\ call' = [call EXCEPT ![w] = k] /\ UNCHANGED <<outbox, created, committed, failures>>
          /\ records' = buried(derivedFrom(call[w].m))
      BY <1>3, <2>1 DEF cascadeDerived, markDerivedCompressionsTombstoned, noHistory
    <2>3. RecordsMove
      BY <2>2, BuriedMoves DEF derivedFrom
    <2> QED
      BY <2>1, <2>2, <2>3, IdleFits, QuietStep
  <1> QED
    BY <1>1, <1>2, <1>3

LEMMA EvolveDirectlyStep ==
  ASSUME DeliveryIInv, NEW w \in Calls, NEW m \in Memories, NEW c \in Contents, evolveDirectly(w, m, c)
  PROVE  DeliveryIInv'
  <1>1. PICK v : v = records[m].version
    OBVIOUS
  <1>2. PICK d : d = <<m, v, c>>
    OBVIOUS
  <1>3. v \in Nat /\ d \in Deliveries
    BY <1>1, <1>2 DEF Deliveries, DeliveryIInv, TablesFit, MemoryRecord
  <1>4. PICK k : k = Begun("check", "direct", m, d, v)
    OBVIOUS
  <1>5. call' = [call EXCEPT ![w] = k] /\ UNCHANGED <<records, outbox, created, committed, failures>>
    <2>1. PICK j : j = [Idle EXCEPT !.pc = "check", !.kind = "direct", !.m = m, !.d = d, !.v = v]
      OBVIOUS
    <2>2. j = [pc |-> "check", kind |-> "direct", m |-> m, d |-> d, v |-> v, tries |-> 0,
               queue |-> << >>, plan |-> << >>, links |-> << >>]
      BY <2>1 DEF Idle
    <2>3. k = j
      BY <1>4, <2>2 DEF Begun
    <2> QED
      BY <1>1, <1>2, <2>1, <2>3 DEF evolveDirectly, noHistory, storeVars
  <1>6. CallState(k) /\ k.pc = "check" /\ k.kind = "direct" /\ k.d = d /\ DOMAIN k.queue = {}
    BY <1>3, <1>4, Begins DEF Pc
  <1>7. CallFits(k) /\ ~Owns(k)
    BY <1>3, <1>6 DEF CallFits, Owns
  <1> QED
    BY <1>5, <1>7, RecordsStay, QuietStep

LEMMA CheckStep ==
  ASSUME DeliveryIInv, NEW w \in Calls, checkParent(w)
  PROVE  DeliveryIInv'
  <1>1. UNCHANGED <<records, created>> /\ call[w].pc = "check"
    BY DEF checkParent, at
  <1>2. CASE goto(w, "plan") /\ UNCHANGED outbox /\ noHistory
    <2>1. PICK k : k = [call[w] EXCEPT !.pc = "plan"]
      OBVIOUS
    <2>2. call' = [call EXCEPT ![w] = k] /\ UNCHANGED <<outbox, committed, failures>>
      BY <1>2, <2>1 DEF goto, noHistory
    <2>3. PICK c : c = call[w]
      OBVIOUS
    <2>4. CallFits(c) /\ c.pc = "check"
      BY <1>1, <2>3 DEF DeliveryIInv, CallsFit
    <2>5. /\ CallState(k) /\ k.pc = "plan" /\ k.kind = c.kind /\ k.d = c.d /\ k.tries = c.tries /\ k.queue = c.queue
      BY <2>1, <2>3, GoesOn DEF Pc
    <2>6. Owns(k) => Owns(c) /\ RowFits(k)
      BY <2>4, <2>5 DEF CallFits, Owns, RowFits
    <2>7. CallFits(k)
      BY <2>4, <2>5, <2>6 DEF CallFits
    <2> QED
      BY <1>1, <2>2, <2>3, <2>5, <2>6, <2>7, RecordsStay, QuietStep
  <1>3. CASE thrown(w, TRUE)
    BY <1>1, <1>3, ThrownStep
  <1> QED
    BY <1>2, <1>3 DEF checkParent

LEMMA PlanStep ==
  ASSUME DeliveryIInv, NEW w \in Calls, planEvolution(w)
  PROVE  DeliveryIInv'
  <1>1. PICK plan, links : call' = [call EXCEPT ![w].pc = "apply", ![w].plan = plan, ![w].links = links]
    BY DEF planEvolution
  <1>2. PICK c : c = call[w]
    OBVIOUS
  <1>3. PICK k : k = [c EXCEPT !.pc = "apply", !.plan = plan, !.links = links]
    OBVIOUS
  <1>4. call' = [call EXCEPT ![w] = k] /\ UNCHANGED <<records, outbox, created, committed, failures>>
    BY <1>1, <1>2, <1>3 DEF planEvolution, noHistory, storeVars
  <1>5. CallFits(c) /\ c.pc = "plan"
    BY <1>2 DEF DeliveryIInv, CallsFit, planEvolution, at
  <1>6. /\ c.kind \in {"none", "deliver", "direct"} /\ c.m \in Memories \cup {NoMemory} /\ c.d \in Deliveries \cup {NoDelivery}
        /\ c.v \in Nat /\ c.tries \in Nat /\ c.queue \in Seq([d : Deliveries, tries : Nat]) /\ "apply" \in Pc
    BY <1>5 DEF CallFits, CallState, Pc
  <1>7. k = [pc |-> "apply", kind |-> c.kind, m |-> c.m, d |-> c.d, v |-> c.v, tries |-> c.tries,
             queue |-> c.queue, plan |-> plan, links |-> links]
    BY <1>3, <1>5 DEF CallFits, CallState
  <1>8. CallState(k)
    BY <1>6, <1>7, CallStateOf
  <1>9. k.pc = "apply" /\ k.kind = c.kind /\ k.d = c.d /\ k.tries = c.tries /\ k.queue = c.queue
    BY <1>7
  <1>10. Owns(k) => Owns(c) /\ RowFits(k)
    BY <1>5, <1>9 DEF CallFits, Owns, RowFits
  <1>11. CallFits(k)
    BY <1>5, <1>8, <1>9, <1>10 DEF CallFits
  <1> QED
    BY <1>2, <1>4, <1>9, <1>10, <1>11, RecordsStay, QuietStep

LEMMA ApplyStep ==
  ASSUME DeliveryIInv, NEW w \in Calls, applyPlan(w)
  PROVE  DeliveryIInv'
  <1>1. UNCHANGED <<records, created>> /\ call[w].pc = "apply"
    BY DEF applyPlan, at
  <1>2. CASE thrown(w, FALSE)
    BY <1>1, <1>2, ThrownStep
  <1>3. CASE ~thrown(w, FALSE)
    <2>1. PICK c : c = call[w]
      OBVIOUS
    <2>2. CallFits(c) /\ c.pc = "apply"
      BY <1>1, <2>1 DEF DeliveryIInv, CallsFit
    <2>3. PICK k : k = IF c.kind = "direct" THEN Idle
                       ELSE [c EXCEPT !.pc = "settle", !.v = 0, !.plan = << >>, !.links = << >>]
      OBVIOUS
    <2>4. call' = [call EXCEPT ![w] = k] /\ UNCHANGED <<outbox, committed, failures>>
      BY <1>3, <2>1, <2>3 DEF applyPlan, noHistory
    <2>5. CASE c.kind = "direct"
      BY <1>1, <2>3, <2>4, <2>5, IdleFits, RecordsStay, QuietStep
    <2>6. CASE c.kind # "direct"
      <3>1. c.kind = "deliver" /\ Owns(c)
        <4>1. c.kind \in {"none", "deliver", "direct"} /\ c.kind # "none"
          BY <2>2 DEF CallFits, CallState
        <4> QED
          BY <2>2, <2>6, <4>1 DEF Owns
      <3>2. /\ c.m \in Memories \cup {NoMemory} /\ c.d \in Deliveries \cup {NoDelivery}
            /\ c.tries \in Nat /\ c.queue \in Seq([d : Deliveries, tries : Nat]) /\ "settle" \in Pc
        BY <2>2 DEF CallFits, CallState, Pc
      <3>3. k = [pc |-> "settle", kind |-> "deliver", m |-> c.m, d |-> c.d, v |-> 0, tries |-> c.tries,
                 queue |-> c.queue, plan |-> << >>, links |-> << >>]
        BY <2>2, <2>3, <2>6, <3>1 DEF CallFits, CallState
      <3>4. CallState(k)
        <4>1. PICK a : a = << >>
          OBVIOUS
        <4>2. k = [pc |-> "settle", kind |-> "deliver", m |-> c.m, d |-> c.d, v |-> 0, tries |-> c.tries,
                   queue |-> c.queue, plan |-> a, links |-> a]
          BY <3>3, <4>1
        <4> QED
          BY <3>2, <4>2, CallStateOf
      <3>5. k.pc = "settle" /\ k.kind = "deliver" /\ k.d = c.d /\ k.tries = c.tries /\ k.queue = c.queue
        BY <3>3
      <3>6. RowFits(k)
        BY <2>2, <3>1, <3>5 DEF CallFits, RowFits
      <3>7. CallFits(k)
        BY <2>2, <3>4, <3>5, <3>6 DEF CallFits
      <3> QED
        BY <1>1, <2>1, <2>4, <3>1, <3>5, <3>7, RecordsStay, QuietStep
    <2> QED
      BY <2>5, <2>6
  <1> QED
    BY <1>2, <1>3

\* A drain lists rows of the outbox, with their attempts.
LEMMA DrainStep ==
  ASSUME DeliveryIInv, NEW w \in Calls, drainPending(w)
  PROVE  DeliveryIInv'
  <1>1. PICK rows \in listPendingOutboxRecords :
          LET q == [i \in DOMAIN rows |-> [d |-> created[rows[i]], tries |-> outbox[created[rows[i]]].attempts]]
          IN call' = [call EXCEPT ![w] = [Idle EXCEPT !.pc = "claim", !.kind = "deliver",
                        !.m = q[1].d[1], !.d = q[1].d, !.tries = q[1].tries, !.queue = Tail(q)]]
    BY DEF drainPending
  <1>2. PICK q : q = [i \in DOMAIN rows |-> [d |-> created[rows[i]], tries |-> outbox[created[rows[i]]].attempts]]
    OBVIOUS
  <1>3. IsFiniteSet(pendingRows) /\ pendingRows # {}
    <2>1. created \in Seq(Deliveries) /\ DOMAIN created = 1 .. Len(created) /\ Len(created) \in Nat
      BY DEF DeliveryIInv, TablesFit
    <2>2. IsFiniteSet(1 .. Len(created))
      BY <2>1, FS_Interval
    <2>3. pendingRows \subseteq 1 .. Len(created)
      BY <2>1 DEF pendingRows
    <2> QED
      BY <2>2, <2>3, FS_Subset DEF drainPending
  <1>4. PICK n \in Nat \ {0} : n = Cardinality(pendingRows)
    <2>1. Cardinality(pendingRows) \in Nat
      BY <1>3, FS_CardinalityType
    <2>2. Cardinality(pendingRows) # 0
      BY <1>3, FS_EmptySet
    <2> QED
      BY <2>1, <2>2
  <1>5. rows \in [1 .. n -> pendingRows]
    BY <1>1, <1>4 DEF listPendingOutboxRecords
  <1>6. ASSUME NEW i \in 1 .. n
        PROVE  /\ q[i].d \in Deliveries /\ q[i].tries \in Nat /\ Listed(q[i].d, q[i].tries)
               /\ q[i] \in [d : Deliveries, tries : Nat]
    <2>1. PICK d : d = created[rows[i]]
      OBVIOUS
    <2>2. d \in DOMAIN outbox
      BY <1>5, <2>1 DEF pendingRows, eligible
    <2>3. d \in Deliveries /\ outbox[d].attempts \in Nat
      BY <2>2 DEF DeliveryIInv, TablesFit, OutboxRecord
    <2>4. q[i] = [d |-> d, tries |-> outbox[d].attempts]
      BY <1>2, <1>5, <2>1
    <2> QED
      BY <2>2, <2>3, <2>4 DEF Listed
  <1>7. /\ q \in Seq([d : Deliveries, tries : Nat]) /\ q # << >> /\ DOMAIN q = 1 .. n
    <2> DEFINE S == [d : Deliveries, tries : Nat]
    <2>1. q \in [1 .. n -> S]
      BY <1>2, <1>5, <1>6
    <2> HIDE DEF S
    <2>2. q \in Seq(S) /\ Len(q) = n /\ q # << >> /\ DOMAIN q = 1 .. n
      BY <2>1
    <2> QED
      BY <2>2 DEF S
  <1>8. PICK c : c = [call[w] EXCEPT !.queue = q]
    OBVIOUS
  <1>9. CallState(c) /\ c.queue = q
    <2>1. PICK b : b = call[w]
      OBVIOUS
    <2>2. CallState(b)
      BY <2>1 DEF DeliveryIInv, CallsFit, CallFits
    <2>3. /\ b.pc \in Pc /\ b.kind \in {"none", "deliver", "direct"} /\ b.m \in Memories \cup {NoMemory}
          /\ b.d \in Deliveries \cup {NoDelivery} /\ b.v \in Nat /\ b.tries \in Nat
      BY <2>2 DEF CallState
    <2>4. c = [pc |-> b.pc, kind |-> b.kind, m |-> b.m, d |-> b.d, v |-> b.v, tries |-> b.tries,
               queue |-> q, plan |-> b.plan, links |-> b.links]
      BY <1>8, <2>1, <2>2 DEF CallState
    <2>5. CallState(c)
      BY <1>7, <2>3, <2>4, CallStateOf
    <2> QED
      BY <2>4, <2>5
  <1>10. PICK k : k = NextOf(c)
    OBVIOUS
  <1>11. /\ call' = [call EXCEPT ![w] = k]
         /\ UNCHANGED <<records, outbox, created, committed, failures>>
    <2>1. k = [Idle EXCEPT !.pc = "claim", !.kind = "deliver", !.m = q[1].d[1], !.d = q[1].d,
                           !.tries = q[1].tries, !.queue = Tail(q)]
      BY <1>7, <1>9, <1>10 DEF NextOf
    <2>2. call' = [call EXCEPT ![w] = k]
      BY <1>1, <1>2, <2>1
    <2> QED
      BY <2>2 DEF drainPending, noHistory, storeVars
  <1>12. \A i \in DOMAIN c.queue : Listed(c.queue[i].d, c.queue[i].tries)'
    BY <1>6, <1>7, <1>9, <1>11 DEF Listed, eligible
  <1>13. CallFits(k)' /\ ~Owns(k)
    BY <1>9, <1>10, <1>12, NextFits
  <1>14. CallFits(k)
    BY <1>11, <1>13 DEF CallFits, Listed, eligible, RowFits, WriteFits
  <1> QED
    BY <1>11, <1>13, <1>14, RecordsStay, QuietStep

\* A record is committed with the delivery of its new version.
LEMMA CommitStep ==
  ASSUME DeliveryIInv, NEW w \in Calls, NEW m \in Memories, NEW r \in MemoryRecord, NEW d \in Deliveries \cup {NoDelivery},
         commitRecord(m, r, d), deliverNow(w, m, d), committedWith(m, d),
         r.status # "NONE", r.version = records[m].version + 1,
         d # NoDelivery => d[1] = m /\ d[2] = r.version
  PROVE  DeliveryIInv'
  <1>1. /\ records' = [records EXCEPT ![m] = r] /\ records \in [Memories -> MemoryRecord]
        /\ records' \in [Memories -> MemoryRecord]
        /\ records'[m] = r /\ \A x \in Memories : x # m => records'[x] = records[x]
    BY DEF commitRecord, DeliveryIInv, TablesFit
  <1>2. \A x \in Memories : records[x].version \in Nat
    BY <1>1 DEF MemoryRecord
  <1>3. RecordsMove
    <2>1. ASSUME NEW x \in Memories
          PROVE  records[x].version <= records'[x].version /\ (records'[x].status = "NONE" => records'[x].version = 0)
      <3>1. CASE x = m
        BY <1>1, <1>2, <3>1
      <3>2. CASE x # m
        BY <1>1, <1>2, <3>2 DEF DeliveryIInv, TablesFit
      <3> QED
        BY <3>1, <3>2
    <2> QED
      BY <1>1, <2>1 DEF RecordsMove
  <1>4. CASE d = NoDelivery
    <2>1. PICK k : k = Idle
      OBVIOUS
    <2>2. call' = [call EXCEPT ![w] = k] /\ UNCHANGED <<outbox, created, committed, failures>>
      BY <1>4, <2>1 DEF commitRecord, deliverNow, committedWith
    <2> QED
      BY <1>3, <2>1, <2>2, IdleFits, QuietStep
  <1>5. CASE d # NoDelivery
    <2>1. d \in Deliveries /\ d[1] = m /\ d[2] = records[m].version + 1 /\ d = <<m, r.version, d[3]>>
      BY <1>5 DEF Deliveries
    <2>2. d \notin DOMAIN outbox
      BY <1>2, <2>1 DEF DeliveryIInv, TablesFit
    <2> DEFINE row == [status |-> "PENDING", attempts |-> 0, clock |-> "over"]
    <2>3. row \in OutboxRecord /\ row.attempts = 0 /\ row.status = "PENDING"
      BY DEF OutboxRecord
    <2>4. /\ outbox' = Put(outbox, d, row) /\ created' = Append(created, d) /\ failures' = Put(failures, d, 0)
          /\ committed' = committed \cup {d}
      BY <1>1, <1>5, <2>1, <2>2 DEF commitRecord, registered, committedWith
    <2> HIDE DEF row
    <2>5. /\ DOMAIN outbox' = DOMAIN outbox \cup {d} /\ outbox'[d] = row
          /\ \A e \in DOMAIN outbox : outbox'[e] = outbox[e]
          /\ outbox' \in [DOMAIN outbox' -> OutboxRecord]
      BY <2>2, <2>3, <2>4 DEF Put, DeliveryIInv, TablesFit
    <2>6. /\ failures' \in [DOMAIN outbox' -> Nat] /\ failures'[d] = 0
          /\ \A e \in DOMAIN outbox : failures'[e] = failures[e]
      BY <2>2, <2>4, <2>5 DEF Put, DeliveryIInv, TablesFit
    <2>7. \A e : RowMoves(e)
      BY <2>5 DEF RowMoves, eligible
    <2>8. PICK k : k = Begun("claim", "deliver", m, d, 0)
      OBVIOUS
    <2>9. call' = [call EXCEPT ![w] = k]
      <3>1. PICK j : j = [Idle EXCEPT !.pc = "claim", !.kind = "deliver", !.m = m, !.d = d]
        OBVIOUS
      <3>2. j = [pc |-> "claim", kind |-> "deliver", m |-> m, d |-> d, v |-> 0, tries |-> 0,
                 queue |-> << >>, plan |-> << >>, links |-> << >>]
        BY <3>1 DEF Idle
      <3>3. k = j
        BY <2>8, <3>2 DEF Begun
      <3> QED
        BY <1>5, <3>1, <3>3 DEF deliverNow
    <2>10. /\ CallState(k) /\ k.pc = "claim" /\ k.kind = "deliver" /\ k.m = m /\ k.d = d /\ k.tries = 0
           /\ DOMAIN k.queue = {}
      BY <2>1, <2>8, Begins DEF Pc
    <2>11. CallFits(k)' /\ ~Owns(k)
      <3>1. Listed(k.d, k.tries)'
        BY <2>3, <2>5, <2>10 DEF Listed
      <3> QED
        BY <2>1, <2>10, <3>1 DEF CallFits, Owns
    <2>12. CallsFit'
      <3>1. ASSUME NEW x \in Calls \ {w}, Owns(call[x])
            PROVE  call[x].d \in DOMAIN outbox' /\ outbox'[call[x].d] = outbox[call[x].d]
        BY <2>5, <3>1 DEF DeliveryIInv, CallsFit, CallFits, RowFits
      <3> QED
        BY <1>3, <2>7, <2>9, <2>11, <3>1, CallsFitStill
    <2>13. TablesFit'
      <3>1. DOMAIN outbox' \subseteq Deliveries /\ created' \in Seq(Deliveries)
        BY <2>1, <2>4, <2>5 DEF DeliveryIInv, TablesFit
      <3>2. ASSUME NEW e \in DOMAIN outbox'
            PROVE  e[2] <= records'[e[1]].version /\ (outbox'[e].status # "DEAD_LETTER" => outbox'[e].attempts < MaxAttempts)
        <4>1. CASE e = d
          BY <1>1, <1>2, <2>1, <2>3, <2>5, <4>1, BoundsArePositive
        <4>2. CASE e # d
          <5>1. e \in DOMAIN outbox /\ e[1] \in Memories /\ e[2] \in Nat
            BY <2>5, <3>1, <4>2 DEF Deliveries
          <5>2. e[2] <= records[e[1]].version
            BY <5>1 DEF DeliveryIInv, TablesFit
          <5>3. records'[e[1]].version \in Nat /\ records[e[1]].version <= records'[e[1]].version
            BY <1>3, <5>1 DEF RecordsMove, MemoryRecord
          <5>4. e[2] <= records'[e[1]].version
            BY <1>2, <5>1, <5>2, <5>3
          <5> QED
            BY <2>5, <5>1, <5>4 DEF DeliveryIInv, TablesFit
        <4> QED
          BY <4>1, <4>2
      <3> QED
        BY <1>1, <1>3, <2>5, <2>6, <3>1, <3>2 DEF TablesFit, RecordsMove
    <2>14. DeliveriesExact'
      <3>1. OutboxIsExact'
        BY <2>4, <2>5 DEF DeliveryIInv, DeliveriesExact, OutboxIsExact
      <3>2. FailuresCounted'
        BY <2>3, <2>5, <2>6, BoundsArePositive DEF DeliveryIInv, DeliveriesExact, FailuresCounted
      <3> QED
        BY <3>1, <3>2 DEF DeliveriesExact
    <2> QED
      BY <2>12, <2>13, <2>14 DEF DeliveryIInv
  <1> QED
    BY <1>4, <1>5

LEMMA CreateStep ==
  ASSUME DeliveryIInv, NEW w \in Calls, NEW m \in Memories, NEW status \in {"PROPOSED", "ACTIVE"},
         NEW source \in Memories \cup {NoMemory}, NEW c \in Contents, createMemory(w, m, status, source, c)
  PROVE  DeliveryIInv'
  <1>1. PICK d : d = delivery(m, status, 1, c)
    OBVIOUS
  <1>2. PICK r : r = [status |-> status, version |-> 1, source |-> source]
    OBVIOUS
  <1>3. commitRecord(m, r, d) /\ deliverNow(w, m, d) /\ committedWith(m, d) /\ records[m].status = "NONE"
    BY <1>1, <1>2 DEF createMemory, create
  <1>4. r \in MemoryRecord /\ r.status # "NONE" /\ r.version = 1
    BY <1>2 DEF MemoryRecord
  <1>5. d = NoDelivery \/ d = <<m, 1, c>>
    BY <1>1 DEF delivery
  <1>6. d \in Deliveries \cup {NoDelivery} /\ (d # NoDelivery => d[1] = m /\ d[2] = 1)
    BY <1>5 DEF Deliveries
  <1>7. records[m].version = 0
    BY <1>3 DEF DeliveryIInv, TablesFit
  <1>8. r.version = records[m].version + 1
    BY <1>4, <1>7
  <1> QED
    BY <1>3, <1>4, <1>6, <1>8, CommitStep

LEMMA StoreUpdateStep ==
  ASSUME DeliveryIInv, NEW w \in Calls, storeUpdate(w)
  PROVE  DeliveryIInv'
  <1>1. PICK c : c = call[w]
    OBVIOUS
  <1>2. CallFits(c) /\ c.pc = "store" /\ WriteFits(c) /\ CallState(c)
    BY <1>1 DEF DeliveryIInv, CallsFit, CallFits, storeUpdate, at
  <1>3. CASE ~updatable(c.m, c.v)
    <2>1. PICK k : k = Idle
      OBVIOUS
    <2>2. call' = [call EXCEPT ![w] = k] /\ UNCHANGED <<records, outbox, created, committed, failures>>
      BY <1>1, <1>3, <2>1 DEF storeUpdate, noHistory, storeVars
    <2> QED
      BY <2>1, <2>2, IdleFits, RecordsStay, QuietStep
  <1>4. CASE updatable(c.m, c.v)
    <2>1. PICK m, d : m = c.m /\ d = c.d
      OBVIOUS
    <2>2. m \in Memories /\ d \in Deliveries \cup {NoDelivery} /\ c.v \in Nat
      BY <1>2, <2>1 DEF WriteFits, CallState
    <2>3. found(m) /\ records[m].version = c.v
      BY <1>4, <2>1 DEF updatable
    <2>4. PICK r : r = [records[m] EXCEPT !.version = @ + 1]
      OBVIOUS
    <2>5. commitRecord(m, r, d) /\ deliverNow(w, m, d) /\ committedWith(m, d)
      BY <1>1, <1>4, <2>1, <2>4 DEF storeUpdate, update
    <2>6. /\ r \in MemoryRecord /\ r.status # "NONE" /\ r.version = records[m].version + 1
      <3>1. PICK o \in MemoryRecord : o = records[m]
        BY <2>2 DEF DeliveryIInv, TablesFit
      <3>2. /\ o.status \in {"PROPOSED", "ACTIVE"} /\ o.version \in Nat /\ o.source \in Memories \cup {NoMemory}
        BY <2>3, <3>1 DEF found, MemoryRecord
      <3>3. r = [status |-> o.status, version |-> o.version + 1, source |-> o.source]
        BY <2>4, <3>1 DEF MemoryRecord
      <3> QED
        BY <3>1, <3>2, <3>3 DEF MemoryRecord
    <2>7. ASSUME d # NoDelivery PROVE d[1] = m /\ d[2] = r.version
      <3>1. d[1] = m /\ c.v < d[2] /\ d[2] <= records[m].version + 1
        BY <1>2, <2>1, <2>7 DEF WriteFits
      <3>2. d[2] \in Nat
        BY <2>2, <2>7 DEF Deliveries
      <3> QED
        BY <2>2, <2>3, <2>6, <3>1, <3>2
    <2> QED
      BY <2>2, <2>5, <2>6, <2>7, CommitStep
  <1> QED
    BY <1>3, <1>4

\* All calls are lost, the tables are kept.
LEMMA CrashStep ==
  ASSUME DeliveryIInv, Crash
  PROVE  DeliveryIInv'
  <1>1. UNCHANGED <<records, outbox, created, committed, failures>> /\ call' = [w \in Calls |-> Idle]
    BY DEF Crash, storeVars
  <1>2. PICK n : n = Idle
    OBVIOUS
  <1>3. CallFits(n)' /\ ~Owns(n)
    BY <1>2, IdleFits
  <1>4. \A w \in Calls : call'[w] = n
    BY <1>1, <1>2
  <1>5. ASSUME NEW w \in Calls PROVE CallFits(call[w])'
    BY <1>3, <1>4 DEF CallFits
  <1>6. CallsFit'
    BY <1>1, <1>3, <1>4, <1>5 DEF CallsFit
  <1> QED
    BY <1>1, <1>6 DEF DeliveryIInv, TablesFit, DeliveriesExact, OutboxIsExact, FailuresCounted

\* Time passes for a delivery that nobody has in hand.
LEMMA ElapseStep ==
  ASSUME DeliveryIInv, NEW d \in DOMAIN outbox, Elapse(d)
  PROVE  DeliveryIInv'
  <1>1. /\ UNCHANGED <<records, created, call, committed, failures>> /\ RecordsMove
        /\ outbox[d].status \in {"PROCESSING", "FAILED"} /\ \A w \in Calls : d \notin inHand(w)
    BY RecordsStay DEF Elapse, noHistory
  <1>2. PICK r : r = [outbox[d] EXCEPT !.clock = "over"]
    OBVIOUS
  <1>3. /\ outbox' = [outbox EXCEPT ![d] = r] /\ outbox[d] \in OutboxRecord /\ r \in OutboxRecord
        /\ r.status = outbox[d].status /\ r.attempts = outbox[d].attempts
    BY <1>2 DEF Elapse, DeliveryIInv, TablesFit, OutboxRecord
  <1>4. /\ DOMAIN outbox' = DOMAIN outbox /\ outbox' \in [DOMAIN outbox' -> OutboxRecord] /\ outbox'[d] = r
        /\ \A e \in DOMAIN outbox : e # d => outbox'[e] = outbox[e]
    BY <1>3 DEF DeliveryIInv, TablesFit
  <1>5. ASSUME NEW w \in Calls, NEW k, k = call[w] PROVE CallFits(k)'
    <2>1. d \notin InHand(k) /\ CallFits(k)
      BY <1>1, <1>5 DEF inHand, idle, InHand, DeliveryIInv, CallsFit
    <2>2. ASSUME NEW e \in InHand(k) PROVE RowMoves(e)
      BY <1>4, <2>1 DEF RowMoves, eligible
    <2>3. Owns(k) => k.d \in DOMAIN outbox' /\ outbox'[k.d] = outbox[k.d]
      BY <1>4, <2>1 DEF InHand, Owns, CallFits, RowFits
    <2> QED
      BY <1>1, <2>1, <2>2, <2>3, FitsStill DEF DeliveryIInv
  <1>6. CallsFit'
    <2>1. ASSUME NEW w \in Calls PROVE CallFits(call[w])'
      <3>1. PICK k : k = call[w]
        OBVIOUS
      <3> QED
        BY <1>1, <1>5, <3>1 DEF CallFits
    <2> QED
      BY <1>1, <2>1 DEF DeliveryIInv, CallsFit
  <1>7. TablesFit'
    BY <1>1, <1>3, <1>4 DEF DeliveryIInv, TablesFit
  <1>8. DeliveriesExact'
    BY <1>1, <1>3, <1>4 DEF DeliveryIInv, DeliveriesExact, OutboxIsExact, FailuresCounted
  <1> QED
    BY <1>6, <1>7, <1>8 DEF DeliveryIInv

LEMMA MemoryInit == Init => DeliveryIInv
  <1> SUFFICES ASSUME Init PROVE DeliveryIInv
    OBVIOUS
  <1>1. /\ outbox = << >> /\ created = << >> /\ failures = << >> /\ committed = {} /\ DOMAIN outbox = {}
        /\ records = [m \in Memories |-> [status |-> "NONE", version |-> 0, source |-> NoMemory]]
        /\ call = [w \in Calls |-> Idle]
    BY DEF Init, StoreInit
  <1>2. \A m \in Memories : records[m] \in MemoryRecord /\ records[m].version = 0
    BY <1>1 DEF MemoryRecord
  <1>3. TablesFit
    <2>1. outbox \in [DOMAIN outbox -> OutboxRecord] /\ failures \in [DOMAIN outbox -> Nat] /\ created \in Seq(Deliveries)
      BY <1>1
    <2> QED
      BY <1>1, <1>2, <2>1 DEF TablesFit
  <1>4. ASSUME NEW w \in Calls PROVE CallFits(call[w]) /\ ~Owns(call[w])
    BY <1>1, IdleFits
  <1>5. CallsFit
    BY <1>1, <1>4 DEF CallsFit
  <1> QED
    BY <1>1, <1>3, <1>5 DEF DeliveryIInv, DeliveriesExact, OutboxIsExact, FailuresCounted

LEMMA DeliveryStep == DeliveryIInv /\ [Next]_vars => DeliveryIInv'
  <1> SUFFICES ASSUME DeliveryIInv, [Next]_vars PROVE DeliveryIInv'
    OBVIOUS
  <1>1. CASE UNCHANGED vars
    <2>1. UNCHANGED <<records, outbox, created, call, committed, failures>>
      BY <1>1 DEF vars, storeVars
    <2>2. CallsFit'
      BY <2>1 DEF DeliveryIInv, CallsFit, CallFits, Listed, eligible, RowFits, WriteFits
    <2> QED
      BY <2>1, <2>2 DEF DeliveryIInv, TablesFit, DeliveriesExact, OutboxIsExact, FailuresCounted
  <1>2. ASSUME NEW w \in Calls, Call(w) PROVE DeliveryIInv'
    <2>1. ASSUME unused # {}, NEW status \in {"PROPOSED", "ACTIVE"}, NEW s \in Memories \cup {NoMemory}, NEW c \in Contents,
                 createMemory(w, newId, status, s, c)
          PROVE  DeliveryIInv'
      <3>1. PICK m : m = newId
        OBVIOUS
      <3>2. m \in Memories
        BY <2>1, <3>1 DEF newId, unused
      <3> QED
        BY <2>1, <3>1, <3>2, CreateStep
    <2> QED
      BY <1>2, <2>1, UpdateMemoryStep, ForgettingStep, EvolveDirectlyStep DEF Call
  <1>3. ASSUME NEW w \in Calls, Step(w) PROVE DeliveryIInv'
    BY <1>3, StoreUpdateStep, ForgettingStep, ClaimStep, LoadStep, RejectStep, SettleStep, CheckStep, PlanStep, ApplyStep
       DEF Step
  <1> QED
    BY <1>1, <1>2, <1>3, DrainStep, CrashStep, ElapseStep DEF Next

(***************************************************************************)
(* The outbox has one delivery for each committed write and no other, and  *)
(* counts the failures of each: for any number of drains that work from    *)
(* what they listed earlier, of writers whose lock fails, and of crashes   *)
(* (MemoryService.updateMemory, EvolutionOutbox.processRecord).            *)
(***************************************************************************)
THEOREM DeliveriesAreAlwaysExact == Spec => []DeliveriesExact
  <1>1. DeliveryIInv => DeliveriesExact
    BY DEF DeliveryIInv
  <1> QED
    BY <1>1, MemoryInit, DeliveryStep, PTL DEF Spec

-----------------------------------------------------------------------------
(* The graph.                                                              *)

NodeState(n) ==
  n \in [owner : {n.owner}, version : Nat, last : Nat, state : {"current", "superseded"}, parts : {n.parts}]
PlanState(p) == p \in [op : {"ADD", "REFINE", "SUPERSEDE", "NONE"}, base : Nat, parts : {p.parts}]

NothingForgotten == \A m \in Memories : records[m].status # "TOMBSTONED"

NodesFit ==
  /\ DOMAIN nodes \subseteq NodeIds /\ nodes = [n \in DOMAIN nodes |-> nodes[n]]
  /\ \A n \in DOMAIN nodes : NodeState(nodes[n])

PlanTyped(k) ==
  k.pc = "apply" => DOMAIN k.plan \subseteq Facts /\ \A f \in DOMAIN k.plan : PlanState(k.plan[f])

\* The row that a plan was made from is the row as it is, or has a later version.
PlanFits(k) ==
  k.pc = "apply" =>
    \A f \in DOMAIN k.plan : k.plan[f].op \in {"REFINE", "SUPERSEDE"} =>
      /\ <<f, 0>> \in DOMAIN nodes
      /\ k.plan[f].base <= nodes[<<f, 0>>].version
      /\ k.plan[f].base = nodes[<<f, 0>>].version =>
           nodes[<<f, 0>>].last <= k.v /\ nodes[<<f, 0>>].parts \subseteq k.plan[f].parts

GraphFits ==
  /\ NodesFit
  /\ \A w \in Calls : PlanTyped(call[w])
  /\ NothingForgotten => \A w \in Calls : PlanFits(call[w]) /\ call[w].pc \notin {"revoke", "cascade"}

GraphIInv == DeliveryIInv /\ GraphFits

\* What may become of a node that stays.
NodeMoves(n) ==
  LET a == nodes[n]  b == nodes'[n]
  IN /\ a.version <= b.version /\ a.last <= b.last /\ a.parts \subseteq b.parts
     /\ a.state = "superseded" => b.state = "superseded"
     /\ a # b => a.version < b.version

\* Nodes that are written, as nodesAfter defines them.
FreshNodes(plan) ==
  ({<<f, 0>> : f \in {g \in DOMAIN plan : plan[g].op = "ADD"}} \ DOMAIN nodes)
    \cup {nodeOf(plan, f) : f \in {g \in DOMAIN plan : plan[g].op = "SUPERSEDE"}}
OpOn(plan, n) == IF n[2] = 0 /\ n[1] \in DOMAIN plan THEN plan[n[1]].op ELSE "NONE"

RowsAfter(m, v, last, plan) ==
  /\ nodes' = [n \in DOMAIN nodes' |-> nodes'[n]]
  /\ DOMAIN nodes' = DOMAIN nodes \cup FreshNodes(plan)
  /\ \A n \in FreshNodes(plan) : nodes'[n] = newNode(m, v, last, plan[n[1]])
  /\ \A n \in DOMAIN nodes \ FreshNodes(plan) :
       /\ OpOn(plan, n) = "REFINE" =>
            nodes'[n] = [nodes[n] EXCEPT !.version = @ + 1, !.last = last,
                                         !.parts = plan[n[1]].parts \cup {<<m, v>>}]
       /\ OpOn(plan, n) = "SUPERSEDE" =>
            nodes'[n] = [nodes[n] EXCEPT !.version = @ + 1, !.last = last, !.state = "superseded"]
       /\ OpOn(plan, n) \notin {"REFINE", "SUPERSEDE"} => nodes'[n] = nodes[n]

LEMMA NodesAfterAre ==
  ASSUME NEW m, NEW v, NEW last, NEW plan, nodes' = nodesAfter(m, v, last, plan)
  PROVE  RowsAfter(m, v, last, plan)
  <1>1. nodes' = [n \in DOMAIN nodes \cup FreshNodes(plan) |->
          IF n \in FreshNodes(plan) THEN newNode(m, v, last, plan[n[1]])
          ELSE CASE OpOn(plan, n) = "REFINE" ->
                      [nodes[n] EXCEPT !.version = @ + 1, !.last = last,
                                       !.parts = plan[n[1]].parts \cup {<<m, v>>}]
                 [] OpOn(plan, n) = "SUPERSEDE" ->
                      [nodes[n] EXCEPT !.version = @ + 1, !.last = last, !.state = "superseded"]
                 [] OTHER -> nodes[n]]
    BY DEF nodesAfter, FreshNodes, OpOn
  <1> QED
    BY <1>1 DEF RowsAfter

\* Where an applicable plan writes.
LEMMA FreshAre ==
  ASSUME NodesFit, NEW k, k.pc = "apply", PlanTyped(k), applicable(k.plan, k.links)
  PROVE  FreshNodes(k.plan) \subseteq NodeIds /\ FreshNodes(k.plan) \cap DOMAIN nodes = {}
  <1>1. ASSUME NEW f \in DOMAIN k.plan, k.plan[f].op = "SUPERSEDE"
        PROVE  nodeOf(k.plan, f) \in NodeIds /\ nodeOf(k.plan, f) \notin DOMAIN nodes
    <2>1. f \in Facts /\ k.plan[f].base \in Nat
      BY DEF PlanTyped, PlanState
    <2>2. nodeOf(k.plan, f) = <<f, k.plan[f].base + 1>>
      BY <1>1 DEF nodeOf
    <2>3. nodeOf(k.plan, f) \notin DOMAIN nodes
      BY <1>1 DEF applicable, nodeFits
    <2> QED
      BY <2>1, <2>2, <2>3 DEF NodeIds
  <1>2. ASSUME NEW f \in DOMAIN k.plan PROVE <<f, 0>> \in NodeIds
    BY DEF PlanTyped, NodeIds
  <1> QED
    BY <1>1, <1>2 DEF FreshNodes

\* The rows after a plan is applied, each under optimistic locking.
LEMMA EvolveMoves ==
  ASSUME NodesFit, NEW k, k.pc = "apply", PlanTyped(k), k.v \in Nat, applicable(k.plan, k.links),
         NEW v, nodes' = nodesAfter(k.m, v, k.v, k.plan)
  PROVE  NodesFit' /\ (PlanFits(k) => \A n \in DOMAIN nodes : n \in DOMAIN nodes' /\ NodeMoves(n))
  <1>a. PICK m, last, plan : m = k.m /\ last = k.v /\ plan = k.plan
    OBVIOUS
  <1> DEFINE Fresh == FreshNodes(plan)
  <1>1. Fresh \subseteq NodeIds /\ Fresh \cap DOMAIN nodes = {}
    BY <1>a, FreshAre
  <1>b. RowsAfter(m, v, last, plan)
    <2>1. nodes' = nodesAfter(m, v, last, plan)
      BY <1>a
    <2> QED
      BY <2>1, NodesAfterAre
  <1>2. /\ nodes' = [n \in DOMAIN nodes' |-> nodes'[n]]
        /\ DOMAIN nodes' = DOMAIN nodes \cup Fresh
        /\ \A n \in Fresh : nodes'[n] = newNode(m, v, last, plan[n[1]])
    BY <1>b DEF RowsAfter
  <1>3. \A n \in DOMAIN nodes \ Fresh :
           /\ OpOn(plan, n) = "REFINE" =>
                nodes'[n] = [nodes[n] EXCEPT !.version = @ + 1, !.last = last,
                                             !.parts = plan[n[1]].parts \cup {<<m, v>>}]
           /\ OpOn(plan, n) = "SUPERSEDE" =>
                nodes'[n] = [nodes[n] EXCEPT !.version = @ + 1, !.last = last, !.state = "superseded"]
           /\ OpOn(plan, n) \notin {"REFINE", "SUPERSEDE"} => nodes'[n] = nodes[n]
    BY <1>b DEF RowsAfter
  <1> HIDE DEF Fresh
  <1>4. ASSUME NEW n \in Fresh PROVE NodeState(nodes'[n])
    <2>1. PICK p : p = plan[n[1]].parts \cup {<<m, v>>}
      OBVIOUS
    <2>2. nodes'[n] = [owner |-> m, version |-> 1, last |-> last, state |-> "current", parts |-> p]
      BY <1>2, <2>1 DEF newNode
    <2> QED
      BY <1>a, <2>2 DEF NodeState
  <1>5. ASSUME NEW n \in DOMAIN nodes
        PROVE  n \in DOMAIN nodes' /\ NodeState(nodes'[n]) /\ (PlanFits(k) => NodeMoves(n))
    <2>1. n \in DOMAIN nodes' /\ n \in DOMAIN nodes \ Fresh
      BY <1>1, <1>2
    <2>2. PICK a : a = nodes[n]
      OBVIOUS
    <2>3. NodeState(a) /\ a.version \in Nat /\ a.last \in Nat
      BY <2>2 DEF NodesFit, NodeState
    <2>4. ASSUME OpOn(plan, n) \in {"REFINE", "SUPERSEDE"}
          PROVE  /\ n[1] \in DOMAIN plan /\ plan[n[1]].op = OpOn(plan, n)
                 /\ PlanFits(k) => a.last <= k.v /\ a.parts \subseteq plan[n[1]].parts
      <3>1. n[1] \in DOMAIN plan /\ plan[n[1]].op = OpOn(plan, n) /\ n[2] = 0
        BY <2>4 DEF OpOn
      <3>2. n = <<n[1], 0>>
        BY <3>1 DEF NodesFit, NodeIds
      <3>3. nodes[<<n[1], 0>>].version = plan[n[1]].base
        BY <1>a, <2>4, <3>1 DEF applicable, nodeFits
      <3> QED
        BY <1>a, <2>2, <2>4, <3>1, <3>2, <3>3 DEF PlanFits
    <2>5. CASE OpOn(plan, n) = "REFINE"
      <3>1. PICK p : p = plan[n[1]].parts \cup {<<m, v>>}
        OBVIOUS
      <3>2. nodes'[n] = [a EXCEPT !.version = @ + 1, !.last = k.v, !.parts = p]
        BY <1>a, <1>3, <2>1, <2>2, <2>5, <3>1
      <3>3. nodes'[n] = [owner |-> a.owner, version |-> a.version + 1, last |-> k.v, state |-> a.state, parts |-> p]
        BY <2>3, <3>2 DEF NodeState
      <3>4. PlanFits(k) => a.last <= k.v /\ a.parts \subseteq p
        BY <2>4, <2>5, <3>1
      <3>5. NodeState(nodes'[n])
        BY <2>3, <3>3 DEF NodeState
      <3> QED
        BY <2>1, <2>2, <2>3, <3>3, <3>4, <3>5 DEF NodeMoves
    <2>6. CASE OpOn(plan, n) = "SUPERSEDE"
      <3>1. nodes'[n] = [a EXCEPT !.version = @ + 1, !.last = k.v, !.state = "superseded"]
        BY <1>a, <1>3, <2>1, <2>2, <2>6
      <3>2. nodes'[n] = [owner |-> a.owner, version |-> a.version + 1, last |-> k.v, state |-> "superseded", parts |-> a.parts]
        BY <2>3, <3>1 DEF NodeState
      <3>3. PlanFits(k) => a.last <= k.v
        BY <2>4, <2>6
      <3>4. NodeState(nodes'[n])
        BY <2>3, <3>2 DEF NodeState
      <3> QED
        BY <2>1, <2>2, <2>3, <3>2, <3>3, <3>4 DEF NodeMoves
    <2>7. CASE OpOn(plan, n) \notin {"REFINE", "SUPERSEDE"}
      <3>1. nodes'[n] = a
        BY <1>3, <2>1, <2>2, <2>7
      <3> QED
        BY <2>1, <2>2, <2>3, <3>1 DEF NodeMoves
    <2> QED
      BY <2>5, <2>6, <2>7
  <1>6. NodesFit'
    BY <1>1, <1>2, <1>4, <1>5 DEF NodesFit
  <1> QED
    BY <1>5, <1>6

\* What a step does to the plans that are made.
LEMMA PlansFitStill ==
  ASSUME GraphFits, NodesFit', NothingForgotten' => NothingForgotten,
         NothingForgotten' => \A n \in DOMAIN nodes : n \in DOMAIN nodes' /\ NodeMoves(n),
         \A x \in Calls :
            \/ call'[x] = call[x]
            \/ PlanTyped(call'[x]) /\ (NothingForgotten' => PlanFits(call[x])' /\ call'[x].pc \notin {"revoke", "cascade"})
  PROVE  GraphFits'
  <1>1. ASSUME NEW x \in Calls PROVE PlanTyped(call'[x])
    BY DEF GraphFits
  <1>2. ASSUME NothingForgotten', NEW x \in Calls, call'[x] = call[x]
        PROVE  PlanFits(call[x])' /\ call'[x].pc \notin {"revoke", "cascade"}
    <2>1. PICK k : k = call[x]
      OBVIOUS
    <2>2. PlanFits(k) /\ PlanTyped(k) /\ k.pc \notin {"revoke", "cascade"}
      BY <1>2, <2>1 DEF GraphFits
    <2>3. ASSUME k.pc = "apply", NEW f \in DOMAIN k.plan, k.plan[f].op \in {"REFINE", "SUPERSEDE"}
          PROVE  /\ <<f, 0>> \in DOMAIN nodes'
                 /\ k.plan[f].base <= nodes'[<<f, 0>>].version
                 /\ k.plan[f].base = nodes'[<<f, 0>>].version =>
                      nodes'[<<f, 0>>].last <= k.v /\ nodes'[<<f, 0>>].parts \subseteq k.plan[f].parts
      <3>1. PICK n : n = <<f, 0>>
        OBVIOUS
      <3>2. /\ n \in DOMAIN nodes /\ k.plan[f].base <= nodes[n].version
            /\ k.plan[f].base = nodes[n].version => nodes[n].last <= k.v /\ nodes[n].parts \subseteq k.plan[f].parts
        BY <2>2, <2>3, <3>1 DEF PlanFits
      <3>3. n \in DOMAIN nodes' /\ nodes[n].version <= nodes'[n].version
            /\ (nodes[n] # nodes'[n] => nodes[n].version < nodes'[n].version)
        BY <1>2, <3>2 DEF NodeMoves
      <3>4. nodes[n].version \in Nat /\ nodes'[n].version \in Nat /\ k.plan[f].base \in Nat
        BY <2>2, <2>3, <3>2, <3>3 DEF GraphFits, NodesFit, NodeState, PlanTyped, PlanState
      <3>5. k.plan[f].base <= nodes'[n].version
        BY <3>2, <3>3, <3>4
      <3>6. ASSUME k.plan[f].base = nodes'[n].version PROVE nodes'[n] = nodes[n]
        BY <3>2, <3>3, <3>4, <3>6
      <3> QED
        BY <3>1, <3>2, <3>3, <3>5, <3>6
    <2>4. PlanFits(k)'
      BY <2>3 DEF PlanFits
    <2> QED
      BY <1>2, <2>1, <2>2, <2>4 DEF PlanFits
  <1> QED
    BY <1>1, <1>2 DEF GraphFits, PlanTyped

\* No call makes a plan or forgets a record.
CallsQuiet == \A x \in Calls : call'[x] = call[x] \/ call'[x].pc \notin {"apply", "revoke", "cascade"}

\* What is forgotten stays forgotten.
TombstonesStay == \A m \in Memories : records[m].status = "TOMBSTONED" => records'[m].status = "TOMBSTONED"

LEMMA QuietCall ==
  ASSUME DeliveryIInv, NEW w \in Calls, NEW k, call' = [call EXCEPT ![w] = k], k.pc \notin {"apply", "revoke", "cascade"}
  PROVE  CallsQuiet
  BY DEF DeliveryIInv, CallsFit, CallsQuiet

LEMMA NextIsQuiet ==
  ASSUME DeliveryIInv, NEW w \in Calls, next(w)
  PROVE  CallsQuiet
  <1>1. PICK k : k = NextOf(call[w])
    OBVIOUS
  <1>2. k.pc \in {"idle", "claim"}
    BY <1>1 DEF NextOf, Idle
  <1>3. call' = [call EXCEPT ![w] = k]
    BY <1>1 DEF next, NextOf
  <1> QED
    BY <1>2, <1>3, QuietCall

LEMMA GotoIsQuiet ==
  ASSUME DeliveryIInv, NEW w \in Calls, NEW pc \in Pc \ {"apply", "revoke", "cascade"}, goto(w, pc)
  PROVE  CallsQuiet
  <1>1. PICK k : k = [call[w] EXCEPT !.pc = pc]
    OBVIOUS
  <1>2. k.pc = pc
    BY <1>1, GoesOn
  <1>3. call' = [call EXCEPT ![w] = k]
    BY <1>1 DEF goto
  <1> QED
    BY <1>2, <1>3, QuietCall

LEMMA IdleIsQuiet ==
  ASSUME DeliveryIInv, NEW w \in Calls, call' = [call EXCEPT ![w] = Idle]
  PROVE  CallsQuiet
  <1>1. Idle.pc = "idle"
    BY DEF Idle
  <1> QED
    BY <1>1 DEF DeliveryIInv, CallsFit, CallsQuiet

LEMMA WritesAreQuiet ==
  ASSUME DeliveryIInv, NEW w \in Calls,
         \/ \E m \in Memories, status \in {"PROPOSED", "ACTIVE"} : \E s, c : createMemory(w, m, status, s, c)
         \/ \E m \in Memories : \E e, c : updateMemory(w, m, e, c)
         \/ \E m \in Memories : \E c : evolveDirectly(w, m, c)
         \/ storeUpdate(w)
  PROVE  UNCHANGED nodes /\ CallsQuiet /\ TombstonesStay
  <1>1. ASSUME NEW m, NEW d, deliverNow(w, m, d) PROVE CallsQuiet
    <2>1. PICK k : k = IF d = NoDelivery THEN Idle
                       ELSE [Idle EXCEPT !.pc = "claim", !.kind = "deliver", !.m = m, !.d = d]
      OBVIOUS
    <2>2. k.pc \in {"idle", "claim"}
      BY <2>1 DEF Idle
    <2>3. call' = [call EXCEPT ![w] = k]
      BY <1>1, <2>1 DEF deliverNow
    <2> QED
      BY <2>2, <2>3, QuietCall
  <1>2. records \in [Memories -> MemoryRecord]
    BY DEF DeliveryIInv, TablesFit
  <1>3. ASSUME NEW m \in Memories, NEW status \in {"PROPOSED", "ACTIVE"}, NEW s, NEW c, createMemory(w, m, status, s, c)
        PROVE  UNCHANGED nodes /\ CallsQuiet /\ TombstonesStay
    BY <1>1, <1>2, <1>3 DEF createMemory, create, commitRecord, TombstonesStay
  <1>4. ASSUME NEW m \in Memories, NEW e, NEW c, updateMemory(w, m, e, c)
        PROVE  UNCHANGED nodes /\ CallsQuiet /\ TombstonesStay
    <2>1. PICK d : d = delivery(m, records[m].status, records[m].version + 1, c)
      OBVIOUS
    <2>2. PICK k : k = [Idle EXCEPT !.pc = "store", !.kind = "deliver", !.m = m, !.v = e, !.d = d]
      OBVIOUS
    <2>3. k.pc = "store"
      BY <2>2 DEF Idle
    <2>4. call' = [call EXCEPT ![w] = k] /\ UNCHANGED <<records, nodes>>
      BY <1>4, <2>1, <2>2 DEF updateMemory, storeVars
    <2> QED
      BY <2>3, <2>4, QuietCall DEF TombstonesStay
  <1>5. ASSUME NEW m \in Memories, NEW c, evolveDirectly(w, m, c)
        PROVE  UNCHANGED nodes /\ CallsQuiet /\ TombstonesStay
    <2>1. PICK d, v : d = <<m, records[m].version, c>> /\ v = records[m].version
      OBVIOUS
    <2>2. PICK k : k = [Idle EXCEPT !.pc = "check", !.kind = "direct", !.m = m, !.d = d, !.v = v]
      OBVIOUS
    <2>3. k.pc = "check"
      BY <2>2 DEF Idle
    <2>4. call' = [call EXCEPT ![w] = k] /\ UNCHANGED <<records, nodes>>
      BY <1>5, <2>1, <2>2 DEF evolveDirectly, storeVars
    <2> QED
      BY <2>3, <2>4, QuietCall DEF TombstonesStay
  <1>6. ASSUME storeUpdate(w)
        PROVE  UNCHANGED nodes /\ CallsQuiet /\ TombstonesStay
    <2>1. CASE ~updatable(call[w].m, call[w].v)
      BY <1>6, <2>1, IdleIsQuiet DEF storeUpdate, storeVars, TombstonesStay
    <2>2. CASE updatable(call[w].m, call[w].v)
      <3>1. PICK m, d : m = call[w].m /\ d = call[w].d
        OBVIOUS
      <3>2. update(m, call[w].v, d) /\ deliverNow(w, m, d) /\ found(m)
        BY <1>6, <2>2, <3>1 DEF storeUpdate, updatable
      <3>3. m \in Memories
        BY <1>6, <3>1 DEF storeUpdate, at, DeliveryIInv, CallsFit, CallFits, WriteFits
      <3>4. TombstonesStay
        BY <1>2, <3>2, <3>3 DEF update, commitRecord, found, TombstonesStay
      <3> QED
        BY <1>1, <3>2, <3>4 DEF update, commitRecord
    <2> QED
      BY <2>1, <2>2
  <1> QED
    BY <1>3, <1>4, <1>5, <1>6

LEMMA DeliveriesAreQuiet ==
  ASSUME DeliveryIInv, NEW w \in Calls,
         \/ claim(w) \/ load(w) \/ reject(w) \/ settle(w) \/ checkParent(w) \/ drainPending(w)
         \/ applyPlan(w) /\ UNCHANGED nodes
  PROVE  UNCHANGED nodes /\ CallsQuiet /\ TombstonesStay
  <1>1. UNCHANGED <<records, nodes>>
    BY DEF claim, load, reject, settle, checkParent, drainPending, applyPlan, storeVars
  <1>2. TombstonesStay
    BY <1>1 DEF TombstonesStay
  <1> SUFFICES CallsQuiet
    BY <1>1, <1>2
  <1>3. ASSUME NEW permanent, failed(w, permanent) PROVE CallsQuiet
    BY <1>3, NextIsQuiet DEF failed
  <1>4. ASSUME NEW permanent, thrown(w, permanent) PROVE CallsQuiet
    BY <1>3, <1>4, IdleIsQuiet DEF thrown
  <1>5. CASE claim(w)
    BY <1>5, NextIsQuiet, GotoIsQuiet DEF claim, Pc
  <1>6. CASE load(w)
    <2>1. CASE records[call[w].m].status = "ACTIVE"
      <3>1. PICK v : v = records[call[w].m].version
        OBVIOUS
      <3>2. PICK k : k = [call[w] EXCEPT !.pc = "check", !.v = v]
        OBVIOUS
      <3>3. k.pc = "check"
        BY <3>2 DEF DeliveryIInv, CallsFit, CallFits, CallState
      <3>4. call' = [call EXCEPT ![w] = k]
        BY <1>6, <2>1, <3>1, <3>2 DEF load
      <3> QED
        BY <3>3, <3>4, QuietCall
    <2>2. CASE records[call[w].m].status # "ACTIVE"
      BY <1>6, <2>2, GotoIsQuiet DEF load, Pc
    <2> QED
      BY <2>1, <2>2
  <1>7. CASE reject(w) \/ settle(w)
    BY <1>3, <1>7, NextIsQuiet DEF reject, settle
  <1>8. CASE checkParent(w)
    BY <1>4, <1>8, GotoIsQuiet DEF checkParent, Pc
  <1>9. CASE drainPending(w)
    <2>1. PICK rows \in listPendingOutboxRecords :
            LET q == [i \in DOMAIN rows |-> [d |-> created[rows[i]], tries |-> outbox[created[rows[i]]].attempts]]
            IN call' = [call EXCEPT ![w] = [Idle EXCEPT !.pc = "claim", !.kind = "deliver",
                          !.m = q[1].d[1], !.d = q[1].d, !.tries = q[1].tries, !.queue = Tail(q)]]
      BY <1>9 DEF drainPending
    <2>2. PICK q : q = [i \in DOMAIN rows |-> [d |-> created[rows[i]], tries |-> outbox[created[rows[i]]].attempts]]
      OBVIOUS
    <2>3. PICK k : k = [Idle EXCEPT !.pc = "claim", !.kind = "deliver",
                          !.m = q[1].d[1], !.d = q[1].d, !.tries = q[1].tries, !.queue = Tail(q)]
      OBVIOUS
    <2>4. k.pc = "claim"
      BY <2>3 DEF Idle
    <2>5. call' = [call EXCEPT ![w] = k]
      BY <2>1, <2>2, <2>3
    <2> QED
      BY <2>4, <2>5, QuietCall
  <1>10. CASE applyPlan(w) /\ UNCHANGED nodes
    <2>1. CASE thrown(w, FALSE)
      BY <1>4, <2>1
    <2>2. CASE ~thrown(w, FALSE)
      <3>1. PICK c : c = call[w]
        OBVIOUS
      <3>2. PICK k : k = IF c.kind = "direct" THEN Idle
                         ELSE [c EXCEPT !.pc = "settle", !.v = 0, !.plan = << >>, !.links = << >>]
        OBVIOUS
      <3>3. CallState(c)
        BY <3>1 DEF DeliveryIInv, CallsFit, CallFits
      <3>4. k.pc \in {"idle", "settle"}
        BY <3>2, <3>3 DEF Idle, CallState
      <3>5. call' = [call EXCEPT ![w] = k]
        BY <1>10, <2>2, <3>1, <3>2 DEF applyPlan
      <3> QED
        BY <3>4, <3>5, QuietCall
    <2> QED
      BY <2>1, <2>2
  <1> QED
    BY <1>1, <1>2, <1>5, <1>6, <1>7, <1>8, <1>9, <1>10

LEMMA QuietGraph ==
  ASSUME GraphIInv, UNCHANGED nodes, CallsQuiet, TombstonesStay
  PROVE  GraphFits' /\ \A n \in kept : NodeMoves(n)
  <1>1. \A n \in DOMAIN nodes : NodeMoves(n)
    <2>1. \A n \in DOMAIN nodes : nodes[n].version \in Nat /\ nodes[n].last \in Nat
      BY DEF GraphIInv, GraphFits, NodesFit, NodeState
    <2> QED
      BY <2>1 DEF NodeMoves
  <1>2. NodesFit' /\ (NothingForgotten' => NothingForgotten)
    BY DEF GraphIInv, GraphFits, NodesFit, NothingForgotten, TombstonesStay
  <1>3. ASSUME NEW x \in Calls
        PROVE  \/ call'[x] = call[x]
               \/ PlanTyped(call'[x]) /\ (NothingForgotten' => PlanFits(call[x])' /\ call'[x].pc \notin {"revoke", "cascade"})
    BY DEF CallsQuiet, PlanTyped, PlanFits
  <1>4. GraphFits'
    BY <1>1, <1>2, <1>3, PlansFitStill DEF GraphIInv
  <1> QED
    BY <1>1, <1>4 DEF kept

\* Nodes go with the record they belong to; the ones that stay are as they were.
LEMMA ForgettingGraph ==
  ASSUME GraphIInv, NEW w \in Calls,
         (\E m \in Memories : tombstoneMemory(w, m)) \/ revokeProjections(w) \/ cascadeDerived(w)
  PROVE  GraphFits' /\ \A n \in kept : NodeMoves(n)
  <1>1. records \in [Memories -> MemoryRecord]
    BY DEF GraphIInv, DeliveryIInv, TablesFit
  <1>2. ASSUME NEW S \in SUBSET Memories, records' = buried(S) PROVE TombstonesStay
    <2>1. ASSUME NEW m \in Memories, records[m].status = "TOMBSTONED" PROVE records'[m].status = "TOMBSTONED"
      <3>1. CASE m \in S
        <4>1. records'[m] = [records[m] EXCEPT !.status = "TOMBSTONED", !.version = @ + 1]
          BY <1>2, <3>1 DEF buried
        <4> QED
          BY <1>1, <4>1 DEF MemoryRecord
      <3>2. CASE m \notin S
        BY <1>2, <2>1, <3>2 DEF buried
      <3> QED
        BY <3>1, <3>2
    <2> QED
      BY <2>1 DEF TombstonesStay
  <1>3. CASE cascadeDerived(w)
    <2>1. UNCHANGED nodes /\ CallsQuiet
      BY <1>3, IdleIsQuiet DEF cascadeDerived, GraphIInv
    <2>2. TombstonesStay
      BY <1>2, <1>3 DEF cascadeDerived, markDerivedCompressionsTombstoned, derivedFrom
    <2> QED
      BY <2>1, <2>2, QuietGraph
  <1>4. ASSUME NEW m, revokeGraphForMemory(m), ~NothingForgotten',
               \A x \in Calls : call'[x] = call[x] \/ call'[x].pc # "apply"
        PROVE  GraphFits' /\ \A n \in kept : NodeMoves(n)
    <2>1. /\ nodes' = [n \in DOMAIN nodes' |-> nodes'[n]] /\ DOMAIN nodes' \subseteq DOMAIN nodes
          /\ \A n \in DOMAIN nodes' : nodes'[n] = nodes[n]
      BY <1>4 DEF revokeGraphForMemory, Keep
    <2>2. NodesFit'
      BY <2>1 DEF GraphIInv, GraphFits, NodesFit
    <2>3. \A n \in kept : NodeMoves(n)
      <3>1. \A n \in DOMAIN nodes : nodes[n].version \in Nat /\ nodes[n].last \in Nat
        BY DEF GraphIInv, GraphFits, NodesFit, NodeState
      <3> QED
        BY <2>1, <3>1 DEF NodeMoves, kept
    <2>4. \A x \in Calls : PlanTyped(call'[x])
      BY <1>4 DEF GraphIInv, GraphFits, PlanTyped
    <2> QED
      BY <1>4, <2>2, <2>3, <2>4 DEF GraphFits, PlanTyped
  <1>5. ASSUME NEW m \in Memories, tombstoneMemory(w, m) PROVE GraphFits' /\ \A n \in kept : NodeMoves(n)
    <2>1. records' = buried({m} \cup derivedFrom(m)) /\ revokeGraphForMemory(m)
      BY <1>5 DEF tombstoneMemory, tombstone
    <2>2. records'[m] = [records[m] EXCEPT !.status = "TOMBSTONED", !.version = @ + 1]
      BY <2>1 DEF buried
    <2>3. ~NothingForgotten'
      BY <1>1, <2>2 DEF NothingForgotten, MemoryRecord
    <2>4. PICK k : k = [Idle EXCEPT !.pc = "revoke", !.m = m]
      OBVIOUS
    <2>5. k.pc = "revoke" /\ call' = [call EXCEPT ![w] = k]
      BY <1>5, <2>4 DEF tombstoneMemory, Idle
    <2>6. \A x \in Calls : call'[x] = call[x] \/ call'[x].pc # "apply"
      BY <2>5 DEF GraphIInv, DeliveryIInv, CallsFit
    <2> QED
      BY <1>4, <2>1, <2>3, <2>6
  <1>6. CASE revokeProjections(w)
    <2>1. UNCHANGED records /\ call[w].pc = "revoke" /\ revokeGraphForMemory(call[w].m)
      BY <1>6 DEF revokeProjections, at
    <2>2. ~NothingForgotten'
      BY <2>1 DEF GraphIInv, GraphFits, NothingForgotten
    <2>3. PICK k : k = [call[w] EXCEPT !.pc = "cascade"]
      OBVIOUS
    <2>4. k.pc = "cascade"
      BY <2>3, GoesOn DEF Pc, GraphIInv
    <2>5. call' = [call EXCEPT ![w] = k]
      BY <1>6, <2>3 DEF revokeProjections, goto
    <2>6. \A x \in Calls : call'[x] = call[x] \/ call'[x].pc # "apply"
      BY <2>4, <2>5 DEF GraphIInv, DeliveryIInv, CallsFit
    <2> QED
      BY <1>4, <2>1, <2>2, <2>6
  <1> QED
    BY <1>3, <1>5, <1>6

\* A plan is made from the rows as they are, and not past the fence.
LEMMA PlanGraph ==
  ASSUME GraphIInv, NEW w \in Calls, planEvolution(w)
  PROVE  GraphFits' /\ \A n \in kept : NodeMoves(n)
  <1>1. UNCHANGED <<records, nodes>> /\ NodesFit'
    BY DEF planEvolution, storeVars, GraphIInv, GraphFits, NodesFit
  <1>2. \A n \in DOMAIN nodes : nodes[n].version \in Nat /\ nodes[n].last \in Nat
    BY DEF GraphIInv, GraphFits, NodesFit, NodeState
  <1>3. \A n \in DOMAIN nodes : n \in DOMAIN nodes' /\ NodeMoves(n)
    BY <1>1, <1>2 DEF NodeMoves
  <1>4. NothingForgotten' => NothingForgotten
    BY <1>1 DEF NothingForgotten
  <1>5. PICK c : c = call[w]
    OBVIOUS
  <1>6. CallFits(c) /\ CallState(c) /\ c.pc = "plan" /\ c.d \in Deliveries /\ c.v \in Nat
    BY <1>5 DEF planEvolution, at, GraphIInv, DeliveryIInv, CallsFit, CallFits, CallState
  <1>7. PICK text, v : text = c.d[3] /\ v = c.v
    OBVIOUS
  <1>8. text \in Contents /\ text.facts \subseteq Facts
    BY <1>6, <1>7, ContentsAreExtracted DEF Deliveries, Content
  <1>9. PICK plan : plan = [f \in text.facts |-> planNode(f, v, text)]
    OBVIOUS
  <1>10. PICK links : links = [l \in text.links |-> planEdge(edgeOf(plan, l, 0), l, v, text)]
    OBVIOUS
  <1>11. PICK k : k = [c EXCEPT !.pc = "apply", !.plan = plan, !.links = links]
    OBVIOUS
  <1>12. call' = [call EXCEPT ![w] = k]
    <2>1. call' = [call EXCEPT ![w].pc = "apply", ![w].plan = plan, ![w].links = links]
      BY <1>5, <1>7, <1>9, <1>10 DEF planEvolution
    <2> QED
      BY <1>5, <1>11, <2>1
  <1>13. k.pc = "apply" /\ k.plan = plan /\ k.v = v
    BY <1>6, <1>7, <1>11 DEF CallState
  <1>14. ASSUME NEW f \in DOMAIN plan
         PROVE  /\ f \in Facts /\ PlanState(plan[f])
                /\ plan[f].op \in {"REFINE", "SUPERSEDE"} =>
                     /\ <<f, 0>> \in DOMAIN nodes /\ plan[f].base = nodes[<<f, 0>>].version
                     /\ nodes[<<f, 0>>].last <= v /\ nodes[<<f, 0>>].parts \subseteq plan[f].parts
    <2>1. f \in Facts /\ plan[f] = planNode(f, v, text)
      BY <1>8, <1>9
    <2>2. CASE <<f, 0>> \notin DOMAIN nodes
      <3>1. plan[f] = [op |-> "ADD", base |-> 0, parts |-> {}]
        BY <2>1, <2>2 DEF planNode
      <3> QED
        BY <2>1, <3>1 DEF PlanState
    <2>3. CASE <<f, 0>> \in DOMAIN nodes
      <3>1. PICK n : n = nodes[<<f, 0>>]
        OBVIOUS
      <3>2. n.version \in Nat /\ n.last \in Nat
        BY <1>2, <2>3, <3>1
      <3>3. PICK op : op = IF fenced(n.last, v) THEN "NONE" ELSE IF f \in text.replaces THEN "SUPERSEDE" ELSE "REFINE"
        OBVIOUS
      <3>4. plan[f] = [op |-> op, base |-> n.version, parts |-> n.parts]
        BY <2>1, <2>3, <3>1, <3>3 DEF planNode
      <3>5. PlanState(plan[f])
        BY <3>2, <3>3, <3>4 DEF PlanState
      <3>6. op # "NONE" => n.last <= v
        BY <1>6, <1>7, <3>2, <3>3 DEF fenced
      <3> QED
        BY <2>1, <2>3, <3>1, <3>4, <3>5, <3>6
    <2> QED
      BY <2>2, <2>3
  <1>15. PlanTyped(k)
    BY <1>13, <1>14 DEF PlanTyped
  <1>16. PlanFits(k)'
    <2>1. ASSUME NEW f \in DOMAIN plan, plan[f].op \in {"REFINE", "SUPERSEDE"}
          PROVE  plan[f].base <= nodes[<<f, 0>>].version
      BY <1>2, <1>14, <2>1
    <2> QED
      BY <1>1, <1>13, <1>14, <2>1 DEF PlanFits
  <1>17. ASSUME NEW x \in Calls
         PROVE  \/ call'[x] = call[x]
                \/ PlanTyped(call'[x]) /\ (NothingForgotten' => PlanFits(call[x])' /\ call'[x].pc \notin {"revoke", "cascade"})
    <2>1. CASE x = w
      <3>1. call'[x] = k
        BY <1>12, <2>1 DEF GraphIInv, DeliveryIInv, CallsFit
      <3>2. PlanFits(call[x])'
        BY <1>16, <3>1 DEF PlanFits
      <3> QED
        BY <1>13, <1>15, <3>1, <3>2
    <2>2. CASE x # w
      BY <1>12, <2>2 DEF GraphIInv, DeliveryIInv, CallsFit
    <2> QED
      BY <2>1, <2>2
  <1>18. GraphFits'
    BY <1>1, <1>3, <1>4, <1>17, PlansFitStill DEF GraphIInv
  <1> QED
    BY <1>3, <1>18 DEF kept

LEMMA ApplyGraph ==
  ASSUME GraphIInv, NEW w \in Calls, applyPlan(w)
  PROVE  GraphFits' /\ (NothingForgotten => \A n \in kept : NodeMoves(n))
  <1>1. CASE UNCHANGED nodes
    BY <1>1, DeliveriesAreQuiet, QuietGraph DEF GraphIInv
  <1>2. CASE nodes' # nodes
    <2>1. PICK c : c = call[w]
      OBVIOUS
    <2>2. /\ UNCHANGED records /\ applicable(c.plan, c.links) /\ evolveGraph(c.m, c.d[2], c.v, c.plan, c.links) /\ c.pc = "apply"
          /\ call' = [call EXCEPT ![w] = IF c.kind = "direct" THEN Idle
                       ELSE [c EXCEPT !.pc = "settle", !.v = 0, !.plan = << >>, !.links = << >>]]
      BY <1>2, <2>1 DEF applyPlan, at
    <2>3. CallState(c) /\ PlanTyped(c) /\ c.v \in Nat /\ NodesFit /\ (NothingForgotten => PlanFits(c))
      BY <2>1 DEF GraphIInv, GraphFits, DeliveryIInv, CallsFit, CallFits, CallState
    <2>4. PICK v : v = c.d[2]
      OBVIOUS
    <2>5. nodes' = nodesAfter(c.m, v, c.v, c.plan)
      BY <2>2, <2>4 DEF evolveGraph
    <2>6. NodesFit' /\ (NothingForgotten => \A n \in DOMAIN nodes : n \in DOMAIN nodes' /\ NodeMoves(n))
      BY <2>2, <2>3, <2>5, EvolveMoves
    <2>7. PICK k : k = IF c.kind = "direct" THEN Idle
                       ELSE [c EXCEPT !.pc = "settle", !.v = 0, !.plan = << >>, !.links = << >>]
      OBVIOUS
    <2>8. k.pc \in {"idle", "settle"}
      BY <2>3, <2>7 DEF Idle, CallState
    <2>9. call' = [call EXCEPT ![w] = k]
      BY <2>2, <2>7
    <2>10. CallsQuiet
      BY <2>8, <2>9, QuietCall DEF GraphIInv
    <2>11. NothingForgotten' => NothingForgotten
      BY <2>2 DEF NothingForgotten
    <2>12. ASSUME NEW x \in Calls
           PROVE  \/ call'[x] = call[x]
                  \/ PlanTyped(call'[x]) /\ (NothingForgotten' => PlanFits(call[x])' /\ call'[x].pc \notin {"revoke", "cascade"})
      BY <2>10 DEF CallsQuiet, PlanTyped, PlanFits
    <2>13. GraphFits'
      BY <2>6, <2>11, <2>12, PlansFitStill DEF GraphIInv
    <2> QED
      BY <2>6, <2>13 DEF kept
  <1> QED
    BY <1>1, <1>2

LEMMA GraphStep ==
  ASSUME GraphIInv, [Next]_vars
  PROVE  GraphFits' /\ (NothingForgotten => \A n \in kept : NodeMoves(n))
  <1>1. CASE UNCHANGED vars
    BY <1>1, QuietGraph DEF vars, storeVars, CallsQuiet, TombstonesStay
  <1>2. ASSUME NEW w \in Calls, Call(w) PROVE GraphFits' /\ \A n \in kept : NodeMoves(n)
    <2>1. CASE \E m \in Memories : tombstoneMemory(w, m)
      BY <2>1, ForgettingGraph
    <2>2. CASE ~\E m \in Memories : tombstoneMemory(w, m)
      <3>1. newId \in Memories \/ unused = {}
        BY DEF newId, unused
      <3>2. \/ \E m \in Memories, status \in {"PROPOSED", "ACTIVE"} : \E s, c : createMemory(w, m, status, s, c)
            \/ \E m \in Memories : \E e, c : updateMemory(w, m, e, c)
            \/ \E m \in Memories : \E c : evolveDirectly(w, m, c)
        BY <1>2, <2>2, <3>1 DEF Call
      <3> QED
        BY <3>2, WritesAreQuiet, QuietGraph DEF GraphIInv
    <2> QED
      BY <2>1, <2>2
  <1>3. ASSUME NEW w \in Calls, Step(w) PROVE GraphFits' /\ (NothingForgotten => \A n \in kept : NodeMoves(n))
    <2>1. CASE storeUpdate(w)
      BY <2>1, WritesAreQuiet, QuietGraph DEF GraphIInv
    <2>2. CASE claim(w) \/ load(w) \/ reject(w) \/ settle(w) \/ checkParent(w)
      BY <2>2, DeliveriesAreQuiet, QuietGraph DEF GraphIInv
    <2> QED
      BY <1>3, <2>1, <2>2, ForgettingGraph, PlanGraph, ApplyGraph DEF Step
  <1>4. ASSUME NEW w \in Calls, drainPending(w) PROVE GraphFits' /\ \A n \in kept : NodeMoves(n)
    BY <1>4, DeliveriesAreQuiet, QuietGraph DEF GraphIInv
  <1>5. CASE Crash
    <2>1. UNCHANGED <<records, nodes>> /\ call' = [w \in Calls |-> Idle]
      BY <1>5 DEF Crash, storeVars
    <2>2. Idle.pc = "idle"
      BY DEF Idle
    <2> QED
      BY <2>1, <2>2, QuietGraph DEF CallsQuiet, TombstonesStay
  <1>6. ASSUME NEW d \in DOMAIN outbox, Elapse(d) PROVE GraphFits' /\ \A n \in kept : NodeMoves(n)
    BY <1>6, QuietGraph DEF Elapse, CallsQuiet, TombstonesStay
  <1> QED
    BY <1>1, <1>2, <1>3, <1>4, <1>5, <1>6 DEF Next

-----------------------------------------------------------------------------
(* Deliveries that are settled.                                            *)

RowStays(d) == outbox[d].status \in {"COMPLETED", "DEAD_LETTER"} => outbox'[d].status = outbox[d].status

\* Who writes the status of a delivery has claimed it, and it is not settled.
LEMMA OwnedStays ==
  ASSUME DeliveryIInv, NEW w \in Calls, Owns(call[w]), NEW s, NEW n, updateOutboxStatus(call[w].d, s, n),
         call[w].pc = "reject" => s = "DEAD_LETTER"
  PROVE  \A d \in DOMAIN outbox : RowStays(d)
  <1>1. PICK c : c = call[w]
    OBVIOUS
  <1>2. RowFits(c)
    BY <1>1 DEF DeliveryIInv, CallsFit, CallFits
  <1>3. outbox \in [DOMAIN outbox -> OutboxRecord] /\ outbox' = [outbox EXCEPT ![c.d] = [status |-> s, attempts |-> n, clock |-> "running"]]
    BY <1>1 DEF updateOutboxStatus, DeliveryIInv, TablesFit
  <1>4. ASSUME NEW d \in DOMAIN outbox PROVE RowStays(d)
    <2>1. CASE d = c.d
      BY <1>1, <1>2, <1>3, <2>1 DEF RowFits, RowStays
    <2>2. CASE d # c.d
      BY <1>3, <2>2 DEF RowStays
    <2> QED
      BY <2>1, <2>2
  <1> QED
    BY <1>4

LEMMA FailedStays ==
  ASSUME DeliveryIInv, NEW w \in Calls, Owns(call[w]), NEW permanent \in BOOLEAN, failed(w, permanent),
         call[w].pc = "reject" => permanent
  PROVE  \A d \in DOMAIN outbox : RowStays(d)
  <1>1. PICK s, n : /\ s = IF permanent \/ call[w].tries + 1 >= MaxAttempts THEN "DEAD_LETTER" ELSE "FAILED"
                    /\ n = call[w].tries + 1
    OBVIOUS
  <1>2. updateOutboxStatus(call[w].d, s, n) /\ (call[w].pc = "reject" => s = "DEAD_LETTER")
    BY <1>1 DEF failed
  <1> QED
    BY <1>2, OwnedStays

LEMMA ThrownStays ==
  ASSUME DeliveryIInv, NEW w \in Calls, call[w].pc \in {"check", "apply"}, NEW permanent \in BOOLEAN, thrown(w, permanent)
  PROVE  \A d \in DOMAIN outbox : RowStays(d)
  <1>1. CASE call[w].kind = "direct"
    BY <1>1 DEF thrown, RowStays
  <1>2. CASE call[w].kind # "direct"
    <2>1. CallFits(call[w])
      BY DEF DeliveryIInv, CallsFit
    <2>2. call[w].kind \in {"none", "deliver", "direct"} /\ call[w].kind # "none"
      BY <2>1 DEF CallFits, CallState
    <2>3. Owns(call[w])
      BY <1>2, <2>2 DEF Owns
    <2> QED
      BY <1>2, <2>3, FailedStays DEF thrown
  <1> QED
    BY <1>1, <1>2

LEMMA SettledStays ==
  ASSUME DeliveryIInv, [Next]_vars
  PROVE  \A d \in DOMAIN outbox : RowStays(d)
  <1>1. CASE UNCHANGED outbox
    BY <1>1 DEF RowStays
  <1>2. outbox \in [DOMAIN outbox -> OutboxRecord]
    BY DEF DeliveryIInv, TablesFit
  <1>3. ASSUME NEW m, NEW r, NEW d, commitRecord(m, r, d) PROVE \A e \in DOMAIN outbox : RowStays(e)
    BY <1>3 DEF commitRecord, registered, Put, RowStays
  <1>4. ASSUME NEW w \in Calls, Call(w) PROVE \A d \in DOMAIN outbox : RowStays(d)
    <2>1. ASSUME NEW status, NEW s, NEW c, createMemory(w, newId, status, s, c) PROVE \A d \in DOMAIN outbox : RowStays(d)
      BY <1>3, <2>1 DEF createMemory, create
    <2>2. ASSUME UNCHANGED outbox PROVE \A d \in DOMAIN outbox : RowStays(d)
      BY <2>2 DEF RowStays
    <2> QED
      BY <1>4, <2>1, <2>2 DEF Call, updateMemory, tombstoneMemory, tombstone, evolveDirectly, storeVars
  <1>5. ASSUME NEW w \in Calls, Step(w) PROVE \A d \in DOMAIN outbox : RowStays(d)
    <2>1. CASE storeUpdate(w)
      <3>1. CASE updatable(call[w].m, call[w].v)
        BY <1>3, <2>1, <3>1 DEF storeUpdate, update
      <3>2. CASE ~updatable(call[w].m, call[w].v)
        BY <2>1, <3>2 DEF storeUpdate, storeVars, RowStays
      <3> QED
        BY <3>1, <3>2
    <2>2. CASE revokeProjections(w) \/ cascadeDerived(w) \/ planEvolution(w)
      BY <2>2 DEF revokeProjections, cascadeDerived, planEvolution, storeVars, RowStays
    <2>3. CASE claim(w)
      BY <1>2, <2>3 DEF claim, claimOutboxRecord, eligible, RowStays
    <2>4. CallFits(call[w])
      BY DEF DeliveryIInv, CallsFit
    <2>5. CASE load(w)
      <3>1. call[w].pc = "load" /\ Owns(call[w])
        BY <2>4, <2>5 DEF load, at, CallFits, Owns
      <3>2. CASE UNCHANGED outbox
        BY <3>2 DEF RowStays
      <3>3. CASE ~UNCHANGED outbox
        <4>1. PICK n : n = outbox[call[w].d].attempts
          OBVIOUS
        <4>2. updateOutboxStatus(call[w].d, "DEAD_LETTER", n)
          BY <2>5, <3>3, <4>1 DEF load
        <4> QED
          BY <3>1, <4>2, OwnedStays
      <3> QED
        BY <3>2, <3>3
    <2>6. CASE reject(w)
      <3>1. call[w].pc = "reject" /\ Owns(call[w]) /\ failed(w, TRUE)
        BY <2>4, <2>6 DEF reject, at, CallFits, Owns
      <3> QED
        BY <3>1, FailedStays
    <2>7. CASE settle(w)
      <3>1. call[w].pc = "settle" /\ Owns(call[w])
        BY <2>4, <2>7 DEF settle, at, CallFits, Owns
      <3>2. CASE failed(w, FALSE)
        BY <3>1, <3>2, FailedStays
      <3>3. CASE ~failed(w, FALSE)
        <4>1. PICK n : n = outbox[call[w].d].attempts
          OBVIOUS
        <4>2. updateOutboxStatus(call[w].d, "COMPLETED", n)
          BY <2>7, <3>3, <4>1 DEF settle
        <4> QED
          BY <3>1, <4>2, OwnedStays
      <3> QED
        BY <3>2, <3>3
    <2>8. CASE checkParent(w)
      <3>1. call[w].pc = "check"
        BY <2>8 DEF checkParent, at
      <3>2. CASE thrown(w, TRUE)
        BY <3>1, <3>2, ThrownStays
      <3>3. CASE ~thrown(w, TRUE)
        BY <2>8, <3>3 DEF checkParent, RowStays
      <3> QED
        BY <3>2, <3>3
    <2>9. CASE applyPlan(w)
      <3>1. call[w].pc = "apply"
        BY <2>9 DEF applyPlan, at
      <3>2. CASE thrown(w, FALSE)
        BY <3>1, <3>2, ThrownStays
      <3>3. CASE ~thrown(w, FALSE)
        BY <2>9, <3>3 DEF applyPlan, RowStays
      <3> QED
        BY <3>2, <3>3
    <2> QED
      BY <1>5, <2>1, <2>2, <2>3, <2>5, <2>6, <2>7, <2>8, <2>9 DEF Step
  <1>6. ASSUME NEW w \in Calls, drainPending(w) PROVE UNCHANGED outbox
    BY <1>6 DEF drainPending, storeVars
  <1>7. ASSUME NEW e \in DOMAIN outbox, Elapse(e) PROVE \A d \in DOMAIN outbox : RowStays(d)
    BY <1>2, <1>7 DEF Elapse, RowStays, OutboxRecord
  <1>8. Crash => UNCHANGED outbox
    BY DEF Crash, storeVars
  <1> QED
    BY <1>1, <1>4, <1>5, <1>6, <1>7, <1>8 DEF Next, vars, storeVars

LEMMA GraphInit == Init => GraphIInv
  <1> SUFFICES ASSUME Init PROVE GraphIInv
    OBVIOUS
  <1>1. nodes = << >> /\ call = [w \in Calls |-> Idle] /\ DOMAIN nodes = {} /\ Idle.pc = "idle"
    BY DEF Init, StoreInit, Idle
  <1>2. nodes = [n \in DOMAIN nodes |-> nodes[n]]
    BY <1>1
  <1>3. GraphFits
    BY <1>1, <1>2 DEF GraphFits, NodesFit, PlanTyped, PlanFits
  <1> QED
    BY <1>3, MemoryInit DEF GraphIInv

(***************************************************************************)
(* Nothing that is settled is undone: a delivery that was completed or     *)
(* given up keeps its status, and, as long as nothing was forgotten, no    *)
(* evolution undoes another one, although every call works from rows that  *)
(* it read earlier (EvolutionOutbox.processRecord, evolveCandidates).      *)
(***************************************************************************)
THEOREM NothingIsEverUndone == Spec => NothingIsUndone
  <1>1. GraphIInv /\ [Next]_vars => GraphIInv'
    BY GraphStep, DeliveryStep DEF GraphIInv
  <1>2. GraphIInv /\ [Next]_vars =>
          [\A d \in DOMAIN outbox : outbox[d].status \in {"COMPLETED", "DEAD_LETTER"} =>
              outbox'[d].status = outbox[d].status]_vars
    BY SettledStays DEF GraphIInv, RowStays
  <1>3. GraphIInv /\ [Next]_vars =>
          [(\A m \in Memories : records[m].status # "TOMBSTONED") =>
             \A n \in kept :
                 LET a == nodes[n]  b == nodes'[n]
                 IN /\ a.version <= b.version /\ a.last <= b.last /\ a.parts \subseteq b.parts
                    /\ a.state = "superseded" => b.state = "superseded"
                    /\ a # b => a.version < b.version]_vars
    BY GraphStep DEF NothingForgotten, NodeMoves
  <1>4. Spec => TerminalDeliveries
    BY <1>1, <1>2, GraphInit, PTL DEF Spec, TerminalDeliveries
  <1>5. Spec => GraphMovesForward
    BY <1>1, <1>3, GraphInit, PTL DEF Spec, GraphMovesForward
  <1> QED
    BY <1>4, <1>5 DEF NothingIsUndone
====
