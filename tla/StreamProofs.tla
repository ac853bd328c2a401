---- MODULE StreamProofs ----
(***************************************************************************)
(* Proofs about the telemetry stream and its client: for any number of     *)
(* responses, events, restarts and page calls, any capacity of the replay  *)
(* buffer and of the queues.                                               *)
(***************************************************************************)
EXTENDS StreamClient, FiniteSetTheorems, SequenceTheorems, TLAPS

----------------------------------------------------------------------------
(* The server's half.                                                      *)

Frame == [kind : {"event", "reset", "ping"}, epoch : Nat, seq : Nat]
Cursor == [epoch : Nat, seq : Nat]
Reply == [status : {"free", "none", "ok", "401", "429", "5xx"}, cursor : Cursor,
              closed : BOOLEAN, cut : BOOLEAN, sub : BOOLEAN, draining : BOOLEAN,
              queue : Seq(Frame), wire : Seq(Frame), seen : Nat, live : BOOLEAN, from : Nat]

(* What the client has yet to read, in order.                              *)
Stream(r) == r.wire \o r.queue

(* s is a beginning of t.                                                  *)
Begins(s, t) == Len(s) <= Len(t) /\ \A i \in 1..Len(s) : s[i] = t[i]

(* Nothing is queued for a response that accepts data or has ended, and    *)
(* one that was not accepted has neither frames nor a subscriber.          *)
ResponseFits(r) ==
    /\ r.sub => ~r.closed /\ r.seen <= Len(log)
    /\ r.closed \/ ~r.draining => r.queue = <<>>
    /\ r.status # "ok" => r.wire = <<>> /\ ~r.sub /\ ~r.draining /\ ~r.live

(* The replay buffer is in order, and misses no event from its oldest on.  *)
BufferFits(b, l) ==
    /\ \A i, j \in 1..Len(b) : i < j => b[i] < b[j]
    /\ \A i \in 1..Len(b) : b[i] \in 1..Len(l)
    /\ Len(b) > 0 => \A m \in b[1]..Len(l) : l[m] # Rejected => \E i \in 1..Len(b) : b[i] = m

BusIInv ==
    /\ epoch \in Nat \ {0} /\ log \in Seq(Origins \cup {Rejected}) /\ buffer \in Seq(Nat)
    /\ conn \in [Conns -> Reply]
    /\ \A c \in Conns : ResponseFits(conn[c])
    /\ BufferFits(buffer, log)
    /\ Subscribers <= MaxStreams

(* Sequences.                                                              *)
LEMMA BeginsConcat ==
    ASSUME NEW s \in Seq(Frame), NEW t \in Seq(Frame)
    PROVE  Begins(s, s \o t) /\ Begins(s, s)
  BY ConcatProperties, LenProperties DEF Begins

LEMMA BeginsConcatBoth ==
    ASSUME NEW s \in Seq(Frame), NEW t \in Seq(Frame), NEW u \in Seq(Frame), Begins(t, u)
    PROVE  Begins(s \o t, s \o u)
  <1>1. Len(s) \in Nat /\ Len(t) \in Nat /\ Len(u) \in Nat
    BY LenProperties
  <1>2. /\ Len(s \o t) = Len(s) + Len(t) /\ Len(s \o u) = Len(s) + Len(u)
        /\ \A i \in 1..(Len(s) + Len(t)) : (s \o t)[i] = IF i <= Len(s) THEN s[i] ELSE t[i - Len(s)]
        /\ \A i \in 1..(Len(s) + Len(u)) : (s \o u)[i] = IF i <= Len(s) THEN s[i] ELSE u[i - Len(s)]
    BY ConcatProperties
  <1> QED
    BY <1>1, <1>2 DEF Begins

LEMMA StreamConcat ==
    ASSUME NEW r \in Reply, NEW frames \in Seq(Frame)
    PROVE  Stream(r) \o frames = r.wire \o (r.queue \o frames)
  <1>1. PICK w \in Seq(Frame), q \in Seq(Frame) : w = r.wire /\ q = r.queue
    BY DEF Reply
  <1>2. (w \o q) \o frames = w \o (q \o frames)
    BY ConcatAssociative
  <1> QED
    BY <1>1, <1>2 DEF Stream

LEMMA CloseEffect ==
    ASSUME NEW r \in Reply
    PROVE  /\ Close(r) \in Reply /\ Close(r).closed /\ ~Close(r).sub /\ Close(r).queue = <<>>
           /\ Close(r).wire = r.wire /\ Close(r).status = r.status /\ Close(r).cursor = r.cursor
           /\ Close(r).cut = r.cut /\ Close(r).draining = r.draining
           /\ Close(r).seen = r.seen /\ Close(r).live = r.live /\ Close(r).from = r.from
           /\ Stream(Close(r)) = r.wire /\ Begins(r.wire, Stream(r))
  <1>1. <<>> \in Seq(Frame)
    BY EmptySeq
  <1>2. r.wire \in Seq(Frame) /\ r.queue \in Seq(Frame)
    BY DEF Reply
  <1>3. r.wire \o <<>> = r.wire
    BY <1>2, ConcatEmptySeq
  <1> QED
    BY <1>1, <1>2, <1>3, BeginsConcat DEF Close, Reply, Stream

(* What writing frames to a response does: they follow what is there, or   *)
(* the response ends with a beginning of that.                             *)
Written(r, frames, out) ==
    /\ out \in Reply
    /\ out.status = r.status /\ out.cursor = r.cursor /\ out.cut = r.cut
    /\ out.seen = r.seen /\ out.live = r.live /\ out.from = r.from
    /\ (out.sub = r.sub /\ out.closed = r.closed) \/ (out.closed /\ ~out.sub)
    /\ out.closed \/ ~out.draining => out.queue = <<>>
    /\ Begins(Stream(out), Stream(r) \o frames)
    /\ ~out.closed => Stream(out) = Stream(r) \o frames

LEMMA SentEffect ==
    ASSUME NEW r \in Reply, NEW frames \in Seq(Frame), NEW out \in Sent(r, frames),
           r.closed \/ ~r.draining => r.queue = <<>>
    PROVE  Written(r, frames, out)
  <1>1. /\ r.wire \in Seq(Frame) /\ r.queue \in Seq(Frame)
        /\ Stream(r) \in Seq(Frame) /\ Stream(r) \o frames \in Seq(Frame)
    BY ConcatProperties DEF Reply, Stream
  <1>2. Begins(Stream(r), Stream(r) \o frames) /\ Begins(r.wire, Stream(r) \o frames)
    <2>1. r.queue \o frames \in Seq(Frame) /\ Stream(r) \o frames = r.wire \o (r.queue \o frames)
      BY <1>1, StreamConcat, ConcatProperties
    <2> QED
      BY <1>1, <2>1, BeginsConcat
  <1>3. CASE frames = <<>> \/ r.closed
    <2>1. out = r
      BY <1>3 DEF Sent
    <2>2. ~r.closed => Stream(r) = Stream(r) \o frames
      BY <1>1, <1>3, ConcatEmptySeq
    <2> QED
      BY <1>2, <2>1, <2>2 DEF Written
  <1>4. ASSUME out = Close(r) PROVE Written(r, frames, out)
    BY <1>2, <1>4, CloseEffect DEF Written
  <1>5. CASE ~(frames = <<>> \/ r.closed) /\ ~r.cut /\ r.draining
    <2>1. out = Queued(r, frames)
      BY <1>5 DEF Sent
    <2>2. CASE out = [r EXCEPT !.queue = r.queue \o frames]
      <3>1. r.queue \o frames \in Seq(Frame)
        BY <1>1, ConcatProperties
      <3>2. out \in Reply /\ out.wire = r.wire /\ out.queue = r.queue \o frames
        BY <2>2, <3>1 DEF Reply
      <3>3. Stream(out) = Stream(r) \o frames
        <4>1. Stream(out) = r.wire \o (r.queue \o frames)
          BY <3>2 DEF Stream
        <4> QED
          BY <4>1, StreamConcat
      <3>4. Begins(Stream(out), Stream(r) \o frames)
        BY <1>1, <3>3, BeginsConcat
      <3>5. out.draining /\ ~out.closed
        BY <1>5, <2>2 DEF Reply
      <3> QED
        BY <2>2, <3>2, <3>3, <3>4, <3>5 DEF Written, Reply
    <2> QED
      BY <1>4, <2>1, <2>2 DEF Queued
  <1>6. CASE ~(frames = <<>> \/ r.closed) /\ ~r.cut /\ ~r.draining
    <2>1. Stream(r) = r.wire /\ r.queue = <<>>
      BY <1>1, <1>6, ConcatEmptySeq DEF Stream
    <2>2. CASE out = [r EXCEPT !.wire = r.wire \o frames]
      <3>1. r.wire \o frames \in Seq(Frame)
        BY <1>1, ConcatProperties
      <3>2. out \in Reply /\ out.wire = r.wire \o frames /\ out.queue = <<>>
        BY <2>1, <2>2, <3>1 DEF Reply
      <3>3. Stream(out) = Stream(r) \o frames
        BY <2>1, <3>1, <3>2, ConcatEmptySeq DEF Stream
      <3>4. Begins(Stream(out), Stream(r) \o frames)
        BY <1>1, <3>3, BeginsConcat
      <3> QED
        BY <2>2, <3>2, <3>3, <3>4 DEF Written, Reply
    <2>3. ASSUME NEW k \in 1..Len(frames),
                 out = Queued([r EXCEPT !.wire = r.wire \o SubSeq(frames, 1, k), !.draining = TRUE],
                              SubSeq(frames, k + 1, Len(frames)))
          PROVE  Written(r, frames, out)
      <3>1. PICK w \in Seq(Frame), q \in Seq(Frame) : w = SubSeq(frames, 1, k) /\ q = SubSeq(frames, k + 1, Len(frames))
        <4>1. Len(frames) \in Nat /\ k \in Int /\ k + 1 \in Int /\ \A i \in 1..Len(frames) : frames[i] \in Frame
          BY LenProperties, ElementOfSeq
        <4>2. \A i \in 1..k : frames[i] \in Frame
          BY <4>1
        <4>3. \A i \in (k + 1)..Len(frames) : frames[i] \in Frame
          BY <4>1
        <4>4. SubSeq(frames, 1, k) \in Seq(Frame) /\ SubSeq(frames, k + 1, Len(frames)) \in Seq(Frame)
          BY <4>1, <4>2, <4>3, SubSeqProperties
        <4> QED
          BY <4>4
      <3>2. Begins(w, frames) /\ w \o q = frames
        <4>1. Len(frames) \in Nat /\ k \in 0..Len(frames) /\ k + 1 \in 1..Len(frames) + 1
          BY LenProperties
        <4>2. w \o q = SubSeq(frames, 1, Len(frames))
          BY <3>1, <4>1, ConcatAdjacentSubSeq
        <4>3. w \o q = frames
          BY <4>2, SubSeqFull
        <4> QED
          BY <4>3, BeginsConcat
      <3>3. r.wire \o w \in Seq(Frame)
        BY <1>1, ConcatProperties
      <3>4. PICK s \in Reply : s = [r EXCEPT !.wire = r.wire \o w, !.draining = TRUE]
        BY <3>3 DEF Reply
      <3>5. /\ s.wire = r.wire \o w /\ s.draining = TRUE /\ s.queue = <<>> /\ ~s.closed
            /\ s.status = r.status /\ s.cursor = r.cursor /\ s.cut = r.cut
            /\ s.seen = r.seen /\ s.live = r.live /\ s.from = r.from /\ s.sub = r.sub
        BY <1>6, <2>1, <3>4 DEF Reply
      <3>6. out = Queued(s, q)
        BY <2>3, <3>1, <3>4
      <3>7. CASE out = Close(s)
        <4>1. Stream(out) = r.wire \o w
          BY <3>5, <3>7, CloseEffect
        <4>2. Begins(Stream(out), Stream(r) \o frames)
          BY <1>1, <2>1, <3>2, <4>1, BeginsConcatBoth
        <4> QED
          BY <3>5, <3>7, <4>2, CloseEffect DEF Written
      <3>8. CASE out = [s EXCEPT !.queue = s.queue \o q]
        <4>1. s.queue \o q = q
          BY <3>5, ConcatEmptySeq
        <4>2. out \in Reply /\ out.queue = q /\ out.wire = r.wire \o w /\ out.draining /\ ~out.closed
          BY <3>5, <3>8, <4>1 DEF Reply
        <4>3. Stream(out) = Stream(r) \o frames
          <5>1. PICK v \in Seq(Frame) : v = r.wire
            BY <1>1
          <5>2. (v \o w) \o q = v \o (w \o q)
            BY ConcatAssociative, SMTT(30)
          <5>3. Stream(out) = (r.wire \o w) \o q
            BY <4>2 DEF Stream
          <5> QED
            BY <2>1, <3>2, <5>1, <5>2, <5>3
        <4>4. Begins(Stream(out), Stream(r) \o frames)
          BY <1>1, <4>3, BeginsConcat
        <4> QED
          BY <1>6, <3>5, <3>8, <4>2, <4>3, <4>4 DEF Written, Reply
      <3> QED
        BY <3>6, <3>7, <3>8 DEF Queued
    <2> QED
      BY <1>6, <2>2, <2>3 DEF Sent
  <1> QED
    BY <1>3, <1>4, <1>5, <1>6 DEF Sent

----------------------------------------------------------------------------
(* The replay buffer.                                                      *)

LEMMA PruneFits ==
    ASSUME NEW b \in Seq(Nat), NEW l, Len(l) \in Nat, BufferFits(b, l), NEW p \in Prune(b)
    PROVE  p \in Seq(Nat) /\ BufferFits(p, l)
  <1>1. Len(b) \in Nat /\ \A i \in 1..Len(b) : b[i] \in Nat
    BY LenProperties, ElementOfSeq
  <1>2. PICK k \in 1..(Len(b) + 1) : p = SubSeq(b, k, Len(b))
    BY DEF Prune
  <1>3. k \in Int /\ Len(b) \in Int /\ \A i \in k..Len(b) : b[i] \in Nat
    BY <1>1
  <1>4. /\ p \in Seq(Nat) /\ Len(p) = (IF k <= Len(b) THEN (Len(b) - k) + 1 ELSE 0)
        /\ \A i \in 1..((Len(b) - k) + 1) : p[i] = b[(k + i) - 1]
    BY <1>2, <1>3, SubSeqProperties
  <1>5. Len(p) = (Len(b) - k) + 1
    BY <1>1, <1>4
  <1>6. \A i \in 1..Len(p) : (k + i) - 1 \in 1..Len(b) /\ p[i] = b[(k + i) - 1]
    BY <1>1, <1>4, <1>5
  <1>7. \A i, j \in 1..Len(p) : i < j => p[i] < p[j]
    <2> SUFFICES ASSUME NEW i \in 1..Len(p), NEW j \in 1..Len(p), i < j PROVE p[i] < p[j]
      OBVIOUS
    <2>1. (k + i) - 1 < (k + j) - 1
      BY <1>3, <1>4
    <2> QED
      BY <1>6, <2>1 DEF BufferFits
  <1>8. \A i \in 1..Len(p) : p[i] \in 1..Len(l)
    BY <1>6 DEF BufferFits
  <1>9. ASSUME Len(p) > 0, NEW m \in p[1]..Len(l), l[m] # Rejected PROVE \E i \in 1..Len(p) : p[i] = m
    <2>1. k \in 1..Len(b) /\ 1 \in 1..Len(b) /\ 1 \in 1..Len(p) /\ p[1] = b[k]
      BY <1>1, <1>5, <1>6, <1>9
    <2>2. b[1] \in Nat /\ b[k] \in Nat /\ b[1] <= b[k]
      <3>1. CASE k = 1
        BY <1>1, <2>1, <3>1
      <3>2. CASE 1 < k
        BY <1>1, <2>1, <3>2 DEF BufferFits
      <3> QED
        BY <2>1, <3>1, <3>2
    <2>3. m \in b[1]..Len(l) /\ m >= b[k] /\ m \in Nat
      BY <1>9, <2>1, <2>2
    <2>4. PICK i \in 1..Len(b) : b[i] = m
      BY <1>1, <1>9, <2>1, <2>3 DEF BufferFits
    <2>5. k <= i
      <3> SUFFICES ASSUME i < k PROVE FALSE
        BY <2>1
      <3>1. b[i] < b[k]
        BY <2>1 DEF BufferFits
      <3> QED
        BY <2>2, <2>3, <2>4, <3>1
    <2>6. (i - k) + 1 \in 1..Len(p)
      BY <1>5, <2>1, <2>5
    <2>7. p[(i - k) + 1] = b[(k + ((i - k) + 1)) - 1] /\ (k + ((i - k) + 1)) - 1 = i
      BY <1>6, <2>1, <2>6
    <2> QED
      BY <2>4, <2>6, <2>7
  <1> QED
    BY <1>4, <1>7, <1>8, <1>9 DEF BufferFits

(* A number is taken; its event is kept, or it was rejected.               *)
LEMMA AppendFits ==
    ASSUME NEW b \in Seq(Nat), NEW S, NEW l \in Seq(S), BufferFits(b, l), NEW w \in S
    PROVE  /\ Append(b, Len(l) + 1) \in Seq(Nat) /\ BufferFits(Append(b, Len(l) + 1), Append(l, w))
           /\ w = Rejected => BufferFits(b, Append(l, w))
  <1>1. Len(b) \in Nat /\ Len(l) \in Nat /\ \A i \in 1..Len(b) : b[i] \in 1..Len(l) /\ b[i] \in Nat
    BY LenProperties, ElementOfSeq DEF BufferFits
  <1>2. PICK v : v = Append(l, w)
    OBVIOUS
  <1>3. Len(v) = Len(l) + 1 /\ v[Len(l) + 1] = w /\ \A i \in 1..Len(l) : v[i] = l[i]
    BY <1>2, AppendProperties
  <1>4. PICK n \in Nat : n = Len(l) + 1
    BY <1>1
  <1>5. PICK a : a = Append(b, n)
    OBVIOUS
  <1>6. a \in Seq(Nat) /\ Len(a) = Len(b) + 1 /\ a[Len(b) + 1] = n /\ \A i \in 1..Len(b) : a[i] = b[i]
    BY <1>5, AppendProperties
  <1>7. \A i \in 1..Len(a) : i \in 1..Len(b) \/ i = Len(b) + 1
    BY <1>1, <1>6
  <1>8. \A i, j \in 1..Len(a) : i < j => a[i] < a[j]
    <2> SUFFICES ASSUME NEW i \in 1..Len(a), NEW j \in 1..Len(a), i < j PROVE a[i] < a[j]
      OBVIOUS
    <2>1. i \in 1..Len(b)
      BY <1>1, <1>6
    <2>2. CASE j \in 1..Len(b)
      <3>1. b[i] < b[j]
        BY <2>1, <2>2 DEF BufferFits
      <3> QED
        BY <1>6, <2>1, <2>2, <3>1
    <2>3. CASE j = Len(b) + 1
      BY <1>1, <1>4, <1>6, <2>1, <2>3, SMTT(30)
    <2> QED
      BY <1>7, <2>2, <2>3
  <1>9. \A i \in 1..Len(a) : a[i] \in 1..Len(v)
    BY <1>1, <1>3, <1>4, <1>6, <1>7, SMTT(30)
  <1>10. ASSUME NEW m \in 1..Len(v), m # n, Len(b) > 0, m >= b[1], v[m] # Rejected
         PROVE  \E i \in 1..Len(b) : b[i] = m
    <2>1. 1 \in 1..Len(b)
      BY <1>1, <1>10
    <2>2. m \in 1..Len(l) /\ m \in b[1]..Len(l) /\ v[m] = l[m]
      BY <1>1, <1>3, <1>4, <1>10, <2>1
    <2> QED
      BY <1>10, <2>2 DEF BufferFits
  <1>11. ASSUME NEW m \in a[1]..Len(v), v[m] # Rejected PROVE \E i \in 1..Len(a) : a[i] = m
    <2>1. CASE m = n
      BY <1>1, <1>6, <2>1
    <2>2. CASE m # n /\ Len(b) > 0
      <3>1. 1 \in 1..Len(b) /\ a[1] = b[1]
        BY <1>1, <1>6, <2>2
      <3>2. m \in 1..Len(v) /\ m >= b[1]
        BY <1>1, <1>3, <1>11, <3>1
      <3>3. PICK i \in 1..Len(b) : b[i] = m
        BY <1>10, <1>11, <2>2, <3>2
      <3> QED
        BY <1>1, <1>6, <3>3
    <2>3. CASE m # n /\ Len(b) = 0
      BY <1>1, <1>3, <1>4, <1>6, <1>11, <2>3
    <2> QED
      BY <1>1, <2>1, <2>2, <2>3
  <1>12. BufferFits(a, v)
    BY <1>8, <1>9, <1>11 DEF BufferFits
  <1>13. ASSUME w = Rejected PROVE BufferFits(b, v)
    <2>1. \A i \in 1..Len(b) : b[i] \in 1..Len(v)
      BY <1>1, <1>3
    <2>2. ASSUME Len(b) > 0, NEW m \in b[1]..Len(v), v[m] # Rejected PROVE \E i \in 1..Len(b) : b[i] = m
      <3>1. 1 \in 1..Len(b)
        BY <1>1, <2>2
      <3>2. m \in 1..Len(v) /\ m >= b[1]
        BY <1>1, <1>3, <2>2, <3>1
      <3>3. m # n
        BY <1>3, <1>4, <1>13, <2>2
      <3> QED
        BY <1>10, <2>2, <3>2, <3>3
    <2> QED
      BY <2>1, <2>2 DEF BufferFits
  <1> QED
    BY <1>2, <1>4, <1>5, <1>6, <1>12, <1>13

LEMMA PushFits ==
    ASSUME NEW b \in Seq(Nat), NEW S, NEW l \in Seq(S), BufferFits(b, l), NEW w \in S
    PROVE  Push(b, Len(l) + 1) \in Seq(Nat) /\ BufferFits(Push(b, Len(l) + 1), Append(l, w))
  <1>1. Len(b) \in Nat /\ Len(l) \in Nat
    BY LenProperties
  <1>2. CASE Len(b) >= MaxReplay
    <2>1. PICK p : p = SubSeq(b, (Len(b) - MaxReplay) + 2, Len(b))
      OBVIOUS
    <2>2. (Len(b) - MaxReplay) + 2 \in 1..(Len(b) + 1)
      BY <1>1, <1>2, BusAssumption
    <2>3. p \in Prune(b)
      BY <2>1, <2>2 DEF Prune
    <2>4. p \in Seq(Nat) /\ BufferFits(p, l)
      BY <1>1, <2>3, PruneFits
    <2>5. Push(b, Len(l) + 1) = Append(p, Len(l) + 1)
      BY <1>2, <2>1 DEF Push
    <2> QED
      BY <2>4, <2>5, AppendFits
  <1>3. CASE ~(Len(b) >= MaxReplay)
    <2>1. Push(b, Len(l) + 1) = Append(b, Len(l) + 1)
      BY <1>3 DEF Push
    <2> QED
      BY <2>1, AppendFits
  <1> QED
    BY <1>2, <1>3

----------------------------------------------------------------------------
(* Subscriptions and the stream limit.                                     *)

LEMMA SubscribersBounded ==
    ASSUME BusIInv, NEW c \in Conns, \A d \in Conns : conn'[d].sub => conn[d].sub \/ (d = c /\ canSubscribe)
    PROVE  Subscribers' <= MaxStreams
  <1> DEFINE S == {d \in Conns : conn[d].sub}
             T == {d \in Conns : conn'[d].sub}
  <1>1. IsFiniteSet(S) /\ IsFiniteSet(T) /\ IsFiniteSet(S \cup {c})
    BY BusAssumption, FS_Subset
  <1>2. Cardinality(S) \in Nat /\ Cardinality(T) \in Nat /\ Cardinality(S) <= MaxStreams
    BY <1>1, FS_CardinalityType DEF BusIInv, Subscribers
  <1>3. Cardinality(S \cup {c}) \in Nat /\ Cardinality(S \cup {c}) <= Cardinality(S) + 1
    BY <1>1, <1>2, FS_AddElement
  <1>4. CASE canSubscribe
    <2>1. T \in SUBSET (S \cup {c})
      OBVIOUS
    <2>2. Cardinality(T) <= Cardinality(S \cup {c})
      BY <1>1, <2>1, FS_Subset
    <2>3. Cardinality(S) < MaxStreams
      BY <1>4 DEF canSubscribe, Subscribers
    <2>4. Cardinality(T) <= MaxStreams
      BY <1>2, <1>3, <2>2, <2>3, BusAssumption
    <2> QED
      BY <2>4 DEF Subscribers
  <1>5. CASE ~canSubscribe
    <2>1. T \in SUBSET S
      BY <1>5
    <2>2. Cardinality(T) <= Cardinality(S)
      BY <1>1, <2>1, FS_Subset
    <2>3. Cardinality(T) <= MaxStreams
      BY <1>2, <2>2, BusAssumption
    <2> QED
      BY <2>3 DEF Subscribers
  <1> QED
    BY <1>4, <1>5

(* Without a response there is nobody to count.                            *)
LEMMA NoConns == ASSUME Conns = {} PROVE Subscribers <= MaxStreams
  <1>1. {c \in Conns : conn[c].sub} = {}
    OBVIOUS
  <1> QED
    BY <1>1, FS_EmptySet, BusAssumption DEF Subscribers

(* One response changes, the events do not.                                *)
LEMMA ReplaceOne ==
    ASSUME BusIInv, NEW c \in Conns, NEW r \in Reply, ResponseFits(r), conn' = [conn EXCEPT ![c] = r],
           UNCHANGED <<epoch, log>>, buffer' \in Seq(Nat), BufferFits(buffer', log),
           r.sub => conn[c].sub \/ canSubscribe
    PROVE  BusIInv'
  <1>1. conn' \in [Conns -> Reply] /\ conn'[c] = r /\ \A d \in Conns : d # c => conn'[d] = conn[d]
    BY DEF BusIInv
  <1>2. \A d \in Conns : ResponseFits(conn'[d])
    BY <1>1 DEF BusIInv
  <1>3. \A d \in Conns : ResponseFits(conn[d])'
    BY <1>2 DEF ResponseFits
  <1>4. Subscribers' <= MaxStreams
    <2>1. \A d \in Conns : conn'[d].sub => conn[d].sub \/ (d = c /\ canSubscribe)
      BY <1>1
    <2> QED
      BY <2>1, SubscribersBounded
  <1> QED
    BY <1>1, <1>3, <1>4 DEF BusIInv

LEMMA ConnType ==
    ASSUME BusIInv, NEW c \in Conns
    PROVE  conn[c] \in Reply /\ ResponseFits(conn[c]) /\ Stream(conn[c]) \in Seq(Frame)
  BY ConcatProperties DEF BusIInv, Reply, Stream

LEMMA WrittenFits ==
    ASSUME NEW r \in Reply, ResponseFits(r), r.status = "ok", NEW frames, NEW out, Written(r, frames, out)
    PROVE  out \in Reply /\ ResponseFits(out) /\ (out.sub => r.sub)
  BY DEF Written, ResponseFits

(* A drained response writes what it had queued.                           *)
LEMMA DrainEffect ==
    ASSUME BusIInv, NEW c \in Conns, HandleDrain(c)
    PROVE  \E out \in Reply :
             /\ conn' = [conn EXCEPT ![c] = out] /\ UNCHANGED <<epoch, log, buffer>>
             /\ ResponseFits(out) /\ (out.sub => conn[c].sub) /\ Begins(Stream(out), Stream(conn[c]))
             /\ ~out.closed => Stream(out) = Stream(conn[c])
             /\ out.status = conn[c].status /\ out.cursor = conn[c].cursor
             /\ out.live = conn[c].live /\ out.from = conn[c].from
  <1>1. PICK r \in Reply : r = conn[c]
    BY DEF BusIInv
  <1>2. ResponseFits(r) /\ r.draining /\ ~r.closed /\ r.status = "ok"
    BY <1>1 DEF BusIInv, ResponseFits, HandleDrain
  <1>3. PICK s \in Reply : s = [r EXCEPT !.draining = FALSE, !.queue = <<>>]
    BY EmptySeq DEF Reply
  <1>4. /\ s.wire = r.wire /\ s.queue = <<>> /\ ~s.draining /\ ~s.closed /\ s.sub = r.sub /\ s.seen = r.seen
        /\ s.status = r.status /\ s.cursor = r.cursor /\ s.live = r.live /\ s.from = r.from
    BY <1>2, <1>3 DEF Reply
  <1>5. r.wire \in Seq(Frame) /\ r.queue \in Seq(Frame)
    BY DEF Reply
  <1>6. Stream(s) = r.wire /\ Stream(s) \o r.queue = Stream(r)
    BY <1>4, <1>5, ConcatEmptySeq DEF Stream
  <1>7. PICK out \in Sent(s, r.queue) : conn' = [conn EXCEPT ![c] = out]
    BY <1>1, <1>3 DEF HandleDrain
  <1>8. Written(s, r.queue, out)
    BY <1>4, <1>5, SentEffect
  <1>9. ResponseFits(s)
    BY <1>2, <1>4 DEF ResponseFits
  <1>10. out \in Reply /\ ResponseFits(out) /\ (out.sub => s.sub)
    BY <1>2, <1>4, <1>8, <1>9, WrittenFits
  <1> QED
    BY <1>1, <1>4, <1>6, <1>7, <1>8, <1>10 DEF Written, HandleDrain

LEMMA HeartbeatEffect ==
    ASSUME BusIInv, NEW c \in Conns, SendHeartbeat(c)
    PROVE  \E out \in Reply :
             /\ conn' = [conn EXCEPT ![c] = out] /\ UNCHANGED <<epoch, log, buffer>>
             /\ ResponseFits(out) /\ (out.sub => conn[c].sub) /\ Begins(Stream(out), Stream(conn[c]) \o <<Ping>>)
             /\ ~out.closed => Stream(out) = Stream(conn[c]) \o <<Ping>>
             /\ out.status = conn[c].status /\ out.cursor = conn[c].cursor
             /\ out.live = conn[c].live /\ out.from = conn[c].from
  <1>1. PICK r \in Reply : r = conn[c]
    BY DEF BusIInv
  <1>2. ResponseFits(r) /\ r.status = "ok"
    BY <1>1 DEF BusIInv, SendHeartbeat
  <1>3. <<Ping>> \in Seq(Frame)
    BY DEF Ping, Frame
  <1>4. PICK out \in Sent(r, <<Ping>>) : conn' = [conn EXCEPT ![c] = out]
    BY <1>1 DEF SendHeartbeat
  <1>5. Written(r, <<Ping>>, out)
    BY <1>2, <1>3, <1>4, SentEffect DEF ResponseFits
  <1>6. out \in Reply /\ ResponseFits(out) /\ (out.sub => r.sub)
    BY <1>2, <1>5, WrittenFits
  <1> QED
    BY <1>1, <1>4, <1>5, <1>6 DEF Written, SendHeartbeat

(* An event is numbered, kept and handed to every subscriber that may see  *)
(* it.                                                                     *)
LEMMA PublishEffect ==
    ASSUME BusIInv, NEW w \in Origins, Publish(w)
    PROVE  /\ log' = Append(log, w) /\ UNCHANGED epoch
           /\ buffer' \in Seq(Nat) /\ BufferFits(buffer', log')
           /\ conn' \in [Conns -> Reply]
           /\ \A c \in Conns :
                \/ conn'[c] = conn[c] /\ ~(conn[c].sub /\ matchesWorkspace(w))
                \/ /\ conn[c].sub /\ matchesWorkspace(w) /\ ResponseFits(conn[c])'
                   /\ (conn'[c].sub => conn[c].sub)
                   /\ Begins(Stream(conn'[c]), Stream(conn[c]) \o <<Event(Len(log) + 1)>>)
                   /\ ~conn'[c].closed => Stream(conn'[c]) = Stream(conn[c]) \o <<Event(Len(log) + 1)>>
                   /\ conn'[c].status = conn[c].status /\ conn'[c].cursor = conn[c].cursor
                   /\ conn'[c].live = conn[c].live /\ conn'[c].from = conn[c].from
  <1>1. log \in Seq(Origins \cup {Rejected}) /\ Len(log) \in Nat /\ buffer \in Seq(Nat) /\ BufferFits(buffer, log)
    BY LenProperties DEF BusIInv
  <1>2. PICK n \in Nat : n = Len(log) + 1
    BY <1>1
  <1>3. /\ log' = Append(log, w) /\ UNCHANGED epoch
        /\ \E b \in Prune(buffer) : buffer' = Push(b, n)
        /\ \A c \in Conns : conn'[c] \in Listener(conn[c], n, w)
        /\ DOMAIN conn' = Conns /\ conn' = [c \in Conns |-> conn'[c]]
    BY <1>2 DEF Publish, getLatestSequence
  <1>4. buffer' \in Seq(Nat) /\ BufferFits(buffer', log')
    <2>1. PICK b \in Prune(buffer) : buffer' = Push(b, n)
      BY <1>3
    <2>2. b \in Seq(Nat) /\ BufferFits(b, log)
      BY <1>1, PruneFits
    <2> QED
      BY <1>1, <1>2, <1>3, <2>1, <2>2, PushFits
  <1>5. Len(log') = n
    BY <1>1, <1>2, <1>3, AppendProperties
  <1>6. ASSUME NEW c \in Conns
        PROVE  \/ conn'[c] = conn[c] /\ ~(conn[c].sub /\ matchesWorkspace(w))
               \/ /\ conn[c].sub /\ matchesWorkspace(w) /\ ResponseFits(conn[c])' /\ conn'[c] \in Reply
                  /\ (conn'[c].sub => conn[c].sub)
                  /\ Begins(Stream(conn'[c]), Stream(conn[c]) \o <<Event(Len(log) + 1)>>)
                  /\ ~conn'[c].closed => Stream(conn'[c]) = Stream(conn[c]) \o <<Event(Len(log) + 1)>>
                  /\ conn'[c].status = conn[c].status /\ conn'[c].cursor = conn[c].cursor
                  /\ conn'[c].live = conn[c].live /\ conn'[c].from = conn[c].from
    <2>1. PICK r \in Reply : r = conn[c]
      BY DEF BusIInv
    <2>2. ResponseFits(r)
      BY <2>1 DEF BusIInv
    <2>3. CASE ~(r.sub /\ matchesWorkspace(w))
      BY <1>3, <2>1, <2>3 DEF Listener
    <2>4. CASE r.sub /\ matchesWorkspace(w)
      <3>1. r.seen \in Nat /\ r.seen < n /\ r.status = "ok" /\ ~r.closed
        BY <1>1, <1>2, <2>2, <2>4 DEF ResponseFits, Reply
      <3>2. PICK s \in Reply : s = [r EXCEPT !.seen = n]
        BY DEF Reply
      <3>3. /\ s.wire = r.wire /\ s.queue = r.queue /\ s.draining = r.draining /\ s.closed = r.closed /\ s.sub = r.sub
            /\ s.seen = n /\ s.status = r.status /\ s.cursor = r.cursor /\ s.live = r.live /\ s.from = r.from
        BY <3>2 DEF Reply
      <3>4. conn'[c] \in Sent(s, <<Event(n)>>)
        BY <1>3, <2>1, <2>4, <3>1, <3>2 DEF Listener
      <3>5. <<Event(n)>> \in Seq(Frame)
        <4>1. Event(n) \in Frame
          BY DEF Event, Frame, BusIInv
        <4> QED
          BY <4>1
      <3>6. PICK out : out = conn'[c]
        OBVIOUS
      <3>7. Written(s, <<Event(n)>>, out)
        BY <2>2, <3>3, <3>4, <3>5, <3>6, SentEffect DEF ResponseFits
      <3>8. Stream(s) = Stream(r)
        BY <3>3 DEF Stream
      <3>9. ResponseFits(conn[c])'
        <4>1. conn'[c].seen = n /\ n <= Len(log')
          BY <1>5, <3>3, <3>6, <3>7 DEF Written
        <4> QED
          BY <2>2, <3>1, <3>3, <3>6, <3>7, <4>1 DEF Written, ResponseFits
      <3> QED
        BY <1>2, <2>1, <2>4, <3>3, <3>6, <3>7, <3>8, <3>9 DEF Written
    <2> QED
      BY <2>1, <2>3, <2>4
  <1>7. conn' \in [Conns -> Reply]
    <2>1. \A c \in Conns : conn'[c] \in Reply
      BY <1>6, ConnType
    <2> QED
      BY <1>3, <2>1
  <1> QED
    BY <1>3, <1>4, <1>6, <1>7

(* What is replayed: the events after p that the client may see, in order. *)
Visible(n) == matchesWorkspace(log[n])
Replays(frames, p) ==
    /\ \A i \in 1..Len(frames) : /\ frames[i].kind = "event" /\ frames[i].epoch = epoch
                                 /\ frames[i].seq \in (p + 1)..Len(log)
    /\ \A i, j \in 1..Len(frames) : i < j => frames[i].seq < frames[j].seq
    /\ \A m \in (p + 1)..Len(log) : Visible(m) => \E i \in 1..Len(frames) : frames[i].seq = m

LEMMA InOrderFacts ==
    ASSUME NEW S, NEW n \in Nat, S \subseteq 1..n, NEW s \in InOrder(S)
    PROVE  /\ s \in Seq(Nat) /\ \A i \in 1..Len(s) : s[i] \in S
           /\ \A i, j \in 1..Len(s) : i < j => s[i] < s[j]
           /\ \A m \in S : \E i \in 1..Len(s) : s[i] = m
  <1>1. IsFiniteSet(S) /\ Cardinality(S) \in Nat
    <2>1. IsFiniteSet(1..n)
      BY FS_Interval
    <2> QED
      BY <2>1, FS_Subset, FS_CardinalityType
  <1>2. PICK k \in Nat : k = Cardinality(S)
    BY <1>1
  <1>3. s \in [1..k -> S] /\ \A i, j \in 1..k : i < j => s[i] < s[j]
    BY <1>2 DEF InOrder
  <1>4. \A x \in S : x \in Nat
    OBVIOUS
  <1>5. s \in Seq(Nat) /\ Len(s) = k
    <2>1. s \in [1..k -> Nat] /\ DOMAIN s = 1..k
      BY <1>3, <1>4
    <2>2. s \in Seq(Nat)
      BY <2>1, SeqDef
    <2>3. Len(s) \in Nat /\ 1..Len(s) = 1..k
      BY <2>1, <2>2, LenProperties
    <2> QED
      BY <2>2, <2>3
  <1>6. \A i, j \in 1..k : s[i] = s[j] => i = j
    <2> SUFFICES ASSUME NEW i \in 1..k, NEW j \in 1..k, s[i] = s[j], i # j PROVE FALSE
      OBVIOUS
    <2>1. s[i] \in Nat /\ s[j] \in Nat
      BY <1>3, <1>4
    <2>2. i < j \/ j < i
      OBVIOUS
    <2> QED
      BY <1>3, <2>1, <2>2
  <1>7. s \in Injection(1..k, S)
    BY <1>3, <1>6 DEF Injection, IsInjective
  <1>8. Cardinality(1..k) = k
    BY FS_Interval
  <1>9. s \in Surjection(1..k, S)
    <2>1. Cardinality(1..k) = Cardinality(S)
      BY <1>2, <1>8
    <2> QED
      BY <1>1, <1>7, <2>1, FS_Injection, Zenon
  <1> QED
    BY <1>3, <1>5, <1>9 DEF Surjection

(* The four answers of evaluateReplay.                                     *)
LEMMA ReplayEffect ==
    ASSUME BusIInv, NEW at \in Cursor, NEW b \in Seq(Nat), BufferFits(b, log), NEW replay, replay = evaluateReplay(at, b)
    PROVE  \/ at = NoCursor /\ replay = [type |-> "NONE", events |-> {}]
           \/ at # NoCursor /\ replay = [type |-> "RESET", events |-> {}]
           \/ /\ at # NoCursor /\ at.epoch = epoch /\ at.seq = Len(log)
              /\ replay = [type |-> "REPLAY", events |-> {}]
           \/ /\ at # NoCursor /\ at.epoch = epoch /\ at.seq < Len(log) /\ Len(b) > 0 /\ at.seq >= b[1]
              /\ replay = [type |-> "REPLAY", events |-> {m \in Range(b) : m > at.seq}]
  <1>1. Len(log) \in Nat /\ Len(b) \in Nat /\ (b # <<>> <=> Len(b) > 0)
    BY LenProperties, EmptySeq DEF BusIInv
  <1>2. at.epoch \in Nat /\ at.seq \in Nat
    BY DEF Cursor
  <1>3. CASE at = NoCursor
    BY <1>3 DEF evaluateReplay, NoCursor, BusIInv
  <1>4. CASE at # NoCursor /\ at.epoch # epoch
    BY <1>4 DEF evaluateReplay
  <1>5. CASE at # NoCursor /\ at.epoch = epoch /\ at.seq > Len(log)
    BY <1>1, <1>2, <1>5 DEF evaluateReplay, getLatestSequence
  <1>6. CASE at # NoCursor /\ at.epoch = epoch /\ at.seq = Len(log)
    BY <1>1, <1>2, <1>6 DEF evaluateReplay, getLatestSequence
  <1>7. CASE at # NoCursor /\ at.epoch = epoch /\ at.seq < Len(log)
    <2>1. replay = IF b = <<>> \/ at.seq < Head(b) THEN [type |-> "RESET", events |-> {}]
                   ELSE [type |-> "REPLAY", events |-> getEventsSince(b, at.seq)]
      BY <1>1, <1>2, <1>7 DEF evaluateReplay, getLatestSequence
    <2>2. CASE b = <<>> \/ at.seq < Head(b)
      BY <1>7, <2>1, <2>2
    <2>3. CASE ~(b = <<>> \/ at.seq < Head(b))
      <3>1. Head(b) = b[1] /\ Head(b) \in Nat
        BY <2>3, HeadTailProperties
      <3> QED
        BY <1>1, <1>2, <1>7, <2>1, <2>3, <3>1 DEF getEventsSince
    <2> QED
      BY <2>2, <2>3
  <1> QED
    BY <1>1, <1>2, <1>3, <1>4, <1>5, <1>6, <1>7

(* Two replies of evaluateReplay look alike to the client: the events it   *)
(* may see of those after the cursor.                                      *)
LEMMA ShownFits ==
    ASSUME BusIInv, NEW p \in Nat, NEW b \in Seq(Nat), BufferFits(b, log), NEW events, NEW s,
           \/ p = Len(log) /\ events = {}
           \/ p < Len(log) /\ Len(b) > 0 /\ p >= b[1] /\ events = {m \in Range(b) : m > p},
           s \in InOrder({n \in events : matchesWorkspace(log[n])})
    PROVE  /\ events \subseteq 1..Len(log)
           /\ [i \in 1..Len(s) |-> Event(s[i])] \in Seq(Frame)
           /\ Replays([i \in 1..Len(s) |-> Event(s[i])], p)
  <1> DEFINE shown == {n \in events : matchesWorkspace(log[n])}
             frames == [i \in 1..Len(s) |-> Event(s[i])]
  <1>1. Len(log) \in Nat /\ Len(b) \in Nat /\ epoch \in Nat /\ DOMAIN b = 1..Len(b)
    BY LenProperties DEF BusIInv
  <1>2. \A m \in events : m \in (p + 1)..Len(log) /\ m \in 1..Len(log)
    BY <1>1 DEF Range, BufferFits
  <1>3. \A m \in (p + 1)..Len(log) : Visible(m) => m \in shown
    <2> SUFFICES ASSUME NEW m \in (p + 1)..Len(log), Visible(m) PROVE m \in shown
      OBVIOUS
    <2>1. p < Len(log) /\ Len(b) > 0 /\ p >= b[1] /\ events = {x \in Range(b) : x > p}
      BY <1>1
    <2>2. 1 \in 1..Len(b) /\ b[1] \in Nat
      BY <1>1, <2>1, ElementOfSeq
    <2>3. m \in b[1]..Len(log) /\ m > p
      BY <1>1, <2>1, <2>2
    <2>4. log[m] # Rejected
      BY BusAssumption DEF Visible, matchesWorkspace
    <2>5. PICK i \in 1..Len(b) : b[i] = m
      BY <2>1, <2>3, <2>4 DEF BufferFits
    <2>6. m \in Range(b)
      BY <1>1, <2>5 DEF Range
    <2> QED
      BY <2>1, <2>3, <2>6 DEF Visible
  <1>4. shown \subseteq 1..Len(log)
    BY <1>2
  <1>5. /\ s \in Seq(Nat) /\ \A i \in 1..Len(s) : s[i] \in shown
        /\ \A i, j \in 1..Len(s) : i < j => s[i] < s[j]
        /\ \A m \in shown : \E i \in 1..Len(s) : s[i] = m
    <2> HIDE DEF shown
    <2>1. s \in InOrder(shown)
      BY DEF shown
    <2> QED
      BY <1>1, <1>4, <2>1, InOrderFacts
  <1>6. Len(s) \in Nat /\ \A i \in 1..Len(s) : Event(s[i]) \in Frame
    BY <1>1, <1>5, LenProperties, ElementOfSeq DEF Event, Frame
  <1>7. frames \in Seq(Frame)
    <2>1. frames \in [1..Len(s) -> Frame]
      BY <1>6
    <2> QED
      BY <1>6, <2>1, SeqDef
  <1>8. Len(frames) = Len(s) /\ \A i \in 1..Len(s) : frames[i] = Event(s[i])
    <2>1. Len(frames) \in Nat /\ DOMAIN frames = 1..Len(frames)
      BY <1>7, LenProperties
    <2>2. 1..Len(frames) = 1..Len(s)
      BY <2>1
    <2> QED
      BY <1>6, <2>1, <2>2
  <1> HIDE DEF frames
  <1>9. \A i \in 1..Len(s) : frames[i].kind = "event" /\ frames[i].epoch = epoch /\ frames[i].seq = s[i]
    <2>1. \A n : Event(n).kind = "event" /\ Event(n).epoch = epoch /\ Event(n).seq = n
      BY DEF Event
    <2> QED
      BY <1>8, <2>1
  <1>10. \A i \in 1..Len(s) : s[i] \in (p + 1)..Len(log)
    BY <1>2, <1>5
  <1> HIDE DEF shown
  <1>11. Replays(frames, p)
    <2>1. \A i \in 1..Len(frames) : /\ frames[i].kind = "event" /\ frames[i].epoch = epoch
                                    /\ frames[i].seq \in (p + 1)..Len(log)
      BY <1>8, <1>9, <1>10
    <2>2. \A i, j \in 1..Len(frames) : i < j => frames[i].seq < frames[j].seq
      BY <1>5, <1>8, <1>9
    <2>3. \A m \in (p + 1)..Len(log) : Visible(m) => \E i \in 1..Len(frames) : frames[i].seq = m
      BY <1>3, <1>5, <1>8, <1>9
    <2> QED
      BY <2>1, <2>2, <2>3 DEF Replays
  <1> QED
    BY <1>2, <1>7, <1>11 DEF frames

(* subscribe: the frames that stand first on the stream.                   *)
First(at, frames) ==
    \/ at = NoCursor /\ frames = <<>>
    \/ at # NoCursor /\ frames = <<ResetFrame>>
    \/ at # NoCursor /\ at.epoch = epoch /\ Replays(frames, at.seq)

LEMMA SubscribeEffect ==
    ASSUME BusIInv, NEW c \in Conns, Subscribe(c)
    PROVE  \E out \in Reply, frames \in Seq(Frame) :
             /\ conn' = [conn EXCEPT ![c] = out] /\ UNCHANGED <<epoch, log>>
             /\ buffer' \in Seq(Nat) /\ BufferFits(buffer', log)
             /\ conn[c].status = "none" /\ ~conn[c].closed /\ canSubscribe
             /\ ResponseFits(out) /\ out.status = "ok" /\ out.cursor = conn[c].cursor
             /\ (out.live <=> conn[c].cursor = NoCursor) /\ out.from = Len(log)
             /\ First(conn[c].cursor, frames)
             /\ Begins(Stream(out), frames) /\ (out.sub => Stream(out) = frames)
  <1>1. PICK r \in Reply : r = conn[c]
    BY DEF BusIInv
  <1>2. ResponseFits(r) /\ r.status = "none" /\ ~r.closed /\ canSubscribe /\ UNCHANGED <<epoch, log>>
    BY <1>1 DEF BusIInv, Subscribe
  <1>3. Len(log) \in Nat /\ epoch \in Nat /\ buffer \in Seq(Nat) /\ BufferFits(buffer, log) /\ r.cursor \in Cursor
    BY LenProperties DEF BusIInv, Reply
  <1>4. PICK b \in Prune(buffer) : \E out0 \in Subscribed(r, evaluateReplay(r.cursor, b)) :
          buffer' \in {b, buffer} /\ conn' = [conn EXCEPT ![c] = bindSubscription(out0)]
    BY <1>1 DEF Subscribe
  <1>a. PICK replay : replay = evaluateReplay(r.cursor, b)
    OBVIOUS
  <1>b. PICK out0 \in Subscribed(r, replay) : buffer' \in {b, buffer} /\ conn' = [conn EXCEPT ![c] = bindSubscription(out0)]
    BY <1>4, <1>a
  <1>5. b \in Seq(Nat) /\ BufferFits(b, log)
    BY <1>3, PruneFits
  <1>6. \/ r.cursor = NoCursor /\ replay = [type |-> "NONE", events |-> {}]
        \/ r.cursor # NoCursor /\ replay = [type |-> "RESET", events |-> {}]
        \/ /\ r.cursor # NoCursor /\ r.cursor.epoch = epoch /\ r.cursor.seq = Len(log)
           /\ replay = [type |-> "REPLAY", events |-> {}]
        \/ /\ r.cursor # NoCursor /\ r.cursor.epoch = epoch /\ r.cursor.seq < Len(log) /\ Len(b) > 0
           /\ r.cursor.seq >= b[1]
           /\ replay = [type |-> "REPLAY", events |-> {m \in Range(b) : m > r.cursor.seq}]
    BY <1>3, <1>5, <1>a, ReplayEffect
  <1>7. r.cursor.seq \in Nat
    BY <1>3 DEF Cursor
  <1>c. /\ replay.type \in {"NONE", "RESET", "REPLAY"}
        /\ replay.type = "NONE" <=> r.cursor = NoCursor
        /\ replay.type # "REPLAY" => replay.events = {}
    BY <1>6
  <1>8. PICK seen \in Nat :
          /\ seen = (IF replay.type # "REPLAY" THEN 0 ELSE IF replay.events = {} THEN r.cursor.seq ELSE Max(replay.events))
          /\ seen <= Len(log)
    <2>1. CASE replay.type # "REPLAY" \/ replay.events = {}
      BY <1>3, <1>6, <1>7, <2>1
    <2>2. CASE replay.type = "REPLAY" /\ replay.events # {}
      <3>1. replay.events = {m \in Range(b) : m > r.cursor.seq} /\ r.cursor.seq < Len(log)
        BY <1>6, <2>2
      <3>2. DOMAIN b = 1..Len(b) /\ Len(b) \in Nat /\ \A i \in 1..Len(b) : b[i] \in 1..Len(log) /\ b[i] \in Nat
        BY <1>3, <1>5, LenProperties, ElementOfSeq DEF BufferFits
      <3>3. PICK k \in 1..Len(b) : b[k] > r.cursor.seq
        BY <2>2, <3>1, <3>2 DEF Range
      <3>4. Len(b) \in 1..Len(b)
        BY <3>2
      <3>5. \A i \in 1..Len(b) : b[i] <= b[Len(b)]
        <4> SUFFICES ASSUME NEW i \in 1..Len(b) PROVE b[i] <= b[Len(b)]
          OBVIOUS
        <4>1. CASE i = Len(b)
          BY <3>2, <4>1
        <4>2. CASE i < Len(b)
          BY <1>5, <3>2, <3>4, <4>2 DEF BufferFits
        <4>3. i = Len(b) \/ i < Len(b)
          BY <3>4
        <4> QED
          BY <4>1, <4>2, <4>3
      <3>6. b[Len(b)] > r.cursor.seq
        BY <1>7, <3>2, <3>3, <3>4, <3>5
      <3>7. PICK E : E = replay.events
        OBVIOUS
      <3>8. b[Len(b)] \in E /\ \A x \in E : x \in Nat /\ b[Len(b)] >= x
        BY <3>1, <3>2, <3>4, <3>5, <3>6, <3>7 DEF Range
      <3>9. Max(E) \in E
        <4>1. Max(E) = CHOOSE x \in E : \A y \in E : x >= y
          BY DEF Max
        <4> QED
          BY <3>8, <4>1
      <3>10. Max(E) \in Nat /\ Max(E) <= Len(log)
        BY <3>1, <3>2, <3>7, <3>9 DEF Range
      <3> QED
        BY <2>2, <3>7, <3>10
    <2> QED
      BY <2>1, <2>2
  <1>d. PICK live \in BOOLEAN : live = (replay.type = "NONE")
    OBVIOUS
  <1>9. PICK s \in Reply : s = [r EXCEPT !.status = "ok", !.sub = TRUE, !.live = live, !.from = Len(log), !.seen = seen]
    BY <1>3 DEF Reply
  <1>10. /\ s.status = "ok" /\ s.sub = TRUE /\ s.live = live /\ s.from = Len(log) /\ s.seen = seen
         /\ s.wire = r.wire /\ s.queue = r.queue /\ s.closed = r.closed /\ s.draining = r.draining
         /\ s.cursor = r.cursor /\ s.cut = r.cut
    BY <1>9 DEF Reply
  <1>11. r.wire = <<>> /\ r.queue = <<>> /\ ~r.draining
    BY <1>2 DEF ResponseFits
  <1>12. PICK frames \in Seq(Frame) :
           First(r.cursor, frames) /\ \E o \in Sent(s, frames) : out0 = [o EXCEPT !.sub = TRUE]
    <2> DEFINE F == IF replay.type = "RESET" THEN {<<ResetFrame>>}
                    ELSE {[i \in 1..Len(q) |-> Event(q[i])] : q \in InOrder({n \in replay.events : matchesWorkspace(log[n])})}
    <2>a. s = [r EXCEPT !.status = "ok", !.sub = TRUE, !.live = (replay.type = "NONE"), !.from = getLatestSequence,
                        !.seen = IF replay.type # "REPLAY" THEN 0
                                 ELSE IF replay.events = {} THEN r.cursor.seq ELSE Max(replay.events)]
      BY <1>8, <1>d, <1>9 DEF getLatestSequence
    <2>b. Subscribed(r, replay) = {[o EXCEPT !.sub = TRUE] : o \in UNION {Sent(s, f) : f \in F}}
      BY <2>a DEF Subscribed
    <2>1. PICK frames \in F : \E o \in Sent(s, frames) : out0 = [o EXCEPT !.sub = TRUE]
      <3> HIDE DEF F
      <3> QED
        BY <1>b, <2>b
    <2>2. CASE replay.type = "RESET"
      <3>1. ResetFrame \in Frame
        BY <1>3 DEF ResetFrame, Frame, getLatestSequence
      <3>2. frames = <<ResetFrame>> /\ r.cursor # NoCursor
        BY <1>c, <2>1, <2>2
      <3>3. frames \in Seq(Frame)
        BY <3>1, <3>2
      <3>4. First(r.cursor, frames)
        BY <3>2 DEF First
      <3> QED
        BY <2>1, <3>3, <3>4
    <2>3. CASE replay.type = "NONE"
      <3>1. PICK q \in InOrder({n \in {} : matchesWorkspace(log[n])}) : frames = [i \in 1..Len(q) |-> Event(q[i])]
        BY <1>c, <2>1, <2>3
      <3>2. {n \in {} : matchesWorkspace(log[n])} = {} /\ {} \subseteq 1..0
        OBVIOUS
      <3>3. q \in Seq(Nat) /\ \A i \in 1..Len(q) : q[i] \in {}
        BY <3>1, <3>2, InOrderFacts
      <3>4. Len(q) = 0
        BY <3>3, LenProperties
      <3>5. frames = <<>>
        BY <3>1, <3>4
      <3> QED
        BY <1>c, <2>1, <2>3, <3>5, EmptySeq DEF First
    <2>4. CASE replay.type = "REPLAY"
      <3>1. PICK q \in InOrder({n \in replay.events : matchesWorkspace(log[n])}) : frames = [i \in 1..Len(q) |-> Event(q[i])]
        BY <2>1, <2>4
      <3>a. \/ r.cursor.seq = Len(log) /\ replay.events = {}
            \/ r.cursor.seq < Len(log) /\ Len(b) > 0 /\ r.cursor.seq >= b[1] /\ replay.events = {m \in Range(b) : m > r.cursor.seq}
        BY <1>6, <2>4
      <3>b. r.cursor # NoCursor /\ r.cursor.epoch = epoch
        BY <1>6, <2>4
      <3>c. PICK E : E = replay.events
        OBVIOUS
      <3>d. PICK p \in Nat : p = r.cursor.seq
        BY <1>7
      <3>2. frames \in Seq(Frame) /\ Replays(frames, p)
        <4>1. \/ p = Len(log) /\ E = {}
              \/ p < Len(log) /\ Len(b) > 0 /\ p >= b[1] /\ E = {m \in Range(b) : m > p}
          BY <3>a, <3>c, <3>d
        <4>2. q \in InOrder({n \in E : matchesWorkspace(log[n])})
          BY <3>1, <3>c
        <4>3. /\ [i \in 1..Len(q) |-> Event(q[i])] \in Seq(Frame)
              /\ Replays([i \in 1..Len(q) |-> Event(q[i])], p)
          BY <1>5, <4>1, <4>2, ShownFits
        <4> QED
          BY <3>1, <4>3
      <3>3. First(r.cursor, frames)
        BY <3>2, <3>b, <3>d DEF First
      <3> QED
        BY <2>1, <3>2, <3>3
    <2> QED
      BY <1>c, <2>2, <2>3, <2>4
  <1>13. PICK o \in Sent(s, frames) : out0 = [o EXCEPT !.sub = TRUE]
    BY <1>12
  <1>14. Written(s, frames, o)
    BY <1>10, <1>11, SentEffect
  <1>15. Stream(s) \o frames = frames
    BY <1>10, <1>11, ConcatEmptySeq, EmptySeq DEF Stream
  <1>16. PICK out \in Reply : out = bindSubscription(out0)
    BY <1>13, <1>14 DEF bindSubscription, Reply, Written
  <1>17. /\ out.status = "ok" /\ out.cursor = r.cursor /\ out.live = live /\ out.from = Len(log)
         /\ out.seen = seen /\ out.wire = o.wire /\ out.queue = o.queue /\ out.closed = o.closed
         /\ out.draining = o.draining /\ (out.sub => ~o.closed)
    BY <1>10, <1>13, <1>14, <1>16 DEF bindSubscription, Reply, Written
  <1>18. Stream(out) = Stream(o)
    BY <1>17 DEF Stream
  <1>19. ResponseFits(out)
    BY <1>8, <1>14, <1>17 DEF ResponseFits, Written
  <1>20. Begins(Stream(out), frames) /\ (out.sub => Stream(out) = frames)
    BY <1>14, <1>15, <1>17, <1>18 DEF Written
  <1>21. out.live <=> r.cursor = NoCursor
    BY <1>c, <1>d, <1>17
  <1>22. conn' = [conn EXCEPT ![c] = out]
    BY <1>b, <1>16
  <1>23. buffer' \in Seq(Nat) /\ BufferFits(buffer', log)
    BY <1>3, <1>b, <1>5
  <1> QED
    BY <1>1, <1>2, <1>12, <1>17, <1>19, <1>20, <1>21, <1>22, <1>23

----------------------------------------------------------------------------
(* The client's half.                                                      *)

Attempt == Running \ aborted

ClientTypeOK ==
    /\ state \in {"OFFLINE", "CONNECTING", "CONNECTED_STREAMING", "RECONNECTING", "DEGRADED_POLLING"}
    /\ cursor \in Cursor /\ base \in Nat /\ got \subseteq Nat
    /\ stopped \in BOOLEAN /\ connecting \in BOOLEAN
    /\ watchdog \in BOOLEAN /\ reconnectTimer \in BOOLEAN /\ probeTimer \in BOOLEAN
    /\ task \in [Conns -> {"idle", "fetching", "reading"}]
    /\ aborted \subseteq Running

(* The attempt that is not aborted is the current one, its state is the    *)
(* client's, and no timer runs beside it.                                  *)
AttemptFits ==
    /\ \A c \in Attempt : /\ ctl = c /\ ~stopped /\ ~reconnectTimer /\ ~probeTimer
                          /\ task[c] = "fetching" => state = "CONNECTING"
                          /\ task[c] = "reading" => state = "CONNECTED_STREAMING"
    /\ connecting => \E c \in Attempt : task[c] = "fetching"
    /\ watchdog => \E c \in Attempt : task[c] = "reading"
    /\ state \in {"CONNECTING", "CONNECTED_STREAMING"} => Attempt # {}

(* Which timer carries the client on; one that has been aborted waits for  *)
(* its handler first.                                                      *)
TimersFit ==
    /\ stopped => state = "OFFLINE" /\ ~reconnectTimer /\ ~probeTimer
    /\ state = "RECONNECTING" => (reconnectTimer /\ aborted = {}) \/ (\E c \in Running : aborted = {c})
    /\ state = "DEGRADED_POLLING" => probeTimer
    /\ aborted # {} => ~reconnectTimer /\ ~probeTimer
    /\ ~(reconnectTimer /\ probeTimer)

ClientIInv == ClientTypeOK /\ AttemptFits /\ TimersFit

LEMMA ClientStutter ==
    ASSUME ClientIInv, UNCHANGED <<state, cursor, stopped, connecting, ctl, timers, task, aborted, base, got>>
    PROVE  ClientIInv'
  BY DEF ClientIInv, ClientTypeOK, AttemptFits, TimersFit, Attempt, Running, timers

(* A new attempt, while there is none.                                     *)
LEMMA AttemptStarts ==
    ASSUME ClientIInv, attemptConnect, Attempt = {}, ~stopped', stopped' \in BOOLEAN, aborted' = aborted,
           watchdog' = watchdog, ~reconnectTimer', ~probeTimer', reconnectTimer' \in BOOLEAN, probeTimer' \in BOOLEAN,
           UNCHANGED <<cursor, base, got>>
    PROVE  ClientIInv'
  <1> USE DEF ClientIInv, ClientTypeOK
  <1>1. ~connecting /\ ~watchdog
    BY DEF AttemptFits
  <1>2. CASE state' = "OFFLINE" /\ UNCHANGED <<connecting, ctl, task>>
    <2>1. Running' = Running /\ Attempt' = {}
      BY <1>2 DEF Running, Attempt
    <2>2. ClientTypeOK'
      BY <1>2, <2>1
    <2>3. AttemptFits'
      BY <1>1, <1>2, <2>1 DEF AttemptFits
    <2>4. TimersFit'
      BY <1>2 DEF TimersFit
    <2> QED
      BY <2>2, <2>3, <2>4
  <1>3. ASSUME NEW c \in Conns, task[c] = "idle", state' = "CONNECTING", connecting' = TRUE, ctl' = c,
               task' = [task EXCEPT ![c] = "fetching"]
        PROVE  ClientIInv'
    <2>1. task' \in [Conns -> {"idle", "fetching", "reading"}] /\ task'[c] = "fetching"
          /\ \A d \in Conns : d # c => task'[d] = task[d]
      BY <1>3
    <2>2. Running' = Running \cup {c} /\ c \notin Running
      BY <1>3, <2>1 DEF Running
    <2>3. Attempt' = {c}
      BY <2>2 DEF Attempt
    <2>4. ClientTypeOK'
      BY <1>3, <2>1, <2>2
    <2>5. AttemptFits'
      BY <1>1, <1>3, <2>1, <2>3 DEF AttemptFits
    <2>6. TimersFit'
      BY <1>3 DEF TimersFit
    <2> QED
      BY <2>4, <2>5, <2>6
  <1> QED
    BY <1>1, <1>2, <1>3 DEF attemptConnect

(* The current attempt is over; what is aborted stays so.                  *)
LEMMA AttemptEnds ==
    ASSUME ClientIInv, NEW c \in Conns, task[c] # "idle", aborted = {},
           task' = [task EXCEPT ![c] = "idle"], ~connecting' /\ connecting' \in BOOLEAN,
           ~watchdog' /\ watchdog' \in BOOLEAN,
           UNCHANGED <<cursor, stopped, aborted, base, got>>,
           reconnectTimer' \in BOOLEAN, probeTimer' \in BOOLEAN,
           \/ state' = "OFFLINE" /\ ~reconnectTimer' /\ ~probeTimer'
           \/ state' = "RECONNECTING" /\ reconnectTimer' /\ ~probeTimer'
           \/ state' = "DEGRADED_POLLING" /\ ~reconnectTimer' /\ probeTimer'
    PROVE  ClientIInv'
  <1> USE DEF ClientIInv, ClientTypeOK
  <1>1. c \in Attempt /\ ~stopped
    BY DEF Attempt, Running, AttemptFits
  <1>2. Attempt = {c}
    BY <1>1 DEF AttemptFits, Attempt
  <1>3. task' \in [Conns -> {"idle", "fetching", "reading"}] /\ task'[c] = "idle" /\ \A d \in Conns : d # c => task'[d] = task[d]
    OBVIOUS
  <1>4. Running' = {} /\ Attempt' = {}
    BY <1>2, <1>3 DEF Running, Attempt
  <1>5. ClientTypeOK'
    BY <1>3, <1>4
  <1>6. AttemptFits'
    BY <1>4 DEF AttemptFits
  <1>7. TimersFit'
    BY <1>1 DEF TimersFit
  <1> QED
    BY <1>5, <1>6, <1>7

LEMMA NoTimerBeside ==
    ASSUME ClientIInv
    PROVE  /\ reconnectTimer \/ probeTimer \/ stopped => Attempt = {}
           /\ state \notin {"CONNECTED_STREAMING", "CONNECTING"} => Attempt = {}
  <1>1. \A c \in Attempt : c \in Conns /\ task[c] \in {"fetching", "reading"}
    BY DEF ClientIInv, ClientTypeOK, Attempt, Running
  <1> QED
    BY <1>1 DEF ClientIInv, AttemptFits

LEMMA PageKeepsClient ==
    ASSUME ClientIInv, Connect \/ Disconnect
    PROVE  ClientIInv'
  <1> USE DEF ClientIInv, ClientTypeOK
  <1>1. CASE Connect
    <2>1. Attempt = {}
      BY <1>1, NoTimerBeside DEF Connect
    <2> QED
      BY <1>1, <2>1, AttemptStarts DEF Connect
  <1>2. CASE Disconnect
    <2>1. /\ stopped' = TRUE /\ connecting' = FALSE /\ watchdog' = FALSE /\ reconnectTimer' = FALSE /\ probeTimer' = FALSE
          /\ state' = "OFFLINE" /\ UNCHANGED <<cursor, task, base, got>> /\ aborted' = aborted \cup ({ctl} \cap Running)
      BY <1>2 DEF Disconnect, Abort
    <2>2. Running' = Running /\ aborted' \subseteq Running
      BY <2>1 DEF Running
    <2>3. Attempt' = {}
      BY <2>1, <2>2 DEF AttemptFits, Attempt
    <2>4. ClientTypeOK'
      BY <2>1, <2>2
    <2>5. AttemptFits'
      BY <2>1, <2>3 DEF AttemptFits
    <2>6. TimersFit'
      BY <2>1 DEF TimersFit
    <2> QED
      BY <2>4, <2>5, <2>6
  <1> QED
    BY <1>1, <1>2

LEMMA TimerKeepsClient ==
    ASSUME ClientIInv, ReconnectFires \/ ProbeFires \/ onWatchdogTimeout
    PROVE  ClientIInv'
  <1> USE DEF ClientIInv, ClientTypeOK
  <1>1. CASE ReconnectFires
    <2>1. Attempt = {} /\ ~stopped /\ ~probeTimer
      BY <1>1, NoTimerBeside DEF ReconnectFires, TimersFit
    <2> QED
      BY <1>1, <2>1, AttemptStarts DEF ReconnectFires
  <1>2. CASE ProbeFires /\ state = "DEGRADED_POLLING"
    <2>1. Attempt = {} /\ ~stopped /\ ~reconnectTimer
      BY <1>2, NoTimerBeside DEF ProbeFires, TimersFit
    <2> QED
      BY <1>2, <2>1, AttemptStarts DEF ProbeFires
  <1>3. CASE ProbeFires /\ state # "DEGRADED_POLLING"
    <2>1. /\ UNCHANGED <<state, cursor, stopped, connecting, ctl, watchdog, reconnectTimer, task, aborted, base, got>>
          /\ probeTimer' = FALSE
      BY <1>3 DEF ProbeFires
    <2>2. Running' = Running /\ Attempt' = Attempt
      BY <2>1 DEF Running, Attempt
    <2>3. ClientTypeOK' /\ AttemptFits'
      BY <2>1, <2>2 DEF AttemptFits
    <2>4. TimersFit'
      BY <1>3, <2>1, <2>2 DEF TimersFit
    <2> QED
      BY <2>3, <2>4
  <1>4. CASE onWatchdogTimeout
    <2>1. PICK c \in Attempt : task[c] = "reading"
      BY <1>4 DEF onWatchdogTimeout, AttemptFits
    <2>2. /\ aborted = {} /\ watchdog' = FALSE /\ state' = "RECONNECTING"
          /\ aborted' = aborted \cup ({ctl} \cap Running)
          /\ UNCHANGED <<cursor, stopped, connecting, ctl, reconnectTimer, probeTimer, task, base, got>>
      BY <1>4 DEF onWatchdogTimeout, Abort
    <2>3. ctl = c /\ c \in Running /\ \A d \in Attempt : d = c
      BY <2>1 DEF AttemptFits, Attempt
    <2>4. ~connecting /\ ~stopped /\ ~reconnectTimer /\ ~probeTimer
      BY <2>1, <2>3 DEF AttemptFits
    <2>5. Running' = Running /\ aborted' = {c} /\ Attempt' = {}
      BY <2>2, <2>3 DEF Running, Attempt
    <2>6. ClientTypeOK'
      BY <2>2, <2>3, <2>5
    <2>7. AttemptFits'
      BY <2>2, <2>4, <2>5 DEF AttemptFits
    <2>8. TimersFit'
      BY <2>2, <2>3, <2>4, <2>5 DEF TimersFit
    <2> QED
      BY <2>6, <2>7, <2>8
  <1> QED
    BY <1>1, <1>2, <1>3, <1>4

(* A retry or a probe is set.                                              *)
LEMMA ScheduleEffect ==
    ASSUME scheduleReconnect, ~reconnectTimer, reconnectTimer \in BOOLEAN, ~probeTimer, probeTimer \in BOOLEAN
    PROVE  /\ reconnectTimer' \in BOOLEAN /\ probeTimer' \in BOOLEAN
           /\ \/ state' = "RECONNECTING" /\ reconnectTimer' /\ ~probeTimer'
              \/ state' = "DEGRADED_POLLING" /\ ~reconnectTimer' /\ probeTimer'
  BY DEF scheduleReconnect

LEMMA OneAttempt ==
    ASSUME ClientIInv, NEW c \in Conns, task[c] # "idle", aborted = {}
    PROVE  /\ Attempt = {c} /\ ~stopped /\ ~reconnectTimer /\ ~probeTimer
           /\ task[c] # "fetching" => ~connecting
           /\ task[c] # "reading" => ~watchdog
  <1>1. c \in Attempt
    BY DEF Attempt, Running
  <1>2. Attempt = {c}
    BY <1>1 DEF ClientIInv, AttemptFits
  <1> QED
    BY <1>1, <1>2 DEF ClientIInv, AttemptFits

LEMMA ResponseKeepsClient ==
    ASSUME BusIInv, ClientIInv, NEW c \in Conns, Response(c)
    PROVE  ClientIInv'
  <1> USE DEF ClientIInv, ClientTypeOK
  <1>1. /\ task[c] = "fetching" /\ aborted = {} /\ connecting' = FALSE
        /\ UNCHANGED <<cursor, stopped, ctl, aborted>>
    BY DEF Response
  <1>2. Attempt = {c} /\ ~stopped /\ ~reconnectTimer /\ ~probeTimer /\ ~watchdog
    BY <1>1, OneAttempt
  <1>3. CASE conn[c].status = "401"
    <2>1. state' = "OFFLINE" /\ task' = [task EXCEPT ![c] = "idle"] /\ UNCHANGED <<watchdog, reconnectTimer, probeTimer, base, got>>
      BY <1>3 DEF Response, timers
    <2> QED
      BY <1>1, <1>2, <2>1, AttemptEnds
  <1>4. CASE conn[c].status = "429"
    <2>1. state' = "DEGRADED_POLLING" /\ probeTimer' = TRUE /\ task' = [task EXCEPT ![c] = "idle"] /\ UNCHANGED <<watchdog, reconnectTimer, base, got>>
      BY <1>4 DEF Response
    <2> QED
      BY <1>1, <1>2, <2>1, AttemptEnds
  <1>5. CASE conn[c].status = "5xx"
    <2>1. scheduleReconnect /\ task' = [task EXCEPT ![c] = "idle"] /\ UNCHANGED <<watchdog, base, got>>
      BY <1>5 DEF Response
    <2>2. /\ reconnectTimer' \in BOOLEAN /\ probeTimer' \in BOOLEAN
          /\ \/ state' = "RECONNECTING" /\ reconnectTimer' /\ ~probeTimer'
             \/ state' = "DEGRADED_POLLING" /\ ~reconnectTimer' /\ probeTimer'
      BY <1>2, <2>1, ScheduleEffect
    <2> QED
      BY <1>1, <1>2, <2>1, <2>2, AttemptEnds
  <1>6. CASE conn[c].status \notin {"401", "429", "5xx"}
    <2>1. /\ state' = "CONNECTED_STREAMING" /\ watchdog' = TRUE /\ task' = [task EXCEPT ![c] = "reading"]
          /\ base' = (IF conn[c].live THEN conn[c].from ELSE base) /\ got' = (IF conn[c].live THEN {} ELSE got)
          /\ UNCHANGED <<reconnectTimer, probeTimer>>
      BY <1>6 DEF Response
    <2>2. conn[c].from \in Nat
      BY DEF BusIInv, Reply
    <2>3. task' \in [Conns -> {"idle", "fetching", "reading"}] /\ task'[c] = "reading" /\ \A d \in Conns : d # c => task'[d] = task[d]
      BY <2>1
    <2>4. Running' = Running /\ Attempt' = {c}
      BY <1>1, <1>2, <2>3 DEF Running, Attempt
    <2>5. ClientTypeOK'
      BY <1>1, <2>1, <2>2, <2>3, <2>4
    <2>6. AttemptFits'
      BY <1>1, <1>2, <2>1, <2>3, <2>4 DEF AttemptFits
    <2>7. TimersFit'
      BY <1>1, <1>2, <2>1 DEF TimersFit
    <2> QED
      BY <2>5, <2>6, <2>7
  <1> QED
    BY <1>3, <1>4, <1>5, <1>6

LEMMA AbortedKeepsClient ==
    ASSUME ClientIInv, NEW c \in Conns, FetchAborted(c) \/ ReadAborted(c)
    PROVE  ClientIInv'
  <1> USE DEF ClientIInv, ClientTypeOK
  <1>1. /\ c \in aborted /\ aborted' = aborted \ {c} /\ task' = [task EXCEPT ![c] = "idle"]
        /\ UNCHANGED <<cursor, stopped, ctl, base, got>>
        /\ connecting' = connecting \/ connecting' = FALSE
        /\ watchdog' = watchdog \/ watchdog' = FALSE
        /\ \/ state # "RECONNECTING" /\ UNCHANGED <<state, reconnectTimer, probeTimer>>
           \/ stopped /\ UNCHANGED <<state, reconnectTimer, probeTimer>>
           \/ state = "RECONNECTING" /\ scheduleReconnect
    BY DEF FetchAborted, ReadAborted
  <1>2. task' \in [Conns -> {"idle", "fetching", "reading"}] /\ task'[c] = "idle" /\ \A d \in Conns : d # c => task'[d] = task[d]
    BY <1>1
  <1>3. Running' = Running \ {c} /\ Attempt' = Attempt /\ c \notin Attempt
    BY <1>1, <1>2 DEF Running, Attempt
  <1>4. ~reconnectTimer /\ ~probeTimer /\ state # "DEGRADED_POLLING" /\ (stopped => state # "RECONNECTING")
    BY <1>1 DEF TimersFit
  <1>5. CASE state # "RECONNECTING"
    <2>1. UNCHANGED <<state, reconnectTimer, probeTimer>>
      BY <1>1, <1>5
    <2>2. ClientTypeOK'
      BY <1>1, <1>2, <1>3, <2>1
    <2>3. AttemptFits'
      BY <1>1, <1>2, <1>3, <2>1 DEF AttemptFits
    <2>4. TimersFit'
      BY <1>1, <1>4, <1>5, <2>1 DEF TimersFit
    <2> QED
      BY <2>2, <2>3, <2>4
  <1>6. CASE state = "RECONNECTING"
    <2>1. scheduleReconnect /\ ~stopped
      BY <1>1, <1>4, <1>6
    <2>2. /\ reconnectTimer' \in BOOLEAN /\ probeTimer' \in BOOLEAN
          /\ \/ state' = "RECONNECTING" /\ reconnectTimer' /\ ~probeTimer'
             \/ state' = "DEGRADED_POLLING" /\ ~reconnectTimer' /\ probeTimer'
      BY <1>4, <2>1, ScheduleEffect
    <2>3. aborted = {c}
      BY <1>1, <1>4, <1>6 DEF TimersFit
    <2>4. Attempt = {} /\ aborted' = {}
      BY <1>1, <1>6, <2>3, NoTimerBeside
    <2>5. ClientTypeOK'
      BY <1>1, <1>2, <1>3, <2>2, <2>4
    <2>6. ~connecting' /\ ~watchdog'
      BY <1>1, <2>4 DEF AttemptFits
    <2>7. AttemptFits'
      BY <1>3, <2>2, <2>4, <2>6 DEF AttemptFits
    <2>8. TimersFit'
      BY <1>1, <2>1, <2>2, <2>4 DEF TimersFit
    <2> QED
      BY <2>5, <2>7, <2>8
  <1> QED
    BY <1>5, <1>6

(* The client's types under one frame.                                     *)
LEMMA FrameTypes ==
    ASSUME NEW f \in Frame, cursor \in Cursor, base \in Nat, got \subseteq Nat, dispatchFrame(f)
    PROVE  cursor' \in Cursor /\ base' \in Nat /\ got' \subseteq Nat
  <1>1. f.kind \in {"event", "reset", "ping"} /\ f.epoch \in Nat /\ f.seq \in Nat
    BY DEF Frame
  <1>2. CASE f.kind = "reset"
    BY <1>1, <1>2 DEF dispatchFrame, NoCursor, Cursor
  <1>3. CASE f.kind = "event"
    <2>1. /\ cursor' = [epoch |-> f.epoch, seq |-> f.seq] /\ UNCHANGED base
          /\ got' = (IF cursor.epoch \in {0, f.epoch} THEN got ELSE {}) \cup {f.seq}
      BY <1>3 DEF dispatchFrame
    <2> QED
      BY <1>1, <2>1 DEF Cursor
  <1>4. CASE f.kind = "ping"
    BY <1>4 DEF dispatchFrame
  <1> QED
    BY <1>1, <1>2, <1>3, <1>4

LEMMA ConnKeepsClient ==
    ASSUME BusIInv, ClientIInv, NEW c \in Conns, FetchFails(c) \/ ReadEnds(c) \/ ReadFrame(c)
    PROVE  ClientIInv'
  <1> USE DEF ClientIInv, ClientTypeOK
  <1>1. CASE FetchFails(c) \/ ReadEnds(c)
    <2>1. /\ task[c] # "idle" /\ aborted = {} /\ scheduleReconnect /\ task' = [task EXCEPT ![c] = "idle"]
          /\ UNCHANGED <<cursor, stopped, aborted, base, got>>
      BY <1>1 DEF FetchFails, ReadEnds
    <2>2. Attempt = {c} /\ ~reconnectTimer /\ ~probeTimer
      BY <2>1, OneAttempt
    <2>3. ~connecting' /\ connecting' \in BOOLEAN /\ ~watchdog' /\ watchdog' \in BOOLEAN
      <3>1. CASE FetchFails(c)
        <4>1. task[c] = "fetching" /\ connecting' = FALSE /\ watchdog' = watchdog
          BY <3>1 DEF FetchFails
        <4> QED
          BY <2>1, <4>1, OneAttempt
      <3>2. CASE ReadEnds(c)
        <4>1. task[c] = "reading" /\ connecting' = connecting /\ watchdog' = FALSE
          BY <3>2 DEF ReadEnds
        <4> QED
          BY <2>1, <4>1, OneAttempt
      <3> QED
        BY <1>1, <3>1, <3>2
    <2>4. /\ reconnectTimer' \in BOOLEAN /\ probeTimer' \in BOOLEAN
          /\ \/ state' = "RECONNECTING" /\ reconnectTimer' /\ ~probeTimer'
             \/ state' = "DEGRADED_POLLING" /\ ~reconnectTimer' /\ probeTimer'
      BY <2>1, <2>2, ScheduleEffect
    <2> QED
      BY <2>1, <2>3, <2>4, AttemptEnds
  <1>2. CASE ReadFrame(c)
    <2>1. /\ task[c] = "reading" /\ aborted = {} /\ watchdog' = TRUE /\ dispatchFrame(Head(conn[c].wire)) /\ conn[c].wire # <<>>
          /\ UNCHANGED <<state, stopped, connecting, ctl, reconnectTimer, probeTimer, task, aborted>>
      BY <1>2 DEF ReadFrame
    <2>2. Head(conn[c].wire) \in Frame
      <3>1. conn[c].wire \in Seq(Frame)
        BY DEF BusIInv, Reply
      <3> QED
        BY <2>1, <3>1, HeadTailProperties
    <2>3. cursor' \in Cursor /\ base' \in Nat /\ got' \subseteq Nat
      BY <2>1, <2>2, FrameTypes
    <2>4. Running' = Running /\ Attempt' = Attempt /\ Attempt = {c}
      BY <2>1, OneAttempt DEF Running, Attempt
    <2>5. ClientTypeOK'
      BY <2>1, <2>3, <2>4
    <2>6. AttemptFits'
      BY <2>1, <2>4 DEF AttemptFits
    <2>7. TimersFit'
      BY <2>1, <2>4 DEF TimersFit
    <2> QED
      BY <2>5, <2>6, <2>7
  <1> QED
    BY <1>1, <1>2

LEMMA ClientNext ==
    ASSUME BusIInv, ClientIInv, [Next]_vars
    PROVE  ClientIInv'
  <1>1. CASE UNCHANGED clientVars
    BY <1>1, ClientStutter DEF clientVars
  <1>2. CASE ~UNCHANGED clientVars
    BY <1>2, PageKeepsClient, TimerKeepsClient, ResponseKeepsClient, AbortedKeepsClient, ConnKeepsClient DEF Next, vars
  <1> QED
    BY <1>1, <1>2

----------------------------------------------------------------------------
(* Both halves together.                                                   *)

LEMMA BusInitFits == BusInit => BusIInv
  <1> SUFFICES ASSUME BusInit PROVE BusIInv
    OBVIOUS
  <1>1. Idle \in Reply
    BY EmptySeq DEF Idle, Reply, NoCursor, Cursor
  <1>2. epoch \in Nat \ {0} /\ log \in Seq(Origins \cup {Rejected}) /\ buffer \in Seq(Nat) /\ conn \in [Conns -> Reply]
    BY <1>1, EmptySeq DEF BusInit
  <1>3. ResponseFits(Idle)
    BY DEF ResponseFits, Idle
  <1>4. BufferFits(buffer, log)
    BY EmptySeq DEF BusInit, BufferFits
  <1>5. Subscribers <= MaxStreams
    <2>1. {c \in Conns : conn[c].sub} = {}
      BY DEF BusInit, Idle
    <2> QED
      BY <2>1, FS_EmptySet, BusAssumption DEF Subscribers
  <1> QED
    BY <1>2, <1>3, <1>4, <1>5 DEF BusIInv, BusInit

(* Responses that only end, are cut or wait for a client.                  *)
LEMMA SimpleKeepsBus ==
    ASSUME BusIInv, NEW c \in Conns, NEW status \in {"401", "429", "5xx"},
           OnDisconnect(c) \/ Cut(c) \/ Refuse(c, status)
    PROVE  BusIInv'
  <1>1. PICK r \in Reply : r = conn[c]
    BY DEF BusIInv
  <1>2. ResponseFits(r) /\ buffer \in Seq(Nat) /\ BufferFits(buffer, log)
    BY <1>1 DEF BusIInv
  <1>3. UNCHANGED <<epoch, log, buffer>>
    BY DEF OnDisconnect, Cut, Refuse
  <1>4. CASE OnDisconnect(c)
    <2>1. conn' = [conn EXCEPT ![c] = Close(r)]
      BY <1>1, <1>4 DEF OnDisconnect
    <2>2. ResponseFits(Close(r)) /\ Close(r) \in Reply /\ ~Close(r).sub
      BY <1>2, CloseEffect DEF ResponseFits
    <2> QED
      BY <1>2, <1>3, <2>1, <2>2, ReplaceOne
  <1>5. CASE Cut(c)
    <2>1. PICK s \in Reply : s = [r EXCEPT !.cut = TRUE]
      BY DEF Reply
    <2>2. conn' = [conn EXCEPT ![c] = s]
      BY <1>1, <1>5, <2>1 DEF Cut
    <2>3. ResponseFits(s) /\ s.sub = r.sub
      BY <1>2, <2>1 DEF ResponseFits, Reply
    <2> QED
      BY <1>1, <1>2, <1>3, <2>2, <2>3, ReplaceOne
  <1>6. CASE Refuse(c, status)
    <2>1. PICK s \in Reply : s = [r EXCEPT !.status = status, !.closed = TRUE]
      BY DEF Reply
    <2>2. conn' = [conn EXCEPT ![c] = s]
      BY <1>1, <1>6, <2>1 DEF Refuse
    <2>3. r.status = "none"
      BY <1>1, <1>6 DEF Refuse
    <2>4. ResponseFits(s) /\ ~s.sub
      BY <1>2, <2>1, <2>3 DEF ResponseFits, Reply
    <2> QED
      BY <1>1, <1>2, <1>3, <2>2, <2>4, ReplaceOne
  <1> QED
    BY <1>4, <1>5, <1>6

LEMMA PublishKeepsBus ==
    ASSUME BusIInv, NEW w \in Origins, Publish(w)
    PROVE  BusIInv'
  <1>1. /\ log' = Append(log, w) /\ UNCHANGED epoch
        /\ buffer' \in Seq(Nat) /\ BufferFits(buffer', log')
        /\ conn' \in [Conns -> Reply]
        /\ \A c \in Conns : conn'[c] = conn[c] \/ (ResponseFits(conn[c])' /\ (conn'[c].sub => conn[c].sub))
    BY PublishEffect
  <1>2. log \in Seq(Origins \cup {Rejected}) /\ Len(log) \in Nat
    BY LenProperties DEF BusIInv
  <1>3. log' \in Seq(Origins \cup {Rejected}) /\ Len(log') = Len(log) + 1
    BY <1>1, <1>2, AppendProperties
  <1>4. ASSUME NEW c \in Conns PROVE ResponseFits(conn[c])'
    <2>1. CASE conn'[c] = conn[c]
      <3>1. conn[c].seen \in Nat /\ ResponseFits(conn[c])
        BY DEF BusIInv, Reply
      <3> QED
        BY <1>2, <1>3, <2>1, <3>1 DEF ResponseFits
    <2> QED
      BY <1>1, <2>1
  <1>5. Subscribers' <= MaxStreams
    <2>1. CASE Conns = {}
      BY <2>1, NoConns DEF Subscribers
    <2>2. ASSUME NEW c \in Conns PROVE Subscribers' <= MaxStreams
      BY <1>1, SubscribersBounded
    <2> QED
      BY <2>1, <2>2
  <1> QED
    BY <1>1, <1>3, <1>4, <1>5 DEF BusIInv

LEMMA RejectedKeepsBus == ASSUME BusIInv, PublishRejected PROVE BusIInv'
  <1>1. log' = Append(log, Rejected) /\ UNCHANGED <<epoch, buffer, conn>>
    BY DEF PublishRejected
  <1>2. log \in Seq(Origins \cup {Rejected}) /\ Len(log) \in Nat /\ buffer \in Seq(Nat) /\ BufferFits(buffer, log)
    BY LenProperties DEF BusIInv
  <1>3. log' \in Seq(Origins \cup {Rejected}) /\ Len(log') = Len(log) + 1 /\ BufferFits(buffer, log')
    BY <1>1, <1>2, AppendProperties, AppendFits
  <1>4. ASSUME NEW c \in Conns PROVE ResponseFits(conn[c])'
    <2>1. conn[c].seen \in Nat /\ ResponseFits(conn[c])
      BY DEF BusIInv, Reply
    <2> QED
      BY <1>1, <1>2, <1>3, <2>1 DEF ResponseFits
  <1>5. Subscribers' <= MaxStreams
    BY <1>1 DEF Subscribers, BusIInv
  <1> QED
    BY <1>1, <1>3, <1>4, <1>5 DEF BusIInv

LEMMA RestartEffect ==
    ASSUME BusIInv, Restart
    PROVE  /\ epoch' = epoch + 1 /\ log' = <<>> /\ buffer' = <<>> /\ conn' \in [Conns -> Reply]
           /\ \A c \in Conns :
                /\ ~conn'[c].sub /\ ResponseFits(conn[c])' /\ conn'[c].status = conn[c].status
                /\ conn'[c].cursor = conn[c].cursor /\ conn'[c].live = conn[c].live
                /\ \/ conn[c].status = "free" /\ conn'[c] = conn[c]
                   \/ conn'[c].closed /\ Begins(Stream(conn'[c]), Stream(conn[c]))
  <1>1. epoch' = epoch + 1 /\ log' = <<>> /\ buffer' = <<>>
    BY DEF Restart
  <1>2. ASSUME NEW c \in Conns
        PROVE  /\ conn'[c] \in Reply /\ ~conn'[c].sub /\ ResponseFits(conn[c])' /\ conn'[c].status = conn[c].status
               /\ conn'[c].cursor = conn[c].cursor /\ conn'[c].live = conn[c].live
               /\ \/ conn[c].status = "free" /\ conn'[c] = conn[c]
                  \/ conn'[c].closed /\ Begins(Stream(conn'[c]), Stream(conn[c]))
    <2>1. PICK r \in Reply : r = conn[c]
      BY DEF BusIInv
    <2>2. ResponseFits(r)
      BY <2>1 DEF BusIInv
    <2>3. CASE r.status = "free"
      <3>1. conn'[c] = r
        BY <2>1, <2>3 DEF Restart
      <3> QED
        BY <2>1, <2>2, <2>3, <3>1 DEF ResponseFits
    <2>4. CASE r.status # "free"
      <3>1. PICK s \in Reply : s = Close(r)
        BY CloseEffect
      <3>2. PICK u \in Reply : u = [s EXCEPT !.cut = TRUE]
        BY DEF Reply
      <3>3. conn'[c] = u
        BY <2>1, <2>4, <3>1, <3>2 DEF Restart
      <3>4. /\ u.sub = s.sub /\ u.closed = s.closed /\ u.queue = s.queue /\ u.wire = s.wire /\ u.status = s.status
            /\ u.draining = s.draining /\ u.live = s.live /\ u.cursor = s.cursor
        BY <3>2 DEF Reply
      <3>5. Stream(u) = Stream(s)
        BY <3>4 DEF Stream
      <3> QED
        BY <2>1, <2>2, <3>1, <3>3, <3>4, <3>5, CloseEffect DEF ResponseFits
    <2> QED
      BY <2>3, <2>4
  <1>3. conn' \in [Conns -> Reply]
    <2>1. conn' = [c \in Conns |-> conn'[c]]
      BY DEF Restart
    <2> QED
      BY <1>2, <2>1
  <1> QED
    BY <1>1, <1>2, <1>3

LEMMA RestartKeepsBus == ASSUME BusIInv, Restart PROVE BusIInv'
  <1>1. /\ epoch' = epoch + 1 /\ log' = <<>> /\ buffer' = <<>> /\ conn' \in [Conns -> Reply]
        /\ \A c \in Conns : ~conn'[c].sub /\ ResponseFits(conn[c])'
    BY RestartEffect
  <1>2. epoch' \in Nat \ {0}
    BY <1>1 DEF BusIInv
  <1>3. log' \in Seq(Origins \cup {Rejected}) /\ buffer' \in Seq(Nat) /\ BufferFits(buffer', log')
    BY <1>1, EmptySeq DEF BufferFits
  <1>4. Subscribers' <= MaxStreams
    <2>1. {c \in Conns : conn'[c].sub} = {}
      BY <1>1
    <2>2. Subscribers' = Cardinality({c \in Conns : conn'[c].sub})
      BY DEF Subscribers
    <2>3. Cardinality({c \in Conns : conn'[c].sub}) = 0
      BY <2>1, FS_EmptySet
    <2> QED
      BY <2>2, <2>3, BusAssumption
  <1> QED
    BY <1>1, <1>2, <1>3, <1>4 DEF BusIInv

LEMMA BusStepKeepsBus == ASSUME BusIInv, BusStep PROVE BusIInv'
  <1>1. ASSUME NEW c \in Conns, HandleDrain(c) PROVE BusIInv'
    <2>1. PICK out \in Reply : conn' = [conn EXCEPT ![c] = out] /\ UNCHANGED <<epoch, log, buffer>>
             /\ ResponseFits(out) /\ (out.sub => conn[c].sub)
      BY <1>1, DrainEffect
    <2> QED
      BY <2>1, ReplaceOne DEF BusIInv
  <1>2. ASSUME NEW c \in Conns, SendHeartbeat(c) PROVE BusIInv'
    <2>1. PICK out \in Reply : conn' = [conn EXCEPT ![c] = out] /\ UNCHANGED <<epoch, log, buffer>>
             /\ ResponseFits(out) /\ (out.sub => conn[c].sub)
      BY <1>2, HeartbeatEffect
    <2> QED
      BY <2>1, ReplaceOne DEF BusIInv
  <1>3. ASSUME NEW c \in Conns, Subscribe(c) PROVE BusIInv'
    <2>1. PICK out \in Reply : conn' = [conn EXCEPT ![c] = out] /\ UNCHANGED <<epoch, log>>
             /\ buffer' \in Seq(Nat) /\ BufferFits(buffer', log) /\ ResponseFits(out) /\ canSubscribe
      BY <1>3, SubscribeEffect
    <2> QED
      BY <2>1, ReplaceOne
  <1>4. ASSUME NEW c \in Conns, OnDisconnect(c) \/ Cut(c) PROVE BusIInv'
    BY <1>4, SimpleKeepsBus
  <1> QED
    BY <1>1, <1>2, <1>3, <1>4, SimpleKeepsBus, PublishKeepsBus, RejectedKeepsBus, RestartKeepsBus DEF BusStep

(* What the client does to a response.                                     *)
LEMMA ClientOnConn ==
    ASSUME BusIInv, ClientIInv, Next, ~BusStep
    PROVE  /\ UNCHANGED <<epoch, log, buffer>>
           /\ \/ UNCHANGED conn
              \/ \E c \in Conns : /\ task[c] = "idle" /\ task'[c] = "fetching" /\ UNCHANGED cursor
                                  /\ conn' = [conn EXCEPT ![c] = [Idle EXCEPT !.status = "none", !.cursor = cursor]]
              \/ \E c \in Conns : c \in aborted' /\ conn' = [conn EXCEPT ![c].cut = TRUE]
              \/ \E c \in Conns : ReadFrame(c)
  <1>1. CASE attemptConnect /\ UNCHANGED <<epoch, log, buffer, cursor>>
    <2>1. CASE UNCHANGED conn
      BY <1>1, <2>1
    <2>2. CASE ~UNCHANGED conn
      <3>1. PICK c \in Conns : /\ task[c] = "idle" /\ task' = [task EXCEPT ![c] = "fetching"]
                               /\ conn' = [conn EXCEPT ![c] = [Idle EXCEPT !.status = "none", !.cursor = cursor]]
        BY <1>1, <2>2 DEF attemptConnect
      <3>2. task'[c] = "fetching"
        BY <3>1 DEF ClientIInv, ClientTypeOK
      <3> QED
        BY <1>1, <3>1, <3>2
    <2> QED
      BY <2>1, <2>2
  <1>2. CASE Abort(ctl) /\ UNCHANGED <<epoch, log, buffer>>
    BY <1>2 DEF Abort, Running
  <1>3. CASE Connect \/ ReconnectFires \/ ProbeFires
    BY <1>1, <1>3 DEF Connect, ReconnectFires, ProbeFires
  <1>4. CASE Disconnect \/ onWatchdogTimeout
    BY <1>2, <1>4 DEF Disconnect, onWatchdogTimeout
  <1>5. ASSUME NEW c \in Conns, Response(c) \/ FetchFails(c) \/ FetchAborted(c) \/ ReadEnds(c) \/ ReadAborted(c)
        PROVE  UNCHANGED <<epoch, log, buffer, conn>>
    BY <1>5 DEF Response, FetchFails, FetchAborted, ReadEnds, ReadAborted, busVars
  <1>6. ASSUME NEW c \in Conns, ReadFrame(c) PROVE UNCHANGED <<epoch, log, buffer>>
    BY <1>6 DEF ReadFrame
  <1> QED
    BY <1>3, <1>4, <1>5, <1>6 DEF Next

LEMMA ReadEffect ==
    ASSUME BusIInv, NEW c \in Conns, ReadFrame(c)
    PROVE  \E out \in Reply :
             /\ conn' = [conn EXCEPT ![c] = out] /\ ResponseFits(out) /\ out.sub = conn[c].sub /\ out.closed = conn[c].closed
             /\ out.status = conn[c].status /\ out.live = conn[c].live /\ out.from = conn[c].from
             /\ Head(conn[c].wire) = Stream(conn[c])[1] /\ Len(Stream(out)) = Len(Stream(conn[c])) - 1
             /\ \A i \in 1..Len(Stream(out)) : Stream(out)[i] = Stream(conn[c])[i + 1]
  <1>1. PICK r \in Reply : r = conn[c]
    BY DEF BusIInv
  <1>2. PICK w \in Seq(Frame), q \in Seq(Frame) : w = r.wire /\ q = r.queue
    BY DEF Reply
  <1>3. w # <<>> /\ ResponseFits(r)
    BY <1>1, <1>2 DEF ReadFrame, BusIInv
  <1>4. /\ Head(w) \in Frame /\ Tail(w) \in Seq(Frame) /\ Len(Tail(w)) = Len(w) - 1 /\ Len(w) \in Nat \ {0} /\ Len(q) \in Nat
        /\ \A i \in 1..Len(Tail(w)) : Tail(w)[i] = w[i + 1]
    BY <1>3, HeadTailProperties, EmptySeq, LenProperties
  <1>5. PICK t \in Seq(Frame) : t = Tail(w)
    BY <1>4
  <1>6. PICK out \in Reply : out = [r EXCEPT !.wire = t]
    BY DEF Reply
  <1>7. /\ out.wire = t /\ out.queue = q /\ out.sub = r.sub /\ out.closed = r.closed /\ out.draining = r.draining
        /\ out.status = r.status /\ out.live = r.live /\ out.from = r.from /\ out.seen = r.seen
    BY <1>2, <1>6 DEF Reply
  <1>8. r.status = "ok"
    BY <1>2, <1>3 DEF ResponseFits
  <1>9. ResponseFits(out)
    BY <1>2, <1>3, <1>7, <1>8 DEF ResponseFits
  <1>10. conn' = [conn EXCEPT ![c] = out]
    BY <1>1, <1>2, <1>5, <1>6 DEF ReadFrame
  <1>11. /\ Len(w \o q) = Len(w) + Len(q) /\ Len(t \o q) = Len(t) + Len(q)
         /\ \A i \in 1..(Len(w) + Len(q)) : (w \o q)[i] = IF i <= Len(w) THEN w[i] ELSE q[i - Len(w)]
         /\ \A i \in 1..(Len(t) + Len(q)) : (t \o q)[i] = IF i <= Len(t) THEN t[i] ELSE q[i - Len(t)]
    BY ConcatProperties
  <1>12. Stream(r) = w \o q /\ Stream(out) = t \o q
    BY <1>2, <1>7 DEF Stream
  <1>13. Len(t) = Len(w) - 1 /\ \A i \in 1..Len(t) : t[i] = w[i + 1]
    BY <1>4, <1>5
  <1>14. Head(w) = Stream(r)[1] /\ Len(Stream(out)) = Len(Stream(r)) - 1
    BY <1>3, <1>4, <1>11, <1>12, <1>13
  <1>15. \A i \in 1..Len(Stream(out)) : Stream(out)[i] = Stream(r)[i + 1]
    <2> SUFFICES ASSUME NEW i \in 1..(Len(t) + Len(q)) PROVE (t \o q)[i] = (w \o q)[i + 1]
      BY <1>11, <1>12
    <2>1. i + 1 \in 1..(Len(w) + Len(q))
      BY <1>4, <1>13
    <2>2. CASE i <= Len(t)
      BY <1>4, <1>11, <1>13, <2>1, <2>2
    <2>3. CASE i > Len(t)
      <3>1. ~(i <= Len(t)) /\ ~(i + 1 <= Len(w)) /\ i - Len(t) = (i + 1) - Len(w)
        BY <1>4, <1>13, <2>3
      <3> QED
        BY <1>11, <2>1, <3>1
    <2> QED
      BY <1>4, <1>13, <2>2, <2>3
  <1> QED
    BY <1>1, <1>2, <1>7, <1>9, <1>10, <1>14, <1>15

LEMMA BusNext ==
    ASSUME BusIInv, ClientIInv, [Next]_vars
    PROVE  BusIInv'
  <1>1. CASE UNCHANGED busVars
    BY <1>1 DEF busVars, BusIInv, ResponseFits, BufferFits, Subscribers
  <1>2. CASE BusStep
    BY <1>2, BusStepKeepsBus
  <1>3. CASE ~UNCHANGED busVars /\ ~BusStep
    <2>1. Next
      BY <1>3 DEF vars
    <2>2. UNCHANGED <<epoch, log, buffer>> /\ buffer \in Seq(Nat) /\ BufferFits(buffer, log)
      BY <1>3, <2>1, ClientOnConn DEF BusIInv
    <2>3. ASSUME NEW c \in Conns, conn' = [conn EXCEPT ![c] = [Idle EXCEPT !.status = "none", !.cursor = cursor]]
          PROVE  BusIInv'
      <3>1. PICK r \in Reply : r = [Idle EXCEPT !.status = "none", !.cursor = cursor]
        BY EmptySeq DEF Idle, Reply, ClientIInv, ClientTypeOK
      <3>2. ResponseFits(r) /\ ~r.sub
        BY <3>1 DEF ResponseFits, Idle
      <3> QED
        BY <2>2, <2>3, <3>1, <3>2, ReplaceOne
    <2>4. ASSUME NEW c \in Conns, conn' = [conn EXCEPT ![c].cut = TRUE] PROVE BusIInv'
      <3>1. PICK r \in Reply : r = conn[c]
        BY DEF BusIInv
      <3>2. PICK s \in Reply : s = [r EXCEPT !.cut = TRUE]
        BY DEF Reply
      <3>3. conn' = [conn EXCEPT ![c] = s] /\ ResponseFits(r)
        BY <2>4, <3>1, <3>2 DEF BusIInv
      <3>4. ResponseFits(s) /\ s.sub = r.sub
        BY <3>2, <3>3 DEF ResponseFits, Reply
      <3> QED
        BY <2>2, <3>1, <3>3, <3>4, ReplaceOne
    <2>5. ASSUME NEW c \in Conns, ReadFrame(c) PROVE BusIInv'
      <3>1. PICK out \in Reply : conn' = [conn EXCEPT ![c] = out] /\ ResponseFits(out) /\ out.sub = conn[c].sub
        BY <2>5, ReadEffect
      <3> QED
        BY <2>2, <3>1, ReplaceOne
    <2> QED
      BY <1>3, <2>1, <2>2, <2>3, <2>4, <2>5, ClientOnConn DEF busVars
  <1> QED
    BY <1>1, <1>2, <1>3

LEMMA InitFits == Init => BusIInv /\ ClientIInv
  <1> SUFFICES ASSUME Init PROVE BusIInv /\ ClientIInv
    OBVIOUS
  <1>1. BusIInv
    BY BusInitFits DEF Init
  <1>2. Running = {} /\ Attempt = {}
    BY DEF Init, Running, Attempt
  <1>3. ClientTypeOK
    BY <1>2 DEF Init, ClientTypeOK, NoCursor, Cursor
  <1>4. AttemptFits
    BY <1>2 DEF Init, AttemptFits
  <1>5. TimersFit
    BY DEF Init, TimersFit
  <1> QED
    BY <1>1, <1>3, <1>4, <1>5 DEF ClientIInv

(* Both ends count streams, whatever the limits: no subscription outlives  *)
(* its response, however that ended, so the tenant's stream limit holds    *)
(* (bindSubscription, close); and no timer, retry or call of the page      *)
(* starts an attempt beside a running one (attemptConnect's guards).       *)
THEOREM StreamsAlwaysBounded == Spec => []StreamsBounded
  <1>1. BusIInv /\ ClientIInv => StreamsBounded
    <2> SUFFICES ASSUME BusIInv, ClientIInv PROVE StreamsBounded
      OBVIOUS
    <2>1. StreamsExact
      BY DEF StreamsExact, BusIInv, ResponseFits
    <2>2. OneStream
      <3>1. CASE Running \ aborted = {}
        <4>1. Cardinality(Running \ aborted) = 0
          BY <3>1, FS_EmptySet
        <4> QED
          BY <4>1 DEF OneStream
      <3>2. CASE Running \ aborted # {}
        <4>1. Running \ aborted = {ctl}
          BY <3>2 DEF ClientIInv, AttemptFits, Attempt
        <4>2. Cardinality(Running \ aborted) = 1
          BY <4>1, FS_Singleton
        <4> QED
          BY <4>2 DEF OneStream
      <3> QED
        BY <3>1, <3>2
    <2> QED
      BY <2>1, <2>2 DEF StreamsBounded
  <1> QED
    BY <1>1, InitFits, BusNext, ClientNext, PTL DEF Spec

(* A client that was not stopped and is not OFFLINE always has a running   *)
(* attempt, a retry or a probe to carry it on: every way out of an attempt *)
(* (an answer, a lost connection, the watchdog's abort) leaves a timer.    *)
THEOREM ClientIsNeverStranded == Spec => []NeverStranded
  <1>1. BusIInv /\ ClientIInv => NeverStranded
    BY DEF ClientIInv, ClientTypeOK, AttemptFits, TimersFit, NeverStranded, Attempt, Running
  <1> QED
    BY <1>1, InitFits, BusNext, ClientNext, PTL DEF Spec

----------------------------------------------------------------------------
(* No silent gap.                                                          *)

Told(s, j, m) == s[j].kind = "event" /\ s[j].seq = m

(* The events of s are numbered after p, in order, and no event the client *)
(* may see is left out before any of them; Complete: nor after the last.   *)
Follows(s, p, l) ==
    \A i \in 1..Len(s) : s[i].kind = "event" =>
        /\ s[i].seq \in (p + 1)..Len(l)
        /\ \A m \in (p + 1)..(s[i].seq - 1) : matchesWorkspace(l[m]) => \E j \in 1..(i - 1) : Told(s, j, m)
        /\ \A j \in 1..(i - 1) : s[j].kind = "event" => s[j].seq < s[i].seq
Complete(s, p, l) ==
    \A m \in (p + 1)..Len(l) : matchesWorkspace(l[m]) => \E j \in 1..Len(s) : Told(s, j, m)

Log == Seq(Origins \cup {Rejected})

LEMMA FollowsBegins ==
    ASSUME NEW s \in Seq(Frame), NEW t \in Seq(Frame), Begins(s, t), NEW p \in Nat, NEW l \in Log, Follows(t, p, l)
    PROVE  Follows(s, p, l)
  <1>1. Len(s) \in Nat /\ Len(t) \in Nat /\ Len(s) <= Len(t) /\ \A i \in 1..Len(s) : s[i] = t[i]
    BY LenProperties DEF Begins
  <1>2. SUFFICES ASSUME NEW i \in 1..Len(s), s[i].kind = "event"
                 PROVE  /\ s[i].seq \in (p + 1)..Len(l)
                        /\ \A m \in (p + 1)..(s[i].seq - 1) :
                              matchesWorkspace(l[m]) => \E j \in 1..(i - 1) : Told(s, j, m)
                        /\ \A j \in 1..(i - 1) : s[j].kind = "event" => s[j].seq < s[i].seq
    BY DEF Follows
  <1>3. i \in 1..Len(t) /\ t[i] = s[i] /\ \A j \in 1..(i - 1) : j \in 1..Len(s) /\ t[j] = s[j]
    BY <1>1
  <1>4. /\ t[i].seq \in (p + 1)..Len(l)
        /\ \A m \in (p + 1)..(t[i].seq - 1) : matchesWorkspace(l[m]) => \E j \in 1..(i - 1) : Told(t, j, m)
        /\ \A j \in 1..(i - 1) : t[j].kind = "event" => t[j].seq < t[i].seq
    BY <1>2, <1>3 DEF Follows
  <1>5. \A j \in 1..(i - 1), m \in Int : Told(t, j, m) => Told(s, j, m)
    BY <1>3 DEF Told
  <1>6. \A m \in (p + 1)..(s[i].seq - 1) : matchesWorkspace(l[m]) => \E j \in 1..(i - 1) : Told(s, j, m)
    BY <1>3, <1>4, <1>5
  <1> QED
    BY <1>3, <1>4, <1>6

(* The log grows; what was sent still follows.                             *)
LEMMA FollowsGrows ==
    ASSUME NEW s \in Seq(Frame), NEW p \in Nat, NEW l \in Log, NEW w \in Origins \cup {Rejected}
    PROVE  /\ Follows(s, p, l) => Follows(s, p, Append(l, w))
           /\ Complete(s, p, l) /\ ~matchesWorkspace(w) => Complete(s, p, Append(l, w))
  <1>1. PICK k \in Log : k = Append(l, w)
    BY AppendProperties DEF Log
  <1>2. Len(l) \in Nat /\ Len(k) = Len(l) + 1 /\ k[Len(l) + 1] = w /\ \A m \in 1..Len(l) : k[m] = l[m]
    BY <1>1, AppendProperties, LenProperties DEF Log
  <1>3. ASSUME Follows(s, p, l) PROVE Follows(s, p, k)
    <2> SUFFICES ASSUME NEW i \in 1..Len(s), s[i].kind = "event"
                 PROVE  /\ s[i].seq \in (p + 1)..Len(k)
                        /\ \A m \in (p + 1)..(s[i].seq - 1) :
                              matchesWorkspace(k[m]) => \E j \in 1..(i - 1) : Told(s, j, m)
                        /\ \A j \in 1..(i - 1) : s[j].kind = "event" => s[j].seq < s[i].seq
      BY DEF Follows
    <2>1. s[i].seq \in (p + 1)..Len(l)
      BY <1>3 DEF Follows
    <2>2. s[i].seq \in (p + 1)..Len(k) /\ \A m \in (p + 1)..(s[i].seq - 1) : k[m] = l[m]
      BY <1>2, <2>1
    <2> QED
      BY <1>3, <2>2 DEF Follows
  <1>4. ASSUME Complete(s, p, l), ~matchesWorkspace(w) PROVE Complete(s, p, k)
    <2> SUFFICES ASSUME NEW m \in (p + 1)..Len(k), matchesWorkspace(k[m])
                 PROVE  \E j \in 1..Len(s) : Told(s, j, m)
      BY DEF Complete
    <2>1. m # Len(l) + 1
      BY <1>2, <1>4
    <2>2. m \in (p + 1)..Len(l) /\ k[m] = l[m]
      BY <1>2, <2>1
    <2> QED
      BY <1>4, <2>2 DEF Complete
  <1> QED
    BY <1>1, <1>3, <1>4

LEMMA OneMore ==
    ASSUME NEW s \in Seq(Frame), NEW f \in Frame
    PROVE  /\ s \o <<f>> \in Seq(Frame) /\ Len(s) \in Nat /\ Len(s \o <<f>>) = Len(s) + 1
           /\ (s \o <<f>>)[Len(s) + 1] = f /\ \A i \in 1..Len(s) : (s \o <<f>>)[i] = s[i]
  <1>1. PICK n \in Nat : n = Len(s)
    BY LenProperties
  <1>2. Len(<<f>>) = 1 /\ <<f>>[1] = f /\ <<f>> \in Seq(Frame)
    OBVIOUS
  <1>3. /\ s \o <<f>> \in Seq(Frame) /\ Len(s \o <<f>>) = n + 1
        /\ \A i \in 1..(n + 1) : (s \o <<f>>)[i] = IF i <= n THEN s[i] ELSE <<f>>[i - n]
    BY <1>1, <1>2, ConcatProperties
  <1> QED
    BY <1>1, <1>2, <1>3

(* A frame is added: a ping, or the event that was published.              *)
LEMMA FollowsNext ==
    ASSUME NEW s \in Seq(Frame), NEW p \in Nat, NEW l \in Log, NEW w \in Origins \cup {Rejected}, NEW f \in Frame
    PROVE  /\ f.kind # "event" /\ Follows(s, p, l) => Follows(s \o <<f>>, p, l)
           /\ f.kind # "event" /\ Complete(s, p, l) => Complete(s \o <<f>>, p, l)
           /\ /\ f.kind = "event" /\ f.seq = Len(l) + 1 /\ p <= Len(l)
              /\ Follows(s, p, l) /\ Complete(s, p, l)
              => Follows(s \o <<f>>, p, Append(l, w)) /\ Complete(s \o <<f>>, p, Append(l, w))
  <1>1. PICK t \in Seq(Frame) : t = s \o <<f>>
    BY OneMore
  <1>2. PICK n \in Nat : n = Len(s)
    BY LenProperties
  <1>3. Len(t) = n + 1 /\ t[n + 1] = f /\ \A i \in 1..n : t[i] = s[i]
    BY <1>1, <1>2, OneMore
  <1>4. ASSUME NEW k \in Log, Follows(s, p, k),
               f.kind = "event" => /\ f.seq \in (p + 1)..Len(k)
                                   /\ \A m \in (p + 1)..(f.seq - 1) : matchesWorkspace(k[m]) => \E j \in 1..n : Told(s, j, m)
                                   /\ \A j \in 1..n : s[j].kind = "event" => s[j].seq < f.seq
        PROVE  Follows(t, p, k)
    <2> SUFFICES ASSUME NEW i \in 1..Len(t), t[i].kind = "event"
                 PROVE  /\ t[i].seq \in (p + 1)..Len(k)
                        /\ \A m \in (p + 1)..(t[i].seq - 1) :
                              matchesWorkspace(k[m]) => \E j \in 1..(i - 1) : Told(t, j, m)
                        /\ \A j \in 1..(i - 1) : t[j].kind = "event" => t[j].seq < t[i].seq
      BY DEF Follows
    <2>1. CASE i = n + 1
      <3>1. t[i] = f /\ 1..(i - 1) = 1..n
        BY <1>3, <2>1
      <3>2. \A j \in 1..n : t[j] = s[j]
        BY <1>3
      <3> QED
        BY <1>4, <3>1, <3>2 DEF Told
    <2>2. CASE i # n + 1
      <3>1. i \in 1..Len(s) /\ t[i] = s[i] /\ \A j \in 1..(i - 1) : t[j] = s[j]
        BY <1>2, <1>3, <2>2
      <3>2. /\ s[i].seq \in (p + 1)..Len(k)
            /\ \A m \in (p + 1)..(s[i].seq - 1) : matchesWorkspace(k[m]) => \E j \in 1..(i - 1) : Told(s, j, m)
            /\ \A j \in 1..(i - 1) : s[j].kind = "event" => s[j].seq < s[i].seq
        BY <1>4, <3>1 DEF Follows
      <3>3. \A j \in 1..(i - 1), m \in Int : Told(s, j, m) => Told(t, j, m)
        BY <3>1 DEF Told
      <3>4. \A m \in (p + 1)..(t[i].seq - 1) : matchesWorkspace(k[m]) => \E j \in 1..(i - 1) : Told(t, j, m)
        BY <3>1, <3>2, <3>3
      <3> QED
        BY <3>1, <3>2, <3>4
    <2> QED
      BY <2>1, <2>2
  <1>5. \A j \in 1..n, m \in Nat : Told(s, j, m) => j \in 1..Len(t) /\ Told(t, j, m)
    BY <1>3 DEF Told
  <1>6. ASSUME f.kind # "event", Complete(s, p, l) PROVE Complete(t, p, l)
    <2> SUFFICES ASSUME NEW m \in (p + 1)..Len(l), matchesWorkspace(l[m])
                 PROVE  \E j \in 1..Len(t) : Told(t, j, m)
      BY DEF Complete
    <2>1. PICK j \in 1..n : Told(s, j, m)
      BY <1>2, <1>6 DEF Complete
    <2>2. m \in Nat
      BY LenProperties DEF Log
    <2> QED
      BY <1>5, <2>1, <2>2
  <1>7. ASSUME f.kind = "event", f.seq = Len(l) + 1, p <= Len(l), Follows(s, p, l), Complete(s, p, l)
        PROVE  Follows(t, p, Append(l, w)) /\ Complete(t, p, Append(l, w))
    <2>1. PICK k \in Log : k = Append(l, w)
      BY AppendProperties DEF Log
    <2>2. Len(l) \in Nat /\ Len(k) = Len(l) + 1 /\ \A m \in 1..Len(l) : k[m] = l[m]
      BY <2>1, AppendProperties, LenProperties DEF Log
    <2>3. Follows(s, p, k)
      BY <1>7, <2>1, FollowsGrows
    <2>4. \A m \in (p + 1)..Len(l) : matchesWorkspace(k[m]) => \E j \in 1..n : Told(s, j, m)
      <3>1. \A m \in (p + 1)..Len(l) : k[m] = l[m]
        BY <2>2
      <3> QED
        BY <1>2, <1>7, <3>1 DEF Complete
    <2>5. Follows(t, p, k)
      <3>1. f.seq \in (p + 1)..Len(k) /\ f.seq - 1 = Len(l)
        BY <1>7, <2>2
      <3>2. \A j \in 1..n : s[j].kind = "event" => s[j].seq < f.seq
        <4>1. \A j \in 1..n : s[j].kind = "event" => s[j].seq \in (p + 1)..Len(l)
          BY <1>2, <1>7 DEF Follows
        <4> QED
          BY <1>7, <2>2, <4>1
      <3> QED
        BY <1>4, <2>3, <2>4, <3>1, <3>2
    <2>6. Complete(t, p, k)
      <3> SUFFICES ASSUME NEW m \in (p + 1)..Len(k), matchesWorkspace(k[m])
                   PROVE  \E j \in 1..Len(t) : Told(t, j, m)
        BY DEF Complete
      <3>1. CASE m = Len(l) + 1
        <4>1. n + 1 \in 1..Len(t) /\ Told(t, n + 1, m)
          BY <1>3, <1>7, <3>1 DEF Told
        <4> QED
          BY <4>1
      <3>2. CASE m # Len(l) + 1
        <4>1. m \in (p + 1)..Len(l) /\ m \in Nat
          BY <2>2, <3>2
        <4>2. PICK j \in 1..n : Told(s, j, m)
          BY <2>4, <4>1
        <4> QED
          BY <1>5, <4>1, <4>2
      <3> QED
        BY <3>1, <3>2
    <2> QED
      BY <2>1, <2>5, <2>6
  <1> QED
    BY <1>1, <1>4, <1>6, <1>7

(* The first frame is read.                                                *)
LEMMA FollowsRead ==
    ASSUME NEW s \in Seq(Frame), NEW t \in Seq(Frame), NEW p \in Nat, NEW l \in Log, Len(s) > 0, Len(t) = Len(s) - 1,
           \A i \in 1..Len(t) : t[i] = s[i + 1], Follows(s, p, l)
    PROVE  /\ s[1].kind # "event" => Follows(t, p, l) /\ (Complete(s, p, l) => Complete(t, p, l))
           /\ s[1].kind = "event" => /\ s[1].seq \in (p + 1)..Len(l)
                                     /\ \A m \in (p + 1)..(s[1].seq - 1) : ~matchesWorkspace(l[m])
                                     /\ Follows(t, s[1].seq, l) /\ (Complete(s, p, l) => Complete(t, s[1].seq, l))
  <1>1. Len(s) \in Nat \ {0} /\ Len(t) \in Nat /\ Len(l) \in Nat /\ 1 \in 1..Len(s)
    BY LenProperties DEF Log
  <1>2. PICK f \in Frame : f = s[1]
    BY <1>1
  <1>3. f.kind = "event" => /\ f.seq \in (p + 1)..Len(l) /\ f.seq >= p
                            /\ \A m \in (p + 1)..(f.seq - 1) : ~matchesWorkspace(l[m])
    <2> SUFFICES ASSUME f.kind = "event"
                 PROVE  /\ f.seq \in (p + 1)..Len(l) /\ f.seq >= p
                        /\ \A m \in (p + 1)..(f.seq - 1) : ~matchesWorkspace(l[m])
      OBVIOUS
    <2>1. /\ f.seq \in (p + 1)..Len(l)
          /\ \A m \in (p + 1)..(f.seq - 1) : matchesWorkspace(l[m]) => \E j \in 1..(1 - 1) : Told(s, j, m)
      BY <1>1, <1>2 DEF Follows
    <2> QED
      BY <1>1, <2>1
  <1>4. PICK q \in Nat : /\ q = IF f.kind = "event" THEN f.seq ELSE p
                         /\ q >= p /\ (f.kind = "event" => q = f.seq)
    BY <1>1, <1>3
  <1>5. \A m \in (q + 1)..Len(l), j \in 1..Len(s) : Told(s, j, m) => j - 1 \in 1..Len(t) /\ Told(t, j - 1, m)
    <2> SUFFICES ASSUME NEW m \in (q + 1)..Len(l), NEW j \in 1..Len(s), Told(s, j, m)
                 PROVE  j - 1 \in 1..Len(t) /\ Told(t, j - 1, m)
      OBVIOUS
    <2>1. m # q
      BY <1>1
    <2>2. j # 1
      BY <1>2, <1>4, <2>1 DEF Told
    <2>3. j - 1 \in 1..Len(t) /\ (j - 1) + 1 = j
      BY <1>1, <2>2
    <2> QED
      BY <2>3 DEF Told
  <1>6. Follows(t, q, l)
    <2> SUFFICES ASSUME NEW i \in 1..Len(t), t[i].kind = "event"
                 PROVE  /\ t[i].seq \in (q + 1)..Len(l)
                        /\ \A m \in (q + 1)..(t[i].seq - 1) :
                              matchesWorkspace(l[m]) => \E j \in 1..(i - 1) : Told(t, j, m)
                        /\ \A j \in 1..(i - 1) : t[j].kind = "event" => t[j].seq < t[i].seq
      BY DEF Follows
    <2>1. i + 1 \in 1..Len(s) /\ t[i] = s[i + 1] /\ 1 \in 1..((i + 1) - 1)
      BY <1>1
    <2>2. /\ t[i].seq \in (p + 1)..Len(l)
          /\ \A m \in (p + 1)..(t[i].seq - 1) : matchesWorkspace(l[m]) => \E j \in 1..((i + 1) - 1) : Told(s, j, m)
          /\ \A j \in 1..((i + 1) - 1) : s[j].kind = "event" => s[j].seq < t[i].seq
      BY <2>1 DEF Follows
    <2>3. t[i].seq \in (q + 1)..Len(l)
      <3>1. f.kind = "event" => f.seq < t[i].seq
        BY <1>2, <2>1, <2>2
      <3> QED
        BY <1>1, <1>4, <2>2, <3>1
    <2>4. ASSUME NEW m \in (q + 1)..(t[i].seq - 1), matchesWorkspace(l[m])
          PROVE  \E j \in 1..(i - 1) : Told(t, j, m)
      <3>1. m \in (p + 1)..(t[i].seq - 1) /\ m \in (q + 1)..Len(l)
        BY <1>1, <1>4, <2>3
      <3>2. PICK j \in 1..((i + 1) - 1) : Told(s, j, m)
        BY <2>2, <2>4, <3>1
      <3>3. j \in 1..Len(s)
        BY <1>1
      <3>4. j - 1 \in 1..Len(t) /\ Told(t, j - 1, m)
        BY <1>5, <3>1, <3>2, <3>3
      <3>5. j - 1 \in 1..(i - 1)
        BY <1>1, <3>4
      <3> QED
        BY <3>4, <3>5
    <2>5. ASSUME NEW j \in 1..(i - 1), t[j].kind = "event" PROVE t[j].seq < t[i].seq
      <3>1. j + 1 \in 1..((i + 1) - 1) /\ j \in 1..Len(t) /\ t[j] = s[j + 1]
        BY <1>1
      <3> QED
        BY <2>2, <2>5, <3>1
    <2> QED
      BY <2>3, <2>4, <2>5
  <1>7. ASSUME Complete(s, p, l) PROVE Complete(t, q, l)
    <2> SUFFICES ASSUME NEW m \in (q + 1)..Len(l), matchesWorkspace(l[m])
                 PROVE  \E j \in 1..Len(t) : Told(t, j, m)
      BY DEF Complete
    <2>1. m \in (p + 1)..Len(l)
      BY <1>1, <1>4
    <2>2. PICK j \in 1..Len(s) : Told(s, j, m)
      BY <1>7, <2>1 DEF Complete
    <2> QED
      BY <1>5, <2>2
  <1>8. CASE f.kind = "event"
    BY <1>2, <1>3, <1>4, <1>6, <1>7, <1>8
  <1>9. CASE f.kind # "event"
    BY <1>2, <1>4, <1>6, <1>7, <1>9
  <1> QED
    BY <1>8, <1>9

(* A stream of the running process, for a client that stands at p: what it *)
(* carries follows p, or begins with a reset and follows that, or is       *)
(* nothing. As long as it is subscribed it is complete. known is the epoch *)
(* of the client's cursor.                                                 *)
Resets(s) == Len(s) > 0 /\ s[1].kind = "reset"
Fresh(s, sub, p, e, l, known) ==
    /\ \A i \in 1..Len(s) : s[i].kind # "ping" => s[i].epoch = e
    /\ \A i \in 2..Len(s) : s[i].kind # "reset"
    /\ \/ /\ Resets(s) /\ s[1].seq <= Len(l) /\ Follows(s, s[1].seq, l) /\ (sub => Complete(s, s[1].seq, l))
       \/ /\ ~Resets(s) /\ known \in {0, e} /\ p <= Len(l) /\ Follows(s, p, l) /\ (sub => Complete(s, p, l))
       \/ ~sub /\ \A i \in 1..Len(s) : s[i].kind = "ping"

(* A stream of an earlier process has ended.                               *)
Old(s, closed, e) == closed /\ \A i \in 1..Len(s) : s[i].kind # "ping" => s[i].epoch < e

LEMMA ResetType ==
    ASSUME NEW s \in Seq(Frame), Resets(s)
    PROVE  s[1].seq \in Nat /\ 1 \in 1..Len(s) /\ s[1].kind = "reset"
  <1>1. Len(s) \in Nat /\ 1 \in 1..Len(s)
    BY LenProperties DEF Resets
  <1>2. s[1] \in Frame
    BY <1>1
  <1> QED
    BY <1>1, <1>2 DEF Frame, Resets

LEMMA FreshBegins ==
    ASSUME NEW s \in Seq(Frame), NEW t \in Seq(Frame), Begins(s, t), NEW p \in Nat, NEW l \in Log, NEW e, NEW known,
           NEW before \in BOOLEAN, NEW after \in BOOLEAN, Fresh(t, before, p, e, l, known),
           after => before /\ s = t
    PROVE  Fresh(s, after, p, e, l, known)
  <1>1. Len(s) \in Nat /\ Len(t) \in Nat /\ Len(s) <= Len(t) /\ \A i \in 1..Len(s) : s[i] = t[i]
    BY LenProperties DEF Begins
  <1>2. CASE after
    BY <1>2 DEF Fresh
  <1>3. CASE ~after
    <2>1. /\ \A i \in 1..Len(s) : s[i].kind # "ping" => s[i].epoch = e
          /\ \A i \in 2..Len(s) : s[i].kind # "reset"
      <3>1. 1..Len(s) \subseteq 1..Len(t) /\ 2..Len(s) \subseteq 2..Len(t) /\ \A i \in 2..Len(s) : i \in 1..Len(s)
        BY <1>1
      <3> QED
        BY <1>1, <3>1 DEF Fresh
    <2>2. CASE Len(s) = 0
      <3>1. \A i \in 1..Len(s) : s[i].kind = "ping"
        BY <2>2
      <3> QED
        BY <1>3, <2>1, <3>1 DEF Fresh
    <2>3. CASE Len(s) > 0
      <3>1. s[1] = t[1] /\ (Resets(s) <=> Resets(t))
        BY <1>1, <2>3 DEF Resets
      <3>2. ASSUME Resets(t), t[1].seq <= Len(l), Follows(t, t[1].seq, l) PROVE Fresh(s, after, p, e, l, known)
        <4>2. t[1].seq \in Nat
          BY <3>2, ResetType
        <4>3. Follows(s, t[1].seq, l)
          BY <3>2, <4>2, FollowsBegins
        <4> QED
          BY <1>3, <2>1, <3>1, <3>2, <4>3 DEF Fresh
      <3>3. ASSUME ~Resets(t), known \in {0, e}, p <= Len(l), Follows(t, p, l) PROVE Fresh(s, after, p, e, l, known)
        <4>1. Follows(s, p, l)
          BY <3>3, FollowsBegins
        <4> QED
          BY <1>3, <2>1, <3>1, <3>3, <4>1 DEF Fresh
      <3>4. ASSUME \A i \in 1..Len(t) : t[i].kind = "ping" PROVE Fresh(s, after, p, e, l, known)
        <4>1. \A i \in 1..Len(s) : s[i].kind = "ping"
          BY <1>1, <3>4
        <4> QED
          BY <1>3, <2>1, <4>1 DEF Fresh
      <3> QED
        BY <3>2, <3>3, <3>4 DEF Fresh
    <2> QED
      BY <1>1, <2>2, <2>3
  <1> QED
    BY <1>2, <1>3

LEMMA FreshGrows ==
    ASSUME NEW s \in Seq(Frame), NEW p \in Nat, NEW l \in Log, NEW w \in Origins \cup {Rejected}, NEW e, NEW known,
           NEW sub \in BOOLEAN, Fresh(s, sub, p, e, l, known), ~(sub /\ matchesWorkspace(w))
    PROVE  Fresh(s, sub, p, e, Append(l, w), known)
  <1>1. PICK k \in Log : k = Append(l, w) /\ Len(k) = Len(l) + 1 /\ Len(l) \in Nat
    BY AppendProperties, LenProperties DEF Log
  <1>2. ASSUME NEW q \in Nat, Follows(s, q, l), sub => Complete(s, q, l)
        PROVE  Follows(s, q, k) /\ (sub => Complete(s, q, k))
    BY <1>1, <1>2, FollowsGrows
  <1>3. CASE Resets(s) /\ s[1].seq <= Len(l) /\ Follows(s, s[1].seq, l) /\ (sub => Complete(s, s[1].seq, l))
    <2>1. s[1].seq \in Nat
      BY <1>3, ResetType
    <2> QED
      BY <1>1, <1>2, <1>3, <2>1 DEF Fresh
  <1>4. CASE ~Resets(s) /\ known \in {0, e} /\ p <= Len(l) /\ Follows(s, p, l) /\ (sub => Complete(s, p, l))
    BY <1>1, <1>2, <1>4 DEF Fresh
  <1>5. CASE ~sub /\ \A i \in 1..Len(s) : s[i].kind = "ping"
    BY <1>1, <1>5 DEF Fresh
  <1> QED
    BY <1>3, <1>4, <1>5 DEF Fresh

(* A ping is added, or the event that was published.                       *)
LEMMA FreshNext ==
    ASSUME NEW s \in Seq(Frame), NEW p \in Nat, NEW l \in Log, NEW w \in Origins \cup {Rejected}, NEW e, NEW known,
           NEW sub \in BOOLEAN, Fresh(s, sub, p, e, l, known), NEW f \in Frame
    PROVE  /\ f.kind = "ping" => Fresh(s \o <<f>>, sub, p, e, l, known)
           /\ f.kind = "event" /\ f.epoch = e /\ f.seq = Len(l) + 1 /\ sub
              => Fresh(s \o <<f>>, sub, p, e, Append(l, w), known)
  <1>1. PICK t \in Seq(Frame) : t = s \o <<f>>
    BY OneMore
  <1>2. PICK n \in Nat : n = Len(s) /\ Len(t) = n + 1 /\ t[n + 1] = f /\ \A i \in 1..n : t[i] = s[i]
    BY <1>1, OneMore
  <1>3. ASSUME f.kind # "reset", f.kind # "ping" => f.epoch = e
        PROVE  /\ \A i \in 1..Len(t) : t[i].kind # "ping" => t[i].epoch = e
               /\ \A i \in 2..Len(t) : t[i].kind # "reset"
               /\ Resets(t) <=> Resets(s)
               /\ Resets(s) => t[1] = s[1]
    <2>1. \A i \in 1..Len(t) : i = n + 1 \/ i \in 1..n
      BY <1>2
    <2>2. \A i \in 2..Len(t) : i = n + 1 \/ i \in 2..n
      BY <1>2
    <2>3. \A i \in 1..n : s[i].kind # "ping" => s[i].epoch = e
      BY <1>2 DEF Fresh
    <2>4. \A i \in 2..n : s[i].kind # "reset" /\ i \in 1..n
      BY <1>2 DEF Fresh
    <2>5. \A i \in 1..Len(t) : t[i].kind # "ping" => t[i].epoch = e
      BY <1>2, <1>3, <2>1, <2>3
    <2>6. \A i \in 2..Len(t) : t[i].kind # "reset"
      BY <1>2, <1>3, <2>2, <2>4
    <2>7. CASE n = 0
      BY <1>2, <1>3, <2>5, <2>6, <2>7 DEF Resets
    <2>8. CASE n > 0
      BY <1>2, <2>5, <2>6, <2>8 DEF Resets
    <2> QED
      BY <2>7, <2>8
  <1>4. ASSUME f.kind = "ping" PROVE Fresh(t, sub, p, e, l, known)
    <2>1. ASSUME NEW q \in Nat, Follows(s, q, l), sub => Complete(s, q, l)
          PROVE  Follows(t, q, l) /\ (sub => Complete(t, q, l))
      BY <1>1, <1>4, <2>1, FollowsNext
    <2>2. CASE Resets(s) /\ s[1].seq <= Len(l) /\ Follows(s, s[1].seq, l) /\ (sub => Complete(s, s[1].seq, l))
      <3>1. s[1].seq \in Nat
        BY <2>2, ResetType
      <3> QED
        BY <1>3, <1>4, <2>1, <2>2, <3>1 DEF Fresh
    <2>3. CASE ~Resets(s) /\ known \in {0, e} /\ p <= Len(l) /\ Follows(s, p, l) /\ (sub => Complete(s, p, l))
      BY <1>3, <1>4, <2>1, <2>3 DEF Fresh
    <2>4. CASE ~sub /\ \A i \in 1..Len(s) : s[i].kind = "ping"
      <3>1. \A i \in 1..Len(t) : i = n + 1 \/ i \in 1..n
        BY <1>2
      <3>2. \A i \in 1..Len(t) : t[i].kind = "ping"
        BY <1>2, <1>4, <2>4, <3>1
      <3> QED
        BY <1>3, <1>4, <2>4, <3>2 DEF Fresh
    <2> QED
      BY <2>2, <2>3, <2>4 DEF Fresh
  <1>5. ASSUME f.kind = "event", f.epoch = e, f.seq = Len(l) + 1, sub
        PROVE  Fresh(t, sub, p, e, Append(l, w), known)
    <2>1. PICK k \in Log : k = Append(l, w) /\ Len(k) = Len(l) + 1 /\ Len(l) \in Nat
      BY AppendProperties, LenProperties DEF Log
    <2>2. ASSUME NEW q \in Nat, q <= Len(l), Follows(s, q, l), Complete(s, q, l)
          PROVE  q <= Len(k) /\ Follows(t, q, k) /\ Complete(t, q, k)
      BY <1>1, <1>5, <2>1, <2>2, FollowsNext
    <2>3. CASE Resets(s) /\ s[1].seq <= Len(l) /\ Follows(s, s[1].seq, l) /\ (sub => Complete(s, s[1].seq, l))
      <3>1. s[1].seq \in Nat
        BY <2>3, ResetType
      <3>2. Resets(t) /\ t[1].seq <= Len(k) /\ Follows(t, t[1].seq, k) /\ Complete(t, t[1].seq, k)
        BY <1>3, <1>5, <2>2, <2>3, <3>1
      <3> QED
        BY <1>3, <1>5, <2>1, <3>2 DEF Fresh
    <2>4. CASE ~Resets(s) /\ known \in {0, e} /\ p <= Len(l) /\ Follows(s, p, l) /\ (sub => Complete(s, p, l))
      <3>1. ~Resets(t) /\ p <= Len(k) /\ Follows(t, p, k) /\ Complete(t, p, k)
        BY <1>3, <1>5, <2>2, <2>4
      <3> QED
        BY <1>3, <1>5, <2>1, <2>4, <3>1 DEF Fresh
    <2> QED
      BY <1>5, <2>3, <2>4 DEF Fresh
  <1> QED
    BY <1>1, <1>4, <1>5

(* The first frame is read: the client stands at it, or where it stood.    *)
LEMMA FreshRead ==
    ASSUME NEW s \in Seq(Frame), NEW t \in Seq(Frame), NEW p \in Nat, NEW l \in Log, NEW e, NEW known,
           Len(s) > 0, Len(t) = Len(s) - 1, \A i \in 1..Len(t) : t[i] = s[i + 1],
           NEW sub \in BOOLEAN, Fresh(s, sub, p, e, l, known)
    PROVE  /\ s[1].kind = "ping" => Fresh(t, sub, p, e, l, known)
           /\ s[1].kind = "reset" => Fresh(t, sub, s[1].seq, e, l, 0)
           /\ s[1].kind = "event" => /\ known \in {0, e} /\ s[1].epoch = e /\ s[1].seq \in (p + 1)..Len(l)
                                     /\ \A m \in (p + 1)..(s[1].seq - 1) : ~matchesWorkspace(l[m])
                                     /\ Fresh(t, sub, s[1].seq, e, l, e)
  <1>1. Len(s) \in Nat \ {0} /\ Len(t) \in Nat /\ 1 \in 1..Len(s)
    BY LenProperties
  <1>2. \A i \in 1..Len(t) : i + 1 \in 1..Len(s) /\ i + 1 \in 2..Len(s)
    BY <1>1
  <1>3. /\ \A i \in 1..Len(t) : t[i].kind # "ping" => t[i].epoch = e
        /\ \A i \in 1..Len(t) : t[i].kind # "reset"
    BY <1>2 DEF Fresh
  <1>4. /\ \A i \in 1..Len(t) : t[i].kind # "ping" => t[i].epoch = e
        /\ \A i \in 2..Len(t) : t[i].kind # "reset"
        /\ ~Resets(t)
    <2>1. (\A i \in 2..Len(t) : i \in 1..Len(t)) /\ (Len(t) > 0 => 1 \in 1..Len(t))
      BY <1>1
    <2> QED
      BY <1>3, <2>1 DEF Resets
  <1>5. CASE Resets(s) /\ s[1].seq <= Len(l) /\ Follows(s, s[1].seq, l) /\ (sub => Complete(s, s[1].seq, l))
    <2>1. s[1].seq \in Nat /\ s[1].kind = "reset"
      BY <1>5, ResetType
    <2>2. PICK q \in Nat : q = s[1].seq
      BY <2>1
    <2>3. Follows(t, q, l) /\ (sub => Complete(t, q, l))
      BY <1>1, <1>5, <2>1, <2>2, FollowsRead
    <2>4. Fresh(t, sub, q, e, l, 0)
      BY <1>4, <1>5, <2>2, <2>3 DEF Fresh
    <2> QED
      BY <2>1, <2>2, <2>4
  <1>6. CASE ~Resets(s) /\ known \in {0, e} /\ p <= Len(l) /\ Follows(s, p, l) /\ (sub => Complete(s, p, l))
    <2>1. s[1].kind # "reset"
      BY <1>1, <1>6 DEF Resets
    <2>2. CASE s[1].kind # "event"
      <3>1. Follows(t, p, l) /\ (sub => Complete(t, p, l))
        BY <1>1, <1>6, <2>2, FollowsRead
      <3> QED
        BY <1>4, <1>6, <2>1, <2>2, <3>1 DEF Fresh
    <2>3. CASE s[1].kind = "event"
      <3>1. /\ s[1].seq \in (p + 1)..Len(l)
            /\ \A m \in (p + 1)..(s[1].seq - 1) : ~matchesWorkspace(l[m])
            /\ Follows(t, s[1].seq, l) /\ (sub => Complete(t, s[1].seq, l))
        BY <1>1, <1>6, <2>3, FollowsRead
      <3>2. s[1].epoch = e
        BY <1>1, <2>3 DEF Fresh
      <3>3. s[1].seq <= Len(l)
        BY <3>1
      <3>4. Fresh(t, sub, s[1].seq, e, l, e)
        BY <1>4, <3>1, <3>3 DEF Fresh
      <3> QED
        BY <1>6, <2>3, <3>1, <3>2, <3>4
    <2> QED
      BY <2>2, <2>3
  <1>7. CASE ~sub /\ \A i \in 1..Len(s) : s[i].kind = "ping"
    <2>1. \A i \in 1..Len(t) : t[i].kind = "ping"
      BY <1>2, <1>7
    <2>2. s[1].kind = "ping"
      BY <1>1, <1>7
    <2> QED
      BY <1>4, <1>7, <2>1, <2>2 DEF Fresh
  <1> QED
    BY <1>5, <1>6, <1>7 DEF Fresh

(* What an attempt waiting in t may rely on, for a client whose cursor is  *)
(* at and whose stream began at b, in epoch e with log l.                  *)
Start(r, t, at, b) == IF t = "fetching" /\ r.live THEN r.from ELSE IF at.epoch = 0 THEN b ELSE at.seq
Knows(r, t, at, b, e, l) ==
    /\ t = "fetching" => r.cursor = at /\ (r.status = "ok" => (r.live <=> at = NoCursor))
    /\ t = "reading" => r.status = "ok"
    /\ Old(Stream(r), r.closed, e) \/ Fresh(Stream(r), r.sub, Start(r, t, at, b), e, l, at.epoch)

CursorFits == cursor.epoch <= epoch /\ (cursor.epoch = epoch => cursor.seq <= Len(log))

GapIInv ==
    /\ CursorFits /\ NoSilentGap
    /\ \A c \in Attempt : Knows(conn[c], task[c], cursor, base, epoch, log)

LEMMA StreamType ==
    ASSUME NEW r \in Reply, NEW t, NEW at \in Cursor, NEW b \in Nat
    PROVE  Stream(r) \in Seq(Frame) /\ Start(r, t, at, b) \in Nat /\ r.sub \in BOOLEAN /\ r.closed \in BOOLEAN
  BY ConcatProperties DEF Reply, Stream, Start, Cursor

LEMMA KnowsLess ==
    ASSUME NEW r \in Reply, NEW s \in Reply, NEW t, NEW at \in Cursor, NEW b \in Nat, NEW e, NEW l \in Log,
           s.cursor = r.cursor, s.live = r.live, s.from = r.from, s.status = "ok" <=> r.status = "ok",
           r.closed => s.closed, Begins(Stream(s), Stream(r)), s.sub => r.sub /\ Stream(s) = Stream(r),
           Knows(r, t, at, b, e, l)
    PROVE  Knows(s, t, at, b, e, l)
  <1>1. /\ Stream(r) \in Seq(Frame) /\ Stream(s) \in Seq(Frame) /\ Start(r, t, at, b) \in Nat
        /\ r.sub \in BOOLEAN /\ s.sub \in BOOLEAN
    BY StreamType
  <1>2. Start(s, t, at, b) = Start(r, t, at, b)
    BY DEF Start
  <1>3. ASSUME Old(Stream(r), r.closed, e) PROVE Old(Stream(s), s.closed, e)
    <2>1. \A i \in 1..Len(Stream(s)) : i \in 1..Len(Stream(r)) /\ Stream(s)[i] = Stream(r)[i]
      BY <1>1, LenProperties DEF Begins
    <2> QED
      BY <1>3, <2>1 DEF Old
  <1>4. ASSUME Fresh(Stream(r), r.sub, Start(r, t, at, b), e, l, at.epoch)
        PROVE  Fresh(Stream(s), s.sub, Start(s, t, at, b), e, l, at.epoch)
    BY <1>1, <1>2, <1>4, FreshBegins
  <1> QED
    BY <1>3, <1>4 DEF Knows

LEMMA KnowsGrows ==
    ASSUME NEW r \in Reply, NEW t, NEW at \in Cursor, NEW b \in Nat, NEW e, NEW l \in Log,
           NEW w \in Origins \cup {Rejected}, ~(r.sub /\ matchesWorkspace(w)), Knows(r, t, at, b, e, l)
    PROVE  Knows(r, t, at, b, e, Append(l, w))
  <1>1. Stream(r) \in Seq(Frame) /\ Start(r, t, at, b) \in Nat /\ r.sub \in BOOLEAN
    BY StreamType
  <1>2. ASSUME Fresh(Stream(r), r.sub, Start(r, t, at, b), e, l, at.epoch)
        PROVE  Fresh(Stream(r), r.sub, Start(r, t, at, b), e, Append(l, w), at.epoch)
    BY <1>1, <1>2, FreshGrows
  <1> QED
    BY <1>2 DEF Knows

LEMMA KnowsNext ==
    ASSUME NEW r \in Reply, NEW s \in Reply, NEW t, NEW at \in Cursor, NEW b \in Nat, NEW e, NEW l \in Log,
           NEW w \in Origins \cup {Rejected}, NEW f \in Frame, NEW k \in Log,
           \/ f.kind = "ping" /\ k = l
           \/ f.kind = "event" /\ f.epoch = e /\ f.seq = Len(l) + 1 /\ r.sub /\ k = Append(l, w),
           s.cursor = r.cursor, s.live = r.live, s.from = r.from, s.status = r.status,
           ~r.closed, Begins(Stream(s), Stream(r) \o <<f>>), s.sub => r.sub /\ Stream(s) = Stream(r) \o <<f>>,
           Knows(r, t, at, b, e, l)
    PROVE  Knows(s, t, at, b, e, k)
  <1>1. /\ Stream(r) \in Seq(Frame) /\ Stream(s) \in Seq(Frame) /\ Start(r, t, at, b) \in Nat
        /\ r.sub \in BOOLEAN /\ s.sub \in BOOLEAN /\ Stream(r) \o <<f>> \in Seq(Frame)
    BY StreamType, OneMore
  <1>2. Start(s, t, at, b) = Start(r, t, at, b)
    BY DEF Start
  <1>3. Fresh(Stream(r), r.sub, Start(r, t, at, b), e, l, at.epoch)
    BY DEF Knows, Old
  <1>4. PICK u \in Seq(Frame) : u = Stream(r) \o <<f>>
    BY <1>1
  <1>5. Fresh(u, r.sub, Start(r, t, at, b), e, k, at.epoch)
    BY <1>1, <1>3, <1>4, FreshNext
  <1>6. Begins(Stream(s), u) /\ (s.sub => r.sub /\ Stream(s) = u)
    BY <1>4
  <1>7. PICK v \in Seq(Frame), before \in BOOLEAN, after \in BOOLEAN, p \in Nat :
          v = Stream(s) /\ before = r.sub /\ after = s.sub /\ p = Start(r, t, at, b)
    BY <1>1
  <1>8. Fresh(v, after, p, e, k, at.epoch)
    BY <1>5, <1>6, <1>7, FreshBegins
  <1> QED
    BY <1>2, <1>7, <1>8 DEF Knows

(* A request that has not been accepted.                                   *)
LEMMA KnowsNothing ==
    ASSUME NEW r \in Reply, NEW t, NEW at, NEW b, NEW e, NEW l,
           ResponseFits(r), r.status # "ok", t # "reading", t = "fetching" => r.cursor = at
    PROVE  Knows(r, t, at, b, e, l)
  <1>1. r.wire = <<>> /\ r.queue = <<>> /\ ~r.sub
    BY DEF ResponseFits
  <1>2. Stream(r) = <<>> /\ Len(<<>>) = 0
    BY <1>1 DEF Stream
  <1>3. Fresh(Stream(r), r.sub, Start(r, t, at, b), e, l, at.epoch)
    BY <1>1, <1>2 DEF Fresh
  <1> QED
    BY <1>3 DEF Knows

LEMMA KnowsRestart ==
    ASSUME NEW r \in Reply, NEW s \in Reply, NEW t, NEW at \in Cursor, NEW b \in Nat, NEW e \in Nat, NEW l \in Log,
           s.cursor = r.cursor, s.live = r.live, s.status = r.status,
           s.closed, Begins(Stream(s), Stream(r)), Knows(r, t, at, b, e, l)
    PROVE  Knows(s, t, at, b, e + 1, <<>>)
  <1>1. Stream(r) \in Seq(Frame) /\ Stream(s) \in Seq(Frame)
    BY StreamType
  <1>2. \A i \in 1..Len(Stream(s)) : i \in 1..Len(Stream(r)) /\ Stream(s)[i] = Stream(r)[i] /\ Stream(r)[i] \in Frame
    BY <1>1, LenProperties DEF Begins
  <1>3. \A i \in 1..Len(Stream(r)) : Stream(r)[i].kind # "ping" => Stream(r)[i].epoch < e \/ Stream(r)[i].epoch = e
    BY DEF Knows, Old, Fresh
  <1>4. ASSUME NEW i \in 1..Len(Stream(s)), Stream(s)[i].kind # "ping" PROVE Stream(s)[i].epoch < e + 1
    <2>1. PICK f \in Frame : f = Stream(s)[i] /\ f.epoch \in Nat
      BY <1>2 DEF Frame
    <2>2. f.epoch < e \/ f.epoch = e
      BY <1>2, <1>3, <1>4, <2>1
    <2> QED
      BY <2>1, <2>2
  <1>5. Old(Stream(s), s.closed, e + 1)
    BY <1>4 DEF Old
  <1> QED
    BY <1>5 DEF Knows

(* subscribe: the replay follows the cursor, a reset needs none, and a     *)
(* live stream begins at the head.                                         *)
LEMMA KnowsSubscribed ==
    ASSUME BusIInv, NEW r \in Reply, NEW at \in Cursor, NEW b \in Nat, NEW frames \in Seq(Frame), First(at, frames),
           Begins(Stream(r), frames), r.sub => Stream(r) = frames, r.status = "ok", r.cursor = at,
           r.live <=> at = NoCursor, r.from = Len(log), at.epoch = epoch => at.seq <= Len(log)
    PROVE  Knows(r, "fetching", at, b, epoch, log)
  <1>1. epoch \in Nat \ {0} /\ log \in Log /\ Len(log) \in Nat /\ at.seq \in Nat /\ at.epoch \in Nat
    BY LenProperties DEF BusIInv, Log, Cursor
  <1>2. PICK p \in Nat : p = Start(r, "fetching", at, b)
    BY StreamType
  <1>3. ASSUME at = NoCursor, frames = <<>> PROVE Fresh(frames, TRUE, p, epoch, log, at.epoch)
    <2>1. p = Len(log) /\ at.epoch = 0
      BY <1>2, <1>3 DEF Start, NoCursor
    <2>2. Len(frames) = 0
      BY <1>3
    <2>3. 1..Len(frames) = {} /\ 2..Len(frames) = {} /\ (p + 1)..Len(log) = {} /\ p <= Len(log)
      BY <1>1, <2>1, <2>2
    <2>4. ~Resets(frames) /\ Follows(frames, p, log) /\ Complete(frames, p, log)
      BY <2>2, <2>3 DEF Resets, Follows, Complete
    <2> QED
      BY <2>1, <2>3, <2>4 DEF Fresh
  <1>4. ASSUME frames = <<ResetFrame>> PROVE Fresh(frames, TRUE, p, epoch, log, at.epoch)
    <2>1. /\ Len(frames) = 1 /\ frames[1].kind = "reset" /\ frames[1].seq = Len(log) /\ frames[1].epoch = epoch
      BY <1>4 DEF ResetFrame, getLatestSequence
    <2>2. 1..Len(frames) = {1} /\ 2..Len(frames) = {} /\ (Len(log) + 1)..Len(log) = {}
      BY <1>1, <2>1
    <2>3. Resets(frames) /\ Follows(frames, Len(log), log) /\ Complete(frames, Len(log), log)
      BY <2>1, <2>2 DEF Resets, Follows, Complete
    <2>4. frames[1].seq <= Len(log)
      BY <1>1, <2>1
    <2> QED
      BY <2>1, <2>2, <2>3, <2>4 DEF Fresh
  <1>5. ASSUME at # NoCursor, at.epoch = epoch, Replays(frames, at.seq)
        PROVE  Fresh(frames, TRUE, p, epoch, log, at.epoch)
    <2>1. p = at.seq /\ p <= Len(log)
      BY <1>1, <1>2, <1>5 DEF Start
    <2>2. Len(frames) \in Nat
      BY LenProperties
    <2>3. /\ \A i \in 1..Len(frames) : /\ frames[i].kind = "event" /\ frames[i].epoch = epoch
                                       /\ frames[i].seq \in (p + 1)..Len(log)
          /\ \A i, j \in 1..Len(frames) : i < j => frames[i].seq < frames[j].seq
          /\ \A m \in (p + 1)..Len(log) : matchesWorkspace(log[m]) => \E i \in 1..Len(frames) : frames[i].seq = m
      BY <1>5, <2>1 DEF Replays, Visible
    <2>4. ~Resets(frames) /\ \A i \in 2..Len(frames) : frames[i].kind # "reset"
      <3>1. (\A i \in 2..Len(frames) : i \in 1..Len(frames)) /\ (Len(frames) > 0 => 1 \in 1..Len(frames))
        BY <2>2
      <3> QED
        BY <2>3, <3>1 DEF Resets
    <2>5. Complete(frames, p, log)
      BY <2>3 DEF Complete, Told
    <2>6. Follows(frames, p, log)
      <3> SUFFICES ASSUME NEW i \in 1..Len(frames)
                   PROVE  /\ frames[i].seq \in (p + 1)..Len(log)
                          /\ \A m \in (p + 1)..(frames[i].seq - 1) :
                                matchesWorkspace(log[m]) => \E j \in 1..(i - 1) : Told(frames, j, m)
                          /\ \A j \in 1..(i - 1) : frames[j].kind = "event" => frames[j].seq < frames[i].seq
        BY DEF Follows
      <3>1. frames[i].seq \in (p + 1)..Len(log)
        BY <2>3
      <3>2. ASSUME NEW m \in (p + 1)..(frames[i].seq - 1), matchesWorkspace(log[m])
            PROVE  \E j \in 1..(i - 1) : Told(frames, j, m)
        <4>1. m \in (p + 1)..Len(log)
          BY <1>1, <3>1
        <4>2. PICK j \in 1..Len(frames) : frames[j].seq = m
          BY <2>3, <3>2, <4>1
        <4>3. frames[j].seq < frames[i].seq
          BY <1>1, <3>1, <4>2
        <4>4. ~(i < j) /\ i # j
          <5>1. i < j => frames[i].seq < frames[j].seq
            BY <2>3
          <5> QED
            BY <1>1, <3>1, <4>1, <4>2, <4>3, <5>1
        <4>5. j \in 1..(i - 1)
          BY <2>2, <4>4
        <4> QED
          BY <2>3, <4>2, <4>5 DEF Told
      <3>3. ASSUME NEW j \in 1..(i - 1) PROVE frames[j].seq < frames[i].seq
        <4>1. j \in 1..Len(frames) /\ j < i
          BY <2>2
        <4> QED
          BY <2>3, <4>1
      <3> QED
        BY <3>1, <3>2, <3>3
    <2> QED
      BY <1>5, <2>1, <2>3, <2>4, <2>5, <2>6 DEF Fresh
  <1>6. Fresh(frames, TRUE, p, epoch, log, at.epoch)
    BY <1>3, <1>4, <1>5 DEF First
  <1>7. PICK v \in Seq(Frame), after \in BOOLEAN : v = Stream(r) /\ after = r.sub
    BY StreamType
  <1>8. Fresh(v, after, p, epoch, log, at.epoch)
    BY <1>1, <1>6, <1>7, FreshBegins
  <1> QED
    BY <1>2, <1>7, <1>8 DEF Knows

(* The server moves, the client does not.                                  *)
LEMMA GapKept ==
    ASSUME BusIInv, ClientIInv, GapIInv, UNCHANGED <<cursor, base, got, task, aborted>>,
           \A c \in Attempt : Knows(conn'[c], task[c], cursor, base, epoch', log'),
           \/ epoch' = epoch + 1
           \/ epoch' = epoch /\ log' = log
           \/ epoch' = epoch /\ \E w \in Origins \cup {Rejected} : log' = Append(log, w)
    PROVE  GapIInv'
  <1>1. Attempt' = Attempt
    BY DEF Attempt, Running
  <1>2. /\ epoch \in Nat /\ log \in Log /\ Len(log) \in Nat /\ cursor.epoch \in Nat /\ cursor.seq \in Nat /\ base \in Nat
        /\ cursor.epoch <= epoch /\ (cursor.epoch = epoch => cursor.seq <= Len(log))
    BY LenProperties DEF BusIInv, ClientIInv, ClientTypeOK, Cursor, GapIInv, CursorFits, Log
  <1>3. CASE epoch' = epoch + 1
    <2>1. cursor'.epoch <= epoch' /\ cursor'.epoch # epoch'
      BY <1>2, <1>3
    <2> QED
      BY <1>1, <2>1 DEF GapIInv, CursorFits, NoSilentGap
  <1>4. CASE epoch' = epoch /\ log' = log
    BY <1>1, <1>4 DEF GapIInv, CursorFits, NoSilentGap
  <1>5. ASSUME epoch' = epoch, NEW w \in Origins \cup {Rejected}, log' = Append(log, w) PROVE GapIInv'
    <2>1. Len(log') = Len(log) + 1 /\ \A m \in 1..Len(log) : log'[m] = log[m]
      BY <1>2, <1>5, AppendProperties DEF Log
    <2>2. CursorFits'
      BY <1>2, <1>5, <2>1 DEF CursorFits
    <2>3. NoSilentGap'
      <3> SUFFICES ASSUME cursor.epoch = epoch, NEW n \in (base + 1)..cursor.seq, log'[n] \in {Scope, Everywhere}
                   PROVE  n \in got
        BY <1>5 DEF NoSilentGap
      <3>1. n \in 1..Len(log)
        BY <1>2
      <3> QED
        BY <2>1, <3>1 DEF GapIInv, NoSilentGap
    <2> QED
      BY <1>1, <2>2, <2>3 DEF GapIInv
  <1> QED
    BY <1>3, <1>4, <1>5

LEMMA GapOne ==
    ASSUME BusIInv, ClientIInv, GapIInv, UNCHANGED <<cursor, base, got, task, aborted, epoch, log>>,
           NEW c \in Conns, NEW out \in Reply, conn' = [conn EXCEPT ![c] = out],
           Knows(conn[c], task[c], cursor, base, epoch, log) => Knows(out, task[c], cursor, base, epoch, log)
    PROVE  GapIInv'
  <1>1. \A d \in Attempt : d \in Conns /\ conn'[d] = IF d = c THEN out ELSE conn[d]
    BY DEF BusIInv, Attempt, Running
  <1>2. \A d \in Attempt : Knows(conn'[d], task[d], cursor, base, epoch, log)
    BY <1>1 DEF GapIInv
  <1> QED
    BY <1>2, GapKept

LEMMA GapTypes ==
    ASSUME BusIInv, ClientIInv
    PROVE  log \in Log /\ epoch \in Nat /\ cursor \in Cursor /\ base \in Nat
  BY DEF BusIInv, ClientIInv, ClientTypeOK, Log

LEMMA GapBusSimple ==
    ASSUME BusIInv, ClientIInv, GapIInv, UNCHANGED clientVars, NEW c \in Conns, NEW status \in {"401", "429", "5xx"},
           OnDisconnect(c) \/ Cut(c) \/ Refuse(c, status) \/ HandleDrain(c) \/ SendHeartbeat(c)
    PROVE  GapIInv'
  <1>1. PICK r \in Reply : r = conn[c]
    BY DEF BusIInv
  <1>2. log \in Log /\ epoch \in Nat /\ cursor \in Cursor /\ base \in Nat /\ ResponseFits(r)
    BY <1>1, GapTypes, ConnType
  <1>3. UNCHANGED <<cursor, base, got, task, aborted, epoch, log>>
    BY DEF clientVars, OnDisconnect, Cut, Refuse, HandleDrain, SendHeartbeat
  <1>4. Begins(Stream(r), Stream(r))
    BY <1>1, ConnType, BeginsConcat
  <1>5. CASE OnDisconnect(c)
    <2>1. PICK s \in Reply : s = Close(r)
      BY CloseEffect
    <2>2. /\ s.cursor = r.cursor /\ s.live = r.live /\ s.from = r.from /\ s.status = r.status /\ s.closed /\ ~s.sub
          /\ Begins(Stream(s), Stream(r))
      BY <2>1, CloseEffect
    <2>3. Knows(r, task[c], cursor, base, epoch, log) => Knows(s, task[c], cursor, base, epoch, log)
      BY <1>2, <2>2, KnowsLess
    <2>4. conn' = [conn EXCEPT ![c] = s]
      BY <1>1, <1>5, <2>1 DEF OnDisconnect
    <2> QED
      BY <1>1, <1>3, <2>3, <2>4, GapOne
  <1>6. CASE Cut(c)
    <2>1. PICK s \in Reply : s = [r EXCEPT !.cut = TRUE]
      BY DEF Reply
    <2>2. /\ s.cursor = r.cursor /\ s.live = r.live /\ s.from = r.from /\ s.status = r.status /\ s.closed = r.closed
          /\ s.sub = r.sub /\ s.wire = r.wire /\ s.queue = r.queue
      BY <2>1 DEF Reply
    <2>3. Stream(s) = Stream(r)
      BY <2>2 DEF Stream
    <2>4. Knows(r, task[c], cursor, base, epoch, log) => Knows(s, task[c], cursor, base, epoch, log)
      BY <1>2, <1>4, <2>2, <2>3, KnowsLess
    <2>5. conn' = [conn EXCEPT ![c] = s]
      BY <1>1, <1>6, <2>1 DEF Cut
    <2> QED
      BY <1>1, <1>3, <2>4, <2>5, GapOne
  <1>7. CASE Refuse(c, status)
    <2>1. PICK s \in Reply : s = [r EXCEPT !.status = status, !.closed = TRUE]
      BY DEF Reply
    <2>2. r.status = "none" /\ conn' = [conn EXCEPT ![c] = s]
      BY <1>1, <1>7, <2>1 DEF Refuse
    <2>3. /\ s.cursor = r.cursor /\ s.live = r.live /\ s.from = r.from /\ s.status = status /\ s.closed
          /\ s.sub = r.sub /\ s.wire = r.wire /\ s.queue = r.queue
      BY <2>1 DEF Reply
    <2>4. Stream(s) = Stream(r)
      BY <2>3 DEF Stream
    <2>5. Knows(r, task[c], cursor, base, epoch, log) => Knows(s, task[c], cursor, base, epoch, log)
      BY <1>2, <1>4, <2>2, <2>3, <2>4, KnowsLess
    <2> QED
      BY <1>1, <1>3, <2>2, <2>5, GapOne
  <1>8. CASE HandleDrain(c)
    <2>1. PICK s \in Reply :
             /\ conn' = [conn EXCEPT ![c] = s]
             /\ ResponseFits(s) /\ (s.sub => r.sub) /\ Begins(Stream(s), Stream(r))
             /\ ~s.closed => Stream(s) = Stream(r)
             /\ s.status = r.status /\ s.cursor = r.cursor /\ s.live = r.live /\ s.from = r.from
      BY <1>1, <1>8, DrainEffect
    <2>2. ~r.closed /\ (s.sub => ~s.closed)
      BY <1>1, <1>8, <2>1 DEF HandleDrain, ResponseFits
    <2>3. Knows(r, task[c], cursor, base, epoch, log) => Knows(s, task[c], cursor, base, epoch, log)
      BY <1>2, <2>1, <2>2, KnowsLess
    <2> QED
      BY <1>1, <1>3, <2>1, <2>3, GapOne
  <1>9. CASE SendHeartbeat(c)
    <2>1. PICK s \in Reply :
             /\ conn' = [conn EXCEPT ![c] = s]
             /\ ResponseFits(s) /\ (s.sub => r.sub) /\ Begins(Stream(s), Stream(r) \o <<Ping>>)
             /\ ~s.closed => Stream(s) = Stream(r) \o <<Ping>>
             /\ s.status = r.status /\ s.cursor = r.cursor /\ s.live = r.live /\ s.from = r.from
      BY <1>1, <1>9, HeartbeatEffect
    <2>2. ~r.closed /\ (s.sub => ~s.closed)
      BY <1>1, <1>9, <2>1 DEF SendHeartbeat, ResponseFits
    <2>3. Ping \in Frame /\ Ping.kind = "ping"
      BY DEF Ping, Frame
    <2>4. Knows(r, task[c], cursor, base, epoch, log) => Knows(s, task[c], cursor, base, epoch, log)
      BY <1>2, <2>1, <2>2, <2>3, KnowsNext
    <2> QED
      BY <1>1, <1>3, <2>1, <2>4, GapOne
  <1> QED
    BY <1>5, <1>6, <1>7, <1>8, <1>9

LEMMA GapBusEvents ==
    ASSUME BusIInv, ClientIInv, GapIInv, UNCHANGED clientVars, PublishRejected \/ Restart \/ \E w \in Origins : Publish(w)
    PROVE  GapIInv'
  <1>1. log \in Log /\ epoch \in Nat /\ cursor \in Cursor /\ base \in Nat
    BY GapTypes
  <1>2. UNCHANGED <<cursor, base, got, task, aborted>>
    BY DEF clientVars
  <1>3. \A c \in Attempt : /\ c \in Conns /\ conn[c] \in Reply /\ ResponseFits(conn[c])
                           /\ Knows(conn[c], task[c], cursor, base, epoch, log)
    BY ConnType DEF Attempt, Running, GapIInv
  <1>4. ASSUME PublishRejected PROVE GapIInv'
    <2>1. log' = Append(log, Rejected) /\ UNCHANGED <<epoch, conn>>
      BY <1>4 DEF PublishRejected
    <2>2. ~matchesWorkspace(Rejected)
      BY BusAssumption DEF matchesWorkspace
    <2>3. \A c \in Attempt : Knows(conn'[c], task[c], cursor, base, epoch', log')
      BY <1>1, <1>3, <2>1, <2>2, KnowsGrows
    <2> QED
      BY <1>2, <2>1, <2>3, GapKept
  <1>5. ASSUME Restart PROVE GapIInv'
    <2>1. /\ epoch' = epoch + 1 /\ log' = <<>> /\ conn' \in [Conns -> Reply]
          /\ \A c \in Conns :
                /\ ~conn'[c].sub /\ ResponseFits(conn[c])' /\ conn'[c].status = conn[c].status
                /\ conn'[c].cursor = conn[c].cursor /\ conn'[c].live = conn[c].live
                /\ \/ conn[c].status = "free" /\ conn'[c] = conn[c]
                   \/ conn'[c].closed /\ Begins(Stream(conn'[c]), Stream(conn[c]))
      BY <1>5, RestartEffect
    <2>2. ASSUME NEW c \in Attempt PROVE Knows(conn'[c], task[c], cursor, base, epoch', log')
      <3>1. PICK r \in Reply, s \in Reply : r = conn[c] /\ s = conn'[c]
        BY <1>3, <2>1
      <3>2. CASE r.status = "free" /\ s = r
        <4>1. task[c] # "reading" /\ (task[c] = "fetching" => s.cursor = cursor)
          BY <1>3, <3>1, <3>2 DEF Knows
        <4> QED
          BY <1>3, <3>1, <3>2, <4>1, KnowsNothing
      <3>3. CASE s.closed /\ Begins(Stream(s), Stream(r))
        <4>1. s.cursor = r.cursor /\ s.live = r.live /\ s.status = r.status /\ Knows(r, task[c], cursor, base, epoch, log)
          BY <1>3, <2>1, <3>1
        <4>2. Knows(s, task[c], cursor, base, epoch + 1, <<>>)
          BY <1>1, <3>3, <4>1, KnowsRestart
        <4> QED
          BY <2>1, <3>1, <4>2
      <3> QED
        BY <1>3, <2>1, <3>1, <3>2, <3>3
    <2> QED
      BY <1>2, <2>1, <2>2, GapKept
  <1>6. ASSUME NEW w \in Origins, Publish(w) PROVE GapIInv'
    <2>1. log' = Append(log, w) /\ UNCHANGED epoch /\ conn' \in [Conns -> Reply]
      BY <1>6, PublishEffect
    <2>2. PICK f \in Frame : f = Event(Len(log) + 1) /\ f.kind = "event" /\ f.epoch = epoch /\ f.seq = Len(log) + 1
      <3>1. PICK n \in Nat : n = Len(log) + 1
        BY <1>1, LenProperties DEF Log
      <3>2. Event(n) \in Frame /\ Event(n).kind = "event" /\ Event(n).epoch = epoch /\ Event(n).seq = n
        BY <1>1 DEF Event, Frame
      <3> QED
        BY <3>1, <3>2
    <2>3. PICK k \in Log : k = log'
      BY <1>1, <2>1, AppendProperties DEF Log
    <2>4. ASSUME NEW c \in Attempt PROVE Knows(conn'[c], task[c], cursor, base, epoch', log')
      <3>1. PICK r \in Reply, s \in Reply : r = conn[c] /\ s = conn'[c]
        BY <1>3, <2>1
      <3>2. Knows(r, task[c], cursor, base, epoch, log) /\ c \in Conns
        BY <1>3, <3>1
      <3>3. \/ s = r /\ ~(r.sub /\ matchesWorkspace(w))
            \/ /\ r.sub /\ ResponseFits(conn[c])' /\ (s.sub => r.sub)
               /\ Begins(Stream(s), Stream(r) \o <<f>>) /\ (~s.closed => Stream(s) = Stream(r) \o <<f>>)
               /\ s.status = r.status /\ s.cursor = r.cursor /\ s.live = r.live /\ s.from = r.from
        BY <1>6, <2>2, <3>1, <3>2, PublishEffect
      <3>4. CASE s = r /\ ~(r.sub /\ matchesWorkspace(w))
        BY <1>1, <2>1, <3>1, <3>2, <3>4, KnowsGrows
      <3>5. CASE ~(s = r /\ ~(r.sub /\ matchesWorkspace(w)))
        <4>1. ~r.closed /\ r.sub
          BY <1>3, <3>1, <3>3, <3>5 DEF ResponseFits
        <4>2. s.sub => ~s.closed
          BY <3>1, <3>3, <3>5 DEF ResponseFits
        <4>3. Knows(s, task[c], cursor, base, epoch, k)
          BY <1>1, <2>1, <2>2, <2>3, <3>2, <3>3, <3>5, <4>1, <4>2, KnowsNext
        <4> QED
          BY <2>1, <2>3, <3>1, <4>3
      <3> QED
        BY <3>4, <3>5
    <2> QED
      BY <1>2, <2>1, <2>4, GapKept
  <1> QED
    BY <1>4, <1>5, <1>6

LEMMA GapSubscribe ==
    ASSUME BusIInv, ClientIInv, GapIInv, UNCHANGED clientVars, NEW c \in Conns, Subscribe(c)
    PROVE  GapIInv'
  <1>1. log \in Log /\ epoch \in Nat /\ cursor \in Cursor /\ base \in Nat
    BY GapTypes
  <1>2. PICK out \in Reply : \E frames \in Seq(Frame) :
             /\ conn' = [conn EXCEPT ![c] = out] /\ UNCHANGED <<epoch, log>>
             /\ conn[c].status = "none" /\ out.status = "ok" /\ out.cursor = conn[c].cursor
             /\ (out.live <=> conn[c].cursor = NoCursor) /\ out.from = Len(log)
             /\ First(conn[c].cursor, frames)
             /\ Begins(Stream(out), frames) /\ (out.sub => Stream(out) = frames)
    BY SubscribeEffect
  <1>3. PICK frames \in Seq(Frame) :
             /\ conn' = [conn EXCEPT ![c] = out] /\ UNCHANGED <<epoch, log>>
             /\ conn[c].status = "none" /\ out.status = "ok" /\ out.cursor = conn[c].cursor
             /\ (out.live <=> conn[c].cursor = NoCursor) /\ out.from = Len(log)
             /\ First(conn[c].cursor, frames)
             /\ Begins(Stream(out), frames) /\ (out.sub => Stream(out) = frames)
    BY <1>2
  <1>4. ASSUME c \in Attempt PROVE Knows(out, task[c], cursor, base, epoch, log)
    <2>1. task[c] = "fetching" /\ conn[c].cursor = cursor
      BY <1>3, <1>4 DEF GapIInv, Knows, Attempt, Running, ClientIInv, ClientTypeOK
    <2>2. cursor.epoch = epoch => cursor.seq <= Len(log)
      BY DEF GapIInv, CursorFits
    <2>3. Knows(out, "fetching", cursor, base, epoch, log)
      BY <1>1, <1>3, <2>1, <2>2, KnowsSubscribed
    <2> QED
      BY <2>1, <2>3
  <1>5. \A d \in Attempt : d \in Conns /\ conn'[d] = IF d = c THEN out ELSE conn[d]
    BY <1>3 DEF BusIInv, Attempt, Running
  <1>6. \A d \in Attempt : Knows(conn'[d], task[d], cursor, base, epoch, log)
    BY <1>4, <1>5 DEF GapIInv
  <1> QED
    BY <1>3, <1>6, GapKept DEF clientVars

(* The client moves without reading.                                       *)
LEMMA GapLess ==
    ASSUME GapIInv, UNCHANGED <<epoch, log, cursor, base, got>>,
           \A d \in Attempt' : \/ d \in Attempt /\ task'[d] = task[d] /\ conn'[d] = conn[d]
                               \/ Knows(conn'[d], task'[d], cursor, base, epoch, log)
    PROVE  GapIInv'
  BY DEF GapIInv, CursorFits, NoSilentGap

LEMMA GapClientMoves ==
    ASSUME BusIInv, BusIInv', ClientIInv, GapIInv,
           \/ Connect \/ Disconnect \/ ReconnectFires \/ ProbeFires \/ onWatchdogTimeout
           \/ \E c \in Conns : FetchFails(c) \/ FetchAborted(c) \/ ReadEnds(c) \/ ReadAborted(c)
    PROVE  GapIInv'
  <1>1. CASE attemptConnect /\ UNCHANGED <<epoch, log, cursor, base, got, aborted>>
    <2>1. CASE UNCHANGED <<task, conn>>
      BY <1>1, <2>1, GapLess DEF Attempt, Running
    <2>2. ASSUME NEW c \in Conns, task' = [task EXCEPT ![c] = "fetching"],
                 conn' = [conn EXCEPT ![c] = [Idle EXCEPT !.status = "none", !.cursor = cursor]]
          PROVE  GapIInv'
      <3>1. PICK r \in Reply : r = [Idle EXCEPT !.status = "none", !.cursor = cursor]
        BY EmptySeq DEF Idle, Reply, ClientIInv, ClientTypeOK
      <3>2. ResponseFits(r) /\ r.status = "none" /\ r.cursor = cursor
        BY <3>1 DEF ResponseFits, Idle
      <3>3. Knows(r, "fetching", cursor, base, epoch, log)
        BY <3>2, KnowsNothing
      <3>4. \A d \in Conns : /\ conn'[d] = IF d = c THEN r ELSE conn[d]
                             /\ task'[d] = IF d = c THEN "fetching" ELSE task[d]
        BY <2>2, <3>1 DEF BusIInv, ClientIInv, ClientTypeOK
      <3>5. \A d \in Attempt' : \/ d \in Attempt /\ task'[d] = task[d] /\ conn'[d] = conn[d]
                                \/ Knows(conn'[d], task'[d], cursor, base, epoch, log)
        BY <1>1, <3>3, <3>4 DEF Attempt, Running
      <3> QED
        BY <1>1, <3>5, GapLess
    <2> QED
      BY <1>1, <2>1, <2>2 DEF attemptConnect
  <1>2. CASE Abort(ctl) /\ UNCHANGED <<epoch, log, cursor, base, got, task>>
    <2>1. Running' = Running
      BY <1>2 DEF Running
    <2>2. \A d \in Conns : d # ctl => conn'[d] = conn[d]
      BY <1>2 DEF Abort, Running, BusIInv
    <2>3. \A d \in Attempt' : d \in Conns /\ d \in Attempt /\ d # ctl
      BY <1>2, <2>1 DEF Abort, Attempt, Running
    <2> QED
      BY <1>2, <2>2, <2>3, GapLess
  <1>3. ASSUME NEW c \in Conns, task' = [task EXCEPT ![c] = "idle"], UNCHANGED <<busVars, cursor, base, got>>,
               aborted \ {c} \subseteq aborted'
        PROVE  GapIInv'
    <2>1. \A d \in Conns : task'[d] = IF d = c THEN "idle" ELSE task[d]
      BY <1>3 DEF ClientIInv, ClientTypeOK
    <2>2. \A d \in Attempt' : d \in Attempt /\ task'[d] = task[d]
      BY <1>3, <2>1 DEF Attempt, Running
    <2> QED
      BY <1>3, <2>2, GapLess DEF busVars
  <1>4. CASE Connect \/ ReconnectFires \/ ProbeFires
    <2>1. CASE attemptConnect
      BY <1>1, <1>4, <2>1 DEF Connect, ReconnectFires, ProbeFires
    <2>2. CASE ~attemptConnect
      <3>1. UNCHANGED <<epoch, log, cursor, base, got, aborted, task, conn>>
        BY <1>4, <2>2 DEF Connect, ReconnectFires, ProbeFires
      <3> QED
        BY <3>1, GapLess DEF Attempt, Running
    <2> QED
      BY <2>1, <2>2
  <1>5. CASE Disconnect \/ onWatchdogTimeout
    BY <1>2, <1>5 DEF Disconnect, onWatchdogTimeout
  <1>6. ASSUME NEW c \in Conns, FetchFails(c) \/ FetchAborted(c) \/ ReadEnds(c) \/ ReadAborted(c)
        PROVE  GapIInv'
    BY <1>3, <1>6 DEF FetchFails, FetchAborted, ReadEnds, ReadAborted
  <1> QED
    BY <1>4, <1>5, <1>6

(* An accepted attempt begins to read; without a cursor its stream begins  *)
(* here.                                                                   *)
LEMMA GapResponse ==
    ASSUME BusIInv, ClientIInv, GapIInv, NEW c \in Conns, Response(c)
    PROVE  GapIInv'
  <1>1. UNCHANGED <<epoch, log, buffer, conn, cursor, aborted>> /\ task[c] = "fetching" /\ aborted = {}
        /\ conn[c].status \notin {"free", "none"}
    BY DEF Response, busVars
  <1>2. CASE conn[c].status \in {"401", "429", "5xx"}
    <2>1. task' = [task EXCEPT ![c] = "idle"] /\ UNCHANGED <<base, got>>
      BY <1>2 DEF Response
    <2>2. \A d \in Conns : task'[d] = IF d = c THEN "idle" ELSE task[d]
      BY <2>1 DEF ClientIInv, ClientTypeOK
    <2>3. \A d \in Attempt' : d \in Attempt /\ task'[d] = task[d]
      BY <1>1, <2>2 DEF Attempt, Running
    <2> QED
      BY <1>1, <2>1, <2>3, GapLess
  <1>3. CASE conn[c].status \notin {"401", "429", "5xx"}
    <2>1. PICK r \in Reply : r = conn[c]
      BY DEF BusIInv
    <2>2. r.status = "ok" /\ r.live \in BOOLEAN
      BY <1>1, <1>3, <2>1 DEF Reply
    <2>3. /\ task' = [task EXCEPT ![c] = "reading"]
          /\ base' = (IF r.live THEN r.from ELSE base) /\ got' = (IF r.live THEN {} ELSE got)
      BY <1>3, <2>1 DEF Response
    <2>4. \A d \in Conns : task'[d] = IF d = c THEN "reading" ELSE task[d]
      BY <2>3 DEF ClientIInv, ClientTypeOK
    <2>5. Attempt = {c} /\ Attempt' = {c}
      <3>1. c \in Attempt
        BY <1>1 DEF Attempt, Running
      <3>2. Attempt = {c}
        BY <3>1 DEF ClientIInv, AttemptFits
      <3> QED
        BY <1>1, <2>4, <3>2 DEF Attempt, Running
    <2>6. Knows(r, "fetching", cursor, base, epoch, log)
      BY <1>1, <2>1, <2>5 DEF GapIInv
    <2>7. (r.live <=> cursor = NoCursor) /\ r.cursor = cursor
      BY <2>2, <2>6 DEF Knows
    <2>8. Start(r, "reading", cursor, base') = Start(r, "fetching", cursor, base)
      BY <2>3, <2>7 DEF Start, NoCursor
    <2>9. Knows(r, "reading", cursor, base', epoch, log)
      BY <2>2, <2>6, <2>8 DEF Knows
    <2>10. NoSilentGap'
      <3>1. CASE r.live
        <4>1. cursor.epoch = 0 /\ epoch # 0
          BY <2>7, <3>1 DEF NoCursor, BusIInv
        <4> QED
          BY <1>1, <4>1 DEF NoSilentGap
      <3>2. CASE ~r.live
        BY <1>1, <2>3, <3>2 DEF NoSilentGap, GapIInv
      <3> QED
        BY <3>1, <3>2
    <2>11. CursorFits'
      BY <1>1 DEF CursorFits, GapIInv
    <2>12. \A d \in Attempt' : Knows(conn'[d], task'[d], cursor', base', epoch', log')
      BY <1>1, <2>1, <2>4, <2>5, <2>9
    <2> QED
      BY <2>10, <2>11, <2>12 DEF GapIInv
  <1> QED
    BY <1>2, <1>3

(* A frame is read: the cursor moves to an event only when every event the *)
(* client may see before it has been told.                                 *)
LEMMA GapRead ==
    ASSUME BusIInv, ClientIInv, GapIInv, NEW c \in Conns, ReadFrame(c)
    PROVE  GapIInv'
  <1>1. log \in Log /\ epoch \in Nat \ {0} /\ cursor \in Cursor /\ base \in Nat /\ Len(log) \in Nat
    BY GapTypes, LenProperties DEF BusIInv, Log
  <1>2. UNCHANGED <<epoch, log, task, aborted>> /\ task[c] = "reading" /\ aborted = {}
    BY DEF ReadFrame
  <1>3. PICK r \in Reply : r = conn[c]
    BY DEF BusIInv
  <1>4. PICK out \in Reply :
             /\ conn' = [conn EXCEPT ![c] = out] /\ out.sub = r.sub /\ out.closed = r.closed /\ out.status = r.status
             /\ Head(r.wire) = Stream(r)[1] /\ Len(Stream(out)) = Len(Stream(r)) - 1
             /\ \A i \in 1..Len(Stream(out)) : Stream(out)[i] = Stream(r)[i + 1]
    BY <1>3, ReadEffect
  <1>5. PICK s \in Seq(Frame), t \in Seq(Frame) : s = Stream(r) /\ t = Stream(out)
    BY StreamType, <1>1
  <1>6. Len(s) \in Nat /\ Len(t) \in Nat /\ Len(s) > 0 /\ Len(t) = Len(s) - 1 /\ \A i \in 1..Len(t) : t[i] = s[i + 1]
    BY <1>4, <1>5, LenProperties
  <1>7. PICK f \in Frame : f = s[1]
    BY <1>6
  <1>8. dispatchFrame(f)
    BY <1>3, <1>4, <1>5, <1>7 DEF ReadFrame
  <1>9. Attempt = {c} /\ Attempt' = {c}
    <2>1. c \in Attempt
      BY <1>2 DEF Attempt, Running
    <2>2. Attempt = {c}
      BY <2>1 DEF ClientIInv, AttemptFits
    <2> QED
      BY <1>2, <2>2 DEF Attempt, Running
  <1>10. Knows(r, "reading", cursor, base, epoch, log) /\ CursorFits /\ NoSilentGap
    BY <1>2, <1>3, <1>9 DEF GapIInv
  <1>11. PICK sub \in BOOLEAN, p \in Nat : sub = r.sub /\ p = (IF cursor.epoch = 0 THEN base ELSE cursor.seq)
    BY <1>1 DEF Reply, Cursor
  <1>12. Start(r, "reading", cursor, base) = p
    BY <1>11 DEF Start
  <1>13. ASSUME CursorFits', NoSilentGap',
                Old(t, r.closed, epoch) \/ Fresh(t, sub, (IF cursor'.epoch = 0 THEN base' ELSE cursor'.seq), epoch, log, cursor'.epoch)
         PROVE  GapIInv'
    <2>1. Start(out, "reading", cursor', base') = IF cursor'.epoch = 0 THEN base' ELSE cursor'.seq
      BY DEF Start
    <2>2. r.status = "ok"
      BY <1>10 DEF Knows
    <2>3. Knows(out, "reading", cursor', base', epoch, log)
      BY <1>4, <1>5, <1>11, <1>13, <2>1, <2>2 DEF Knows
    <2>4. conn'[c] = out /\ task'[c] = "reading"
      BY <1>2, <1>4 DEF BusIInv
    <2>5. \A d \in Attempt' : Knows(conn'[d], task'[d], cursor', base', epoch', log')
      BY <1>2, <1>9, <2>3, <2>4
    <2> QED
      BY <1>13, <2>5 DEF GapIInv
  <1>14. CASE Old(s, r.closed, epoch)
    <2>1. Old(t, r.closed, epoch)
      <3>1. \A i \in 1..Len(t) : i + 1 \in 1..Len(s)
        BY <1>6
      <3> QED
        BY <1>6, <1>14, <3>1 DEF Old
    <2>2. f.kind # "ping" => f.epoch < epoch
      <3>1. 1 \in 1..Len(s)
        BY <1>6
      <3> QED
        BY <1>7, <1>14, <3>1 DEF Old
    <2>3. CASE f.kind = "ping"
      <3>1. UNCHANGED <<cursor, base, got>>
        BY <1>8, <2>3 DEF dispatchFrame
      <3>2. CursorFits' /\ NoSilentGap'
        BY <1>2, <1>10, <3>1 DEF CursorFits, NoSilentGap
      <3> QED
        BY <1>13, <2>1, <3>2
    <2>4. CASE f.kind # "ping"
      <3>1. cursor' = NoCursor \/ cursor' = [epoch |-> f.epoch, seq |-> f.seq]
        BY <1>8, <2>4 DEF dispatchFrame, Frame
      <3>2. f.epoch \in Nat
        BY DEF Frame
      <3>3. cursor'.epoch \in Nat /\ cursor'.epoch < epoch
        BY <1>1, <2>2, <2>4, <3>1, <3>2 DEF NoCursor
      <3>4. CursorFits' /\ NoSilentGap'
        BY <1>1, <1>2, <3>3 DEF CursorFits, NoSilentGap
      <3> QED
        BY <1>13, <2>1, <3>4
    <2> QED
      BY <2>3, <2>4
  <1>15. CASE Fresh(s, sub, p, epoch, log, cursor.epoch)
    <2>1. /\ f.kind = "ping" => Fresh(t, sub, p, epoch, log, cursor.epoch)
          /\ f.kind = "reset" => Fresh(t, sub, f.seq, epoch, log, 0)
          /\ f.kind = "event" => /\ cursor.epoch \in {0, epoch} /\ f.epoch = epoch /\ f.seq \in (p + 1)..Len(log)
                                 /\ \A m \in (p + 1)..(f.seq - 1) : ~matchesWorkspace(log[m])
                                 /\ Fresh(t, sub, f.seq, epoch, log, epoch)
      BY <1>1, <1>6, <1>7, <1>15, FreshRead, SMTT(30)
    <2>2. CASE f.kind = "ping"
      <3>1. UNCHANGED <<cursor, base, got>>
        BY <1>8, <2>2 DEF dispatchFrame
      <3>2. CursorFits' /\ NoSilentGap'
        BY <1>2, <1>10, <3>1 DEF CursorFits, NoSilentGap
      <3> QED
        BY <1>11, <1>13, <2>1, <2>2, <3>1, <3>2
    <2>3. CASE f.kind = "reset"
      <3>1. cursor' = NoCursor /\ base' = f.seq
        BY <1>8, <2>3 DEF dispatchFrame
      <3>2. cursor'.epoch = 0
        BY <3>1 DEF NoCursor
      <3>3. CursorFits' /\ NoSilentGap'
        BY <1>1, <1>2, <3>2 DEF CursorFits, NoSilentGap
      <3> QED
        BY <1>13, <2>1, <2>3, <3>1, <3>2, <3>3
    <2>4. CASE f.kind = "event"
      <3>1. /\ cursor' = [epoch |-> f.epoch, seq |-> f.seq] /\ base' = base
            /\ got' = (IF cursor.epoch \in {0, f.epoch} THEN got ELSE {}) \cup {f.seq}
        BY <1>8, <2>4 DEF dispatchFrame
      <3>2. cursor'.epoch = epoch /\ cursor'.seq = f.seq /\ base' = base /\ got' = got \cup {f.seq}
        BY <2>1, <2>4, <3>1
      <3>3. f.seq \in (p + 1)..Len(log) /\ \A m \in (p + 1)..(f.seq - 1) : ~matchesWorkspace(log[m])
        BY <2>1, <2>4
      <3>4. CursorFits'
        BY <1>1, <1>2, <3>2, <3>3 DEF CursorFits
      <3>5. NoSilentGap'
        <4> SUFFICES ASSUME NEW n \in (base + 1)..f.seq, log[n] \in {Scope, Everywhere}, n # f.seq
                     PROVE  n \in got
          BY <1>2, <3>2 DEF NoSilentGap
        <4>1. f.seq \in Int /\ matchesWorkspace(log[n])
          BY <3>3 DEF matchesWorkspace
        <4>2. n \notin (p + 1)..(f.seq - 1)
          BY <3>3, <4>1
        <4>3. n <= p
          BY <1>1, <4>1, <4>2
        <4>4. cursor.epoch = epoch /\ p = cursor.seq
          BY <1>1, <1>11, <2>1, <2>4, <4>3
        <4>5. n \in (base + 1)..cursor.seq
          BY <1>1, <4>3, <4>4
        <4> QED
          BY <1>10, <4>4, <4>5 DEF NoSilentGap
      <3>6. Fresh(t, sub, (IF cursor'.epoch = 0 THEN base' ELSE cursor'.seq), epoch, log, cursor'.epoch)
        BY <1>1, <2>1, <2>4, <3>2
      <3> QED
        BY <1>13, <3>4, <3>5, <3>6
    <2> QED
      BY <2>2, <2>3, <2>4 DEF Frame
  <1> QED
    BY <1>5, <1>10, <1>11, <1>12, <1>14, <1>15 DEF Knows

LEMMA GapNext ==
    ASSUME BusIInv, BusIInv', ClientIInv, GapIInv, [Next]_vars
    PROVE  GapIInv'
  <1>1. CASE UNCHANGED vars
    BY <1>1, GapLess DEF vars, busVars, clientVars, Attempt, Running
  <1>2. CASE BusStep /\ UNCHANGED clientVars
    <2>1. ASSUME NEW c \in Conns, HandleDrain(c) \/ SendHeartbeat(c) \/ OnDisconnect(c) \/ Cut(c) PROVE GapIInv'
      BY <1>2, <2>1, GapBusSimple
    <2> QED
      BY <1>2, <2>1, GapBusSimple, GapBusEvents, GapSubscribe DEF BusStep
  <1>3. CASE Next /\ ~(BusStep /\ UNCHANGED clientVars)
    BY <1>3, GapClientMoves, GapResponse, GapRead DEF Next
  <1> QED
    BY <1>1, <1>2, <1>3

(* "Exactly once without dropping": a client whose cursor stands at event  *)
(* n of this epoch was given every event it may see from where its stream  *)
(* began up to n, through any number of reconnects, evictions from the     *)
(* replay buffer (of any capacity), slow-consumer closes and restarts.     *)
THEOREM NeverASilentGap == Spec => []NoSilentGap
  <1>1. Init => GapIInv
    <2> SUFFICES ASSUME Init PROVE GapIInv
      OBVIOUS
    <2>1. Attempt = {}
      BY DEF Init, Attempt, Running
    <2>2. cursor.epoch = 0 /\ epoch = 1
      BY DEF Init, BusInit, NoCursor
    <2> QED
      BY <2>1, <2>2 DEF GapIInv, CursorFits, NoSilentGap
  <1>2. GapIInv => NoSilentGap
    BY DEF GapIInv
  <1> QED
    BY <1>1, <1>2, InitFits, BusNext, ClientNext, GapNext, PTL DEF Spec
====
