----------------------- MODULE WorkspaceStreamProofs -----------------------
(***************************************************************************)
(* What the tab of WorkspaceStream is promised, for every number of        *)
(* publishers, events, broken connections and crashes and every size of    *)
(* the queues and the log.                                                 *)
(***************************************************************************)
EXTENDS WorkspaceStream, FiniteSetTheorems, WellFoundedInduction, TLAPS

(***************************************************************************)
(* Sets of numbers.                                                        *)
(***************************************************************************)
LEMMA LessIsWellFounded == IsWellFoundedOn({s \in Nat \X Nat : s[1] < s[2]}, Nat)
  BY NatLessThanWellFounded DEF OpToRel

(* Every nonempty set of numbers has a least element.                      *)
LEMMA LeastNumber ==
    ASSUME NEW T, T \subseteq Nat, T # {}
    PROVE  \E x \in T : \A y \in T : x <= y
<1> DEFINE R == {s \in Nat \X Nat : s[1] < s[2]}
<1>1. IsWellFoundedOn(R, Nat)
  BY LessIsWellFounded
<1> HIDE DEF R
<1>2. PICK x \in T : \A y \in T : ~(<<y, x>> \in R)
  BY <1>1, WFMin
<1>3. ASSUME NEW y \in T, ~(x <= y) PROVE FALSE
  <2>1. y \in Nat /\ x \in Nat /\ y < x
    BY <1>3
  <2>2. <<y, x>> \in R
    BY <2>1 DEF R
  <2> QED
    BY <1>2, <2>2
<1> QED
  BY <1>3

(* The largest element of a bounded set of numbers.                        *)
LEMMA Largest ==
    ASSUME NEW S, S \subseteq Nat, S # {}, NEW b \in Nat, \A x \in S : x <= b
    PROVE  Max(S) \in S /\ \A x \in S : x <= Max(S)
<1> DEFINE T == {m \in Nat : \A x \in S : x <= m}
<1>1. PICK m \in T : \A y \in T : m <= y
  <2>1. T \subseteq Nat /\ T # {}
    OBVIOUS
  <2> HIDE DEF T
  <2> QED
    BY <2>1, LeastNumber
<1>2. m \in S
  <2> SUFFICES ASSUME m \notin S PROVE FALSE
    OBVIOUS
  <2>1. PICK x \in S : TRUE
    OBVIOUS
  <2>2. m \in Nat /\ \A y \in S : y < m
    OBVIOUS
  <2>3. m - 1 \in T
    BY <2>1, <2>2
  <2> QED
    BY <1>1, <2>2, <2>3
<1>3. m \in S /\ \A x \in S : m >= x
  BY <1>2
<1>4. Max(S) \in S /\ \A x \in S : Max(S) >= x
  BY <1>3 DEF Max
<1> QED
  BY <1>4
-----------------------------------------------------------------------------
(***************************************************************************)
(* What is on its way.  An event that is on its way to the tab says the    *)
(* truth about the log: it covers numbers the log has given out, one when  *)
(* it is critical, and deltas only when it is a delta.                     *)
(***************************************************************************)
Entries == [kind : Kinds, stream : Publishers \cup {None}, boot : Nat]

Sent == [kind : Kinds \cup {"dropped"}, ws : {Workspace},
         stream : Publishers \cup {None}, from : Nat, to : Nat]

Received == [kind : Kinds, ws : {Workspace}, stream : Publishers \cup {None},
             from : Nat, to : Nat, replay : BOOLEAN]

Sound(l, e) ==
    /\ e.kind \in Kinds =>
          /\ 1 <= e.from /\ e.from <= e.to /\ e.to <= Len(l)
          /\ e.kind = "critical" => e.from = e.to
          /\ e.kind = "delta" => \A n \in e.from .. e.to : l[n].kind = "delta"
    /\ e.kind = "dropped" => e.from = 0 /\ e.to = 0

AllSound(l, q) == \A i \in 1 .. Len(q) : Sound(l, q[i])

LogOK ==
    /\ log \in Seq(Entries)
    /\ boot \in Nat
    /\ durable \in 1 .. Len(log)
    /\ \A n \in 1 .. Len(log) : log[n].boot <= boot

Publications ==
    [pc : {"idle", "append", "enqueue", "control"}, kind : Kinds \cup {None},
     targeted : BOOLEAN, n : Nat]

PublicationOK(l, u) ==
    /\ u.pc \in {"append", "enqueue"} => u.kind \in Kinds
    /\ u.pc = "enqueue" => u.n \in 1 .. Len(l) /\ l[u.n].kind = u.kind
    /\ u.pc # "enqueue" => u.n = 0

PubsOK ==
    /\ pub \in [Publishers -> Publications]
    /\ \A p \in Publishers : PublicationOK(log, pub[p])

FeedOK ==
    /\ queue \in Seq(Sent) /\ AllSound(log, queue)
    /\ out \in Seq(Sent) /\ AllSound(log, out)

Phases == {"down", "dialing", "head", "oldest", "replay", "replaying", "live"}

Handlers ==
    [after : Nat, head : Nat, oldest : Nat, to : Nat, replay : Seq(Received)]

HandlerOK ==
    /\ conn \in Phases
    /\ handler \in Handlers
    /\ AllSound(log, handler.replay)

BatchOK == batch \in Seq(Received) /\ AllSound(log, batch)

(***************************************************************************)
(* What the tab has.  Its history names events the log has or had; an      *)
(* event of the log that was applied more than once is a delta.            *)
(***************************************************************************)
Tabs ==
    [last : Nat, seen : SUBSET (Nat \X Nat), again : SUBSET (Nat \X Nat), gap : BOOLEAN]

Now == [last |-> last, seen |-> seen, again |-> again, gap |-> FALSE]

GoodTab(t) ==
    /\ t \in Tabs
    /\ t.again \subseteq t.seen
    /\ \A s \in t.seen :
          /\ s[1] <= t.last
          /\ s[2] <= boot
          /\ s[2] = boot => s[1] <= Len(log)
    /\ \A n \in 1 .. Len(log) : <<n, log[n].boot>> \in t.again => log[n].kind = "delta"

TabOK == GoodTab(Now)

StreamOK == LogOK /\ PubsOK /\ FeedOK /\ HandlerOK /\ BatchOK /\ TabOK
-----------------------------------------------------------------------------
(***************************************************************************)
(* What is on its way stays true while the log grows.                      *)
(***************************************************************************)
Grown(l) == \E x \in Entries : l = Append(log, x)

LEMMA GrowthKeepsSound ==
    ASSUME log \in Seq(Entries), NEW l, Grown(l), NEW e, e.from \in Nat, e.to \in Nat, Sound(log, e)
    PROVE  Sound(l, e)
<1>1. PICK x \in Entries : l = Append(log, x)
  BY DEF Grown
<1>2. Len(l) = Len(log) + 1 /\ \A n \in 1 .. Len(log) : l[n] = log[n]
  BY <1>1
<1>3. Len(log) \in Nat
  OBVIOUS
<1> QED
  BY <1>2, <1>3 DEF Sound, Kinds

LEMMA GrowthKeepsAllSound ==
    ASSUME log \in Seq(Entries), NEW l, Grown(l), NEW q,
           q \in Seq(Sent) \/ q \in Seq(Received), AllSound(log, q)
    PROVE  AllSound(l, q)
<1> SUFFICES ASSUME NEW i \in 1 .. Len(q) PROVE Sound(l, q[i])
  BY DEF AllSound
<1>1. q[i] \in Sent \/ q[i] \in Received
  OBVIOUS
<1>2. q[i].from \in Nat /\ q[i].to \in Nat
  BY <1>1 DEF Sent, Received
<1> QED
  BY <1>2, GrowthKeepsSound DEF AllSound

LEMMA GrowthKeepsPublications ==
    ASSUME log \in Seq(Entries), NEW l, Grown(l), NEW u \in Publications, PublicationOK(log, u)
    PROVE  PublicationOK(l, u)
<1>1. PICK x \in Entries : l = Append(log, x)
  BY DEF Grown
<1>2. Len(l) = Len(log) + 1 /\ \A n \in 1 .. Len(log) : l[n] = log[n]
  BY <1>1
<1>3. Len(log) \in Nat
  OBVIOUS
<1> QED
  BY <1>2, <1>3 DEF PublicationOK, Publications

(* Parts of sound sequences are sound, and so is what is put together from *)
(* sound parts.                                                            *)
LEMMA TailSound ==
    ASSUME NEW S, NEW q \in Seq(S), q # <<>>, NEW l, AllSound(l, q)
    PROVE  Tail(q) \in Seq(S) /\ AllSound(l, Tail(q)) /\ Head(q) \in S /\ Sound(l, Head(q))
<1>1. Tail(q) \in Seq(S) /\ Len(Tail(q)) = Len(q) - 1 /\ Len(q) \in Nat \ {0}
  OBVIOUS
<1>2. \A i \in 1 .. Len(q) - 1 : Tail(q)[i] = q[i + 1]
  OBVIOUS
<1>3. AllSound(l, Tail(q))
  <2> SUFFICES ASSUME NEW i \in 1 .. Len(q) - 1 PROVE Sound(l, q[i + 1])
    BY <1>1, <1>2 DEF AllSound
  <2> QED
    BY <1>1 DEF AllSound
<1>4. Head(q) = q[1] /\ q[1] \in S /\ 1 \in 1 .. Len(q)
  BY <1>1
<1> QED
  BY <1>1, <1>3, <1>4 DEF AllSound

LEMMA AppendSound ==
    ASSUME NEW S, NEW q \in Seq(S), NEW e \in S, NEW l, AllSound(l, q), Sound(l, e)
    PROVE  Append(q, e) \in Seq(S) /\ AllSound(l, Append(q, e))
<1>1. Append(q, e) \in Seq(S) /\ Len(Append(q, e)) = Len(q) + 1 /\ Len(q) \in Nat
  OBVIOUS
<1>2. \A i \in 1 .. Len(q) + 1 : Append(q, e)[i] = IF i <= Len(q) THEN q[i] ELSE e
  OBVIOUS
<1> QED
  BY <1>1, <1>2 DEF AllSound

LEMMA WithoutSound ==
    ASSUME NEW S, NEW q \in Seq(S), NEW i \in 1 .. Len(q), NEW l, AllSound(l, q)
    PROVE  Without(q, i) \in Seq(S) /\ AllSound(l, Without(q, i))
<1>1. Len(q) - 1 \in Nat
  OBVIOUS
<1>2. \A j \in 1 .. Len(q) - 1 : j \in 1 .. Len(q) /\ j + 1 \in 1 .. Len(q)
  BY <1>1
<1>3. Without(q, i) \in Seq(S) /\ Len(Without(q, i)) = Len(q) - 1
  BY <1>1, <1>2 DEF Without
<1>4. ASSUME NEW j \in 1 .. Len(q) - 1 PROVE Sound(l, Without(q, i)[j])
  <2>1. Without(q, i)[j] = q[j] \/ Without(q, i)[j] = q[j + 1]
    BY DEF Without
  <2> QED
    BY <1>2, <2>1 DEF AllSound
<1> QED
  BY <1>3, <1>4 DEF AllSound
LEMMA MergeSound ==
    ASSUME log \in Seq(Entries), queue \in Seq(Sent), AllSound(log, queue),
           NEW e \in Sent, e.kind \in Kinds, Sound(log, e),
           NEW i \in 1 .. Len(queue), MergesAt(queue, e, i)
    PROVE  Merged(queue, e, i) \in Seq(Sent) /\ AllSound(log, Merged(queue, e, i))
<1> DEFINE q == Merged(queue, e, i)
           f == [queue[i] EXCEPT !.to = e.to]
<1>1. queue[i] \in Sent /\ Sound(log, queue[i])
  BY DEF AllSound
<1>2. queue[i].kind = "delta" /\ e.kind = "delta"
  BY DEF MergesAt, IsCoalescing, LastWithKey, SameKey, Kinds
<1>3. /\ 1 <= queue[i].from /\ queue[i].from <= queue[i].to
      /\ \A n \in queue[i].from .. queue[i].to : log[n].kind = "delta"
  BY <1>1, <1>2 DEF Sound, Kinds
<1>4. /\ 1 <= e.from /\ e.from <= e.to /\ e.to <= Len(log)
      /\ \A n \in e.from .. e.to : log[n].kind = "delta"
  BY <1>2 DEF Sound, Kinds
<1>5. e.from = queue[i].to + 1
  BY <1>1, <1>3, <1>4 DEF MergesAt, ContiguousCoverage, Sent
<1>6. f \in Sent /\ f.kind = "delta" /\ f.from = queue[i].from /\ f.to = e.to
  BY <1>1, <1>2 DEF Sent
<1>7. Sound(log, f)
  BY <1>1, <1>3, <1>4, <1>5, <1>6 DEF Sound, Sent
<1>8. q \in Seq(Sent) /\ Len(q) = Len(queue) /\ q[i] = f
      /\ \A j \in 1 .. Len(queue) : j # i => q[j] = queue[j]
  BY <1>6 DEF Merged
<1> HIDE DEF q, f
<1>9. ASSUME NEW j \in 1 .. Len(q) PROVE Sound(log, q[j])
  BY <1>7, <1>8 DEF AllSound
<1> QED
  BY <1>8, <1>9 DEF AllSound, q
-----------------------------------------------------------------------------
(***************************************************************************)
(* What the tab does with a batch (splitWorkspaceEventsAtSeqGap and        *)
(* applySessionEvents).                                                    *)
(***************************************************************************)
LEMMA BatchEvents ==
    ASSUME LogOK, BatchOK, NEW i \in 1 .. Len(batch)
    PROVE  /\ Len(log) \in Nat
           /\ batch[i] \in Received /\ Sound(log, batch[i])
           /\ batch[i].from \in Nat /\ batch[i].to \in Nat
           /\ 1 <= batch[i].from /\ batch[i].from <= batch[i].to /\ batch[i].to <= Len(log)
<1>1. Len(log) \in Nat /\ batch[i] \in Received /\ Sound(log, batch[i])
  BY DEF LogOK, BatchOK, AllSound
<1>2. batch[i].from \in Nat /\ batch[i].to \in Nat /\ batch[i].kind \in Kinds
  BY <1>1 DEF Received
<1> QED
  BY <1>1, <1>2 DEF Sound

(* What the tab has got to when it comes to event i is the largest number  *)
(* before it.                                                              *)
LEMMA WorkingSeqIsLargest ==
    ASSUME LogOK, BatchOK, last \in Nat, NEW i \in 1 .. Len(batch)
    PROVE  /\ WorkingSeq(i) \in Nat
           /\ last <= WorkingSeq(i)
           /\ \A j \in 1 .. i - 1 : batch[j].to <= WorkingSeq(i)
           /\ WorkingSeq(i) = last \/ \E j \in 1 .. i - 1 : WorkingSeq(i) = batch[j].to
<1> DEFINE S == {last} \cup {batch[j].to : j \in 1 .. i - 1}
<1>1. \A j \in 1 .. i - 1 : j \in 1 .. Len(batch)
  BY DEF BatchOK
<1>2. \A j \in 1 .. i - 1 : batch[j].to \in Nat /\ batch[j].to <= Len(log)
  BY <1>1, BatchEvents
<1>3. last + Len(log) \in Nat /\ Len(log) \in Nat
  BY DEF LogOK
<1>4. S \subseteq Nat /\ S # {} /\ \A x \in S : x <= last + Len(log)
  BY <1>2, <1>3
<1>5. Max(S) \in S /\ \A x \in S : x <= Max(S)
  <2> HIDE DEF S
  <2> QED
    BY <1>3, <1>4, Largest
<1>6. WorkingSeq(i) = Max(S)
  BY DEF WorkingSeq
<1> HIDE DEF S
<1>7. WorkingSeq(i) \in S /\ \A x \in S : x <= WorkingSeq(i)
  BY <1>5, <1>6
<1> QED
  BY <1>4, <1>7 DEF S

(* So is what it has got to afterwards.                                    *)
LEMMA FlushedLastIsLargest ==
    ASSUME LogOK, BatchOK, last \in Nat
    PROVE  /\ Flushed.last \in Nat
           /\ last <= Flushed.last
           /\ \A j \in Accepted : batch[j].to <= Flushed.last
           /\ Flushed.last = last \/ \E j \in Accepted : Flushed.last = batch[j].to
<1> DEFINE S == {last} \cup {batch[j].to : j \in Accepted}
<1>1. \A j \in Accepted : j \in 1 .. Len(batch)
  BY DEF Accepted
<1>2. \A j \in Accepted : batch[j].to \in Nat /\ batch[j].to <= Len(log)
  BY <1>1, BatchEvents
<1>3. last + Len(log) \in Nat /\ Len(log) \in Nat
  BY DEF LogOK
<1>4. S \subseteq Nat /\ S # {} /\ \A x \in S : x <= last + Len(log)
  BY <1>2, <1>3
<1>5. Max(S) \in S /\ \A x \in S : x <= Max(S)
  <2> HIDE DEF S
  <2> QED
    BY <1>3, <1>4, Largest
<1>6. Flushed.last = Max(S)
  BY DEF Flushed
<1> HIDE DEF S
<1>7. Flushed.last \in S /\ \A x \in S : x <= Flushed.last
  BY <1>5, <1>6
<1> QED
  BY <1>4, <1>7 DEF S

LEMMA ContentsAreOfTheLog ==
    ASSUME LogOK, NEW e, e.from \in Nat, e.to \in Nat,
           1 <= e.from, e.to <= Len(log)
    PROVE  /\ Contents(e) \subseteq Nat \X Nat
           /\ \A s \in Contents(e) :
                 /\ s[1] \in e.from .. e.to
                 /\ s[2] = log[s[1]].boot
                 /\ s[1] <= Len(log) /\ s[2] <= boot
<1>1. \A n \in e.from .. e.to : n \in 1 .. Len(log)
  BY DEF LogOK
<1>2. \A n \in 1 .. Len(log) : log[n] \in Entries
  BY DEF LogOK
<1>3. \A n \in 1 .. Len(log) : log[n].boot \in Nat
  BY <1>2 DEF Entries
<1> QED
  BY <1>1, <1>3 DEF Contents, LogOK

(* A flush keeps what the tab has in order.                                *)
LEMMA FlushKeepsTab ==
    ASSUME LogOK, BatchOK, TabOK
    PROVE  GoodTab(Flushed)
<1> DEFINE t == Flushed
<1>1. /\ last \in Nat /\ seen \subseteq Nat \X Nat /\ again \subseteq seen
      /\ \A s \in seen : /\ s[1] <= last
                         /\ s[2] <= boot
                         /\ s[2] = boot => s[1] <= Len(log)
      /\ \A n \in 1 .. Len(log) : <<n, log[n].boot>> \in again => log[n].kind = "delta"
  BY DEF TabOK, GoodTab, Now, Tabs
<1>2. /\ t.last \in Nat /\ last <= t.last
      /\ \A j \in Accepted : batch[j].to <= t.last
  BY <1>1, FlushedLastIsLargest
<1>3. \A i \in Applied : i \in Accepted /\ i \in 1 .. Len(batch) /\ batch[i].to > WorkingSeq(i)
  <2> SUFFICES ASSUME NEW i \in Applied
               PROVE  i \in Accepted /\ i \in 1 .. Len(batch) /\ batch[i].to > WorkingSeq(i)
    OBVIOUS
  <2>1. i \in Accepted /\ i \in 1 .. Len(batch) /\ ~(batch[i].to <= WorkingSeq(i))
    BY DEF Applied, Accepted, Known
  <2> QED
    BY <1>1, <2>1, BatchEvents, WorkingSeqIsLargest
<1>4. ASSUME NEW i \in Applied
      PROVE  /\ Contents(batch[i]) \subseteq Nat \X Nat
             /\ \A s \in Contents(batch[i]) :
                   /\ s[1] \in batch[i].from .. batch[i].to
                   /\ s[2] = log[s[1]].boot
                   /\ s[1] <= Len(log) /\ s[2] <= boot
                   /\ s[1] <= t.last
  <2>1. i \in 1 .. Len(batch) /\ batch[i].to <= t.last
    BY <1>2, <1>3
  <2>2. batch[i].from \in Nat /\ batch[i].to \in Nat /\ 1 <= batch[i].from /\ batch[i].to <= Len(log)
    BY <2>1, BatchEvents
  <2>3. /\ Contents(batch[i]) \subseteq Nat \X Nat
        /\ \A s \in Contents(batch[i]) :
              /\ s[1] \in batch[i].from .. batch[i].to
              /\ s[2] = log[s[1]].boot
              /\ s[1] <= Len(log) /\ s[2] <= boot
    BY <2>2, ContentsAreOfTheLog
  <2> QED
    BY <1>2, <2>1, <2>2, <2>3
<1>5. /\ t.seen = seen \cup UNION {Contents(batch[i]) : i \in Applied}
      /\ t.again = again \cup UNION {SeenBefore(i) \cap Contents(batch[i]) : i \in Applied}
      /\ t = [last |-> t.last, seen |-> t.seen, again |-> t.again, gap |-> t.gap]
      /\ t.gap \in BOOLEAN
  BY DEF Flushed
<1> HIDE DEF t
<1>6. t.seen \subseteq Nat \X Nat
  BY <1>1, <1>4, <1>5
<1>7. t.again \subseteq t.seen
  BY <1>1, <1>5
<1>8. ASSUME NEW s \in t.seen
      PROVE  s[1] <= t.last /\ s[2] <= boot /\ (s[2] = boot => s[1] <= Len(log))
  <2>1. CASE s \in seen
    BY <1>1, <1>2, <2>1
  <2>2. CASE s \notin seen
    <3>1. PICK i \in Applied : s \in Contents(batch[i])
      BY <1>5, <2>2
    <3> QED
      BY <1>4, <3>1
  <2> QED
    BY <2>1, <2>2
<1>9. ASSUME NEW n \in 1 .. Len(log), <<n, log[n].boot>> \in t.again PROVE log[n].kind = "delta"
  <2> DEFINE s == <<n, log[n].boot>>
  <2>1. CASE s \in again
    BY <1>1, <2>1
  <2>2. CASE s \notin again
    <3>1. PICK i \in Applied : s \in SeenBefore(i) /\ s \in Contents(batch[i])
      BY <1>5, <1>9, <2>2
    <3>2. i \in 1 .. Len(batch) /\ n \in batch[i].from .. batch[i].to
      BY <1>3, <1>4, <3>1
    <3>3. WorkingSeq(i) \in Nat /\ last <= WorkingSeq(i)
          /\ \A j \in 1 .. i - 1 : batch[j].to <= WorkingSeq(i)
      BY <1>1, <3>2, WorkingSeqIsLargest
    <3>4. n <= WorkingSeq(i)
      <4>1. CASE s \in seen
        BY <1>1, <3>2, <3>3, <4>1
      <4>2. CASE s \notin seen
        <5>1. PICK j \in Applied : j < i /\ s \in Contents(batch[j])
          BY <3>1, <4>2 DEF SeenBefore
        <5>2. j \in 1 .. i - 1 /\ n \in batch[j].from .. batch[j].to /\ batch[j].to \in Nat
          BY <1>3, <1>4, <3>2, <5>1, BatchEvents
        <5> QED
          BY <3>2, <3>3, <5>2
      <4> QED
        BY <4>1, <4>2
    <3>5. batch[i].kind # "critical"
      <4> SUFFICES ASSUME batch[i].kind = "critical" PROVE FALSE
        OBVIOUS
      <4>1. batch[i].from = batch[i].to /\ batch[i].to \in Nat
        BY <3>2, BatchEvents DEF Sound, Kinds
      <4>2. n = batch[i].to
        BY <3>2, <4>1
      <4> QED
        BY <1>3, <3>3, <3>4, <4>1, <4>2
    <3>6. batch[i].kind = "delta"
      BY <3>2, <3>5, BatchEvents DEF Received, Kinds
    <3> QED
      BY <3>2, <3>6, BatchEvents DEF Sound, Kinds
  <2> QED
    BY <2>1, <2>2
<1>10. t \in Tabs
  BY <1>2, <1>5, <1>6, <1>7 DEF Tabs
<1> QED
  BY <1>6, <1>7, <1>8, <1>9, <1>10 DEF GoodTab, t

(* So does a single event.                                                 *)
LEMMA IngestKeepsTab ==
    ASSUME LogOK, NEW t, GoodTab(t), NEW e \in Received, Sound(log, e)
    PROVE  GoodTab(Ingest(t, e))
<1> DEFINE u == Ingest(t, e)
<1>1. CASE Known(e, t.last) \/ Gap(e, t.last)
  BY <1>1 DEF Ingest
<1>2. CASE ~(Known(e, t.last) \/ Gap(e, t.last))
  <2>1. /\ e.from \in Nat /\ e.to \in Nat /\ t.last \in Nat
        /\ 1 <= e.from /\ e.from <= e.to /\ e.to <= Len(log)
        /\ e.kind = "delta" \/ (e.kind = "critical" /\ e.from = e.to)
        /\ e.kind = "delta" => \A n \in e.from .. e.to : log[n].kind = "delta"
    BY DEF Received, Sound, Kinds, GoodTab, Tabs
  <2>2. t.last < e.to
    BY <1>2, <2>1 DEF Known
  <2>3. /\ Contents(e) \subseteq Nat \X Nat
        /\ \A s \in Contents(e) :
              /\ s[1] \in e.from .. e.to
              /\ s[2] = log[s[1]].boot
              /\ s[1] <= Len(log) /\ s[2] <= boot
    BY <2>1, ContentsAreOfTheLog
  <2>4. /\ u \in Tabs
        /\ u.last = e.to
        /\ u.seen = t.seen \cup Contents(e)
        /\ u.again = t.again \cup (t.seen \cap Contents(e))
    BY <1>2, <2>1, <2>3 DEF Ingest, GoodTab, Tabs
  <2> HIDE DEF u
  <2>5. u.again \subseteq u.seen
    BY <2>4 DEF GoodTab
  <2>6. ASSUME NEW s \in u.seen
        PROVE  s[1] <= u.last /\ s[2] <= boot /\ (s[2] = boot => s[1] <= Len(log))
    <3>1. CASE s \in Contents(e)
      BY <2>1, <2>3, <2>4, <3>1
    <3>2. CASE s \in t.seen
      <4>1. s[1] \in Nat /\ s[1] <= t.last /\ s[2] <= boot /\ (s[2] = boot => s[1] <= Len(log))
        BY <3>2 DEF GoodTab, Tabs
      <4> QED
        BY <2>1, <2>2, <2>4, <4>1
    <3> QED
      BY <2>4, <3>1, <3>2
  <2>7. ASSUME NEW n \in 1 .. Len(log), <<n, log[n].boot>> \in u.again PROVE log[n].kind = "delta"
    <3> DEFINE s == <<n, log[n].boot>>
    <3>1. CASE s \in t.again
      BY <3>1 DEF GoodTab
    <3>2. CASE s \notin t.again
      <4>1. s \in t.seen /\ s \in Contents(e)
        BY <2>4, <2>7, <3>2
      <4>2. n <= t.last /\ n \in e.from .. e.to
        BY <2>3, <4>1 DEF GoodTab
      <4>3. e.from # e.to
        BY <2>1, <2>2, <4>2
      <4> QED
        BY <2>1, <4>2, <4>3
    <3> QED
      BY <3>1, <3>2
  <2> QED
    BY <2>4, <2>5, <2>6, <2>7 DEF GoodTab, u
<1> QED
  BY <1>1, <1>2
-----------------------------------------------------------------------------
(***************************************************************************)
(* The parts of StreamOK, step by step.                                    *)
(***************************************************************************)
LEMMA EmptySound ==
    ASSUME NEW S, NEW l
    PROVE  <<>> \in Seq(S) /\ AllSound(l, <<>>)
  BY DEF AllSound

LEMMA TabBecomes ==
    ASSUME NEW t, GoodTab(t), Become(t), UNCHANGED <<log, boot>>
    PROVE  TabOK'
<1>1. last' = t.last /\ seen' = t.seen /\ again' = t.again
  BY DEF Become
<1> QED
  BY <1>1 DEF TabOK, GoodTab, Now, Tabs

LEMMA TabStays ==
    ASSUME TabOK, UNCHANGED <<log, boot, last, seen, again>>
    PROVE  TabOK'
  BY DEF TabOK, GoodTab, Now, Tabs

LEMMA LogStays ==
    ASSUME LogOK, UNCHANGED server
    PROVE  LogOK'
  BY DEF LogOK, server

LEMMA PubsStay ==
    ASSUME PubsOK, UNCHANGED <<log, pub>>
    PROVE  PubsOK'
  BY DEF PubsOK

LEMMA FeedStays ==
    ASSUME FeedOK, UNCHANGED <<log, queue, out>>
    PROVE  FeedOK'
  BY DEF FeedOK

LEMMA HandlerStays ==
    ASSUME HandlerOK, UNCHANGED <<log, conn, handler>>
    PROVE  HandlerOK'
  BY DEF HandlerOK

LEMMA BatchStays ==
    ASSUME BatchOK, UNCHANGED <<log, batch>>
    PROVE  BatchOK'
  BY DEF BatchOK

LEMMA BatchEmptied ==
    ASSUME batch' = <<>>
    PROVE  BatchOK'
  BY EmptySound DEF BatchOK

LEMMA OneIdle == Idle \in Publications /\ \A l : PublicationOK(l, Idle)
  BY DEF Idle, Publications, PublicationOK

LEMMA NobodyHome == NoHandler \in Handlers /\ \A l : AllSound(l, NoHandler.replay)
<1>1. NoHandler.replay = <<>>
  BY DEF NoHandler
<1>2. <<>> \in Seq(Received) /\ \A l : AllSound(l, <<>>)
  BY EmptySound
<1> QED
  BY <1>1, <1>2 DEF NoHandler, Handlers

LEMMA OnePublisherMoves ==
    ASSUME PubsOK, UNCHANGED log, NEW p \in Publishers, NEW u \in Publications,
           PublicationOK(log, u), pub' = [pub EXCEPT ![p] = u]
    PROVE  PubsOK'
  BY DEF PubsOK

(* Hanging up leaves nothing on its way.                                   *)
LEMMA HangUpEmpties ==
    ASSUME PubsOK, HangUp, UNCHANGED log
    PROVE  PubsOK' /\ FeedOK' /\ HandlerOK'
<1>1. PubsOK'
  <2> SUFFICES ASSUME NEW p \in Publishers
               PROVE  Untargeted[p] \in Publications /\ PublicationOK(log, Untargeted[p])
    BY DEF HangUp, PubsOK, Untargeted
  <2>1. CASE pub[p].pc = "append"
    <3>1. Untargeted[p] = [pub[p] EXCEPT !.targeted = FALSE]
      BY <2>1 DEF Untargeted
    <3> QED
      BY <2>1, <3>1 DEF PubsOK, Publications, PublicationOK
  <2>2. CASE pub[p].pc # "append"
    <3>1. Untargeted[p] = Idle
      BY <2>2 DEF Untargeted
    <3> QED
      BY <3>1, OneIdle
  <2> QED
    BY <2>1, <2>2
<1>2. FeedOK'
  BY EmptySound DEF HangUp, FeedOK
<1>3. HandlerOK'
  BY NobodyHome DEF HangUp, HandlerOK, Phases
<1> QED
  BY <1>1, <1>2, <1>3

(* The tab takes an event.                                                 *)
LEMMA ReceivingIsSound ==
    ASSUME StreamOK, NEW e \in Received, Sound(log, e), UNCHANGED server,
           ReceiveImmediate(e) \/ ReceiveBatched(e)
    PROVE  /\ TabOK' /\ BatchOK'
           /\ HangUp \/ UNCHANGED <<pub, queue, conn>>
<1> USE DEF StreamOK
<1>1. GoodTab(Flushed) /\ GoodTab(Ingest(Flushed, e))
  BY FlushKeepsTab, IngestKeepsTab
<1>2. UNCHANGED <<log, boot>>
  BY DEF server
<1>3. CASE ReceiveImmediate(e)
  <2>1. Become(Ingest(Flushed, e)) /\ batch' = <<>>
        /\ (HangUp \/ UNCHANGED <<pub, queue, conn>>)
    BY <1>3 DEF ReceiveImmediate
  <2> QED
    BY <1>1, <1>2, <2>1, TabBecomes, BatchEmptied
<1>4. CASE ReceiveBatched(e)
  <2>1. CASE Gap(e, QueuedSeq)
    <3>1. Become(Flushed) /\ batch' = <<>> /\ HangUp
      BY <1>4, <2>1 DEF ReceiveBatched
    <3> QED
      BY <1>1, <1>2, <3>1, TabBecomes, BatchEmptied
  <2>2. CASE ~Gap(e, QueuedSeq)
    <3>1. batch' = Append(batch, e) /\ UNCHANGED <<last, seen, again, pub, queue, conn>>
      BY <1>4, <2>2 DEF ReceiveBatched
    <3>2. Append(batch, e) \in Seq(Received) /\ AllSound(log, Append(batch, e))
      BY AppendSound DEF BatchOK
    <3>3. BatchOK'
      BY <1>2, <3>1, <3>2 DEF BatchOK
    <3> QED
      BY <1>2, <3>1, <3>3, TabStays
  <2> QED
    BY <2>1, <2>2
<1> QED
  BY <1>3, <1>4

(* The replay is what the log has from a number on.                        *)
LEMMA TheReplay ==
    ASSUME LogOK, HandlerOK
    PROVE  \E first \in Nat :
              /\ first = Max({OldestSeq, handler.after + 1})
              /\ 1 <= first
              /\ Len(log) <= Retention => first = handler.after + 1
              /\ Len(Replayed) = IF first <= Len(log) THEN Len(log) - first + 1 ELSE 0
              /\ Replayed \in Seq(Received)
              /\ \A i \in 1 .. Len(Replayed) :
                    /\ Replayed[i].replay
                    /\ Replayed[i].from = first + i - 1 /\ Replayed[i].to = first + i - 1
                    /\ Replayed[i].kind = log[first + i - 1].kind
<1> USE StreamAssumption
<1> DEFINE S == {OldestSeq, handler.after + 1}
           first == Max(S)
           k == IF first <= Len(log) THEN Len(log) - first + 1 ELSE 0
           f == [i \in 1 .. Len(log) - first + 1 |->
                   Message(Event(log[first + i - 1].kind, log[first + i - 1].stream, first + i - 1), TRUE)]
<1>1. Len(log) \in Nat /\ handler.after \in Nat
  BY DEF LogOK, HandlerOK, Handlers
<1>2. OldestSeq \in Nat /\ 1 <= OldestSeq /\ (Len(log) <= Retention => OldestSeq = 1)
  BY <1>1 DEF OldestSeq
<1>3. S \subseteq Nat /\ S # {} /\ \A x \in S : x <= OldestSeq + handler.after + 1
  BY <1>1, <1>2
<1>4. OldestSeq + handler.after + 1 \in Nat
  BY <1>1, <1>2
<1>5. first \in S /\ \A x \in S : x <= first
  <2> HIDE DEF S
  <2> QED
    BY <1>3, <1>4, Largest
<1>6. first \in Nat /\ 1 <= first /\ (Len(log) <= Retention => first = handler.after + 1)
  BY <1>1, <1>2, <1>5
<1> HIDE DEF first
<1>7. Replayed = f
  BY DEF Replayed, first
<1>8. k \in Nat /\ 1 .. Len(log) - first + 1 = 1 .. k
  BY <1>1, <1>6
<1>9. ASSUME NEW i \in 1 .. k
      PROVE  /\ f[i] \in Received
             /\ f[i].replay
             /\ f[i].from = first + i - 1 /\ f[i].to = first + i - 1
             /\ f[i].kind = log[first + i - 1].kind
  <2>1. first + i - 1 \in 1 .. Len(log) /\ first + i - 1 \in Nat
    BY <1>1, <1>6
  <2>2. log[first + i - 1] \in Entries
    BY <2>1 DEF LogOK
  <2>3. f[i] = [kind |-> log[first + i - 1].kind, ws |-> Workspace,
                stream |-> log[first + i - 1].stream,
                from |-> first + i - 1, to |-> first + i - 1, replay |-> TRUE]
    BY <1>8 DEF Message, Event
  <2>4. log[first + i - 1].kind \in Kinds /\ log[first + i - 1].stream \in Publishers \cup {None}
    BY <2>2 DEF Entries
  <2> HIDE DEF f
  <2>5. f[i] \in Received
    BY <2>1, <2>3, <2>4 DEF Received
  <2> QED
    BY <2>3, <2>5
<1> HIDE DEF k
<1>10. f = [i \in 1 .. k |-> f[i]]
  BY <1>8
<1> HIDE DEF f
<1>11. f \in Seq(Received) /\ Len(f) = k
  BY <1>8, <1>9, <1>10
<1>12. /\ first = Max(S)
       /\ Len(Replayed) = IF first <= Len(log) THEN Len(log) - first + 1 ELSE 0
       /\ Replayed \in Seq(Received)
       /\ \A i \in 1 .. Len(Replayed) :
             /\ Replayed[i].replay
             /\ Replayed[i].from = first + i - 1 /\ Replayed[i].to = first + i - 1
             /\ Replayed[i].kind = log[first + i - 1].kind
  BY <1>7, <1>9, <1>11 DEF first, k
<1> QED
  BY <1>6, <1>12

LEMMA ReplayIsSound ==
    ASSUME LogOK, HandlerOK
    PROVE  Replayed \in Seq(Received) /\ AllSound(log, Replayed)
<1>1. PICK first \in Nat :
         /\ first = Max({OldestSeq, handler.after + 1})
         /\ 1 <= first
         /\ Len(log) <= Retention => first = handler.after + 1
         /\ Len(Replayed) = IF first <= Len(log) THEN Len(log) - first + 1 ELSE 0
         /\ Replayed \in Seq(Received)
         /\ \A i \in 1 .. Len(Replayed) :
               /\ Replayed[i].replay
               /\ Replayed[i].from = first + i - 1 /\ Replayed[i].to = first + i - 1
               /\ Replayed[i].kind = log[first + i - 1].kind
  BY TheReplay
<1>2. Len(log) \in Nat
  BY DEF LogOK
<1>3. ASSUME NEW i \in 1 .. Len(Replayed) PROVE Sound(log, Replayed[i])
  <2>1. first + i - 1 \in 1 .. Len(log) /\ first + i - 1 \in Nat
    BY <1>1, <1>2
  <2>2. /\ Replayed[i].from = first + i - 1 /\ Replayed[i].to = first + i - 1
        /\ Replayed[i].kind = log[first + i - 1].kind
    BY <1>1
  <2>3. \A n \in Replayed[i].from .. Replayed[i].to : n = first + i - 1
    BY <2>1, <2>2
  <2>4. Replayed[i].kind # "dropped"
    <3>1. Replayed[i] \in Received
      BY <1>1
    <3> QED
      BY <3>1 DEF Received, Kinds
  <2> QED
    BY <1>2, <2>1, <2>2, <2>3, <2>4 DEF Sound
<1> QED
  BY <1>1, <1>3 DEF AllSound

LEMMA Numbered ==
    ASSUME NEW v \in Publications, NEW n \in Nat
    PROVE  LET w == [v EXCEPT !.pc = "enqueue", !.n = n]
           IN  w \in Publications /\ w.pc = "enqueue" /\ w.kind = v.kind /\ w.n = n
  BY DEF Publications

(* A step of a publisher changes the log by appending to it.               *)
LEMMA PublishingIsSound ==
    ASSUME StreamOK, NEW p \in Publishers,
           (\E kind \in Kinds : PublishBegin(p, kind)) \/ PublishAppend(p)
    PROVE  StreamOK'
<1> USE DEF StreamOK
<1>1. CASE \E kind \in Kinds : PublishBegin(p, kind)
  <2>1. PICK kind \in Kinds :
           pub' = [pub EXCEPT ![p] = [Idle EXCEPT !.pc = "append", !.kind = kind, !.targeted = Subscribed]]
    BY <1>1 DEF PublishBegin
  <2> DEFINE u == [Idle EXCEPT !.pc = "append", !.kind = kind, !.targeted = Subscribed]
  <2>2. Subscribed \in BOOLEAN
    BY DEF Subscribed
  <2>3. u \in Publications /\ PublicationOK(log, u)
    BY <2>2 DEF Idle, Publications, PublicationOK
  <2>4. UNCHANGED <<server, queue, out, conn, handler, tab>>
    BY <1>1 DEF PublishBegin
  <2>5. UNCHANGED <<log, boot, durable, last, batch, seen, again>>
    BY <2>4 DEF server, tab
  <2>6. PubsOK'
    <3> HIDE DEF u
    <3> QED
      BY <2>1, <2>3, <2>5, OnePublisherMoves DEF u
  <2> QED
    BY <2>4, <2>5, <2>6, LogStays, FeedStays, HandlerStays, BatchStays, TabStays
<1>2. CASE PublishAppend(p)
  <2> DEFINE x == [kind |-> pub[p].kind, stream |-> p, boot |-> boot]
             u == IF pub[p].targeted
                  THEN [pub[p] EXCEPT !.pc = "enqueue", !.n = Len(log) + 1]
                  ELSE Idle
  <2>1. /\ pub[p].pc = "append" /\ log' = Append(log, x) /\ pub' = [pub EXCEPT ![p] = u]
        /\ UNCHANGED <<durable, boot, queue, out, conn, handler, tab>>
    BY <1>2 DEF PublishAppend
  <2>2. UNCHANGED <<last, batch, seen, again>>
    BY <2>1 DEF tab
  <2>3. pub[p] \in Publications /\ pub[p].kind \in Kinds
    BY <2>1 DEF PubsOK, PublicationOK
  <2>4. log \in Seq(Entries) /\ Len(log) \in Nat /\ boot \in Nat /\ x \in Entries
        /\ x.kind = pub[p].kind /\ x.boot = boot
    BY <2>3 DEF LogOK, Entries
  <2>5. log' \in Seq(Entries) /\ Len(log') = Len(log) + 1 /\ log'[Len(log) + 1] = x
        /\ \A n \in 1 .. Len(log) : log'[n] = log[n]
    <3> HIDE DEF x
    <3> QED
      BY <2>1, <2>4
  <2>6. Grown(log')
    BY <2>1, <2>4 DEF Grown
  <2>7. LogOK'
    BY <2>1, <2>4, <2>5 DEF LogOK
  <2>8. PubsOK'
    <3>1. u \in Publications /\ PublicationOK(log', u)
      <4>1. CASE ~pub[p].targeted
        BY <4>1, OneIdle
      <4>2. CASE pub[p].targeted
        <5>1. u = [pub[p] EXCEPT !.pc = "enqueue", !.n = Len(log) + 1]
          BY <4>2
        <5>2. u \in Publications /\ u.pc = "enqueue" /\ u.kind = pub[p].kind /\ u.n = Len(log) + 1
          <6>1. Len(log) + 1 \in Nat
            BY <2>4
          <6> HIDE DEF u
          <6> QED
            BY <2>3, <5>1, <6>1, Numbered
        <5>3. log'[u.n].kind = u.kind /\ u.n \in 1 .. Len(log')
          BY <2>4, <2>5, <5>2
        <5> QED
          BY <2>3, <5>2, <5>3 DEF PublicationOK
      <4> QED
        BY <4>1, <4>2
    <3> HIDE DEF u
    <3>2. \A q \in Publishers : PublicationOK(log', pub[q])
      BY <2>4, <2>6, GrowthKeepsPublications DEF PubsOK
    <3> QED
      BY <2>1, <3>1, <3>2 DEF PubsOK
  <2>9. FeedOK'
    BY <2>1, <2>4, <2>6, GrowthKeepsAllSound DEF FeedOK
  <2>10. HandlerOK'
    <3>1. handler.replay \in Seq(Received)
      BY DEF HandlerOK, Handlers
    <3> QED
      BY <2>1, <2>4, <2>6, <3>1, GrowthKeepsAllSound DEF HandlerOK
  <2>11. BatchOK'
    BY <2>2, <2>4, <2>6, GrowthKeepsAllSound DEF BatchOK
  <2>12. TabOK'
    <3> HIDE DEF x
    <3>1. last \in Nat /\ seen \subseteq Nat \X Nat /\ again \subseteq seen
          /\ \A s \in seen : s[1] <= last /\ s[2] <= boot /\ (s[2] = boot => s[1] <= Len(log))
          /\ \A n \in 1 .. Len(log) : <<n, log[n].boot>> \in again => log[n].kind = "delta"
      BY DEF TabOK, GoodTab, Now, Tabs
    <3>2. \A n \in 1 .. Len(log) + 1 : <<n, log'[n].boot>> \in again => log'[n].kind = "delta"
      <4> SUFFICES ASSUME NEW n \in 1 .. Len(log) + 1, <<n, log'[n].boot>> \in again
                   PROVE  log'[n].kind = "delta"
        OBVIOUS
      <4>1. CASE n = Len(log) + 1
        <5>1. <<n, boot>> \in seen
          BY <2>4, <2>5, <3>1, <4>1
        <5>2. n <= Len(log)
          BY <3>1, <5>1
        <5> QED
          BY <2>4, <4>1, <5>2
      <4>2. CASE n # Len(log) + 1
        BY <2>4, <2>5, <3>1, <4>2
      <4> QED
        BY <4>1, <4>2
    <3>3. \A s \in seen : s[1] <= last /\ s[2] <= boot /\ (s[2] = boot => s[1] <= Len(log) + 1)
      <4> SUFFICES ASSUME NEW s \in seen, s[2] = boot PROVE s[1] <= Len(log) + 1
        BY <3>1
      <4>1. s[1] \in Nat /\ s[1] <= Len(log)
        BY <3>1
      <4> QED
        BY <2>4, <4>1
    <3> QED
      BY <2>1, <2>2, <2>5, <3>1, <3>2, <3>3 DEF TabOK, GoodTab, Now, Tabs
  <2> QED
    BY <2>7, <2>8, <2>9, <2>10, <2>11, <2>12
<1> QED
  BY <1>1, <1>2

(* Steps on the queue.                                                     *)
LEMMA QueueingIsSound ==
    ASSUME StreamOK, NEW p \in Publishers, Enqueue(p) \/ EnqueueControl(p)
    PROVE  PubsOK' /\ FeedOK'
<1> USE DEF StreamOK
<1>1. UNCHANGED log /\ UNCHANGED out
  BY DEF Enqueue, EnqueueControl, server
<1>2. /\ log \in Seq(Entries) /\ queue \in Seq(Sent) /\ AllSound(log, queue)
      /\ pub[p] \in Publications /\ PublicationOK(log, pub[p])
  BY DEF LogOK, FeedOK, PubsOK
<1>3. pub' = [pub EXCEPT ![p] = Idle] \/ pub' = [pub EXCEPT ![p] = [Idle EXCEPT !.pc = "control"]]
  BY DEF Enqueue, EnqueueControl, OweControl
<1>4. PubsOK'
  <2> DEFINE u == [Idle EXCEPT !.pc = "control"]
  <2>1. u \in Publications /\ PublicationOK(log, u)
    BY DEF Idle, Publications, PublicationOK
  <2>2. Idle \in Publications /\ PublicationOK(log, Idle)
    BY OneIdle
  <2> HIDE DEF u
  <2> QED
    BY <1>1, <1>3, <2>1, <2>2, OnePublisherMoves DEF u
<1>5. CASE Enqueue(p)
  <2> DEFINE e == Carried(p)
  <2>1. e = [kind |-> pub[p].kind, ws |-> Workspace, stream |-> p, from |-> pub[p].n, to |-> pub[p].n]
    BY DEF Carried, Event
  <2>2. pub[p].kind \in Kinds /\ pub[p].n \in 1 .. Len(log) /\ log[pub[p].n].kind = pub[p].kind
    BY <1>2, <1>5 DEF PublicationOK, Enqueue
  <2>3. e \in Sent /\ e.kind \in Kinds /\ Sound(log, e)
    <3>1. pub[p].n \in Nat
      BY <1>2 DEF Publications
    <3> QED
      BY <2>1, <2>2, <3>1 DEF Sent, Sound, Kinds
  <2>4. \/ UNCHANGED queue
        \/ \E i \in 1 .. Len(queue) : MergesAt(queue, e, i) /\ queue' = Merged(queue, e, i)
        \/ \E i \in 1 .. Len(queue) : queue' = Append(Without(queue, i), e)
        \/ queue' = Append(queue, e)
    BY <1>5 DEF Enqueue
  <2> HIDE DEF e
  <2>5. queue' \in Seq(Sent) /\ AllSound(log, queue')
    <3>1. CASE UNCHANGED queue
      BY <1>2, <3>1
    <3>2. CASE \E i \in 1 .. Len(queue) : MergesAt(queue, e, i) /\ queue' = Merged(queue, e, i)
      BY <1>2, <2>3, <3>2, MergeSound
    <3>3. CASE \E i \in 1 .. Len(queue) : queue' = Append(Without(queue, i), e)
      <4>1. PICK i \in 1 .. Len(queue) : queue' = Append(Without(queue, i), e)
        BY <3>3
      <4>2. Without(queue, i) \in Seq(Sent) /\ AllSound(log, Without(queue, i))
        BY <1>2, WithoutSound
      <4> QED
        BY <2>3, <4>1, <4>2, AppendSound
    <3>4. CASE queue' = Append(queue, e)
      BY <1>2, <2>3, <3>4, AppendSound
    <3> QED
      BY <2>4, <3>1, <3>2, <3>3, <3>4
  <2> QED
    BY <1>1, <1>4, <2>5 DEF FeedOK
<1>6. CASE EnqueueControl(p)
  <2> DEFINE e == DroppedControl(Workspace, None)
  <2>1. e \in Sent /\ Sound(log, e)
    BY DEF DroppedControl, Sent, Sound, Kinds
  <2>2. \/ UNCHANGED queue
        \/ queue' = Append(queue, e)
        \/ \E i \in 1 .. Len(queue) : queue' = Append(Without(queue, i), e)
    BY <1>6 DEF EnqueueControl
  <2> HIDE DEF e
  <2>3. queue' \in Seq(Sent) /\ AllSound(log, queue')
    <3>1. CASE UNCHANGED queue
      BY <1>2, <3>1
    <3>2. CASE queue' = Append(queue, e)
      BY <1>2, <2>1, <3>2, AppendSound
    <3>3. CASE \E i \in 1 .. Len(queue) : queue' = Append(Without(queue, i), e)
      <4>1. PICK i \in 1 .. Len(queue) : queue' = Append(Without(queue, i), e)
        BY <3>3
      <4>2. Without(queue, i) \in Seq(Sent) /\ AllSound(log, Without(queue, i))
        BY <1>2, WithoutSound
      <4> QED
        BY <2>1, <4>1, <4>2, AppendSound
    <3> QED
      BY <2>2, <3>1, <3>2, <3>3
  <2> QED
    BY <1>1, <1>4, <2>3 DEF FeedOK
<1> QED
  BY <1>5, <1>6

LEMMA PumpingIsSound ==
    ASSUME StreamOK, Pump
    PROVE  FeedOK'
<1>1. queue # <<>> /\ out' = Append(out, Head(queue)) /\ queue' = Tail(queue) /\ UNCHANGED log
  BY DEF Pump, server
<1>2. /\ queue \in Seq(Sent) /\ AllSound(log, queue)
      /\ out \in Seq(Sent) /\ AllSound(log, out)
  BY DEF StreamOK, FeedOK
<1>3. /\ Tail(queue) \in Seq(Sent) /\ AllSound(log, Tail(queue))
      /\ Head(queue) \in Sent /\ Sound(log, Head(queue))
  BY <1>1, <1>2, TailSound
<1>4. Append(out, Head(queue)) \in Seq(Sent) /\ AllSound(log, Append(out, Head(queue)))
  BY <1>2, <1>3, AppendSound
<1> QED
  BY <1>1, <1>3, <1>4 DEF FeedOK

(* What the handler reads before it follows the subscription.              *)
LEMMA HandlerMovesSoundly ==
    ASSUME StreamOK, Dial \/ Subscribe \/ ReadHeadSeq \/ ReadOldestSeq \/ Replay
    PROVE  HandlerOK' /\ UNCHANGED <<server, feed, tab>>
<1> USE DEF StreamOK
<1>1. UNCHANGED <<server, feed, tab>> /\ UNCHANGED log
  BY DEF Dial, Subscribe, ReadHeadSeq, ReadOldestSeq, Replay, server
<1>2. /\ handler \in Handlers /\ AllSound(log, handler.replay) /\ handler.replay \in Seq(Received)
      /\ Len(log) \in Nat /\ last \in Nat
  BY DEF HandlerOK, Handlers, LogOK, TabOK, GoodTab, Now, Tabs
<1>3. CASE Dial
  <2>1. handler' = [NoHandler EXCEPT !.after = last] /\ conn' = "dialing"
    BY <1>3 DEF Dial
  <2>2. <<>> \in Seq(Received) /\ AllSound(log, <<>>)
    BY EmptySound
  <2>3. handler' \in Handlers /\ handler'.replay = <<>>
    BY <1>2, <2>1, <2>2 DEF NoHandler, Handlers
  <2> QED
    BY <1>1, <2>1, <2>2, <2>3 DEF HandlerOK, Phases
<1>4. CASE Subscribe
  BY <1>1, <1>2, <1>4 DEF Subscribe, HandlerOK, Phases
<1>5. CASE ReadHeadSeq
  <2>1. handler' = [handler EXCEPT !.head = Len(log)] /\ conn' = "oldest"
    BY <1>5 DEF ReadHeadSeq
  <2>2. handler' \in Handlers /\ handler'.replay = handler.replay
    BY <1>2, <2>1 DEF Handlers
  <2> QED
    BY <1>1, <1>2, <2>1, <2>2 DEF HandlerOK, Phases
<1>6. CASE ReadOldestSeq
  <2>1. handler' = [handler EXCEPT !.oldest = OldestSeq] /\ conn' = "replay"
    BY <1>6 DEF ReadOldestSeq
  <2>2. OldestSeq \in Nat
    BY <1>2, StreamAssumption DEF OldestSeq
  <2>3. handler' \in Handlers /\ handler'.replay = handler.replay
    BY <1>2, <2>1, <2>2 DEF Handlers
  <2> QED
    BY <1>1, <1>2, <2>1, <2>3 DEF HandlerOK, Phases
<1>7. CASE Replay
  <2> DEFINE to == IF Replayed = <<>> THEN 0 ELSE Replayed[Len(Replayed)].to
  <2>1. handler' = [handler EXCEPT !.replay = Replayed, !.to = to] /\ conn' = "replaying"
    BY <1>7 DEF Replay
  <2>2. Replayed \in Seq(Received) /\ AllSound(log, Replayed)
    BY ReplayIsSound
  <2>3. to \in Nat
    <3>1. CASE Replayed = <<>>
      BY <3>1
    <3>2. CASE Replayed # <<>>
      <4>1. Replayed[Len(Replayed)] \in Received
        BY <2>2, <3>2
      <4> QED
        BY <3>2, <4>1 DEF Received
    <3> QED
      BY <3>1, <3>2
  <2> HIDE DEF to
  <2>4. handler' \in Handlers /\ handler'.replay = Replayed
    BY <1>2, <2>1, <2>2, <2>3 DEF Handlers
  <2> QED
    BY <1>1, <2>1, <2>2, <2>4 DEF HandlerOK, Phases
<1> QED
  BY <1>1, <1>3, <1>4, <1>5, <1>6, <1>7

LEMMA MessageIsSound ==
    ASSUME NEW e \in Sent, e.kind \in Kinds, NEW l, Sound(l, e), NEW r \in BOOLEAN
    PROVE  /\ Message(e, r) \in Received /\ Sound(l, Message(e, r))
           /\ Message(e, r).kind = e.kind /\ Message(e, r).from = e.from
           /\ Message(e, r).to = e.to /\ Message(e, r).replay = r
<1>1. Message(e, r) = [kind |-> e.kind, ws |-> e.ws, stream |-> e.stream,
                       from |-> e.from, to |-> e.to, replay |-> r]
  BY DEF Message
<1>2. e.ws \in {Workspace} /\ e.stream \in Publishers \cup {None} /\ e.from \in Nat /\ e.to \in Nat
  BY DEF Sent
<1>3. Message(e, r) \in Received
  BY <1>1, <1>2 DEF Received
<1> QED
  BY <1>1, <1>3 DEF Sound

(* What the handler writes.                                                *)
LEMMA SendingIsSound ==
    ASSUME StreamOK, SendReplayed \/ SendLive
    PROVE  StreamOK'
<1> USE DEF StreamOK
<1>1. UNCHANGED server /\ UNCHANGED log
  BY DEF SendReplayed, SendLive, server
<1>2. LogOK'
  BY <1>1, LogStays
<1>3. CASE SendReplayed
  <2> DEFINE e == Head(handler.replay)
  <2>1. handler.replay # <<>> /\ handler.replay \in Seq(Received) /\ handler \in Handlers
        /\ AllSound(log, handler.replay)
    BY <1>3 DEF SendReplayed, HandlerOK, Handlers
  <2>2. e \in Received /\ Sound(log, e)
        /\ Tail(handler.replay) \in Seq(Received) /\ AllSound(log, Tail(handler.replay))
    BY <2>1, TailSound
  <2>3. /\ ReceiveImmediate(e) \/ ReceiveBatched(e)
        /\ conn' = "down" \/ (handler' = [handler EXCEPT !.replay = Tail(@)] /\ UNCHANGED out)
        /\ conn = "replaying"
    BY <1>3 DEF SendReplayed
  <2> HIDE DEF e
  <2>4. /\ TabOK' /\ BatchOK'
        /\ HangUp \/ UNCHANGED <<pub, queue, conn>>
    BY <1>1, <2>2, <2>3, ReceivingIsSound
  <2>5. CASE HangUp
    BY <1>1, <1>2, <2>4, <2>5, HangUpEmpties
  <2>6. CASE UNCHANGED <<pub, queue, conn>>
    <3>1. handler' = [handler EXCEPT !.replay = Tail(@)] /\ UNCHANGED out
      BY <2>3, <2>6
    <3>2. handler' \in Handlers /\ handler'.replay = Tail(handler.replay)
      BY <2>1, <2>2, <3>1 DEF Handlers
    <3>3. HandlerOK'
      BY <1>1, <2>2, <2>6, <3>2 DEF HandlerOK
    <3> QED
      BY <1>1, <1>2, <2>4, <2>6, <3>1, <3>3, PubsStay, FeedStays
  <2> QED
    BY <2>4, <2>5, <2>6
<1>4. CASE SendLive
  <2> DEFINE e == Message(Head(out), FALSE)
  <2>1. out # <<>> /\ out \in Seq(Sent) /\ AllSound(log, out)
    BY <1>4 DEF SendLive, FeedOK
  <2>2. Head(out) \in Sent /\ Sound(log, Head(out))
        /\ Tail(out) \in Seq(Sent) /\ AllSound(log, Tail(out))
    BY <2>1, TailSound
  <2>3. /\ ReceiveImmediate(e) \/ ReceiveBatched(e)
        /\ conn' = "down" \/ (out' = Tail(out) /\ UNCHANGED handler)
        /\ conn = "live"
    BY <1>4 DEF SendLive
  <2>4. Head(out).kind \in Kinds
    <3>1. e.kind \in Kinds
      BY <2>3 DEF ReceiveImmediate, ReceiveBatched, Kinds
    <3> QED
      BY <3>1 DEF Message
  <2>5. e \in Received /\ Sound(log, e)
    BY <2>2, <2>4, MessageIsSound
  <2> HIDE DEF e
  <2>6. /\ TabOK' /\ BatchOK'
        /\ HangUp \/ UNCHANGED <<pub, queue, conn>>
    BY <1>1, <2>3, <2>5, ReceivingIsSound
  <2>7. CASE HangUp
    BY <1>1, <1>2, <2>6, <2>7, HangUpEmpties
  <2>8. CASE UNCHANGED <<pub, queue, conn>>
    <3>1. out' = Tail(out) /\ UNCHANGED handler
      BY <2>3, <2>8
    <3>2. FeedOK'
      BY <1>1, <2>2, <2>8, <3>1 DEF FeedOK
    <3> QED
      BY <1>1, <1>2, <2>6, <2>8, <3>1, <3>2, PubsStay, HandlerStays
  <2> QED
    BY <2>6, <2>7, <2>8
<1> QED
  BY <1>3, <1>4

(* The steps that flush the batch.                                         *)
LEMMA FlushingIsSound ==
    ASSUME StreamOK, FlushTimer \/ SendReplayCompleted \/ SendDropped \/ Disconnect
    PROVE  StreamOK'
<1> USE DEF StreamOK
<1>1. UNCHANGED server /\ UNCHANGED <<log, boot>>
  BY DEF FlushTimer, SendReplayCompleted, SendDropped, Disconnect, server
<1>2. Become(Flushed) /\ batch' = <<>>
  BY DEF FlushTimer, SendReplayCompleted, SendDropped, Disconnect
<1>3. HangUp \/ (UNCHANGED <<feed, handler>> /\ (conn' = conn \/ conn' = "live"))
  BY DEF FlushTimer, SendReplayCompleted, SendDropped, Disconnect
<1>4. LogOK' /\ TabOK' /\ BatchOK'
  BY <1>1, <1>2, FlushKeepsTab, LogStays, TabBecomes, BatchEmptied
<1>5. CASE HangUp
  BY <1>1, <1>4, <1>5, HangUpEmpties
<1>6. CASE UNCHANGED <<feed, handler>> /\ (conn' = conn \/ conn' = "live")
  <2>1. UNCHANGED <<pub, queue, out>>
    BY <1>6 DEF feed
  <2>2. HandlerOK'
    BY <1>1, <1>6 DEF HandlerOK, Phases
  <2> QED
    BY <1>1, <1>4, <2>1, <2>2, PubsStay, FeedStays
<1> QED
  BY <1>3, <1>5, <1>6

(* A crash: what is lost from the log has the number of an earlier boot.   *)
LEMMA CrashIsSound ==
    ASSUME StreamOK, Crash
    PROVE  StreamOK'
<1> USE DEF StreamOK
<1>1. /\ boot' = boot + 1 /\ log' = SubSeq(log, 1, durable) /\ durable' = durable
      /\ Become(Flushed) /\ batch' = <<>> /\ conn' = "down" /\ handler' = NoHandler
      /\ pub' = [p \in Publishers |-> Idle] /\ queue' = <<>> /\ out' = <<>>
  BY DEF Crash
<1>2. log \in Seq(Entries) /\ boot \in Nat /\ durable \in 1 .. Len(log) /\ Len(log) \in Nat
      /\ \A n \in 1 .. Len(log) : log[n].boot <= boot
  BY DEF LogOK
<1>3. log' \in Seq(Entries) /\ Len(log') = durable /\ \A n \in 1 .. durable : log'[n] = log[n]
  BY <1>1, <1>2
<1>4. ASSUME NEW n \in 1 .. Len(log) PROVE log[n].boot \in Nat
  <2>1. log[n] \in Entries
    BY <1>2
  <2> QED
    BY <2>1 DEF Entries
<1>5. LogOK'
  <2>1. \A n \in 1 .. durable : log'[n].boot <= boot + 1
    BY <1>2, <1>3, <1>4
  <2> QED
    BY <1>1, <1>2, <1>3, <2>1 DEF LogOK
<1>6. PubsOK'
  BY <1>1, OneIdle DEF PubsOK
<1>7. FeedOK' /\ HandlerOK' /\ BatchOK'
  BY <1>1, EmptySound, NobodyHome DEF FeedOK, HandlerOK, BatchOK, Phases
<1>8. TabOK'
  <2> DEFINE t == Flushed
  <2>1. GoodTab(t)
    BY FlushKeepsTab
  <2>2. last' = t.last /\ seen' = t.seen /\ again' = t.again
    BY <1>1 DEF Become
  <2> HIDE DEF t
  <2>3. /\ t.last \in Nat /\ t.seen \subseteq Nat \X Nat /\ t.again \subseteq t.seen
        /\ \A s \in t.seen : s[1] <= t.last /\ s[2] <= boot
        /\ \A n \in 1 .. Len(log) : <<n, log[n].boot>> \in t.again => log[n].kind = "delta"
    BY <2>1 DEF GoodTab, Tabs
  <2>4. \A s \in t.seen : s[2] <= boot + 1 /\ s[2] # boot + 1
    BY <1>2, <2>3
  <2>5. \A n \in 1 .. durable : <<n, log'[n].boot>> \in t.again => log'[n].kind = "delta"
    BY <1>2, <1>3, <2>3
  <2> QED
    BY <1>1, <1>3, <2>2, <2>3, <2>4, <2>5 DEF TabOK, GoodTab, Now, Tabs
<1> QED
  BY <1>5, <1>6, <1>7, <1>8

LEMMA StreamStep ==
    ASSUME StreamOK, [Next]_vars
    PROVE  StreamOK'
<1> USE DEF StreamOK
<1>1. CASE UNCHANGED vars
  <2>1. UNCHANGED server /\ UNCHANGED <<log, boot, pub, queue, out, conn, handler, last, seen, again, batch>>
    BY <1>1 DEF vars, server, feed, tab
  <2> QED
    BY <2>1, LogStays, PubsStay, FeedStays, HandlerStays, BatchStays, TabStays
<1>2. ASSUME NEW p \in Publishers, (\E kind \in Kinds : PublishBegin(p, kind)) \/ PublishAppend(p)
      PROVE  StreamOK'
  BY <1>2, PublishingIsSound
<1>3. ASSUME NEW p \in Publishers, Enqueue(p) \/ EnqueueControl(p) PROVE StreamOK'
  <2>1. UNCHANGED server /\ UNCHANGED <<log, boot, conn, handler, last, seen, again, batch>>
    BY <1>3 DEF Enqueue, EnqueueControl, server, tab
  <2> QED
    BY <1>3, <2>1, QueueingIsSound, LogStays, HandlerStays, BatchStays, TabStays
<1>4. CASE Pump
  <2>1. UNCHANGED server /\ UNCHANGED <<log, boot, pub, conn, handler, last, seen, again, batch>>
    BY <1>4 DEF Pump, server, tab
  <2> QED
    BY <1>4, <2>1, PumpingIsSound, LogStays, PubsStay, HandlerStays, BatchStays, TabStays
<1>5. CASE Dial \/ Subscribe \/ ReadHeadSeq \/ ReadOldestSeq \/ Replay
  <2>1. HandlerOK' /\ UNCHANGED server /\ UNCHANGED <<log, boot, pub, queue, out, last, seen, again, batch>>
    BY <1>5, HandlerMovesSoundly DEF server, feed, tab
  <2> QED
    BY <2>1, LogStays, PubsStay, FeedStays, BatchStays, TabStays
<1>6. CASE SendReplayed \/ SendLive
  BY <1>6, SendingIsSound
<1>7. CASE FlushTimer \/ SendReplayCompleted \/ SendDropped \/ Disconnect
  BY <1>7, FlushingIsSound
<1>8. CASE FlushStore
  <2>1. durable' = Len(log) /\ durable \in 1 .. Len(log)
        /\ UNCHANGED <<log, boot, pub, queue, out, conn, handler, last, seen, again, batch>>
    BY <1>8 DEF FlushStore, feed, tab, LogOK
  <2>2. LogOK'
    BY <2>1 DEF LogOK
  <2> QED
    BY <2>1, <2>2, PubsStay, FeedStays, HandlerStays, BatchStays, TabStays
<1>9. CASE Crash
  BY <1>9, CrashIsSound
<1> QED
  BY <1>1, <1>2, <1>3, <1>4, <1>5, <1>6, <1>7, <1>8, <1>9 DEF Next, PublishStep, HandlerStep

LEMMA StreamInit == Init => StreamOK
<1> SUFFICES ASSUME Init PROVE StreamOK
  OBVIOUS
<1> DEFINE x == [kind |-> "critical", stream |-> None, boot |-> 0]
<1>1. x \in Entries /\ x.boot = 0
  BY DEF Entries, Kinds
<1>2. log = <<x>> /\ boot = 0 /\ durable = 1
  BY DEF Init
<1> HIDE DEF x
<1>3. log \in Seq(Entries) /\ Len(log) = 1 /\ log[1] = x
  BY <1>1, <1>2
<1>4. LogOK
  BY <1>1, <1>2, <1>3 DEF LogOK
<1>5. PubsOK
  BY OneIdle DEF Init, PubsOK
<1>6. FeedOK /\ BatchOK
  BY EmptySound DEF Init, FeedOK, BatchOK
<1>7. HandlerOK
  BY NobodyHome DEF Init, HandlerOK, Phases
<1>8. TabOK
  BY <1>2, <1>3 DEF Init, TabOK, GoodTab, Now, Tabs
<1> QED
  BY <1>4, <1>5, <1>6, <1>7, <1>8 DEF StreamOK

LEMMA StreamIsSound == Spec => []StreamOK
<1>1. StreamOK /\ [Next]_vars => StreamOK'
  BY StreamStep
<1> QED
  BY <1>1, StreamInit, PTL DEF Spec

(* The only events the tab may apply twice are deltas: an approval, a turn *)
(* or an item event is applied once, however often the connection breaks,  *)
(* whatever overtakes what, and however often the server crashes           *)
(* (applySessionEvents and the merging in hub.go).                         *)
THEOREM RepeatsAreDeltas == Spec => []OnlyDeltasRepeat
<1>1. StreamOK => OnlyDeltasRepeat
  BY DEF StreamOK, TabOK, GoodTab, Now, OnlyDeltasRepeat
<1> QED
  BY <1>1, StreamIsSound, PTL
-----------------------------------------------------------------------------
(***************************************************************************)
(* Nothing is passed over.  As long as nothing has left the log - no crash *)
(* has cut it, and it has not outgrown the retention - the tab has applied *)
(* all that it counts as behind it, since a batch that is replayed goes on *)
(* where the tab is, and an event of any other batch is checked for a gap. *)
(***************************************************************************)
Kept == boot = 0 /\ Len(log) <= Retention

Whole(t) == \A n \in 1 .. t.last : <<n, 0>> \in t.seen

(* The events of q are the replay that follows number n.                   *)
Follows(q, n) ==
    \A i \in 1 .. Len(q) : q[i].replay /\ q[i].from = n + i /\ q[i].to = n + i

NoneReplayed(q) == \A i \in 1 .. Len(q) : ~q[i].replay

PhaseOK ==
    /\ conn \notin {"replaying", "live"} => batch = <<>>
    /\ conn \in {"dialing", "head", "oldest", "replay"} => handler.after = last
    /\ conn = "replaying" => /\ Follows(batch, last)
                             /\ Follows(handler.replay, last + Len(batch))
    /\ conn = "live" => NoneReplayed(batch)

HoleFree == Kept => PhaseOK /\ Whole(Now)

(* A batch that is replayed brings the tab to its end.                     *)
LEMMA FlushOfReplay ==
    ASSUME LogOK, BatchOK, last \in Nat, Follows(batch, last)
    PROVE  /\ Flushed.last = last + Len(batch)
           /\ Flushed.gap = FALSE
           /\ \A i \in 1 .. Len(batch) : WorkingSeq(i) = last + i - 1
<1>1. Len(batch) \in Nat
  BY DEF BatchOK
<1>2. \A i \in 1 .. Len(batch) : ~GapAt(i)
  BY DEF Follows, GapAt, Gap
<1>3. Accepted = 1 .. Len(batch)
  BY <1>1, <1>2 DEF Accepted
<1>4. Flushed.gap = FALSE
  BY <1>2 DEF Flushed
<1>5. Flushed.last = last + Len(batch)
  <2>1. /\ Flushed.last \in Nat /\ last <= Flushed.last
        /\ \A j \in Accepted : batch[j].to <= Flushed.last
        /\ Flushed.last = last \/ \E j \in Accepted : Flushed.last = batch[j].to
    BY FlushedLastIsLargest
  <2>2. \A j \in 1 .. Len(batch) : batch[j].to = last + j
    BY DEF Follows
  <2>3. Flushed.last <= last + Len(batch)
    BY <1>1, <1>3, <2>1, <2>2
  <2>4. CASE Len(batch) = 0
    BY <1>1, <2>1, <2>3, <2>4
  <2>5. CASE Len(batch) # 0
    <3>1. Len(batch) \in 1 .. Len(batch)
      BY <1>1, <2>5
    <3>2. last + Len(batch) <= Flushed.last
      BY <1>3, <2>1, <2>2, <3>1
    <3> QED
      BY <1>1, <2>1, <2>3, <3>2
  <2> QED
    BY <2>4, <2>5
<1>6. ASSUME NEW i \in 1 .. Len(batch) PROVE WorkingSeq(i) = last + i - 1
  <2>1. /\ WorkingSeq(i) \in Nat /\ last <= WorkingSeq(i)
        /\ \A j \in 1 .. i - 1 : batch[j].to <= WorkingSeq(i)
        /\ WorkingSeq(i) = last \/ \E j \in 1 .. i - 1 : WorkingSeq(i) = batch[j].to
    BY WorkingSeqIsLargest
  <2>2. i \in Nat /\ \A j \in 1 .. i - 1 : j \in 1 .. Len(batch) /\ batch[j].to = last + j
    BY <1>1 DEF Follows
  <2>3. WorkingSeq(i) <= last + i - 1
    BY <2>1, <2>2
  <2>4. CASE i = 1
    BY <2>1, <2>3, <2>4
  <2>5. CASE i # 1
    <3>1. i - 1 \in 1 .. i - 1
      BY <2>2, <2>5
    <3>2. last + i - 1 <= WorkingSeq(i)
      BY <2>1, <2>2, <3>1
    <3> QED
      BY <2>1, <2>2, <2>3, <3>2
  <2> QED
    BY <2>4, <2>5
<1> QED
  BY <1>4, <1>5, <1>6

LEMMA NothingLeft ==
    ASSUME LogOK, boot = 0, NEW n \in 1 .. Len(log)
    PROVE  log[n].boot = 0
<1>1. log[n] \in Entries /\ log[n].boot <= 0
  BY DEF LogOK
<1> QED
  BY <1>1 DEF Entries

(* A flush leaves no hole: every number up to the last comes with the      *)
(* first accepted event that reaches it.                                   *)
LEMMA FlushKeepsWhole ==
    ASSUME LogOK, BatchOK, TabOK, boot = 0, Whole(Now),
           Follows(batch, last) \/ NoneReplayed(batch)
    PROVE  Whole(Flushed)
<1>1. last \in Nat /\ \A n \in 1 .. last : <<n, 0>> \in seen
  BY DEF TabOK, GoodTab, Now, Tabs, Whole
<1>2. /\ Flushed.last \in Nat /\ last <= Flushed.last
      /\ Flushed.last = last \/ \E j \in Accepted : Flushed.last = batch[j].to
  BY <1>1, FlushedLastIsLargest
<1>3. Flushed.seen = seen \cup UNION {Contents(batch[i]) : i \in Applied}
  BY DEF Flushed
<1>0. seen \subseteq Flushed.seen
  BY <1>3
<1> SUFFICES ASSUME NEW n \in 1 .. Flushed.last, ~(n <= last)
             PROVE  <<n, 0>> \in Flushed.seen
  <2>1. ASSUME NEW n \in 1 .. Flushed.last, n <= last PROVE <<n, 0>> \in Flushed.seen
    <3>1. n \in 1 .. last
      BY <1>1, <1>2, <2>1
    <3> QED
      BY <1>0, <1>1, <3>1
  <2> QED
    BY <2>1 DEF Whole
<1>4. n \in Nat /\ last < n
  BY <1>1, <1>2
<1> DEFINE T == {i \in Accepted : n <= batch[i].to}
<1>5. T \subseteq Nat /\ T # {}
  <2>1. Accepted \subseteq Nat
    BY DEF Accepted
  <2>2. PICK j \in Accepted : Flushed.last = batch[j].to
    BY <1>1, <1>2, <1>4
  <2>3. j \in T
    BY <1>2, <2>2
  <2> QED
    BY <2>1, <2>3
<1>6. PICK i \in T : \A j \in T : i <= j
  <2> HIDE DEF T
  <2> QED
    BY <1>5, LeastNumber
<1>7. i \in Accepted /\ i \in 1 .. Len(batch) /\ n <= batch[i].to /\ ~GapAt(i)
  BY <1>6 DEF Accepted
<1>8. /\ WorkingSeq(i) \in Nat
      /\ WorkingSeq(i) = last \/ \E j \in 1 .. i - 1 : WorkingSeq(i) = batch[j].to
  BY <1>1, <1>7, WorkingSeqIsLargest
<1>9. ASSUME NEW j \in 1 .. i - 1 PROVE batch[j].to < n
  <2>1. j \in 1 .. Len(batch) /\ j < i /\ i \in Nat /\ j \in Nat
    BY <1>7, <1>9 DEF BatchOK
  <2>2. j \in Accepted
    BY <1>7, <2>1 DEF Accepted
  <2>3. ~(n <= batch[j].to)
    BY <1>6, <2>1, <2>2
  <2> QED
    BY <1>4, <2>1, <2>3, BatchEvents
<1>10. WorkingSeq(i) < n
  BY <1>4, <1>8, <1>9
<1>11. /\ batch[i].from \in Nat /\ batch[i].to \in Nat
       /\ batch[i].from <= batch[i].to /\ 1 <= batch[i].from /\ batch[i].to <= Len(log)
       /\ Len(log) \in Nat
  BY <1>7, BatchEvents
<1>12. i \in Applied
  BY <1>4, <1>7, <1>8, <1>10, <1>11 DEF Applied, Known
<1>13. batch[i].from <= n
  <2>1. CASE Follows(batch, last)
    <3>1. WorkingSeq(i) = last + i - 1 /\ batch[i].from = last + i
      BY <1>1, <1>7, <2>1, FlushOfReplay DEF Follows
    <3> QED
      BY <1>1, <1>4, <1>7, <1>10, <1>11, <3>1
  <2>2. CASE NoneReplayed(batch)
    <3>1. ~batch[i].replay
      BY <1>7, <2>2 DEF NoneReplayed
    <3>2. batch[i].to <= WorkingSeq(i) + 1 \/ batch[i].from <= WorkingSeq(i) + 1
      BY <1>7, <1>8, <1>11, <3>1 DEF GapAt, Gap
    <3> QED
      BY <1>4, <1>7, <1>8, <1>10, <1>11, <3>2
  <2> QED
    BY <2>1, <2>2
<1>14. <<n, 0>> \in Contents(batch[i])
  <2>1. n \in batch[i].from .. batch[i].to /\ n \in 1 .. Len(log)
    BY <1>4, <1>7, <1>11, <1>13
  <2>2. log[n].boot = 0
    BY <2>1, NothingLeft
  <2> QED
    BY <2>1, <2>2 DEF Contents
<1> QED
  BY <1>3, <1>12, <1>14

(* Nor does a single event.                                                *)
LEMMA IngestKeepsWhole ==
    ASSUME LogOK, boot = 0, NEW t, GoodTab(t), Whole(t), NEW e \in Received, Sound(log, e),
           e.replay => e.from <= t.last + 1
    PROVE  Whole(Ingest(t, e))
<1>1. CASE Known(e, t.last) \/ Gap(e, t.last)
  BY <1>1 DEF Ingest
<1>2. CASE ~(Known(e, t.last) \/ Gap(e, t.last))
  <2>1. /\ e.from \in Nat /\ e.to \in Nat /\ t.last \in Nat /\ Len(log) \in Nat
        /\ 1 <= e.from /\ e.from <= e.to /\ e.to <= Len(log)
    BY DEF Received, Sound, Kinds, GoodTab, Tabs, LogOK
  <2>2. e.from <= t.last + 1
    BY <1>2, <2>1 DEF Known, Gap
  <2>3. Ingest(t, e).last = e.to /\ Ingest(t, e).seen = t.seen \cup Contents(e)
    BY <1>2, <2>1 DEF Ingest, GoodTab, Tabs
  <2>4. ASSUME NEW n \in 1 .. e.to PROVE <<n, 0>> \in t.seen \cup Contents(e)
    <3>1. CASE n <= t.last
      BY <2>1, <3>1 DEF Whole
    <3>2. CASE ~(n <= t.last)
      <4>1. n \in e.from .. e.to /\ n \in 1 .. Len(log)
        BY <2>1, <2>2, <3>2
      <4>2. log[n].boot = 0
        BY <4>1, NothingLeft
      <4> QED
        BY <4>1, <4>2 DEF Contents
    <3> QED
      BY <3>1, <3>2
  <2> QED
    BY <2>3, <2>4 DEF Whole
<1> QED
  BY <1>1, <1>2

LEMMA KeptBefore ==
    ASSUME LogOK, [Next]_vars, Kept'
    PROVE  Kept /\ ~Crash
<1>1. boot \in Nat /\ boot' = 0 /\ Len(log') <= Retention /\ log \in Seq(Entries) /\ Len(log) \in Nat
  BY DEF LogOK, Kept
<1>2. CASE UNCHANGED log /\ UNCHANGED boot
  <2>1. ~Crash
    BY <1>1, <1>2 DEF Crash
  <2> QED
    BY <1>1, <1>2, <2>1 DEF Kept
<1>3. ASSUME NEW p \in Publishers, PublishAppend(p) PROVE Kept /\ ~Crash
  <2>1. boot' = boot /\ Len(log') = Len(log) + 1
    BY <1>1, <1>3 DEF PublishAppend
  <2>2. ~Crash
    BY <1>1, <2>1 DEF Crash
  <2> QED
    BY <1>1, <2>1, <2>2, StreamAssumption DEF Kept
<1>4. ~Crash
  BY <1>1 DEF Crash
<1>5. \/ UNCHANGED log /\ UNCHANGED boot
      \/ \E p \in Publishers : PublishAppend(p)
  BY <1>4 DEF Next, PublishStep, HandlerStep, PublishBegin, Enqueue, EnqueueControl, Pump, Dial,
              Subscribe, ReadHeadSeq, ReadOldestSeq, Replay, SendReplayed, SendReplayCompleted,
              SendLive, SendDropped, FlushTimer, Disconnect, FlushStore, vars, server
<1> QED
  BY <1>2, <1>3, <1>5

LEMMA PhaseStays ==
    ASSUME PhaseOK, Whole(Now), UNCHANGED <<conn, handler, last, seen, batch>>
    PROVE  PhaseOK' /\ Whole(Now)'
  BY DEF PhaseOK, Whole, Now, Follows, NoneReplayed

LEMMA WholeBecomes ==
    ASSUME NEW t, Whole(t), Become(t)
    PROVE  Whole(Now)'
  BY DEF Become, Whole, Now

LEMMA EmptyFollows ==
    ASSUME NEW n
    PROVE  Follows(<<>>, n) /\ NoneReplayed(<<>>)
  BY DEF Follows, NoneReplayed

(* When the connection is down nothing is batched.                         *)
LEMMA HungUp ==
    ASSUME HangUp, batch' = <<>>
    PROVE  PhaseOK'
  BY DEF HangUp, PhaseOK

LEMMA WhatIsBatched ==
    ASSUME PhaseOK
    PROVE  Follows(batch, last) \/ NoneReplayed(batch)
  BY EmptyFollows DEF PhaseOK

(* The tab takes the next replayed event.                                  *)
LEMMA ReplayedIsWhole ==
    ASSUME StreamOK, boot = 0, PhaseOK, Whole(Now), SendReplayed
    PROVE  PhaseOK' /\ Whole(Now)'
<1> USE DEF StreamOK
<1> DEFINE e == Head(handler.replay)
           n == last + Len(batch)
<1>1. /\ conn = "replaying" /\ handler.replay # <<>>
      /\ ReceiveImmediate(e) \/ ReceiveBatched(e)
      /\ conn' = "down" \/ handler' = [handler EXCEPT !.replay = Tail(@)]
  BY DEF SendReplayed
<1>2. /\ handler \in Handlers /\ handler.replay \in Seq(Received) /\ AllSound(log, handler.replay)
      /\ batch \in Seq(Received) /\ Len(batch) \in Nat /\ last \in Nat /\ n \in Nat
  BY DEF HandlerOK, Handlers, BatchOK, TabOK, GoodTab, Now, Tabs
<1>3. e \in Received /\ Sound(log, e) /\ Tail(handler.replay) \in Seq(Received)
  BY <1>1, <1>2, TailSound
<1>4. Follows(batch, last) /\ Follows(handler.replay, n)
  BY <1>1 DEF PhaseOK
<1>5. e.replay /\ e.from = n + 1 /\ e.to = n + 1
  <2>1. e = handler.replay[1] /\ 1 \in 1 .. Len(handler.replay)
    BY <1>1, <1>2
  <2> QED
    BY <1>4, <2>1 DEF Follows
<1>6. Follows(Tail(handler.replay), n + 1)
  <2>1. Len(Tail(handler.replay)) = Len(handler.replay) - 1 /\ Len(handler.replay) \in Nat
        /\ \A i \in 1 .. Len(handler.replay) - 1 : Tail(handler.replay)[i] = handler.replay[i + 1]
    BY <1>1, <1>2
  <2>2. \A i \in 1 .. Len(handler.replay) - 1 : i + 1 \in 1 .. Len(handler.replay)
    BY <2>1
  <2>3. ASSUME NEW i \in 1 .. Len(handler.replay) - 1
        PROVE  /\ handler.replay[i + 1].replay
               /\ handler.replay[i + 1].from = (n + 1) + i
               /\ handler.replay[i + 1].to = (n + 1) + i
    <3>1. /\ handler.replay[i + 1].replay
          /\ handler.replay[i + 1].from = n + (i + 1)
          /\ handler.replay[i + 1].to = n + (i + 1)
      BY <1>4, <2>2 DEF Follows
    <3>2. n + (i + 1) = (n + 1) + i
      BY <1>2
    <3> QED
      BY <3>1, <3>2
  <2> QED
    BY <2>1, <2>3 DEF Follows
<1>7. /\ Flushed.last = n /\ Flushed.gap = FALSE
      /\ GoodTab(Flushed) /\ Whole(Flushed)
  BY <1>2, <1>4, FlushOfReplay, FlushKeepsTab, FlushKeepsWhole
<1> HIDE DEF e, n
<1>8. CASE ReceiveImmediate(e)
  <2>1. Whole(Ingest(Flushed, e))
    BY <1>2, <1>3, <1>5, <1>7, IngestKeepsWhole
  <2>2. Become(Ingest(Flushed, e)) /\ batch' = <<>>
    BY <1>8 DEF ReceiveImmediate
  <2>3. ~Gap(e, Flushed.last) /\ ~Known(e, Flushed.last)
    BY <1>2, <1>5, <1>7 DEF Gap, Known
  <2>4. Ingest(Flushed, e).last = n + 1
    BY <1>5, <2>3 DEF Ingest, Flushed
  <2>5. conn' = conn
    BY <1>7, <1>8, <2>3 DEF ReceiveImmediate
  <2>6. handler'.replay = Tail(handler.replay)
    BY <1>1, <1>2, <2>5 DEF Handlers
  <2>7. last' = n + 1 /\ last' + Len(batch') = n + 1
    BY <1>2, <2>2, <2>4 DEF Become
  <2>8. PhaseOK'
    BY <1>1, <1>6, <2>2, <2>5, <2>6, <2>7, EmptyFollows DEF PhaseOK
  <2> QED
    BY <2>1, <2>2, <2>8, WholeBecomes
<1>9. CASE ReceiveBatched(e)
  <2>1. ~Gap(e, QueuedSeq)
    BY <1>5 DEF Gap
  <2>2. batch' = Append(batch, e) /\ UNCHANGED <<last, seen, again, conn>>
    BY <1>9, <2>1 DEF ReceiveBatched
  <2>3. handler'.replay = Tail(handler.replay)
    BY <1>1, <1>2, <2>2 DEF Handlers
  <2>4. Len(batch') = Len(batch) + 1
        /\ \A i \in 1 .. Len(batch) + 1 : batch'[i] = IF i <= Len(batch) THEN batch[i] ELSE e
    BY <1>2, <1>3, <2>2
  <2>5. Follows(batch', last)
    <3>1. ASSUME NEW i \in 1 .. Len(batch) + 1
          PROVE  batch'[i].replay /\ batch'[i].from = last + i /\ batch'[i].to = last + i
      <4>1. CASE i <= Len(batch)
        BY <1>2, <1>4, <2>4, <4>1 DEF Follows
      <4>2. CASE i = Len(batch) + 1
        BY <1>2, <1>5, <2>4, <4>2 DEF n
      <4> QED
        BY <1>2, <4>1, <4>2
    <3> QED
      BY <2>4, <3>1 DEF Follows
  <2>6. last' + Len(batch') = n + 1
    BY <1>2, <2>2, <2>4 DEF n
  <2>7. PhaseOK'
    BY <1>1, <1>6, <2>2, <2>3, <2>5, <2>6 DEF PhaseOK
  <2> QED
    BY <2>2, <2>7 DEF Whole, Now
<1> QED
  BY <1>1, <1>8, <1>9

(* The tab takes a live event.                                             *)
LEMMA LiveIsWhole ==
    ASSUME StreamOK, boot = 0, PhaseOK, Whole(Now), SendLive
    PROVE  PhaseOK' /\ Whole(Now)'
<1> USE DEF StreamOK
<1> DEFINE e == Message(Head(out), FALSE)
<1>1. /\ conn = "live" /\ out # <<>> /\ out \in Seq(Sent) /\ AllSound(log, out)
      /\ ReceiveImmediate(e) \/ ReceiveBatched(e)
  BY DEF SendLive, FeedOK
<1>2. Head(out).kind \in Kinds
  <2>1. e.kind \in Kinds
    BY <1>1 DEF ReceiveImmediate, ReceiveBatched, Kinds
  <2> QED
    BY <2>1 DEF Message
<1>3. Head(out) \in Sent /\ Sound(log, Head(out))
  BY <1>1, TailSound
<1>4. e \in Received /\ Sound(log, e) /\ ~e.replay
  BY <1>2, <1>3, MessageIsSound DEF Message
<1>5. NoneReplayed(batch) /\ batch \in Seq(Received)
  BY <1>1 DEF PhaseOK, BatchOK
<1>6. GoodTab(Flushed) /\ Whole(Flushed)
  BY <1>5, FlushKeepsTab, FlushKeepsWhole
<1> HIDE DEF e
<1>7. CASE ReceiveImmediate(e)
  <2>1. Whole(Ingest(Flushed, e))
    BY <1>4, <1>6, IngestKeepsWhole
  <2>2. Become(Ingest(Flushed, e)) /\ batch' = <<>> /\ (HangUp \/ conn' = conn)
    BY <1>7 DEF ReceiveImmediate
  <2>3. PhaseOK'
    BY <1>1, <2>2, HungUp, EmptyFollows DEF PhaseOK
  <2> QED
    BY <2>1, <2>2, <2>3, WholeBecomes
<1>8. CASE ReceiveBatched(e)
  <2>1. CASE Gap(e, QueuedSeq)
    <3>1. Become(Flushed) /\ batch' = <<>> /\ HangUp
      BY <1>8, <2>1 DEF ReceiveBatched
    <3> QED
      BY <1>6, <3>1, HungUp, WholeBecomes
  <2>2. CASE ~Gap(e, QueuedSeq)
    <3>1. batch' = Append(batch, e) /\ UNCHANGED <<last, seen, again, conn>>
      BY <1>8, <2>2 DEF ReceiveBatched
    <3>2. Len(batch') = Len(batch) + 1 /\ Len(batch) \in Nat
          /\ \A i \in 1 .. Len(batch) + 1 : batch'[i] = IF i <= Len(batch) THEN batch[i] ELSE e
      BY <1>4, <1>5, <3>1
    <3>3. NoneReplayed(batch')
      BY <1>4, <1>5, <3>2 DEF NoneReplayed
    <3>4. PhaseOK'
      BY <1>1, <3>1, <3>3 DEF PhaseOK
    <3> QED
      BY <3>1, <3>4 DEF Whole, Now
  <2> QED
    BY <2>1, <2>2
<1> QED
  BY <1>1, <1>7, <1>8

(* The steps that flush the batch.                                         *)
LEMMA FlushingIsWhole ==
    ASSUME StreamOK, boot = 0, PhaseOK, Whole(Now),
           FlushTimer \/ SendReplayCompleted \/ SendDropped \/ Disconnect
    PROVE  PhaseOK' /\ Whole(Now)'
<1> USE DEF StreamOK
<1>1. Become(Flushed) /\ batch' = <<>>
  BY DEF FlushTimer, SendReplayCompleted, SendDropped, Disconnect
<1>2. Whole(Flushed)
  BY WhatIsBatched, FlushKeepsWhole
<1>3. Whole(Now)'
  BY <1>1, <1>2, WholeBecomes
<1>4. CASE HangUp
  BY <1>1, <1>3, <1>4, HungUp
<1>5. CASE FlushTimer /\ UNCHANGED <<conn, handler>>
  <2>1. conn \in {"replaying", "live"}
    BY <1>5 DEF FlushTimer, PhaseOK
  <2>2. CASE conn = "live"
    BY <1>1, <1>3, <1>5, <2>2, EmptyFollows DEF PhaseOK
  <2>3. CASE conn = "replaying"
    <3>1. Follows(batch, last) /\ Follows(handler.replay, last + Len(batch))
      BY <2>3 DEF PhaseOK
    <3>2. last \in Nat /\ Len(batch) \in Nat
      BY DEF TabOK, GoodTab, Now, Tabs, BatchOK
    <3>3. last' = last + Len(batch)
      BY <1>1, <3>1, <3>2, FlushOfReplay DEF Become
    <3>4. last' + Len(batch') = last + Len(batch)
      BY <1>1, <3>2, <3>3
    <3>5. PhaseOK'
      BY <1>1, <1>5, <2>3, <3>1, <3>4, EmptyFollows DEF PhaseOK
    <3> QED
      BY <1>3, <3>5
  <2> QED
    BY <2>1, <2>2, <2>3
<1>6. CASE SendReplayCompleted /\ conn' = "live"
  BY <1>1, <1>3, <1>6, EmptyFollows DEF PhaseOK
<1>7. \/ HangUp
      \/ FlushTimer /\ UNCHANGED <<conn, handler>>
      \/ SendReplayCompleted /\ conn' = "live"
  BY DEF FlushTimer, SendReplayCompleted, SendDropped, Disconnect
<1> QED
  BY <1>4, <1>5, <1>6, <1>7

(* Where the handler reads from is where the tab is.                       *)
LEMMA HandlerStartsBehind ==
    ASSUME StreamOK, Len(log) <= Retention, PhaseOK, Whole(Now),
           Dial \/ Subscribe \/ ReadHeadSeq \/ ReadOldestSeq \/ Replay
    PROVE  PhaseOK' /\ Whole(Now)'
<1> USE DEF StreamOK
<1>1. UNCHANGED <<last, seen, batch>>
  BY HandlerMovesSoundly DEF tab
<1>2. Whole(Now)'
  BY <1>1 DEF Whole, Now
<1>3. handler \in Handlers /\ last \in Nat /\ Len(log) \in Nat
  BY DEF HandlerOK, TabOK, GoodTab, Now, Tabs, LogOK
<1>4. CASE Dial
  <2>1. conn = "down" /\ conn' = "dialing" /\ handler'.after = last
    BY <1>4 DEF Dial, NoHandler
  <2> QED
    BY <1>1, <1>2, <2>1 DEF PhaseOK
<1>5. CASE Subscribe \/ ReadHeadSeq \/ ReadOldestSeq
  <2>1. conn \in {"dialing", "head", "oldest"} /\ conn' \in {"head", "oldest", "replay"}
    BY <1>5 DEF Subscribe, ReadHeadSeq, ReadOldestSeq
  <2>2. handler'.after = handler.after
    BY <1>3, <1>5 DEF Subscribe, ReadHeadSeq, ReadOldestSeq, Handlers
  <2> QED
    BY <1>1, <1>2, <2>1, <2>2 DEF PhaseOK
<1>6. CASE Replay
  <2>1. conn = "replay" /\ conn' = "replaying" /\ handler'.replay = Replayed
    BY <1>3, <1>6 DEF Replay, Handlers
  <2>2. batch = <<>> /\ handler.after = last
    BY <2>1 DEF PhaseOK
  <2>3. PICK first \in Nat :
           /\ first = Max({OldestSeq, handler.after + 1})
           /\ 1 <= first
           /\ Len(log) <= Retention => first = handler.after + 1
           /\ Len(Replayed) = IF first <= Len(log) THEN Len(log) - first + 1 ELSE 0
           /\ Replayed \in Seq(Received)
           /\ \A i \in 1 .. Len(Replayed) :
                 /\ Replayed[i].replay
                 /\ Replayed[i].from = first + i - 1 /\ Replayed[i].to = first + i - 1
                 /\ Replayed[i].kind = log[first + i - 1].kind
    BY TheReplay
  <2>4. first = last + 1 /\ last' + Len(batch') = last
    BY <1>1, <1>3, <2>2, <2>3
  <2>5. Follows(Replayed, last)
    <3>1. \A i \in 1 .. Len(Replayed) : first + i - 1 = last + i
      BY <1>3, <2>3, <2>4
    <3> QED
      BY <2>3, <3>1 DEF Follows
  <2>6. Follows(batch', last')
    BY <1>1, <2>2, EmptyFollows
  <2> QED
    BY <1>2, <2>1, <2>4, <2>5, <2>6 DEF PhaseOK
<1> QED
  BY <1>4, <1>5, <1>6

LEMMA HoleFreeStep ==
    ASSUME StreamOK, HoleFree, [Next]_vars
    PROVE  HoleFree'
<1> SUFFICES ASSUME Kept' PROVE PhaseOK' /\ Whole(Now)'
  BY DEF HoleFree
<1>1. Kept /\ ~Crash
  BY KeptBefore DEF StreamOK
<1>2. boot = 0 /\ Len(log) <= Retention /\ PhaseOK /\ Whole(Now)
  BY <1>1 DEF Kept, HoleFree
<1>3. CASE UNCHANGED <<conn, handler, last, seen, batch>>
  BY <1>2, <1>3, PhaseStays
<1>4. CASE Dial \/ Subscribe \/ ReadHeadSeq \/ ReadOldestSeq \/ Replay
  BY <1>2, <1>4, HandlerStartsBehind
<1>5. CASE SendReplayed
  BY <1>2, <1>5, ReplayedIsWhole
<1>6. CASE SendLive
  BY <1>2, <1>6, LiveIsWhole
<1>7. CASE FlushTimer \/ SendReplayCompleted \/ SendDropped \/ Disconnect
  BY <1>2, <1>7, FlushingIsWhole
<1>8. \/ UNCHANGED <<conn, handler, last, seen, batch>>
      \/ Dial \/ Subscribe \/ ReadHeadSeq \/ ReadOldestSeq \/ Replay
      \/ SendReplayed
      \/ SendLive
      \/ FlushTimer \/ SendReplayCompleted \/ SendDropped \/ Disconnect
  BY <1>1 DEF Next, PublishStep, HandlerStep, PublishBegin, PublishAppend, Enqueue,
              EnqueueControl, Pump, FlushStore, vars, tab
<1> QED
  BY <1>3, <1>4, <1>5, <1>6, <1>7, <1>8

LEMMA HoleFreeInit == Init => HoleFree
  BY DEF Init, HoleFree, PhaseOK, Whole, Now

LEMMA NoHoles == Spec => []HoleFree
<1>1. StreamOK /\ HoleFree /\ [Next]_vars => HoleFree'
  BY HoleFreeStep
<1> QED
  BY <1>1, HoleFreeInit, StreamIsSound, PTL DEF Spec

(* While the log keeps its history, whatever is dropped, reordered, merged *)
(* or cut off, the tab passes over no event (splitWorkspaceEventsAtSeqGap, *)
(* handleWorkspaceStream, ListWorkspaceEventsAfter).                       *)
THEOREM NothingIsPassedOver == Spec => [](Len(log) <= Retention => NoSilentHole)
<1>1. StreamOK /\ HoleFree => (Len(log) <= Retention => NoSilentHole)
  <2> SUFFICES ASSUME StreamOK, HoleFree, Len(log) <= Retention, boot = 0,
                      NEW n \in 1 .. Len(log), n <= last
               PROVE  <<n, log[n].boot>> \in seen
    BY DEF NoSilentHole
  <2>1. \A m \in 1 .. last : <<m, 0>> \in seen
    BY DEF HoleFree, Kept, Whole, Now
  <2>2. log[n].boot = 0
    BY NothingLeft DEF StreamOK
  <2>3. n \in 1 .. last
    BY DEF StreamOK, TabOK, GoodTab, Now, Tabs
  <2> QED
    BY <2>1, <2>2, <2>3
<1> QED
  BY <1>1, NoHoles, StreamIsSound, PTL
-----------------------------------------------------------------------------
(***************************************************************************)
(* The bounds: of the log by MaxSeq, of the queue and the output channel   *)
(* by what hub.go gives them, and of what was read from the log by its     *)
(* length.                                                                 *)
(***************************************************************************)
LogBound == Len(log) + Cardinality(Appending) <= MaxSeq

CountBound ==
    /\ boot <= MaxCrashes
    /\ breaks \in 0 .. MaxBreaks
    /\ covered \in 0 .. MaxSeq

FeedBound == Len(queue) <= HardLimit /\ Len(out) <= OutLimit

HandlerBound ==
    handler.after <= MaxSeq /\ handler.head <= MaxSeq /\ handler.oldest <= MaxSeq /\ handler.to <= MaxSeq

Bounded(t) == 1 <= t.last /\ t.last <= MaxSeq /\ \A s \in t.seen : 1 <= s[1]

InBounds == LogBound /\ CountBound /\ FeedBound /\ HandlerBound /\ Bounded(Now)

LEMMA AppendingIsFinite ==
    Cardinality(Appending) \in Nat /\ IsFiniteSet(Appending)
<1>1. Appending \subseteq Publishers
  BY DEF Appending
<1>2. IsFiniteSet(Appending)
  BY <1>1, FS_Subset, StreamAssumption
<1> QED
  BY <1>2, FS_CardinalityType

LEMMA LogIsBounded ==
    ASSUME LogOK, LogBound
    PROVE  Len(log) \in Nat /\ 1 <= Len(log) /\ Len(log) <= MaxSeq
<1>1. Len(log) \in Nat /\ 1 <= Len(log)
  BY DEF LogOK
<1> QED
  BY <1>1, AppendingIsFinite, StreamAssumption DEF LogBound

(* Who appends next.                                                       *)
LEMMA LogBoundStep ==
    ASSUME StreamOK, LogBound, [Next]_vars
    PROVE  LogBound'
<1> USE DEF StreamOK
<1>1. Len(log) \in Nat /\ Cardinality(Appending) \in Nat /\ IsFiniteSet(Appending)
      /\ MaxSeq \in Nat /\ pub \in [Publishers -> Publications]
      /\ durable \in 1 .. Len(log) /\ log \in Seq(Entries)
  BY LogIsBounded, AppendingIsFinite, StreamAssumption DEF LogOK, PubsOK
<1>2. CASE UNCHANGED log /\ Appending' = Appending
  BY <1>2 DEF LogBound
<1>3. ASSUME NEW p \in Publishers, NEW kind \in Kinds, PublishBegin(p, kind) PROVE LogBound'
  <2>1. /\ pub[p].pc = "idle" /\ UNCHANGED log
        /\ Len(log) + Cardinality(Appending) < MaxSeq
        /\ pub' = [pub EXCEPT ![p] = [Idle EXCEPT !.pc = "append", !.kind = kind,
                                                  !.targeted = Subscribed]]
    BY <1>3 DEF PublishBegin, server
  <2>2. Appending' = Appending \cup {p} /\ p \notin Appending
    BY <1>1, <2>1 DEF Appending, Idle
  <2>3. Cardinality(Appending \cup {p}) = Cardinality(Appending) + 1
    BY <1>1, <2>2, FS_AddElement
  <2> QED
    BY <1>1, <2>1, <2>2, <2>3 DEF LogBound
<1>4. ASSUME NEW p \in Publishers, PublishAppend(p) PROVE LogBound'
  <2>1. pub[p].pc = "append" /\ Len(log') = Len(log) + 1
    BY <1>1, <1>4 DEF PublishAppend
  <2>2. Appending' = Appending \ {p} /\ p \in Appending
    <3>1. pub'[p].pc # "append" /\ \A q \in Publishers : q # p => pub'[q] = pub[q]
      BY <1>1, <1>4 DEF PublishAppend, Idle, Publications
    <3> QED
      BY <2>1, <3>1 DEF Appending
  <2>3. Cardinality(Appending \ {p}) = Cardinality(Appending) - 1
    BY <1>1, <2>2, FS_RemoveElement
  <2> QED
    BY <1>1, <2>1, <2>2, <2>3 DEF LogBound
<1>5. CASE Crash
  <2>1. Len(log') = durable /\ pub' = [p \in Publishers |-> Idle]
    BY <1>1, <1>5 DEF Crash
  <2>2. Appending' = {}
    BY <2>1 DEF Appending, Idle
  <2>3. Cardinality({}) = 0
    BY FS_EmptySet
  <2> QED
    BY <1>1, <2>1, <2>2, <2>3 DEF LogBound
<1>6. ASSUME UNCHANGED log, HangUp PROVE LogBound'
  <2>1. pub' = Untargeted
    BY <1>6 DEF HangUp
  <2>2. ASSUME NEW p \in Publishers PROVE (pub'[p].pc = "append") <=> (pub[p].pc = "append")
    <3>1. CASE pub[p].pc = "append"
      BY <1>1, <2>1, <3>1 DEF Untargeted, Publications
    <3>2. CASE pub[p].pc # "append"
      BY <2>1, <3>2 DEF Untargeted, Idle
    <3> QED
      BY <3>1, <3>2
  <2>3. Appending' = Appending
    BY <2>2 DEF Appending
  <2> QED
    BY <1>6, <2>3 DEF LogBound
<1>7. ASSUME NEW p \in Publishers, Enqueue(p) \/ EnqueueControl(p) PROVE LogBound'
  <2>1. UNCHANGED log /\ pub[p].pc # "append"
    BY <1>7 DEF Enqueue, EnqueueControl, server
  <2>2. pub' = [pub EXCEPT ![p] = Idle] \/ pub' = [pub EXCEPT ![p] = [Idle EXCEPT !.pc = "control"]]
    BY <1>7 DEF Enqueue, EnqueueControl, OweControl
  <2>3. pub'[p].pc # "append" /\ \A q \in Publishers : q # p => pub'[q] = pub[q]
    BY <1>1, <2>2 DEF Idle
  <2>4. Appending' = Appending
    BY <2>1, <2>3 DEF Appending
  <2> QED
    BY <2>1, <2>4 DEF LogBound
<1>8. CASE UNCHANGED <<log, pub>>
  <2>1. Appending' = Appending
    BY <1>8 DEF Appending
  <2> QED
    BY <1>2, <1>8, <2>1
<1>9. \/ UNCHANGED <<log, pub>>
      \/ \E p \in Publishers : \E kind \in Kinds : PublishBegin(p, kind)
      \/ \E p \in Publishers : PublishAppend(p)
      \/ \E p \in Publishers : Enqueue(p) \/ EnqueueControl(p)
      \/ Crash
      \/ UNCHANGED log /\ HangUp
  <2>1. SendReplayed \/ SendLive => UNCHANGED <<log, pub>> \/ (UNCHANGED log /\ HangUp)
    BY DEF SendReplayed, SendLive, ReceiveImmediate, ReceiveBatched, server
  <2>2. FlushTimer \/ SendReplayCompleted \/ SendDropped \/ Disconnect
        => UNCHANGED <<log, pub>> \/ (UNCHANGED log /\ HangUp)
    BY DEF FlushTimer, SendReplayCompleted, SendDropped, Disconnect, server, feed
  <2>3. Pump \/ Dial \/ Subscribe \/ ReadHeadSeq \/ ReadOldestSeq \/ Replay \/ FlushStore \/ UNCHANGED vars
        => UNCHANGED <<log, pub>>
    BY DEF Pump, Dial, Subscribe, ReadHeadSeq, ReadOldestSeq, Replay, FlushStore, vars, server, feed
  <2> QED
    BY <2>1, <2>2, <2>3 DEF Next, PublishStep, HandlerStep
<1> QED
  BY <1>3, <1>4, <1>5, <1>6, <1>7, <1>8, <1>9

(* What the tab counts is a number of the log.                             *)
LEMMA FlushKeepsBounds ==
    ASSUME LogOK, BatchOK, TabOK, LogBound, Bounded(Now)
    PROVE  Bounded(Flushed)
<1>1. last \in Nat /\ 1 <= last /\ last <= MaxSeq /\ \A s \in seen : 1 <= s[1]
  BY DEF TabOK, GoodTab, Now, Tabs, Bounded
<1>2. /\ Flushed.last \in Nat /\ last <= Flushed.last
      /\ Flushed.last = last \/ \E j \in Accepted : Flushed.last = batch[j].to
  BY <1>1, FlushedLastIsLargest
<1>3. Len(log) \in Nat /\ Len(log) <= MaxSeq /\ MaxSeq \in Nat
  BY LogIsBounded, StreamAssumption
<1>4. \A j \in Accepted : j \in 1 .. Len(batch)
  BY DEF Accepted
<1>5. 1 <= Flushed.last /\ Flushed.last <= MaxSeq
  BY <1>1, <1>2, <1>3, <1>4, BatchEvents
<1>6. Flushed.seen = seen \cup UNION {Contents(batch[i]) : i \in Applied}
  BY DEF Flushed
<1>7. ASSUME NEW i \in Applied, NEW s \in Contents(batch[i]) PROVE 1 <= s[1]
  <2>1. i \in 1 .. Len(batch)
    BY <1>4 DEF Applied
  <2>2. /\ batch[i].from \in Nat /\ batch[i].to \in Nat
        /\ 1 <= batch[i].from /\ batch[i].to <= Len(log)
    BY <2>1, BatchEvents
  <2>3. s[1] \in batch[i].from .. batch[i].to
    BY <2>2, ContentsAreOfTheLog
  <2> QED
    BY <2>2, <2>3
<1>8. ASSUME NEW s \in Flushed.seen PROVE 1 <= s[1]
  <2>1. CASE s \in seen
    BY <1>1, <2>1
  <2>2. CASE s \notin seen
    BY <1>6, <1>7, <2>2
  <2> QED
    BY <2>1, <2>2
<1> QED
  BY <1>5, <1>8 DEF Bounded

LEMMA IngestKeepsBounds ==
    ASSUME LogOK, LogBound, NEW t, GoodTab(t), Bounded(t), NEW e \in Received, Sound(log, e)
    PROVE  Bounded(Ingest(t, e))
<1>1. CASE Known(e, t.last) \/ Gap(e, t.last)
  BY <1>1 DEF Ingest
<1>2. CASE ~(Known(e, t.last) \/ Gap(e, t.last))
  <2>1. /\ e.from \in Nat /\ e.to \in Nat
        /\ 1 <= e.from /\ e.from <= e.to /\ e.to <= Len(log)
    BY DEF Received, Sound, Kinds
  <2>2. Ingest(t, e).last = e.to /\ Ingest(t, e).seen = t.seen \cup Contents(e)
    BY <1>2 DEF Ingest, GoodTab, Tabs
  <2>3. Len(log) \in Nat /\ Len(log) <= MaxSeq /\ MaxSeq \in Nat
    BY LogIsBounded, StreamAssumption
  <2>4. \A s \in Contents(e) : s[1] \in e.from .. e.to
    BY <2>1, ContentsAreOfTheLog
  <2> QED
    BY <2>1, <2>2, <2>3, <2>4 DEF Bounded
<1> QED
  BY <1>1, <1>2

LEMMA TabBoundStep ==
    ASSUME StreamOK, LogBound, Bounded(Now), [Next]_vars
    PROVE  Bounded(Now)'
<1> USE DEF StreamOK
<1>1. CASE UNCHANGED <<last, seen>>
  BY <1>1 DEF Bounded, Now
<1>2. CASE Become(Flushed)
  BY <1>2, FlushKeepsBounds DEF Become, Bounded, Now
<1>3. ASSUME NEW e \in Received, Sound(log, e), Become(Ingest(Flushed, e))
      PROVE  Bounded(Now)'
  <2>1. Bounded(Ingest(Flushed, e))
    BY <1>3, FlushKeepsBounds, FlushKeepsTab, IngestKeepsBounds
  <2> QED
    BY <1>3, <2>1 DEF Become, Bounded, Now
<1>4. ASSUME SendReplayed
      PROVE  \/ UNCHANGED <<last, seen>>
             \/ Become(Flushed)
             \/ \E e \in Received : Sound(log, e) /\ Become(Ingest(Flushed, e))
  <2> DEFINE e == Head(handler.replay)
  <2>1. e \in Received /\ Sound(log, e)
    BY <1>4, TailSound DEF SendReplayed, HandlerOK, Handlers
  <2> QED
    BY <1>4, <2>1 DEF SendReplayed, ReceiveImmediate, ReceiveBatched
<1>5. ASSUME SendLive
      PROVE  \/ UNCHANGED <<last, seen>>
             \/ Become(Flushed)
             \/ \E e \in Received : Sound(log, e) /\ Become(Ingest(Flushed, e))
  <2> DEFINE e == Message(Head(out), FALSE)
  <2>1. Head(out) \in Sent /\ Sound(log, Head(out))
    BY <1>5, TailSound DEF SendLive, FeedOK
  <2>2. ReceiveImmediate(e) \/ ReceiveBatched(e)
    BY <1>5 DEF SendLive
  <2>3. Head(out).kind \in Kinds
    <3>1. e.kind \in Kinds
      BY <2>2 DEF ReceiveImmediate, ReceiveBatched, Kinds
    <3> QED
      BY <3>1 DEF Message
  <2>4. e \in Received /\ Sound(log, e)
    BY <2>1, <2>3, MessageIsSound
  <2> HIDE DEF e
  <2> QED
    BY <2>2, <2>4 DEF ReceiveImmediate, ReceiveBatched
<1>6. \/ UNCHANGED <<last, seen>>
      \/ Become(Flushed)
      \/ SendReplayed
      \/ SendLive
  BY DEF Next, PublishStep, HandlerStep, PublishBegin, PublishAppend, Enqueue, EnqueueControl,
         Pump, Dial, Subscribe, ReadHeadSeq, ReadOldestSeq, Replay, SendReplayCompleted,
         SendDropped, FlushTimer, Disconnect, FlushStore, Crash, vars, tab
<1> QED
  BY <1>1, <1>2, <1>3, <1>4, <1>5, <1>6

LEMMA CountBoundStep ==
    ASSUME StreamOK, LogBound, CountBound, [Next]_vars
    PROVE  CountBound'
<1> USE DEF StreamOK
<1>1. /\ boot \in Nat /\ durable \in 1 .. Len(log)
      /\ Len(log) \in Nat /\ Len(log) <= MaxSeq
      /\ MaxSeq \in Nat /\ MaxBreaks \in Nat /\ MaxCrashes \in Nat
  BY LogIsBounded, StreamAssumption DEF LogOK
<1>2. CASE UNCHANGED <<boot, breaks, covered>>
  BY <1>2 DEF CountBound
<1>3. CASE SendReplayCompleted
  <2>1. UNCHANGED <<boot, breaks>> /\ (covered' = Len(log) \/ covered' = covered)
    BY <1>3 DEF SendReplayCompleted, server
  <2> QED
    BY <1>1, <2>1 DEF CountBound
<1>4. CASE Disconnect
  BY <1>1, <1>4 DEF Disconnect, CountBound, server
<1>5. CASE Crash
  <2>1. boot < MaxCrashes /\ boot' = boot + 1 /\ UNCHANGED breaks
        /\ covered' = Min({covered, durable})
    BY <1>5 DEF Crash
  <2>2. covered \in Nat /\ durable \in Nat /\ covered <= MaxSeq /\ durable <= MaxSeq
    BY <1>1 DEF CountBound
  <2>3. \E m \in {covered, durable} : \A x \in {covered, durable} : m <= x
    BY <2>2
  <2>4. Min({covered, durable}) \in {covered, durable}
    BY <2>3 DEF Min
  <2> QED
    BY <1>1, <2>1, <2>2, <2>4 DEF CountBound
<1>6. \/ UNCHANGED <<boot, breaks, covered>>
      \/ SendReplayCompleted
      \/ Disconnect
      \/ Crash
  BY DEF Next, PublishStep, HandlerStep, PublishBegin, PublishAppend, Enqueue, EnqueueControl,
         Pump, Dial, Subscribe, ReadHeadSeq, ReadOldestSeq, Replay, SendReplayed, SendLive,
         SendDropped, FlushTimer, FlushStore, vars, server, tab
<1> QED
  BY <1>2, <1>3, <1>4, <1>5, <1>6

LEMMA FeedBoundStep ==
    ASSUME StreamOK, FeedBound, [Next]_vars
    PROVE  FeedBound'
<1> USE DEF StreamOK
<1>1. /\ queue \in Seq(Sent) /\ out \in Seq(Sent) /\ Len(queue) \in Nat /\ Len(out) \in Nat
      /\ HardLimit \in Nat /\ OutLimit \in Nat
  BY LimitsAssumption, StreamAssumption DEF FeedOK
<1>2. CASE UNCHANGED <<queue, out>>
  BY <1>2 DEF FeedBound
<1>3. CASE queue' = <<>> /\ out' = <<>>
  BY <1>1, <1>3 DEF FeedBound
<1>4. CASE Pump
  <2>1. queue # <<>> /\ Len(out) < OutLimit /\ out' = Append(out, Head(queue)) /\ queue' = Tail(queue)
    BY <1>4 DEF Pump
  <2>2. Len(queue') = Len(queue) - 1 /\ Len(out') = Len(out) + 1
    BY <1>1, <2>1
  <2> QED
    BY <1>1, <2>1, <2>2 DEF FeedBound
<1>5. ASSUME NEW p \in Publishers, Enqueue(p) \/ EnqueueControl(p) PROVE FeedBound'
  <2>1. UNCHANGED out
    BY <1>5 DEF Enqueue, EnqueueControl
  <2>2. \/ UNCHANGED queue
        \/ \E e, i : i \in 1 .. Len(queue) /\ queue' = Merged(queue, e, i)
        \/ \E e, i : i \in 1 .. Len(queue) /\ queue' = Append(Without(queue, i), e)
        \/ \E e : Len(queue) < HardLimit /\ queue' = Append(queue, e)
    BY <1>5 DEF Enqueue, EnqueueControl, Appends
  <2>3. CASE \E e, i : i \in 1 .. Len(queue) /\ queue' = Merged(queue, e, i)
    <3>1. Len(queue') = Len(queue)
      BY <1>1, <2>3 DEF Merged
    <3> QED
      BY <2>1, <3>1 DEF FeedBound
  <2>4. CASE \E e, i : i \in 1 .. Len(queue) /\ queue' = Append(Without(queue, i), e)
    <3>1. PICK e, i : i \in 1 .. Len(queue) /\ queue' = Append(Without(queue, i), e)
      BY <2>4
    <3> DEFINE q == Without(queue, i)
    <3>2. Len(queue) - 1 \in Nat
      BY <1>1, <3>1
    <3>3. q = [j \in 1 .. Len(queue) - 1 |-> q[j]] /\ DOMAIN q = 1 .. Len(queue) - 1
      BY DEF Without
    <3> HIDE DEF q
    <3>4. Len(q) = Len(queue) - 1 /\ q \in Seq({q[j] : j \in 1 .. Len(queue) - 1})
      BY <3>2, <3>3
    <3>5. Len(Append(q, e)) = Len(queue)
      BY <1>1, <3>4
    <3> QED
      BY <2>1, <3>1, <3>5 DEF FeedBound, q
  <2>5. CASE \E e : Len(queue) < HardLimit /\ queue' = Append(queue, e)
    <3>1. Len(queue') = Len(queue) + 1 /\ Len(queue) < HardLimit
      BY <1>1, <2>5
    <3> QED
      BY <1>1, <2>1, <3>1 DEF FeedBound
  <2> QED
    BY <2>1, <2>2, <2>3, <2>4, <2>5 DEF FeedBound
<1>6. CASE SendLive
  <2>1. out # <<>> /\ (UNCHANGED queue \/ queue' = <<>>) /\ (out' = Tail(out) \/ out' = <<>>)
    BY <1>6 DEF SendLive, ReceiveImmediate, ReceiveBatched, HangUp
  <2>2. Len(queue') <= Len(queue) /\ Len(out') <= Len(out)
    BY <1>1, <2>1
  <2> QED
    BY <1>1, <2>1, <2>2 DEF FeedBound
<1>7. CASE SendReplayed
  <2>1. (UNCHANGED queue \/ queue' = <<>>) /\ (out' = out \/ out' = <<>>)
    BY <1>7 DEF SendReplayed, ReceiveImmediate, ReceiveBatched, HangUp
  <2> QED
    BY <1>1, <2>1 DEF FeedBound
<1>8. \/ UNCHANGED <<queue, out>>
      \/ queue' = <<>> /\ out' = <<>>
      \/ Pump
      \/ \E p \in Publishers : Enqueue(p) \/ EnqueueControl(p)
      \/ SendLive
      \/ SendReplayed
  BY DEF Next, PublishStep, HandlerStep, PublishBegin, PublishAppend, Dial, Subscribe,
         ReadHeadSeq, ReadOldestSeq, Replay, SendReplayCompleted, SendDropped, FlushTimer,
         Disconnect, FlushStore, Crash, HangUp, vars, feed
<1> QED
  BY <1>2, <1>3, <1>4, <1>5, <1>6, <1>7, <1>8

LEMMA HandlerBoundStep ==
    ASSUME StreamOK, LogBound, Bounded(Now), HandlerBound, [Next]_vars
    PROVE  HandlerBound'
<1> USE DEF StreamOK
<1>1. /\ Len(log) \in Nat /\ 1 <= Len(log) /\ Len(log) <= MaxSeq /\ MaxSeq \in Nat
      /\ handler \in Handlers /\ last \in Nat /\ last <= MaxSeq
  BY LogIsBounded, StreamAssumption DEF HandlerOK, TabOK, GoodTab, Now, Tabs, Bounded
<1>2. CASE UNCHANGED handler
  BY <1>2 DEF HandlerBound
<1>3. CASE handler' = NoHandler
  BY <1>1, <1>3 DEF HandlerBound, NoHandler
<1>4. CASE Dial
  BY <1>1, <1>4 DEF Dial, HandlerBound, NoHandler
<1>5. CASE ReadHeadSeq
  BY <1>1, <1>5 DEF ReadHeadSeq, HandlerBound, Handlers
<1>6. CASE ReadOldestSeq
  <2>1. OldestSeq \in Nat /\ OldestSeq <= Len(log)
    BY <1>1, StreamAssumption DEF OldestSeq
  <2> QED
    BY <1>1, <1>6, <2>1 DEF ReadOldestSeq, HandlerBound, Handlers
<1>7. CASE Replay
  <2> DEFINE to == IF Replayed = <<>> THEN 0 ELSE Replayed[Len(Replayed)].to
  <2>1. handler' = [handler EXCEPT !.replay = Replayed, !.to = to]
    BY <1>7 DEF Replay
  <2>2. to <= MaxSeq
    <3>1. CASE Replayed = <<>>
      BY <1>1, <3>1
    <3>2. CASE Replayed # <<>>
      <4>1. Replayed \in Seq(Received) /\ AllSound(log, Replayed)
        BY ReplayIsSound
      <4>2. Len(Replayed) \in 1 .. Len(Replayed) /\ Replayed[Len(Replayed)] \in Received
        BY <3>2, <4>1
      <4>3. /\ Sound(log, Replayed[Len(Replayed)])
            /\ Replayed[Len(Replayed)].kind \in Kinds
            /\ Replayed[Len(Replayed)].to \in Nat
        BY <4>1, <4>2 DEF AllSound, Received
      <4> QED
        BY <1>1, <3>2, <4>3 DEF Sound
    <3> QED
      BY <3>1, <3>2
  <2> HIDE DEF to
  <2> QED
    BY <1>1, <2>1, <2>2 DEF HandlerBound, Handlers
<1>8. CASE SendReplayed
  <2>1. handler' = NoHandler \/ handler' = [handler EXCEPT !.replay = Tail(@)]
    BY <1>8 DEF SendReplayed, ReceiveImmediate, ReceiveBatched, HangUp
  <2>2. CASE handler' = NoHandler
    BY <1>3, <2>2
  <2>3. CASE handler' = [handler EXCEPT !.replay = Tail(@)]
    BY <1>1, <2>3 DEF HandlerBound, Handlers
  <2> QED
    BY <2>1, <2>2, <2>3
<1>9. \/ UNCHANGED handler
      \/ handler' = NoHandler
      \/ Dial \/ ReadHeadSeq \/ ReadOldestSeq \/ Replay \/ SendReplayed
  BY DEF Next, PublishStep, HandlerStep, PublishBegin, PublishAppend, Enqueue, EnqueueControl,
         Pump, Subscribe, SendReplayCompleted, SendLive, SendDropped, FlushTimer, Disconnect,
         FlushStore, Crash, ReceiveImmediate, ReceiveBatched, HangUp, vars
<1> QED
  BY <1>2, <1>3, <1>4, <1>5, <1>6, <1>7, <1>8, <1>9

LEMMA BoundsInit == Init => InBounds
<1> SUFFICES ASSUME Init PROVE InBounds
  OBVIOUS
<1>1. MaxSeq \in Nat \ {0} /\ MaxBreaks \in Nat /\ MaxCrashes \in Nat /\ HardLimit \in Nat
      /\ OutLimit \in Nat
  BY LimitsAssumption, StreamAssumption
<1>2. LogBound
  <2>1. Appending = {} /\ Len(log) = 1
    BY DEF Init, Appending, Idle
  <2> QED
    BY <1>1, <2>1, FS_EmptySet DEF LogBound
<1>3. CountBound /\ FeedBound /\ HandlerBound /\ Bounded(Now)
  BY <1>1 DEF Init, CountBound, FeedBound, HandlerBound, Bounded, Now, NoHandler
<1> QED
  BY <1>2, <1>3 DEF InBounds

LEMMA StreamIsBounded == Spec => []InBounds
<1>1. StreamOK /\ InBounds /\ [Next]_vars => InBounds'
  BY LogBoundStep, CountBoundStep, FeedBoundStep, HandlerBoundStep, TabBoundStep DEF InBounds
<1> QED
  BY <1>1, BoundsInit, StreamIsSound, PTL DEF Spec

LEMMA SoundAndBoundedIsTyped ==
    ASSUME StreamOK, InBounds
    PROVE  TypeOK
<1> USE DEF StreamOK, InBounds
<1>1. /\ Len(log) \in Nat /\ 1 <= Len(log) /\ Len(log) <= MaxSeq /\ MaxSeq \in Nat
      /\ MaxBreaks \in Nat /\ MaxCrashes \in Nat /\ boot \in Nat /\ boot <= MaxCrashes
      /\ durable \in 1 .. Len(log)
  BY LogIsBounded, StreamAssumption DEF LogOK, CountBound
<1>2. log \in Seq([kind : Kinds, stream : Publishers \cup {None}, boot : 0 .. MaxCrashes])
  <2> DEFINE S == [kind : Kinds, stream : Publishers \cup {None}, boot : 0 .. MaxCrashes]
  <2>1. ASSUME NEW n \in 1 .. Len(log) PROVE log[n] \in S
    <3>1. log[n] \in Entries /\ log[n].boot <= boot
      BY DEF LogOK
    <3>2. log[n].boot \in 0 .. MaxCrashes
      BY <1>1, <3>1 DEF Entries
    <3> QED
      BY <3>1, <3>2 DEF Entries
  <2>2. log \in Seq(Entries)
    BY DEF LogOK
  <2> HIDE DEF S
  <2>3. log \in Seq(S)
    BY <2>1, <2>2
  <2> QED
    BY <2>3 DEF S
<1>3. pub \in [Publishers -> [pc : {"idle", "append", "enqueue", "control"},
                              kind : Kinds \cup {None}, targeted : BOOLEAN, n : 0 .. MaxSeq]]
  <2>1. ASSUME NEW p \in Publishers
        PROVE  pub[p] \in [pc : {"idle", "append", "enqueue", "control"},
                           kind : Kinds \cup {None}, targeted : BOOLEAN, n : 0 .. MaxSeq]
    <3>1. pub[p] \in Publications /\ PublicationOK(log, pub[p])
      BY DEF PubsOK
    <3>2. pub[p].n \in 0 .. MaxSeq
      BY <1>1, <3>1 DEF PublicationOK, Publications
    <3> QED
      BY <3>1, <3>2 DEF Publications
  <2>2. pub \in [Publishers -> Publications]
    BY DEF PubsOK
  <2> QED
    BY <2>1, <2>2
<1>4. ASSUME NEW q \in Seq(Sent), AllSound(log, q)
      PROVE  q \in Seq(FeedEvents)
  <2>1. ASSUME NEW i \in 1 .. Len(q) PROVE q[i] \in FeedEvents
    <3>1. q[i] \in Sent /\ Sound(log, q[i])
      BY <1>4 DEF AllSound
    <3>2. q[i].from \in 0 .. MaxSeq /\ q[i].to \in 0 .. MaxSeq
      BY <1>1, <3>1 DEF Sent, Sound
    <3> QED
      BY <3>1, <3>2 DEF Sent, FeedEvents
  <2> QED
    BY <2>1
<1>5. ASSUME NEW q \in Seq(Received), AllSound(log, q)
      PROVE  q \in Seq(TabEvents)
  <2>1. ASSUME NEW i \in 1 .. Len(q) PROVE q[i] \in TabEvents
    <3>1. q[i] \in Received /\ Sound(log, q[i])
      BY <1>5 DEF AllSound
    <3>2. q[i].from \in 1 .. MaxSeq /\ q[i].to \in 1 .. MaxSeq
      BY <1>1, <3>1 DEF Received, Sound
    <3> QED
      BY <3>1, <3>2 DEF Received, TabEvents
  <2> QED
    BY <2>1
<1>6. /\ queue \in Seq(FeedEvents) /\ Len(queue) <= HardLimit
      /\ out \in Seq(FeedEvents) /\ Len(out) <= OutLimit
      /\ batch \in Seq(TabEvents)
  BY <1>4, <1>5 DEF FeedOK, BatchOK, FeedBound
<1>7. /\ conn \in {"down", "dialing", "head", "oldest", "replay", "replaying", "live"}
      /\ handler \in [after : 0 .. MaxSeq, head : 0 .. MaxSeq, oldest : 0 .. MaxSeq,
                      to : 0 .. MaxSeq, replay : Seq(TabEvents)]
  <2>1. handler \in Handlers /\ handler.replay \in Seq(Received) /\ AllSound(log, handler.replay)
    BY DEF HandlerOK, Handlers
  <2>2. handler.replay \in Seq(TabEvents)
    BY <1>5, <2>1
  <2>3. /\ handler.after \in 0 .. MaxSeq /\ handler.head \in 0 .. MaxSeq
        /\ handler.oldest \in 0 .. MaxSeq /\ handler.to \in 0 .. MaxSeq
    BY <1>1, <2>1 DEF HandlerBound, Handlers
  <2> QED
    BY <2>1, <2>2, <2>3 DEF HandlerOK, Phases, Handlers
<1>8. /\ last \in 1 .. MaxSeq
      /\ seen \subseteq (1 .. MaxSeq) \X (0 .. MaxCrashes)
      /\ again \subseteq seen
  <2>1. /\ last \in Nat /\ 1 <= last /\ last <= MaxSeq
        /\ seen \subseteq Nat \X Nat /\ again \subseteq seen
        /\ \A s \in seen : 1 <= s[1] /\ s[1] <= last /\ s[2] <= boot
    BY DEF TabOK, GoodTab, Now, Tabs, Bounded
  <2>2. ASSUME NEW s \in seen PROVE s \in (1 .. MaxSeq) \X (0 .. MaxCrashes)
    <3>1. s = <<s[1], s[2]>> /\ s[1] \in Nat /\ s[2] \in Nat
      BY <2>1
    <3>2. s[1] \in 1 .. MaxSeq /\ s[2] \in 0 .. MaxCrashes
      BY <1>1, <2>1, <3>1
    <3> QED
      BY <3>1, <3>2
  <2> QED
    BY <1>1, <2>1, <2>2
<1>9. covered \in 0 .. MaxSeq /\ breaks \in 0 .. MaxBreaks
  BY DEF CountBound
<1> QED
  BY <1>1, <1>2, <1>3, <1>6, <1>7, <1>8, <1>9 DEF TypeOK

(* The types: the queue stays within its hard limit, the output channel    *)
(* within its size, and every number on its way is one the log has given   *)
(* out.                                                                    *)
THEOREM StreamTyped == Spec => []TypeOK
<1>1. StreamOK /\ InBounds => TypeOK
  BY SoundAndBoundedIsTyped
<1> QED
  BY <1>1, StreamIsSound, StreamIsBounded, PTL

(* With a retention that is never reached nothing is passed over at all.   *)
THEOREM NoEventIsPassedOver ==
    ASSUME Retention >= MaxSeq
    PROVE  Spec => []NoSilentHole
<1>1. StreamOK /\ InBounds => Len(log) <= Retention
  BY LogIsBounded, StreamAssumption DEF StreamOK, InBounds
<1>2. (Len(log) <= Retention => NoSilentHole) /\ Len(log) <= Retention => NoSilentHole
  OBVIOUS
<1> QED
  BY <1>1, <1>2, NothingIsPassedOver, StreamIsSound, StreamIsBounded, PTL
=============================================================================
