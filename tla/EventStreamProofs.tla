-------------------------- MODULE EventStreamProofs --------------------------
(***************************************************************************)
(* Proofs about EventStream, for every set of pages and every bound on     *)
(* events and breaks.                                                      *)
(***************************************************************************)
EXTENDS EventStream, Integers, TLAPS

\* b is the first event after a in W.
Follows(W, a, b) == b \in W /\ a < b /\ \A n \in W : ~(a < n /\ n < b)

\* The event rows among "rows" are the events of W after a, none left out.
Chain(W, a, rows) ==
  \A i \in 1..Len(rows) :
    rows[i].kind # "end" => Follows(W, IF i = 1 THEN a ELSE rows[i - 1].seq, rows[i].seq)

LastOf(rows, a) == IF rows = <<>> THEN a ELSE rows[Len(rows)].seq

\* The log holds every event there has been, in the order of seq, while there is a job.
LogInv ==
  /\ \A i, j \in 1..Len(log) : i < j => log[i].seq < log[j].seq
  /\ IF job = "gone" THEN log = <<>>
     ELSE \A n \in written : \E i \in 1..Len(log) : log[i].seq = n
  /\ \A i \in 1..Len(log) : log[i].seq \in written
  /\ \A n \in written : n <= worker.seq

Told(s, w, g) ==
  \/ g.at = "completed"
  \/ \E i \in 1..Len(w) : w[i].kind = "completed"
  \/ \E i \in 1..Len(s.batch) : s.batch[i].kind = "completed"

\* What is on its way to a page continues what the page has, and what the stream is
\* about to send continues what is on its way.
PageInv(W, over, s, w, g) ==
  /\ Chain(W, s.last, s.batch)
  /\ s.at = "send" => s.batch # <<>>
  /\ Chain(W, g.last, w)
  /\ \A i \in 1..Len(w) : w[i].kind = "step" \/ (i = Len(w) /\ s.at = "off")
  /\ s.at # "off" => g.at = "open" /\ s.last = LastOf(w, g.last)
  /\ g.at # "open" => w = <<>>
  /\ g.last = 0 \/ g.last \in W
  /\ \A i, j \in 1..Len(g.seen) : i < j => g.seen[i] < g.seen[j]
  /\ {g.seen[i] : i \in 1..Len(g.seen)} = {n \in W : n <= g.last}
  /\ Told(s, w, g) => over

Over == job \notin {"queued", "running"}

PagesInv == \A p \in Pages : PageInv(written, Over, stream[p], wire[p], page[p])

\* Completed is announced when the job is stored as over.
WorkerInv ==
  worker.at \in {"finalizing", "completed"} \/ (\E i \in 1..Len(log) : log[i].kind = "completed") =>
    Over

IInv == EventStreamTypeOK /\ LogInv /\ WorkerInv /\ PagesInv

-----------------------------------------------------------------------------
Worker == [at : {"idle", "work", "settle", "finalizing", "completed", "over"},
           seq : 0..MaxSeq, outcome : {"failed", "cancelled"}]
Stream == [at : {"off", "fetch", "send", "check"}, last : 0..MaxSeq, batch : Seq(Rows)]
Page == [at : {"away", "open", "closed"} \cup Final, last : 0..MaxSeq, seen : Seq(1..MaxSeq)]

LEMMA RowIsFrame == Seq(Rows) \subseteq Seq(Frames) /\ Rows \subseteq Frames
BY DEF Frames

LEMMA FrameFields ==
  ASSUME NEW f \in Frames
  PROVE  /\ f.seq \in 0..MaxSeq /\ f.kind \in Kinds \cup {"end"}
         /\ f.kind # "end" => f \in Rows /\ f.seq \in 1..MaxSeq
BY EventStreamConstants DEF Frames, Rows, Kinds, Final

LEMMA RowFields ==
  ASSUME NEW r \in Rows
  PROVE  r.seq \in 1..MaxSeq /\ r.kind \in Kinds /\ r.kind # "end"
BY DEF Rows, Kinds, Final

\* An event that comes after all the others continues what continued before.
LEMMA ChainGrows ==
  ASSUME NEW W \in SUBSET (1..MaxSeq), NEW m \in 1..MaxSeq, \A n \in W : n < m,
         NEW a \in 0..MaxSeq, NEW rows \in Seq(Frames), Chain(W, a, rows)
  PROVE  Chain(W \cup {m}, a, rows)
<1> SUFFICES ASSUME NEW i \in 1..Len(rows), rows[i].kind # "end"
             PROVE  Follows(W \cup {m}, IF i = 1 THEN a ELSE rows[i - 1].seq, rows[i].seq)
  BY DEF Chain
<1> DEFINE b == IF i = 1 THEN a ELSE rows[i - 1].seq
<1>1. b \in Int /\ rows[i].seq \in Int
  BY FrameFields
<1>2. Follows(W, b, rows[i].seq)
  BY DEF Chain
<1> HIDE DEF b
<1>3. Follows(W \cup {m}, b, rows[i].seq)
  BY <1>1, <1>2 DEF Follows
<1> QED BY <1>3 DEF b

\* Without its first row a chain continues that row.
LEMMA ChainTail ==
  ASSUME NEW W, NEW a, NEW rows \in Seq(Frames), rows # <<>>, Chain(W, a, rows)
  PROVE  Chain(W, rows[1].seq, Tail(rows))
<1>1. /\ Tail(rows) \in Seq(Frames) /\ Len(rows) \in Nat \ {0} /\ Len(Tail(rows)) = Len(rows) - 1
      /\ \A i \in 1..Len(Tail(rows)) : Tail(rows)[i] = rows[i + 1]
  OBVIOUS
<1> SUFFICES ASSUME NEW i \in 1..Len(Tail(rows)), Tail(rows)[i].kind # "end"
             PROVE  Follows(W, IF i = 1 THEN rows[1].seq ELSE Tail(rows)[i - 1].seq, Tail(rows)[i].seq)
  BY DEF Chain
<1>2. i + 1 \in 1..Len(rows) /\ Tail(rows)[i] = rows[i + 1]
  BY <1>1
<1>3. Follows(W, rows[i].seq, rows[i + 1].seq)
  BY <1>1, <1>2 DEF Chain
<1>4. i # 1 => Tail(rows)[i - 1] = rows[i]
  BY <1>1
<1> QED BY <1>2, <1>3, <1>4

\* A frame that continues the last one, or is no event, may be appended.
LEMMA ChainAppend ==
  ASSUME NEW W, NEW a, NEW rows \in Seq(Frames), Chain(W, a, rows), NEW f \in Frames,
         f.kind # "end" => Follows(W, LastOf(rows, a), f.seq)
  PROVE  Chain(W, a, Append(rows, f))
<1> DEFINE new == Append(rows, f)
<1>1. /\ new \in Seq(Frames) /\ Len(rows) \in Nat /\ Len(new) = Len(rows) + 1
      /\ new[Len(rows) + 1] = f /\ \A i \in 1..Len(rows) : new[i] = rows[i]
  OBVIOUS
<1> HIDE DEF new
<1> SUFFICES ASSUME NEW i \in 1..Len(new), new[i].kind # "end"
             PROVE  Follows(W, IF i = 1 THEN a ELSE new[i - 1].seq, new[i].seq)
  BY DEF Chain, new
<1>2. CASE i \in 1..Len(rows)
  <2>1. new[i] = rows[i] /\ (i # 1 => new[i - 1] = rows[i - 1])
    BY <1>1, <1>2
  <2> QED BY <1>2, <2>1 DEF Chain
<1>3. CASE i = Len(rows) + 1
  <2>1. new[i] = f
    BY <1>1, <1>3
  <2>2. CASE rows = <<>>
    BY <1>3, <2>1, <2>2 DEF LastOf
  <2>3. CASE rows # <<>>
    <3>1. i # 1 /\ new[i - 1] = rows[Len(rows)]
      BY <1>1, <1>3, <2>3
    <3> QED BY <2>1, <2>3, <3>1 DEF LastOf
  <2> QED BY <2>2, <2>3
<1> QED BY <1>1, <1>2, <1>3

\* The rows of the log after the last one sent are the next events.
LEMMA RowsFollow ==
  ASSUME EventStreamTypeOK, LogInv, NEW a \in 0..MaxSeq, NEW k \in 0..Len(log),
         \A i \in 1..Len(log) : i <= k <=> log[i].seq <= a
  PROVE  RowsAfter(k) \in Seq(Rows) /\ Chain(written, a, RowsAfter(k))
<1> DEFINE rows == RowsAfter(k)
<1>1. log \in Seq(Rows) /\ Len(log) \in Nat
  BY DEF EventStreamTypeOK
<1>2. /\ rows \in Seq(Rows) /\ Len(rows) = Len(log) - k
      /\ \A i \in 1..Len(rows) : rows[i] = log[k + i]
  <2>1. \A i \in (k + 1)..Len(log) : log[i] \in Rows
    BY <1>1
  <2>2. Len(rows) = Len(log) - k /\ \A i \in 1..Len(rows) : rows[i] = log[k + i]
    BY <1>1 DEF RowsAfter
  <2>3. rows \in Seq(Rows)
    BY <1>1, <2>1 DEF RowsAfter
  <2> QED BY <2>2, <2>3
<1> HIDE DEF rows
<1>3. ASSUME NEW i \in 1..Len(rows)
      PROVE  Follows(written, IF i = 1 THEN a ELSE rows[i - 1].seq, rows[i].seq)
  <2> DEFINE b == IF i = 1 THEN a ELSE rows[i - 1].seq
  <2>1. k + i \in 1..Len(log) /\ rows[i] = log[k + i] /\ log[k + i].seq > a /\ log[k + i].seq \in written
    <3>1. k + i \in 1..Len(log) /\ rows[i] = log[k + i]
      BY <1>1, <1>2, <1>3
    <3>2. log[k + i].seq \in 1..MaxSeq
      BY <1>1, <3>1, RowFields
    <3> QED BY <3>1, <3>2, EventStreamConstants DEF LogInv
  <2>2. i # 1 => k + i - 1 \in 1..Len(log) /\ rows[i - 1] = log[k + i - 1]
    BY <1>1, <1>2, <1>3
  <2>3. b < log[k + i].seq
    BY <1>1, <2>1, <2>2 DEF LogInv
  <2>4. ASSUME NEW n \in written, b < n, n < log[k + i].seq
        PROVE  FALSE
    <3>1. job # "gone"
      BY <1>1, <2>1 DEF LogInv
    <3>2. PICK j \in 1..Len(log) : log[j].seq = n
      BY <3>1 DEF LogInv
    <3>3. \A m \in 1..Len(log) : log[m].seq \in Int
      BY <1>1, RowFields
    <3>4. j < k + i
      BY <1>1, <2>1, <2>4, <3>2, <3>3 DEF LogInv
    <3>5. CASE i = 1
      <4>1. j <= k
        BY <1>1, <3>4, <3>5
      <4> QED BY <2>4, <3>2, <3>3, <3>5, <4>1
    <3>6. CASE i # 1
      <4>1. j = k + i - 1 \/ j < k + i - 1
        BY <1>1, <3>4, <3>6
      <4>2. log[j].seq <= log[k + i - 1].seq
        BY <2>2, <3>3, <3>6, <4>1 DEF LogInv
      <4> QED BY <2>2, <2>4, <3>2, <3>3, <3>6, <4>2
    <3> QED BY <3>5, <3>6
  <2> HIDE DEF b
  <2>5. Follows(written, b, rows[i].seq)
    BY <2>1, <2>3, <2>4 DEF Follows
  <2> QED BY <2>5 DEF b
<1> QED BY <1>2, <1>3 DEF Chain, rows

-----------------------------------------------------------------------------
(* What the steps of a stream and of its page make of them.                *)

LEMMA PageGrows ==
  ASSUME NEW W \in SUBSET (1..MaxSeq), NEW over \in BOOLEAN, NEW s \in Stream, NEW w \in Seq(Frames),
         NEW g \in Page, PageInv(W, over, s, w, g), NEW now \in BOOLEAN, over => now,
         NEW m \in 1..MaxSeq, \A n \in W : n < m
  PROVE  PageInv(W \cup {m}, now, s, w, g)
<1>1. s.batch \in Seq(Frames) /\ s.last \in 0..MaxSeq /\ g.last \in 0..MaxSeq
  BY RowIsFrame DEF Stream, Page
<1>2. Chain(W \cup {m}, s.last, s.batch) /\ Chain(W \cup {m}, g.last, w)
  BY <1>1, ChainGrows DEF PageInv
<1>3. g.last < m
  <2>1. g.last = 0 \/ g.last \in W
    BY DEF PageInv
  <2> QED BY <1>1, <2>1, EventStreamConstants
<1>4. {n \in W \cup {m} : n <= g.last} = {n \in W : n <= g.last}
  BY <1>1, <1>3
<1> QED BY <1>2, <1>4 DEF PageInv

LEMMA PageLater ==
  ASSUME NEW W, NEW over \in BOOLEAN, NEW s, NEW w, NEW g, PageInv(W, over, s, w, g),
         NEW now \in BOOLEAN, over => now
  PROVE  PageInv(W, now, s, w, g)
BY DEF PageInv

\* The stream looks: at the rows after its last one, at none, or again.
LEMMA PageLooks ==
  ASSUME NEW W, NEW over \in BOOLEAN, NEW s \in Stream, NEW w \in Seq(Frames), NEW g \in Page,
         PageInv(W, over, s, w, g), s.at # "off", NEW rows \in Seq(Rows), Chain(W, s.last, rows),
         (\E i \in 1..Len(rows) : rows[i].kind = "completed") => over,
         NEW t \in Stream, t.last = s.last, t.batch = rows, t.at # "off",
         t.at = "send" => rows # <<>>
  PROVE  PageInv(W, over, t, w, g)
BY DEF PageInv, Told

\* The stream ends, with or without a frame that says so.
LEMMA PageOff ==
  ASSUME NEW W, NEW over \in BOOLEAN, NEW s \in Stream, NEW w \in Seq(Frames), NEW g \in Page,
         PageInv(W, over, s, w, g)
  PROVE  PageInv(W, over, StreamOff, w, g)
<1>1. StreamOff.batch = <<>> /\ StreamOff.at = "off"
  BY DEF StreamOff
<1>2. Chain(W, StreamOff.last, StreamOff.batch)
  BY <1>1 DEF Chain
<1> QED BY <1>1, <1>2 DEF PageInv, Told

LEMMA PageEnd ==
  ASSUME NEW W, NEW over \in BOOLEAN, NEW s \in Stream, NEW w \in Seq(Frames), NEW g \in Page,
         PageInv(W, over, s, w, g), s.at # "off",
         NEW f \in Frames, f.kind = "end"
  PROVE  PageInv(W, over, StreamOff, Append(w, f), g)
<1> DEFINE v == Append(w, f)
<1>1. StreamOff.batch = <<>> /\ StreamOff.at = "off"
  BY DEF StreamOff
<1>2. Chain(W, StreamOff.last, StreamOff.batch)
  BY <1>1 DEF Chain
<1>3. /\ Len(w) \in Nat /\ Len(v) = Len(w) + 1 /\ v[Len(v)] = f /\ \A i \in 1..Len(w) : v[i] = w[i]
  OBVIOUS
<1>4. Chain(W, g.last, v)
  BY ChainAppend DEF PageInv
<1> HIDE DEF v
<1>5. \A i \in 1..Len(v) : v[i].kind = "step" \/ i = Len(v)
  BY <1>3 DEF PageInv
<1>6. Told(StreamOff, v, g) => Told(s, w, g)
  <2>1. ASSUME NEW i \in 1..Len(v), v[i].kind = "completed" PROVE \E j \in 1..Len(w) : w[j].kind = "completed"
    <3>1. i \in 1..Len(w)
      BY <1>3, <2>1
    <3> QED BY <1>3, <2>1, <3>1
  <2> QED BY <1>1, <2>1 DEF Told
<1>7. PageInv(W, over, StreamOff, v, g)
  BY <1>1, <1>2, <1>4, <1>5, <1>6 DEF PageInv
<1> QED BY <1>7 DEF v

\* The stream sends the next row.
LEMMA PageSent ==
  ASSUME NEW W, NEW over \in BOOLEAN, NEW s \in Stream, NEW w \in Seq(Frames), NEW g \in Page,
         PageInv(W, over, s, w, g), s.at = "send",
         NEW t \in Stream, t.at # "off", t.last = Head(s.batch).seq, t.batch = Tail(s.batch),
         t.at = "send" => Tail(s.batch) # <<>>
  PROVE  /\ PageInv(W, over, StreamOff, Append(w, Head(s.batch)), g)
         /\ Head(s.batch).kind \notin Final => PageInv(W, over, t, Append(w, Head(s.batch)), g)
<1> DEFINE f == Head(s.batch)
           v == Append(w, f)
<1>1. s.batch \in Seq(Rows) /\ s.batch \in Seq(Frames) /\ s.batch # <<>> /\ f = s.batch[1]
  BY RowIsFrame DEF Stream, PageInv
<1>2. f \in Rows /\ f \in Frames /\ f.kind \in Kinds /\ f.kind # "end" /\ Len(s.batch) \in Nat \ {0}
  BY <1>1, RowIsFrame, RowFields
<1>3. Follows(W, s.last, f.seq)
  <2>1. 1 \in 1..Len(s.batch) /\ s.batch[1].kind # "end" /\ f.seq = s.batch[1].seq
    BY <1>1, <1>2
  <2>2. Chain(W, s.last, s.batch)
    BY DEF PageInv
  <2> QED BY <2>1, <2>2 DEF Chain
<1>4. s.last = LastOf(w, g.last) /\ g.at = "open" /\ \A i \in 1..Len(w) : w[i].kind = "step"
  BY DEF PageInv
<1>5. Chain(W, g.last, v)
  BY <1>2, <1>3, <1>4, ChainAppend DEF PageInv
<1>6. /\ Len(w) \in Nat /\ Len(v) = Len(w) + 1 /\ v[Len(v)] = f /\ \A i \in 1..Len(w) : v[i] = w[i]
      /\ v # <<>> /\ v \in Seq(Frames)
  BY <1>2
<1>7. Chain(W, f.seq, Tail(s.batch))
  BY <1>1, <1>2, ChainTail DEF PageInv
<1>8. \A i \in 1..Len(Tail(s.batch)) : i + 1 \in 1..Len(s.batch) /\ Tail(s.batch)[i] = s.batch[i + 1]
  BY <1>1
<1> HIDE DEF v, f
<1>9. \A i \in 1..Len(v) : v[i].kind = "step" \/ i = Len(v)
  BY <1>4, <1>6
<1>10. ASSUME NEW r \in Stream, r = StreamOff \/ r = t, Told(r, v, g)
       PROVE  Told(s, w, g)
  <2>1. CASE g.at = "completed"
    BY <2>1 DEF Told
  <2>2. ASSUME NEW i \in 1..Len(v), v[i].kind = "completed" PROVE Told(s, w, g)
    <3>1. i = Len(v)
      BY <1>4, <1>6, <2>2
    <3>2. 1 \in 1..Len(s.batch) /\ s.batch[1].kind = "completed"
      BY <1>1, <1>2, <1>6, <2>2, <3>1
    <3> QED BY <3>2 DEF Told
  <2>3. ASSUME NEW i \in 1..Len(r.batch), r.batch[i].kind = "completed" PROVE Told(s, w, g)
    <3>1. r.batch = Tail(s.batch)
      BY <1>10, <2>3 DEF StreamOff
    <3>2. i + 1 \in 1..Len(s.batch) /\ s.batch[i + 1].kind = "completed"
      BY <1>8, <2>3, <3>1
    <3> QED BY <3>2 DEF Told
  <2> QED BY <1>10, <2>1, <2>2, <2>3 DEF Told
<1>11. StreamOff \in Stream /\ StreamOff.batch = <<>> /\ StreamOff.at = "off"
  BY EventStreamConstants DEF StreamOff, Stream
<1>12. PageInv(W, over, StreamOff, v, g)
  <2>1. Chain(W, StreamOff.last, StreamOff.batch)
    BY <1>11 DEF Chain
  <2>2. Told(StreamOff, v, g) => over
    BY <1>10, <1>11 DEF PageInv
  <2> QED BY <1>4, <1>5, <1>9, <1>11, <2>1, <2>2 DEF PageInv
<1>13. ASSUME f.kind \notin Final PROVE PageInv(W, over, t, v, g)
  <2>1. \A i \in 1..Len(v) : v[i].kind = "step"
    <3>1. f.kind = "step"
      BY <1>2, <1>13 DEF Kinds
    <3> QED BY <1>4, <1>6, <3>1
  <2>2. t.last = LastOf(v, g.last)
    BY <1>6 DEF LastOf, f
  <2>3. Chain(W, t.last, t.batch)
    BY <1>7 DEF f
  <2>4. Told(t, v, g) => over
    BY <1>10 DEF PageInv
  <2> QED BY <1>4, <1>5, <2>1, <2>2, <2>3, <2>4 DEF PageInv
<1> QED BY <1>12, <1>13 DEF v, f

\* The connection is lost; or it begins, after the last event the page has.
LEMMA PageBroken ==
  ASSUME NEW W, NEW over \in BOOLEAN, NEW s \in Stream, NEW w \in Seq(Frames), NEW g \in Page,
         PageInv(W, over, s, w, g)
  PROVE  PageInv(W, over, StreamOff, <<>>, g)
<1>1. /\ StreamOff.batch = <<>> /\ StreamOff.at = "off"
      /\ Chain(W, StreamOff.last, <<>>) /\ Chain(W, g.last, <<>>)
  BY DEF StreamOff, Chain
<1> QED BY <1>1 DEF PageInv, Told

LEMMA PageConnects ==
  ASSUME NEW W, NEW over \in BOOLEAN, NEW s \in Stream, NEW g \in Page,
         PageInv(W, over, s, <<>>, g), g.at = "open"
  PROVE  PageInv(W, over, [at |-> "fetch", last |-> g.last, batch |-> <<>>], <<>>, g)
<1>1. Chain(W, g.last, <<>>) /\ LastOf(<<>>, g.last) = g.last
  BY DEF Chain, LastOf
<1> QED BY <1>1 DEF PageInv, Told

\* The page is opened, closes, or is left.
LEMMA PageMoves ==
  ASSUME NEW W \in SUBSET (1..MaxSeq), NEW over \in BOOLEAN, NEW s \in Stream, NEW w \in Seq(Frames),
         NEW g \in Page, PageInv(W, over, s, w, g)
  PROVE  /\ s.at = "off" /\ w = <<>> =>
              PageInv(W, over, s, <<>>, [g EXCEPT !.at = "closed"])
         /\ g.at = "away" => PageInv(W, over, s, w, [g EXCEPT !.at = "open"])
         /\ PageInv(W, over, StreamOff, <<>>, PageAway)
<1>1. ASSUME NEW a \in {"open", "closed"}
      PROVE  /\ [g EXCEPT !.at = a].at = a /\ [g EXCEPT !.at = a].last = g.last
             /\ [g EXCEPT !.at = a].seen = g.seen
  BY DEF Page
<1>2. s.at = "off" /\ w = <<>> => PageInv(W, over, s, <<>>, [g EXCEPT !.at = "closed"])
  BY <1>1 DEF PageInv, Told
<1>3. g.at = "away" => PageInv(W, over, s, w, [g EXCEPT !.at = "open"])
  BY <1>1 DEF PageInv, Told
<1>4. PageInv(W, over, StreamOff, <<>>, PageAway)
  <2>1. /\ StreamOff.batch = <<>> /\ StreamOff.at = "off"
        /\ PageAway.last = 0 /\ PageAway.seen = <<>> /\ PageAway.at = "away"
        /\ Chain(W, StreamOff.last, <<>>) /\ Chain(W, 0, <<>>)
    BY DEF StreamOff, PageAway, Chain
  <2>2. {n \in W : n <= 0} = {}
    <3>1. \A n \in W : n \in 1..MaxSeq /\ ~(n <= 0)
      BY EventStreamConstants
    <3> QED BY <3>1
  <2>3. 1..Len(<<>>) = {} /\ {PageAway.seen[i] : i \in 1..Len(PageAway.seen)} = {}
    BY <2>1
  <2>4. ~Told(StreamOff, <<>>, PageAway)
    BY <2>1, <2>3 DEF Told
  <2> QED BY <2>1, <2>2, <2>3, <2>4 DEF PageInv
<1> QED BY <1>2, <1>3, <1>4

\* The page receives the next frame: an event, the final one, or the end.
LEMMA PageReceives ==
  ASSUME NEW W \in SUBSET (1..MaxSeq), NEW over \in BOOLEAN, NEW s \in Stream, NEW w \in Seq(Frames),
         NEW g \in Page, PageInv(W, over, s, w, g), g.at = "open", w # <<>>,
         NEW h \in Page, Head(w).kind # "end", h.last = Head(w).seq,
         h.seen = Append(g.seen, Head(w).seq),
         h.at = IF Head(w).kind \in Final THEN Head(w).kind ELSE "open"
  PROVE  /\ Head(w).kind = "step" => PageInv(W, over, s, Tail(w), h)
         /\ PageInv(W, over, StreamOff, <<>>, h)
<1> DEFINE f == Head(w)
           v == Tail(w)
<1>1. /\ f = w[1] /\ f \in Frames /\ f \in Rows /\ f.seq \in 1..MaxSeq /\ f.kind \in Kinds
      /\ Len(w) \in Nat \ {0} /\ v \in Seq(Frames) /\ Len(v) = Len(w) - 1
      /\ \A i \in 1..Len(v) : v[i] = w[i + 1] /\ i + 1 \in 1..Len(w)
  <2>1. f = w[1] /\ f \in Frames /\ Len(w) \in Nat \ {0} /\ v \in Seq(Frames) /\ Len(v) = Len(w) - 1
        /\ \A i \in 1..Len(v) : v[i] = w[i + 1] /\ i + 1 \in 1..Len(w)
    OBVIOUS
  <2> QED BY <2>1, FrameFields
<1>2. Follows(W, g.last, f.seq)
  <2>1. 1 \in 1..Len(w) /\ w[1].kind # "end" /\ f.seq = w[1].seq
    BY <1>1
  <2>2. Chain(W, g.last, w)
    BY DEF PageInv
  <2> QED BY <2>1, <2>2 DEF Chain
<1>3. Chain(W, h.last, v)
  BY <1>1, ChainTail DEF PageInv
<1>4. g.seen \in Seq(1..MaxSeq) /\ g.last \in 0..MaxSeq /\ Len(g.seen) \in Nat
  BY DEF Page
<1>5. /\ Len(h.seen) = Len(g.seen) + 1 /\ h.seen[Len(h.seen)] = f.seq
      /\ \A i \in 1..Len(g.seen) : h.seen[i] = g.seen[i]
  BY <1>1, <1>4
<1> HIDE DEF f, v
<1>6. \A i \in 1..Len(g.seen) : g.seen[i] \in W /\ g.seen[i] <= g.last
  <2>1. {g.seen[i] : i \in 1..Len(g.seen)} = {n \in W : n <= g.last}
    BY DEF PageInv
  <2> QED BY <2>1
<1>7. \A i, j \in 1..Len(h.seen) : i < j => h.seen[i] < h.seen[j]
  <2> SUFFICES ASSUME NEW i \in 1..Len(h.seen), NEW j \in 1..Len(h.seen), i < j
               PROVE  h.seen[i] < h.seen[j]
    OBVIOUS
  <2>1. i \in 1..Len(g.seen) /\ h.seen[i] = g.seen[i]
    BY <1>4, <1>5
  <2>2. CASE j \in 1..Len(g.seen)
    BY <1>5, <2>1, <2>2 DEF PageInv
  <2>3. CASE j = Len(h.seen)
    <3>1. g.seen[i] <= g.last /\ g.last < f.seq /\ g.seen[i] \in 1..MaxSeq
      BY <1>2, <1>4, <1>6, <2>1 DEF Follows
    <3> QED BY <1>1, <1>4, <1>5, <2>1, <2>3, <3>1, EventStreamConstants
  <2> QED BY <1>4, <1>5, <2>2, <2>3
<1>8. {h.seen[i] : i \in 1..Len(h.seen)} = {n \in W : n <= h.last}
  <2>1. \A n \in W : n <= h.last <=> n <= g.last \/ n = f.seq
    BY <1>1, <1>2, <1>4, EventStreamConstants DEF Follows, f
  <2>2. {h.seen[i] : i \in 1..Len(h.seen)} = {g.seen[i] : i \in 1..Len(g.seen)} \cup {f.seq}
    <3>1. \A x : (\E i \in 1..Len(h.seen) : h.seen[i] = x) <=>
                   (\E i \in 1..Len(g.seen) : g.seen[i] = x) \/ x = f.seq
      <4> TAKE x
      <4>1. ASSUME NEW i \in 1..Len(h.seen), h.seen[i] = x
            PROVE  (\E k \in 1..Len(g.seen) : g.seen[k] = x) \/ x = f.seq
        <5>1. i \in 1..Len(g.seen) \/ i = Len(h.seen)
          BY <1>4, <1>5
        <5> QED BY <1>5, <4>1, <5>1
      <4>2. ASSUME NEW i \in 1..Len(g.seen), g.seen[i] = x
            PROVE  \E k \in 1..Len(h.seen) : h.seen[k] = x
        <5>1. i \in 1..Len(h.seen) /\ h.seen[i] = x
          BY <1>4, <1>5, <4>2
        <5> QED BY <5>1
      <4>3. x = f.seq => \E k \in 1..Len(h.seen) : h.seen[k] = x
        <5>1. Len(h.seen) \in 1..Len(h.seen)
          BY <1>4, <1>5
        <5> QED BY <1>5, <5>1
      <4> QED BY <4>1, <4>2, <4>3
    <3> QED BY <3>1
  <2>3. {g.seen[i] : i \in 1..Len(g.seen)} = {n \in W : n <= g.last}
    BY DEF PageInv
  <2>4. f.seq \in W
    BY <1>2 DEF Follows
  <2> QED BY <2>1, <2>2, <2>3, <2>4
<1>9. h.last \in W
  BY <1>2 DEF Follows, f
<1>10. ASSUME NEW r \in Stream, r = s \/ r = StreamOff, NEW x, x = v \/ x = <<>>, Told(r, x, h)
       PROVE  Told(s, w, g)
  <2>1. CASE h.at = "completed"
    <3>1. 1 \in 1..Len(w) /\ w[1].kind = "completed"
      BY <1>1, <2>1 DEF f
    <3> QED BY <3>1 DEF Told
  <2>2. ASSUME NEW i \in 1..Len(x), x[i].kind = "completed" PROVE Told(s, w, g)
    <3>1. x = v
      BY <1>10, <2>2
    <3>2. i + 1 \in 1..Len(w) /\ w[i + 1].kind = "completed"
      BY <1>1, <2>2, <3>1
    <3> QED BY <3>2 DEF Told
  <2>3. ASSUME NEW i \in 1..Len(r.batch), r.batch[i].kind = "completed" PROVE Told(s, w, g)
    <3>1. r = s
      BY <1>10, <2>3 DEF StreamOff
    <3> QED BY <2>3, <3>1 DEF Told
  <2> QED BY <1>10, <2>1, <2>2, <2>3 DEF Told
<1>11. /\ StreamOff \in Stream /\ StreamOff.batch = <<>> /\ StreamOff.at = "off"
       /\ Chain(W, StreamOff.last, <<>>) /\ Chain(W, h.last, <<>>)
  BY EventStreamConstants DEF StreamOff, Stream, Chain
<1>12. PageInv(W, over, StreamOff, <<>>, h)
  <2>1. Told(StreamOff, <<>>, h) => over
    BY <1>10, <1>11 DEF PageInv
  <2> QED BY <1>7, <1>8, <1>9, <1>11, <2>1 DEF PageInv
<1>13. ASSUME f.kind = "step" PROVE PageInv(W, over, s, v, h)
  <2>1. h.at = "open"
    BY <1>13 DEF f, Final
  <2>2. Told(s, v, h) => over
    BY <1>10 DEF PageInv
  <2>3. \A i \in 1..Len(v) : v[i].kind = "step" \/ (i = Len(v) /\ s.at = "off")
    <3> SUFFICES ASSUME NEW i \in 1..Len(v), v[i].kind # "step" PROVE i = Len(v) /\ s.at = "off"
      OBVIOUS
    <3>1. i + 1 = Len(w) /\ s.at = "off"
      BY <1>1 DEF PageInv
    <3> QED BY <1>1, <3>1
  <2>4. LastOf(v, h.last) = LastOf(w, g.last)
    <3>1. CASE v = <<>>
      <4>1. Len(w) = 1
        BY <1>1, <3>1
      <4> QED BY <1>1, <3>1, <4>1 DEF LastOf, f
    <3>2. CASE v # <<>>
      <4>1. Len(v) \in 1..Len(v) /\ v[Len(v)] = w[Len(w)]
        BY <1>1, <3>2
      <4> QED BY <3>2, <4>1 DEF LastOf
    <3> QED BY <3>1, <3>2
  <2> QED BY <1>3, <1>7, <1>8, <1>9, <2>1, <2>2, <2>3, <2>4 DEF PageInv
<1> QED BY <1>12, <1>13 DEF f, v

-----------------------------------------------------------------------------
(* The steps                                                               *)

LEMMA JobTypes ==
  ASSUME EventStreamTypeOK
  PROVE  /\ worker \in Worker /\ log \in Seq(Rows) /\ log \in Seq(Frames)
         /\ written \in SUBSET (1..MaxSeq) /\ Len(log) \in Nat
         /\ \A p \in Pages : stream[p] \in Stream /\ wire[p] \in Seq(Frames) /\ page[p] \in Page
BY RowIsFrame DEF EventStreamTypeOK, Worker, Stream, Page

\* A step of the worker or of a cancel request that writes no event row.
LEMMA QuietStep ==
  ASSUME IInv, UNCHANGED <<log, written, clientVars, breaks>>,
         job' \in {"queued", "running", "gone"} \cup Terminal, cancelling' \in BOOLEAN,
         worker' \in Worker, worker.seq <= worker'.seq,
         job' = "gone" <=> job = "gone", Over => Over',
         worker'.at \in {"finalizing", "completed"} =>
           Over' \/ worker.at \in {"finalizing", "completed"}
  PROVE  IInv'
<1>1. EventStreamTypeOK'
  BY DEF IInv, EventStreamTypeOK, clientVars, Worker
<1>2. LogInv'
  <2>1. \A n \in written : n \in 1..MaxSeq /\ n <= worker.seq
    BY JobTypes DEF IInv, LogInv
  <2>2. worker.seq \in Nat /\ worker'.seq \in Nat
    BY JobTypes, EventStreamConstants DEF IInv, Worker
  <2>3. \A n \in written : n <= worker'.seq
    BY <2>1, <2>2, EventStreamConstants
  <2> QED BY <2>3 DEF IInv, LogInv
<1>3. WorkerInv'
  BY DEF IInv, WorkerInv
<1>4. PagesInv'
  <2> SUFFICES ASSUME NEW p \in Pages
               PROVE  PageInv(written', Over', stream'[p], wire'[p], page'[p])
    BY DEF PagesInv
  <2>1. PageInv(written, Over, stream[p], wire[p], page[p])
    BY DEF IInv, PagesInv
  <2>2. Over \in BOOLEAN /\ Over' \in BOOLEAN
    BY DEF Over
  <2>3. PageInv(written, Over', stream[p], wire[p], page[p])
    BY <2>1, <2>2, PageLater
  <2> QED BY <2>3 DEF clientVars
<1> QED BY <1>1, <1>2, <1>3, <1>4 DEF IInv

\* The worker writes the next event row.
LEMMA LoudStep ==
  ASSUME IInv, UNCHANGED <<job, cancelling, clientVars, breaks>>, job # "gone",
         worker.seq + 1 <= MaxSeq, worker' \in Worker, worker'.seq = worker.seq + 1,
         NEW kind \in Kinds, log' = Append(log, [seq |-> worker.seq + 1, kind |-> kind]),
         written' = written \cup {worker.seq + 1}, kind = "completed" => Over,
         worker'.at \in {"finalizing", "completed"} => Over
  PROVE  IInv'
<1> DEFINE m == worker.seq + 1
           row == [seq |-> m, kind |-> kind]
<1>1. worker.seq \in 0..MaxSeq /\ m \in 1..MaxSeq /\ row \in Rows
  BY JobTypes, EventStreamConstants DEF IInv, Worker, Rows
<1>2. \A n \in written : n < m
  <2>1. \A n \in written : n \in 1..MaxSeq /\ n <= worker.seq
    BY JobTypes DEF IInv, LogInv
  <2> QED BY <1>1, <2>1, EventStreamConstants
<1>3. EventStreamTypeOK'
  <2>1. log' \in Seq(Rows) /\ written' \in SUBSET (1..MaxSeq)
    BY <1>1, JobTypes DEF IInv
  <2> QED BY <2>1 DEF IInv, EventStreamTypeOK, clientVars, Worker
<1>4. /\ Len(log) \in Nat /\ Len(log') = Len(log) + 1 /\ log'[Len(log')] = row
      /\ \A i \in 1..Len(log) : log'[i] = log[i]
  BY <1>1, JobTypes DEF IInv
<1>5. row.seq = m /\ row.kind = kind
  OBVIOUS
<1> HIDE DEF row
<1>6. LogInv'
  <2>1. ASSUME NEW i \in 1..Len(log'), NEW j \in 1..Len(log'), i < j
        PROVE  log'[i].seq < log'[j].seq
    <3>1. i \in 1..Len(log)
      BY <1>4, <2>1
    <3>2. CASE j \in 1..Len(log)
      BY <1>4, <2>1, <3>1, <3>2 DEF IInv, LogInv
    <3>3. CASE j = Len(log')
      BY <1>2, <1>4, <1>5, <3>1, <3>3 DEF IInv, LogInv
    <3> QED BY <1>4, <3>2, <3>3
  <2>2. ASSUME NEW n \in written' PROVE \E i \in 1..Len(log') : log'[i].seq = n
    <3>1. CASE n \in written
      <4>1. PICK i \in 1..Len(log) : log[i].seq = n
        BY <3>1 DEF IInv, LogInv
      <4>2. i \in 1..Len(log') /\ log'[i].seq = n
        BY <1>4, <4>1
      <4> QED BY <4>2
    <3>2. CASE n = m
      <4>1. Len(log') \in 1..Len(log')
        BY <1>4
      <4> QED BY <1>4, <1>5, <3>2, <4>1
    <3> QED BY <2>2, <3>1, <3>2
  <2>3. ASSUME NEW i \in 1..Len(log') PROVE log'[i].seq \in written'
    <3>1. i \in 1..Len(log) \/ i = Len(log')
      BY <1>4
    <3>2. CASE i \in 1..Len(log)
      BY <1>4, <3>2 DEF IInv, LogInv
    <3>3. CASE i = Len(log')
      BY <1>4, <1>5, <3>3
    <3> QED BY <3>1, <3>2, <3>3
  <2>4. ASSUME NEW n \in written' PROVE n <= worker'.seq
    <3>1. n \in 1..MaxSeq /\ (n < m \/ n = m)
      BY <1>1, <1>2, <2>4, JobTypes DEF IInv
    <3> QED BY <1>1, <3>1, EventStreamConstants
  <2> QED BY <2>1, <2>2, <2>3, <2>4 DEF LogInv
<1>7. Over' = Over /\ Over \in BOOLEAN
  BY DEF Over
<1>8. WorkerInv'
  <2> SUFFICES ASSUME NEW i \in 1..Len(log'), log'[i].kind = "completed" PROVE Over'
    BY <1>7 DEF WorkerInv
  <2>1. i \in 1..Len(log) \/ i = Len(log')
    BY <1>4
  <2> QED BY <1>4, <1>5, <1>7, <2>1 DEF IInv, WorkerInv
<1>9. PagesInv'
  <2> SUFFICES ASSUME NEW p \in Pages
               PROVE  PageInv(written', Over', stream'[p], wire'[p], page'[p])
    BY DEF PagesInv
  <2>1. PageInv(written, Over, stream[p], wire[p], page[p])
    BY DEF IInv, PagesInv
  <2>2. PageInv(written \cup {m}, Over, stream[p], wire[p], page[p])
    BY <1>1, <1>2, <1>7, <2>1, JobTypes, PageGrows DEF IInv
  <2> QED BY <1>7, <2>2 DEF clientVars
<1> QED BY <1>3, <1>6, <1>8, <1>9 DEF IInv

LEMMA EmitStepKeeps ==
  ASSUME IInv, NEW kind \in Kinds, NEW at \in {"work", "completed", "over"},
         Emit(kind, at), kind = "completed" \/ at = "completed" => Over,
         UNCHANGED <<job, cancelling, clientVars, breaks>>
  PROVE  IInv'
<1>1. /\ worker.seq + 1 <= MaxSeq /\ worker' \in Worker /\ worker'.seq = worker.seq + 1
      /\ worker'.at = at /\ worker.seq \in Nat
  <2>1. /\ worker \in Worker /\ worker' = [worker EXCEPT !.at = at, !.seq = worker.seq + 1]
        /\ worker.seq + 1 <= MaxSeq
    BY JobTypes DEF IInv, Emit
  <2>2. worker.seq \in 0..MaxSeq /\ worker.seq + 1 \in 0..MaxSeq
    BY <2>1, EventStreamConstants DEF Worker
  <2>3. worker'.at = at /\ worker'.seq = worker.seq + 1
    BY <2>1 DEF Worker
  <2>4. worker' \in Worker
    BY <2>1, <2>2 DEF Worker
  <2> QED BY <2>1, <2>2, <2>3, <2>4
<1>2. Over' = Over
  BY DEF Over
<1>3. CASE UNCHANGED <<log, written>>
  <2>1. job \in {"queued", "running", "gone"} \cup Terminal /\ cancelling \in BOOLEAN
    BY DEF IInv, EventStreamTypeOK
  <2> QED BY <1>1, <1>2, <1>3, <2>1, QuietStep
<1>4. CASE /\ job # "gone" /\ log' = Append(log, [seq |-> worker.seq + 1, kind |-> kind])
           /\ written' = written \cup {worker.seq + 1}
  BY <1>1, <1>4, LoudStep
<1> QED BY <1>3, <1>4 DEF Emit

LEMMA BadEndKeeps ==
  ASSUME IInv, NEW outcome \in {"failed", "cancelled"}, EmitBadEnd(outcome)
  PROVE  IInv'
<1>1. /\ worker.seq + 1 <= MaxSeq /\ worker' \in Worker /\ worker'.seq = worker.seq + 1
      /\ worker'.at = "settle" /\ worker.seq \in Nat
  BY JobTypes, EventStreamConstants DEF IInv, EmitBadEnd, Worker
<1>2. Over' = Over /\ outcome \in Kinds /\ UNCHANGED <<job, cancelling, clientVars, breaks>>
  BY DEF Over, EmitBadEnd, Kinds, Final
<1>3. CASE UNCHANGED <<log, written>>
  <2>1. job \in {"queued", "running", "gone"} \cup Terminal /\ cancelling \in BOOLEAN
    BY DEF IInv, EventStreamTypeOK
  <2> QED BY <1>1, <1>2, <1>3, <2>1, QuietStep
<1>4. CASE /\ job # "gone" /\ log' = Append(log, [seq |-> worker.seq + 1, kind |-> outcome])
           /\ written' = written \cup {worker.seq + 1}
  BY <1>1, <1>2, <1>4, LoudStep
<1> QED BY <1>3, <1>4 DEF EmitBadEnd

LEMMA DeletedKeeps ==
  ASSUME IInv, ProjectDeleted
  PROVE  IInv'
<1>1. EventStreamTypeOK'
  BY DEF IInv, EventStreamTypeOK, ProjectDeleted, clientVars
<1>2. Over' /\ Over \in BOOLEAN /\ Over' \in BOOLEAN
  BY DEF Over, ProjectDeleted
<1>3. LogInv'
  <2>1. log' = <<>> /\ job' = "gone" /\ Len(log') = 0 /\ UNCHANGED <<written, worker>>
    BY DEF ProjectDeleted
  <2> QED BY <2>1 DEF IInv, LogInv
<1>4. PagesInv'
  <2> SUFFICES ASSUME NEW p \in Pages
               PROVE  PageInv(written', Over', stream'[p], wire'[p], page'[p])
    BY DEF PagesInv
  <2>1. PageInv(written, Over, stream[p], wire[p], page[p])
    BY DEF IInv, PagesInv
  <2>2. PageInv(written, Over', stream[p], wire[p], page[p])
    BY <1>2, <2>1, PageLater
  <2> QED BY <2>2 DEF ProjectDeleted, clientVars
<1> QED BY <1>1, <1>2, <1>3, <1>4 DEF IInv, WorkerInv

LEMMA JobKeeps ==
  ASSUME IInv, \/ ClaimJob \/ EmitStep \/ EndsWell \/ EmitFinalizing \/ EmitCompleted
               \/ SettleJob \/ WorkerStops \/ ReadToCancel \/ WriteCancelled
  PROVE  IInv'
<1>1. /\ worker \in Worker /\ worker.seq \in Nat /\ cancelling \in BOOLEAN
      /\ job \in {"queued", "running", "gone"} \cup Terminal
  BY JobTypes, EventStreamConstants DEF IInv, EventStreamTypeOK, Worker
<1>2. worker.at \in {"finalizing", "completed"} => Over
  BY DEF IInv, WorkerInv
<1>3. CASE ClaimJob
  <2>1. /\ worker' \in Worker /\ worker'.seq = worker.seq /\ worker'.at = "work"
        /\ job' = "running" /\ ~Over /\ job # "gone"
    BY <1>1, <1>3 DEF ClaimJob, Worker, Over
  <2> QED BY <1>1, <1>3, <2>1, QuietStep DEF ClaimJob
<1>4. CASE EmitStep
  BY <1>4, EmitStepKeeps DEF EmitStep, Kinds
<1>5. CASE EndsWell
  <2>1. /\ worker' \in Worker /\ worker'.seq = worker.seq /\ job' \in {"gone", "succeeded"}
        /\ job' = "gone" <=> job = "gone"
    BY <1>1, <1>5 DEF EndsWell, Worker
  <2>2. Over'
    BY <2>1 DEF Over
  <2> QED BY <1>1, <1>5, <2>1, <2>2, QuietStep DEF EndsWell, Terminal
<1>6. CASE EmitFinalizing
  BY <1>2, <1>6, EmitStepKeeps DEF EmitFinalizing, Kinds
<1>7. CASE EmitCompleted
  BY <1>2, <1>7, EmitStepKeeps DEF EmitCompleted, Kinds, Final
<1>8. CASE SettleJob
  <2>1. /\ worker' \in Worker /\ worker'.seq = worker.seq /\ job' \in {"gone", "failed", "cancelled"}
        /\ job' = "gone" <=> job = "gone"
    BY <1>1, <1>8 DEF SettleJob, Worker
  <2>2. Over'
    BY <2>1 DEF Over
  <2> QED BY <1>1, <1>8, <2>1, <2>2, QuietStep DEF SettleJob, Terminal
<1>9. CASE WorkerStops
  <2>1. worker' \in Worker /\ worker'.seq = worker.seq /\ worker'.at = "over" /\ job' = job
    BY <1>1, <1>9 DEF WorkerStops, Worker
  <2> QED BY <1>1, <1>9, <2>1, QuietStep DEF WorkerStops, Over
<1>10. CASE ReadToCancel
  BY <1>1, <1>2, <1>10, QuietStep DEF ReadToCancel, Over
<1>11. CASE WriteCancelled
  <2>1. job' \in {"gone", "cancelled"} /\ (job' = "gone" <=> job = "gone")
    BY <1>11 DEF WriteCancelled
  <2>2. Over'
    BY <2>1 DEF Over
  <2>3. /\ UNCHANGED <<log, written, clientVars, breaks>> /\ cancelling' \in BOOLEAN
        /\ worker' \in Worker /\ worker.seq <= worker'.seq
        /\ job' \in {"queued", "running", "gone"} \cup Terminal
    <3>1. UNCHANGED <<worker, log, written, clientVars, breaks>> /\ cancelling' \in BOOLEAN
      BY <1>11 DEF WriteCancelled
    <3>2. job' \in {"queued", "running", "gone"} \cup Terminal
      BY <2>1 DEF Terminal
    <3> QED BY <1>1, <3>1, <3>2
  <2>4. (job' = "gone" <=> job = "gone") /\ (Over => Over')
    BY <2>1, <2>2
  <2> QED BY <2>2, <2>3, <2>4, QuietStep
<1> QED BY <1>3, <1>4, <1>5, <1>6, <1>7, <1>8, <1>9, <1>10, <1>11

-----------------------------------------------------------------------------
\* A step of page p and its stream.
LEMMA PageStep ==
  ASSUME IInv, UNCHANGED <<jobVars, log, written>>, breaks' \in 0..MaxBreaks, NEW p \in Pages,
         NEW s \in Stream, NEW w \in Seq(Frames), NEW g \in Page,
         stream' = [stream EXCEPT ![p] = s], wire' = [wire EXCEPT ![p] = w],
         page' = [page EXCEPT ![p] = g], PageInv(written, Over, s, w, g)
  PROVE  IInv'
<1>1. UNCHANGED <<job, cancelling, worker, log, written>> /\ Over' = Over
  BY DEF jobVars, Over
<1>2. EventStreamTypeOK'
  BY <1>1 DEF IInv, EventStreamTypeOK, Stream, Page
<1>3. LogInv' /\ WorkerInv'
  BY <1>1 DEF IInv, LogInv, WorkerInv
<1>4. ASSUME NEW q \in Pages PROVE PageInv(written, Over, stream'[q], wire'[q], page'[q])
  <2>1. CASE q = p
    <3>1. stream'[q] = s /\ wire'[q] = w /\ page'[q] = g
      BY <2>1 DEF IInv, EventStreamTypeOK
    <3> QED BY <3>1
  <2>2. CASE q # p
    <3>1. stream'[q] = stream[q] /\ wire'[q] = wire[q] /\ page'[q] = page[q]
      BY <2>2 DEF IInv, EventStreamTypeOK
    <3> QED BY <3>1 DEF IInv, PagesInv
  <2> QED BY <2>1, <2>2
<1> QED BY <1>1, <1>2, <1>3, <1>4 DEF IInv, PagesInv

\* What a step leaves alone may be written as set to itself.
LEMMA Same ==
  ASSUME EventStreamTypeOK, NEW p \in Pages
  PROVE  /\ stream = [stream EXCEPT ![p] = stream[p]]
         /\ wire = [wire EXCEPT ![p] = wire[p]]
         /\ page = [page EXCEPT ![p] = page[p]]
         /\ breaks \in 0..MaxBreaks
         /\ breaks < MaxBreaks => breaks + 1 \in 0..MaxBreaks
BY EventStreamConstants DEF EventStreamTypeOK

\* The page or the connection moves; the stream, if it runs, is left or ends.
LEMMA ConnectionKeeps ==
  ASSUME IInv, NEW p \in Pages,
         OpenPage(p) \/ Connect(p) \/ Refused(p) \/ CheckFails(p) \/ Break(p) \/ LeavePage(p)
  PROVE  IInv'
<1>1. /\ stream[p] \in Stream /\ wire[p] \in Seq(Frames) /\ page[p] \in Page
      /\ written \in SUBSET (1..MaxSeq) /\ Over \in BOOLEAN
      /\ PageInv(written, Over, stream[p], wire[p], page[p])
  BY JobTypes DEF IInv, PagesInv, Over
<1>2. /\ StreamOff \in Stream /\ PageAway \in Page /\ <<>> \in Seq(Frames)
      /\ [page[p] EXCEPT !.at = "open"] \in Page /\ [page[p] EXCEPT !.at = "closed"] \in Page
      /\ [at |-> "fetch", last |-> page[p].last, batch |-> <<>>] \in Stream
  <2>1. page[p].last \in 0..MaxSeq /\ 0 \in 0..MaxSeq /\ <<>> \in Seq(Rows) /\ <<>> \in Seq(1..MaxSeq)
    BY <1>1, EventStreamConstants DEF Page
  <2> QED BY <1>1, <2>1 DEF StreamOff, PageAway, Stream, Page
<1> USE DEF Streaming, clientVars
<1>3. CASE OpenPage(p)
  <2>1. PageInv(written, Over, stream[p], wire[p], [page[p] EXCEPT !.at = "open"])
    BY <1>1, <1>3, PageMoves DEF OpenPage
  <2> QED BY <1>1, <1>2, <1>3, <2>1, PageStep, Same DEF OpenPage, IInv
<1>4. CASE Connect(p)
  <2> DEFINE t == [at |-> "fetch", last |-> page[p].last, batch |-> <<>>]
  <2>1. PageInv(written, Over, t, wire[p], page[p])
    BY <1>1, <1>4, PageConnects DEF Connect, Disconnected, Watching
  <2>2. t \in Stream /\ stream' = [stream EXCEPT ![p] = t]
    BY <1>2, <1>4 DEF Connect
  <2>3. UNCHANGED <<jobVars, log, written, wire, page, breaks>>
    BY <1>4 DEF Connect
  <2> HIDE DEF t
  <2> QED BY <1>1, <2>1, <2>2, <2>3, PageStep, Same DEF IInv
<1>5. CASE Refused(p)
  <2> DEFINE h == [page[p] EXCEPT !.at = "closed"]
  <2>1. PageInv(written, Over, stream[p], wire[p], h)
    <3>1. stream[p].at = "off" /\ wire[p] = <<>>
      BY <1>5 DEF Refused, Disconnected
    <3>2. PageInv(written, Over, stream[p], <<>>, h)
      BY <1>1, <3>1, PageMoves
    <3> QED BY <3>1, <3>2
  <2>2. h \in Page /\ page' = [page EXCEPT ![p] = h]
    BY <1>2, <1>5 DEF Refused
  <2>3. UNCHANGED <<jobVars, log, written, stream, wire, breaks>>
    BY <1>5 DEF Refused
  <2> HIDE DEF h
  <2> QED BY <1>1, <2>1, <2>2, <2>3, PageStep, Same DEF IInv
<1>6. CASE CheckFails(p)
  <2>1. PageInv(written, Over, StreamOff, wire[p], page[p])
    BY <1>1, PageOff
  <2>2. /\ stream' = [stream EXCEPT ![p] = StreamOff] /\ breaks' \in 0..MaxBreaks
        /\ UNCHANGED <<jobVars, log, written, wire, page>>
    BY <1>6, Same DEF CheckFails, IInv
  <2> QED BY <1>1, <1>2, <2>1, <2>2, PageStep, Same DEF IInv
<1>7. CASE Break(p)
  <2>1. PageInv(written, Over, StreamOff, <<>>, page[p])
    BY <1>1, PageBroken
  <2> QED BY <1>1, <1>2, <1>7, <2>1, PageStep, Same DEF Break, IInv
<1>8. CASE LeavePage(p)
  <2>1. PageInv(written, Over, StreamOff, <<>>, PageAway)
    BY <1>1, PageMoves
  <2> QED BY <1>1, <1>2, <1>8, <2>1, PageStep, Same DEF LeavePage, IInv
<1> QED BY <1>3, <1>4, <1>5, <1>6, <1>7, <1>8

\* The stream looks for rows.
LEMMA LookKeeps ==
  ASSUME IInv, NEW p \in Pages, Fetch(p) \/ FetchFails(p)
  PROVE  IInv'
<1>1. /\ stream[p] \in Stream /\ wire[p] \in Seq(Frames) /\ page[p] \in Page
      /\ written \in SUBSET (1..MaxSeq) /\ Over \in BOOLEAN
      /\ PageInv(written, Over, stream[p], wire[p], page[p])
  BY JobTypes DEF IInv, PagesInv, Over
<1>2. ASSUME NEW rows \in Seq(Rows), Chain(written, stream[p].last, rows),
             (\E i \in 1..Len(rows) : rows[i].kind = "completed") => Over, Fetched(p, rows),
             stream[p].at # "off", breaks' \in 0..MaxBreaks,
             UNCHANGED <<jobVars, log, written, wire, page>>
      PROVE  IInv'
  <2> DEFINE t == [stream[p] EXCEPT !.at = IF rows = <<>> THEN "check" ELSE "send", !.batch = rows]
  <2>1. /\ t \in Stream /\ t.last = stream[p].last /\ t.batch = rows /\ t.at # "off"
        /\ t.at = "send" => rows # <<>>
    BY <1>1 DEF Stream
  <2>2. stream' = [stream EXCEPT ![p] = t]
    BY <1>2 DEF Fetched, Streaming
  <2> HIDE DEF t
  <2>3. PageInv(written, Over, t, wire[p], page[p])
    BY <1>1, <1>2, <2>1, PageLooks
  <2>4. /\ wire' = [wire EXCEPT ![p] = wire[p]] /\ page' = [page EXCEPT ![p] = page[p]]
        /\ UNCHANGED <<jobVars, log, written>> /\ breaks' \in 0..MaxBreaks
    BY <1>2, Same DEF IInv
  <2>5. t \in Stream /\ wire[p] \in Seq(Frames) /\ page[p] \in Page
    BY <1>1, <2>1
  <2> QED BY <2>2, <2>3, <2>4, <2>5, PageStep
<1>3. CASE Fetch(p)
  <2>1. PICK k \in 0..Len(log) :
          /\ \A i \in 1..Len(log) : i <= k <=> log[i].seq <= stream[p].last
          /\ Fetched(p, RowsAfter(k))
    BY <1>3 DEF Fetch
  <2>2. RowsAfter(k) \in Seq(Rows) /\ Chain(written, stream[p].last, RowsAfter(k))
    BY <1>1, <2>1, RowsFollow DEF IInv, Stream
  <2>3. (\E i \in 1..Len(RowsAfter(k)) : RowsAfter(k)[i].kind = "completed") => Over
    <3>1. \A i \in 1..Len(RowsAfter(k)) : k + i \in 1..Len(log) /\ RowsAfter(k)[i] = log[k + i]
      BY JobTypes DEF RowsAfter, IInv
    <3> QED BY <3>1 DEF IInv, WorkerInv
  <2> QED BY <1>2, <1>3, <2>1, <2>2, <2>3, Same DEF Fetch, IInv
<1>4. CASE FetchFails(p)
  <2>1. <<>> \in Seq(Rows) /\ Chain(written, stream[p].last, <<>>)
    BY DEF Chain
  <2>2. ~ \E i \in 1..Len(<<>>) : TRUE
    OBVIOUS
  <2>3. /\ Fetched(p, <<>>) /\ stream[p].at # "off" /\ breaks' \in 0..MaxBreaks
        /\ UNCHANGED <<jobVars, log, written, wire, page>>
    BY <1>4, Same DEF FetchFails, IInv
  <2> QED BY <1>2, <2>1, <2>2, <2>3
<1> QED BY <1>3, <1>4

\* The stream sends a row, says that it ends, or goes on.
LEMMA SendKeeps ==
  ASSUME IInv, NEW p \in Pages, SendFrame(p) \/ CheckJob(p) \/ Ceiling(p)
  PROVE  IInv'
<1>1. /\ stream[p] \in Stream /\ wire[p] \in Seq(Frames) /\ page[p] \in Page
      /\ written \in SUBSET (1..MaxSeq) /\ Over \in BOOLEAN
      /\ PageInv(written, Over, stream[p], wire[p], page[p])
  BY JobTypes DEF IInv, PagesInv, Over
<1>2. StreamOff \in Stream /\ [seq |-> 0, kind |-> "end"] \in Frames
  BY EventStreamConstants DEF StreamOff, Stream, Frames
<1>3. CASE SendFrame(p)
  <2> DEFINE row == Head(stream[p].batch)
             rest == Tail(stream[p].batch)
             t == [at |-> IF rest = <<>> THEN "fetch" ELSE "send", last |-> row.seq, batch |-> rest]
  <2>1. stream[p].batch \in Seq(Rows) /\ stream[p].batch # <<>> /\ stream[p].at = "send"
    BY <1>1, <1>3 DEF SendFrame, Stream, PageInv
  <2>2. row \in Rows /\ row \in Frames /\ rest \in Seq(Rows) /\ row.seq \in 0..MaxSeq
    <3>1. row \in Rows /\ rest \in Seq(Rows)
      BY <2>1
    <3> QED BY <3>1, RowFields, RowIsFrame
  <2>3. /\ t \in Stream /\ t.at # "off" /\ t.last = row.seq /\ t.batch = rest
        /\ t.at = "send" => rest # <<>>
    BY <2>2 DEF Stream
  <2>4. /\ stream' = [stream EXCEPT ![p] = IF row.kind \in Final THEN StreamOff ELSE t]
        /\ wire' = [wire EXCEPT ![p] = Append(wire[p], row)]
        /\ UNCHANGED <<jobVars, log, written, page, breaks>>
    BY <1>3 DEF SendFrame, Streaming
  <2>5. Append(wire[p], row) \in Seq(Frames)
    BY <1>1, <2>2
  <2>6. /\ PageInv(written, Over, StreamOff, Append(wire[p], row), page[p])
        /\ row.kind \notin Final => PageInv(written, Over, t, Append(wire[p], row), page[p])
    BY <1>1, <2>1, <2>3, PageSent
  <2> HIDE DEF row, rest, t
  <2>7. CASE row.kind \in Final
    BY <1>1, <1>2, <2>4, <2>5, <2>6, <2>7, PageStep, Same DEF IInv
  <2>8. CASE row.kind \notin Final
    BY <1>1, <2>3, <2>4, <2>5, <2>6, <2>8, PageStep, Same DEF IInv
  <2> QED BY <2>7, <2>8
<1>4. ASSUME SendEnd(p), stream[p].at # "off"
      PROVE  IInv'
  <2> DEFINE f == [seq |-> 0, kind |-> "end"]
  <2>1. f.kind = "end" /\ f \in Frames /\ Append(wire[p], f) \in Seq(Frames)
    BY <1>1, <1>2
  <2>2. PageInv(written, Over, StreamOff, Append(wire[p], f), page[p])
    BY <1>1, <1>4, <2>1, PageEnd
  <2>3. /\ stream' = [stream EXCEPT ![p] = StreamOff]
        /\ wire' = [wire EXCEPT ![p] = Append(wire[p], f)]
        /\ UNCHANGED <<jobVars, log, written, page, breaks>>
    BY <1>4 DEF SendEnd, Streaming
  <2> HIDE DEF f
  <2> QED BY <1>1, <1>2, <2>1, <2>2, <2>3, PageStep, Same DEF IInv
<1>5. CASE CheckJob(p) /\ job \in Terminal
  BY <1>4, <1>5 DEF CheckJob
<1>6. CASE CheckJob(p) /\ job \notin Terminal
  <2> DEFINE t == [stream[p] EXCEPT !.at = "fetch"]
  <2>1. /\ t \in Stream /\ t.last = stream[p].last /\ t.batch = stream[p].batch /\ t.at = "fetch"
        /\ t.batch \in Seq(Rows) /\ stream[p].at = "check"
    BY <1>1, <1>6 DEF CheckJob, Stream
  <2>2. /\ stream' = [stream EXCEPT ![p] = t]
        /\ UNCHANGED <<jobVars, log, written, wire, page, breaks>>
    BY <1>6 DEF CheckJob, Streaming
  <2> HIDE DEF t
  <2>3. PageInv(written, Over, t, wire[p], page[p])
    BY <1>1, <2>1, PageLooks DEF PageInv, Told
  <2> QED BY <1>1, <2>1, <2>2, <2>3, PageStep, Same DEF IInv
<1>7. CASE Ceiling(p)
  BY <1>4, <1>7 DEF Ceiling
<1> QED BY <1>3, <1>5, <1>6, <1>7

\* The page receives a frame.
LEMMA ReceiveKeeps ==
  ASSUME IInv, NEW p \in Pages, Receive(p)
  PROVE  IInv'
<1>1. /\ stream[p] \in Stream /\ wire[p] \in Seq(Frames) /\ page[p] \in Page
      /\ written \in SUBSET (1..MaxSeq) /\ Over \in BOOLEAN
      /\ PageInv(written, Over, stream[p], wire[p], page[p])
  BY JobTypes DEF IInv, PagesInv, Over
<1> DEFINE f == Head(wire[p])
           v == Tail(wire[p])
<1>2. /\ wire[p] # <<>> /\ page[p].at = "open" /\ f \in Frames /\ f = wire[p][1]
      /\ v \in Seq(Frames) /\ <<>> \in Seq(Frames)
  BY <1>1 DEF Receive, Watching
<1>3. /\ f.seq \in 0..MaxSeq /\ f.kind \in Kinds \cup {"end"}
      /\ f.kind # "end" => f.seq \in 1..MaxSeq
  BY <1>2, FrameFields
<1>4. StreamOff \in Stream
  BY EventStreamConstants DEF StreamOff, Stream
<1>5. UNCHANGED <<jobVars, log, written, breaks>> /\ breaks' \in 0..MaxBreaks
  BY Same DEF Receive, IInv
<1>6. CASE f.kind = "end"
  <2> DEFINE h == [page[p] EXCEPT !.at = "closed"]
  <2>1. /\ page' = [page EXCEPT ![p] = h] /\ wire' = [wire EXCEPT ![p] = <<>>]
        /\ stream' = [stream EXCEPT ![p] = StreamOff]
    BY <1>6 DEF Receive, Streaming
  <2>2. h \in Page
    BY <1>1 DEF Page
  <2>3. PageInv(written, Over, StreamOff, <<>>, page[p])
    BY <1>1, PageBroken
  <2>4. StreamOff.at = "off"
    BY DEF StreamOff
  <2>5. PageInv(written, Over, StreamOff, <<>>, h)
    BY <1>1, <1>2, <1>4, <2>3, <2>4, PageMoves
  <2> HIDE DEF h
  <2> QED BY <1>2, <1>4, <1>5, <2>1, <2>2, <2>5, PageStep
<1>7. CASE f.kind # "end"
  <2> DEFINE h == [at |-> IF f.kind \in Final THEN f.kind ELSE "open",
                   last |-> f.seq, seen |-> Append(page[p].seen, f.seq)]
  <2>1. page' = [page EXCEPT ![p] = h]
    BY <1>7 DEF Receive
  <2>2. h \in Page
    <3>1. Append(page[p].seen, f.seq) \in Seq(1..MaxSeq)
      BY <1>1, <1>3, <1>7 DEF Page
    <3> QED BY <1>3, <3>1 DEF Page
  <2>3. /\ f.kind = "step" => PageInv(written, Over, stream[p], v, h)
        /\ PageInv(written, Over, StreamOff, <<>>, h)
    BY <1>1, <1>2, <1>7, <2>2, PageReceives
  <2>4. IF f.kind = "step"
          THEN wire' = [wire EXCEPT ![p] = v] /\ stream' = stream
          ELSE wire' = [wire EXCEPT ![p] = <<>>] /\ stream' = [stream EXCEPT ![p] = StreamOff]
    BY DEF Receive, Streaming
  <2> HIDE DEF h, f, v
  <2>5. CASE f.kind = "step"
    BY <1>1, <1>2, <1>5, <2>1, <2>2, <2>3, <2>4, <2>5, PageStep, Same DEF IInv
  <2>6. CASE f.kind # "step"
    BY <1>2, <1>4, <1>5, <2>1, <2>2, <2>3, <2>4, <2>6, PageStep
  <2> QED BY <2>5, <2>6
<1> QED BY <1>6, <1>7

-----------------------------------------------------------------------------
LEMMA InitHolds == EventStreamInit => IInv
<1> SUFFICES ASSUME EventStreamInit PROVE IInv
  OBVIOUS
<1> USE DEF EventStreamInit
<1>1. /\ 0 \in 0..MaxSeq /\ 0 \in 0..MaxBreaks /\ <<>> \in Seq(Rows) /\ <<>> \in Seq(Frames)
      /\ <<>> \in Seq(1..MaxSeq)
  BY EventStreamConstants
<1>2. EventStreamTypeOK
  BY <1>1 DEF EventStreamTypeOK, StreamOff, PageAway, Terminal, Final
<1>3. LogInv /\ WorkerInv
  BY DEF LogInv, WorkerInv
<1>4. PagesInv
  <2> SUFFICES ASSUME NEW p \in Pages PROVE PageInv({}, FALSE, StreamOff, <<>>, PageAway)
    BY DEF PagesInv, Over
  <2>1. /\ StreamOff.batch = <<>> /\ StreamOff.at = "off"
        /\ PageAway.last = 0 /\ PageAway.seen = <<>> /\ PageAway.at = "away"
        /\ Chain({}, StreamOff.last, <<>>) /\ Chain({}, 0, <<>>)
    BY DEF StreamOff, PageAway, Chain
  <2>2. {PageAway.seen[i] : i \in 1..Len(PageAway.seen)} = {}
    BY <2>1
  <2>3. ~Told(StreamOff, <<>>, PageAway)
    BY <2>1 DEF Told
  <2> QED BY <2>1, <2>2, <2>3 DEF PageInv
<1> QED BY <1>2, <1>3, <1>4 DEF IInv

LEMMA StepHolds == IInv /\ [EventStreamNext]_streamVars => IInv'
<1> SUFFICES ASSUME IInv, [EventStreamNext]_streamVars PROVE IInv'
  OBVIOUS
<1>1. CASE UNCHANGED streamVars
  BY <1>1 DEF streamVars, jobVars, clientVars, IInv, EventStreamTypeOK, LogInv, WorkerInv, PagesInv, Over
<1>2. CASE EventStreamNext
  BY <1>2, JobKeeps, DeletedKeeps, BadEndKeeps, ConnectionKeeps, LookKeeps, SendKeeps, ReceiveKeeps
     DEF EventStreamNext
<1> QED BY <1>1, <1>2

\* The inductive invariant holds in every state of the job, its streams and its pages.
THEOREM Invariance == EventStreamSpec => []IInv
BY InitHolds, StepHolds, PTL DEF EventStreamSpec

\* Every variable keeps its type.
THEOREM TypeCorrect == EventStreamSpec => []EventStreamTypeOK
BY Invariance, PTL DEF IInv

\* Whatever connections it lost and whatever reads or writes failed, a page has each
\* event row up to its last one, once and in order.
THEOREM NothingMissed == EventStreamSpec => []ResumesExactly
<1>1. IInv => ResumesExactly
  BY DEF IInv, PagesInv, PageInv, ResumesExactly
<1> QED BY <1>1, Invariance, PTL

\* A page that shows "Completed" finds the job stored as over.
THEOREM CompletedIsTrue == EventStreamSpec => []CompletedIsStored
<1>1. IInv => CompletedIsStored
  BY DEF IInv, PagesInv, PageInv, Told, Over, CompletedIsStored
<1> QED BY <1>1, Invariance, PTL

-----------------------------------------------------------------------------
(* The refinement of EventFeed                                             *)

\* A step that writes no event and moves no page: the job ends, or nothing is seen.
LEMMA UnseenStep ==
  ASSUME UNCHANGED <<written, page>>, Over => Over'
  PROVE  [Feed!Next]_(Feed!vars)
<1>1. CASE Over' = Over
  BY <1>1 DEF Feed!vars, Over
<1>2. CASE Over' # Over
  <2>1. Over' /\ Feed!End
    BY <1>2 DEF Over, Feed!End
  <2> QED BY <2>1 DEF Feed!Next
<1> QED BY <1>1, <1>2

\* An event row is written with a higher seq than all before.
LEMMA PublishStep ==
  ASSUME IInv, UNCHANGED <<job, page>>, worker.seq + 1 <= MaxSeq,
         written' = written \cup {worker.seq + 1}
  PROVE  [Feed!Next]_(Feed!vars)
<1>1. PICK n \in 1..MaxSeq : n = worker.seq + 1
  BY JobTypes, EventStreamConstants DEF IInv, Worker
<1>2. worker.seq \in Nat /\ written \subseteq Nat
  BY JobTypes, EventStreamConstants DEF IInv, Worker
<1>3. \A m \in written : m < n
  BY <1>1, <1>2 DEF IInv, LogInv
<1>4. Feed!Publish(n)
  BY <1>1, <1>3 DEF Feed!Publish
<1> QED BY <1>4 DEF Feed!Next

\* Page p goes on to g, which says something else and has seen no more.
LEMMA SaysStep ==
  ASSUME IInv, NEW p \in Pages, UNCHANGED <<job, written>>,
         NEW at, page' = [page EXCEPT ![p].at = at]
  PROVE  /\ [q \in Pages |-> page'[q].seen] = [q \in Pages |-> page[q].seen]
         /\ [q \in Pages |-> page'[q].at] = [[q \in Pages |-> page[q].at] EXCEPT ![p] = at]
<1> DEFINE says == [q \in Pages |-> page[q].at]
<1>1. \A q \in Pages : page[q] \in Page
  BY JobTypes DEF IInv
<1>2. page'[p].seen = page[p].seen /\ page'[p].at = at
  BY <1>1 DEF IInv, EventStreamTypeOK, Page
<1>3. \A q \in Pages : q # p => page'[q] = page[q]
  BY DEF IInv, EventStreamTypeOK
<1>4. \A q \in Pages : page'[q].seen = page[q].seen
  BY <1>2, <1>3
<1>5. \A q \in Pages : page'[q].at = [says EXCEPT ![p] = at][q]
  BY <1>2, <1>3
<1>6. [q \in Pages |-> page'[q].at] = [says EXCEPT ![p] = at]
  BY <1>5
<1> QED BY <1>4, <1>6

LEMMA ReceiveShows ==
  ASSUME IInv, NEW p \in Pages, Receive(p)
  PROVE  [Feed!Next]_(Feed!vars)
<1>1. /\ stream[p] \in Stream /\ wire[p] \in Seq(Frames) /\ page[p] \in Page
      /\ written \in SUBSET (1..MaxSeq)
      /\ PageInv(written, Over, stream[p], wire[p], page[p])
  BY JobTypes DEF IInv, PagesInv
<1>2. PICK f \in Frames : f = Head(wire[p]) /\ f = wire[p][1]
  BY <1>1 DEF Receive, Watching
<1>3. wire[p] # <<>> /\ page[p].at = "open" /\ 1 \in 1..Len(wire[p])
  BY <1>1 DEF Receive, Watching
<1>4. UNCHANGED <<job, written>>
  BY DEF Receive, jobVars
<1>5. CASE f.kind = "end"
  <2>1. page' = [page EXCEPT ![p].at = "closed"]
    BY <1>2, <1>5 DEF Receive
  <2>2. Feed!Close(p)
    BY <1>3, <1>4, <2>1, SaysStep DEF Feed!Close
  <2> QED BY <2>2 DEF Feed!Next
<1>6. CASE f.kind # "end"
  <2>1. f.seq \in 1..MaxSeq /\ f.kind \in Kinds
    BY <1>6, FrameFields
  <2>2. Follows(written, page[p].last, f.seq)
    BY <1>1, <1>2, <1>3, <1>6 DEF PageInv, Chain
  <2>3. page[p].last \in 0..MaxSeq /\ page[p].seen \in Seq(1..MaxSeq)
    BY <1>1 DEF Page
  <2>4. PICK n \in 1..MaxSeq : n = f.seq
    BY <2>1
  <2>5. \A m \in written : m < n <=> m <= page[p].last
    BY <1>1, <2>2, <2>3, <2>4 DEF Follows
  <2>6. \A m \in written :
          m <= page[p].last <=> \E i \in 1..Len(page[p].seen) : page[p].seen[i] = m
    BY <1>1 DEF PageInv
  <2>7. PICK says \in {"open", "failed", "cancelled", "completed"} :
          says = IF f.kind \in Final THEN f.kind ELSE "open"
    BY <2>1 DEF Kinds, Final
  <2>8. says = "completed" => Over
    BY <1>1, <1>2, <1>3, <2>7 DEF PageInv, Told
  <2>9. page' = [page EXCEPT ![p] = [at |-> says, last |-> n, seen |-> Append(@.seen, n)]]
    BY <1>2, <1>6, <2>4, <2>7 DEF Receive
  <2>10. /\ page'[p].seen = Append(page[p].seen, n) /\ page'[p].at = says
         /\ \A q \in Pages : q # p => page'[q] = page[q]
    BY <2>9 DEF IInv, EventStreamTypeOK
  <2>11. Feed!Show(p, n)
    <3>1. n \in written
      BY <2>2, <2>4 DEF Follows
    <3>2. [q \in Pages |-> page'[q].seen]
            = [[q \in Pages |-> page[q].seen] EXCEPT ![p] = Append(@, n)]
      BY <2>10
    <3>3. [q \in Pages |-> page'[q].at] = [[q \in Pages |-> page[q].at] EXCEPT ![p] = says]
      BY <2>10
    <3>4. says \in {"open", "failed", "cancelled"} \cup (IF Over THEN {"completed"} ELSE {})
      BY <2>7, <2>8
    <3> QED BY <1>3, <1>4, <2>5, <2>6, <3>1, <3>2, <3>3, <3>4 DEF Feed!Show, Over
  <2> QED BY <2>11 DEF Feed!Next
<1> QED BY <1>5, <1>6

\* Every step of the worker, the streams and the pages is one of the feed's, or none.
LEMMA FeedStep ==
  ASSUME IInv, [EventStreamNext]_streamVars
  PROVE  [Feed!Next]_(Feed!vars)
<1>1. CASE \/ ClaimJob \/ EndsWell \/ SettleJob \/ WorkerStops \/ ReadToCancel \/ WriteCancelled
           \/ ProjectDeleted
  <2>1. UNCHANGED <<written, page>>
    BY <1>1 DEF ClaimJob, EndsWell, SettleJob, WorkerStops, ReadToCancel, WriteCancelled,
                ProjectDeleted, clientVars
  <2>2. worker.outcome \in {"failed", "cancelled"}
    BY JobTypes DEF IInv, Worker
  <2>3. Over => Over'
    BY <1>1, <2>2 DEF ClaimJob, EndsWell, SettleJob, WorkerStops, ReadToCancel, WriteCancelled,
                      ProjectDeleted, Over
  <2> QED BY <2>1, <2>3, UnseenStep
<1>2. CASE \/ EmitStep \/ EmitFinalizing \/ EmitCompleted
           \/ \E outcome \in {"failed", "cancelled"} : EmitBadEnd(outcome)
  <2>1. /\ UNCHANGED <<job, page>> /\ worker.seq + 1 <= MaxSeq
        /\ written' = written \/ written' = written \cup {worker.seq + 1}
    BY <1>2 DEF EmitStep, EmitFinalizing, EmitCompleted, EmitBadEnd, Emit, clientVars
  <2>2. Over' = Over
    BY <2>1 DEF Over
  <2> QED BY <2>1, <2>2, UnseenStep, PublishStep
<1>3. ASSUME NEW p \in Pages,
             \/ Connect(p) \/ Fetch(p) \/ FetchFails(p) \/ SendFrame(p) \/ CheckJob(p) \/ CheckFails(p)
             \/ Ceiling(p) \/ Break(p)
      PROVE  [Feed!Next]_(Feed!vars)
  <2>1. UNCHANGED <<job, written, page>>
    BY <1>3 DEF Connect, Fetch, FetchFails, SendFrame, CheckJob, CheckFails, Ceiling, Break, SendEnd,
                jobVars
  <2> QED BY <2>1, UnseenStep DEF Over
<1>4. ASSUME NEW p \in Pages, OpenPage(p) PROVE Feed!Next
  <2>1. Feed!Open(p)
    BY <1>4, SaysStep DEF OpenPage, jobVars, Feed!Open
  <2> QED BY <2>1 DEF Feed!Next
<1>5. ASSUME NEW p \in Pages, Refused(p) PROVE Feed!Next
  <2>1. Feed!Close(p)
    BY <1>5, SaysStep DEF Refused, Disconnected, Watching, jobVars, Feed!Close
  <2> QED BY <2>1 DEF Feed!Next
<1>6. ASSUME NEW p \in Pages, LeavePage(p) PROVE Feed!Next
  <2>1. /\ page'[p].at = "away" /\ page'[p].seen = <<>>
        /\ \A q \in Pages : q # p => page'[q] = page[q]
    BY <1>6 DEF LeavePage, PageAway, IInv, EventStreamTypeOK
  <2>2. [q \in Pages |-> page'[q].seen] = [[q \in Pages |-> page[q].seen] EXCEPT ![p] = <<>>]
    BY <2>1
  <2>3. [q \in Pages |-> page'[q].at] = [[q \in Pages |-> page[q].at] EXCEPT ![p] = "away"]
    BY <2>1
  <2>4. Feed!Leave(p)
    BY <1>6, <2>2, <2>3 DEF LeavePage, jobVars, Feed!Leave
  <2> QED BY <2>4 DEF Feed!Next
<1>7. CASE UNCHANGED streamVars
  BY <1>7, UnseenStep DEF streamVars, jobVars, clientVars, Over
<1> QED
  BY <1>1, <1>2, <1>3, <1>4, <1>5, <1>6, <1>7, ReceiveShows DEF EventStreamNext

\* The event rows, streams and connections implement the promise of EventFeed: a page
\* shows the next event after those it has shown, once, or begins anew.
THEOREM Refinement == EventStreamSpec => FeedSpec
<1>1. EventStreamInit => Feed!Init
  BY DEF EventStreamInit, PageAway, Feed!Init
<1> QED
  BY <1>1, FeedStep, Invariance, PTL DEF EventStreamSpec, FeedSpec, Feed!Spec
=============================================================================
