--------------------------- MODULE OneNetworkProofs ---------------------------
(* A conversation stays within one network (SessionBinding's OneNetworkUnlessUnrestored),
   for any sessions, forks of forks, hosts and crashes: the record of a session, or while
   a fork's is still being written its parent's, accounts for every turn of its log. *)
EXTENDS SessionBindingProofs

------------------------------------------------------------------------------
(* The inductive invariant. *)

FirstBound(l) == l # <<>> /\ l[1].kind = "bound"

\* A log's binding event comes first.
WellFormed(l) ==
  \A i \in DOMAIN l : l[i].kind = "bound" => i = 1 /\ l[i].network # NULL

\* The turns of a log ran under the network of its binding event or, where it has none,
\* under that of the record r, and then after its bind.
Explains(l, r) ==
  \A i \in DOMAIN l : l[i].network # NULL =>
    IF FirstBound(l) THEN l[i].network = l[1].network
    ELSE r.network = l[i].network /\ r.boundAtSeq < i

\* The decisions of a queue write records of networks, bound within a log of length n.
\* A session that is gone may have had any log.
Sound(q, n) ==
  \A i \in DOMAIN q : /\ q[i].write.network = NULL => q[i].write = NoRecord
                      /\ q[i].write.boundAtSeq <= n

Reach(s) == IF status[s] = "gone" THEN MaxEvents ELSE Len(log[s])

Shape(s) ==
  /\ WellFormed(log[s])
  /\ origin[s].inheritedEventCount <= Len(log[s])
  /\ record[s].boundAtSeq <= Reach(s)
  /\ record[s].network = NULL => record[s] = NoRecord
  /\ status[s] \in {"unborn", "gone"} => log[s] = <<>> /\ s \notin stored
  /\ \A h \in Hosts : Sound(queue[h][s], Reach(s))

\* The decision d copies to s, for its live Agent, what its parent's record says.
Inherits(s, d) ==
  d.by = "inherit" /\ d.agent /\ (Writing(d) => d.write = [Inheritance(s) EXCEPT !.old = FALSE])

\* A new fork waits for its parent's record, which nothing can remove meanwhile.
Inheriting(s) ==
  /\ status[s] = "live" /\ s \notin stored /\ record[s] = NoRecord
  /\ queue[host[s]][s] # <<>> /\ Inherits(s, queue[host[s]][s][1])
  /\ Explains(log[s], Inheritance(s))
  /\ origin[s].parent # NULL /\ origin[s].parent \notin pruning
  /\ status[origin[s].parent] = "gone" => ~record[origin[s].parent].old

Scoped(s) == s \in unrestored \/ Explains(log[s], record[s]) \/ Inheriting(s)

NetworkInv == \A s \in Sessions : Shape(s) /\ Scoped(s)

------------------------------------------------------------------------------
(* Logs and the records that explain them. *)

LEMMA LogBinding ==
  ASSUME NEW l \in Seq(Events), WellFormed(l)
  PROVE  readBusinessNetworkBinding(l) = IF FirstBound(l) THEN l[1].network ELSE NULL
<1> DEFINE bound == { j \in DOMAIN l : l[j].kind = "bound" }
           named == { l[i].network : i \in bound }
<1>1. readBusinessNetworkBinding(l) = IF named = {} THEN NULL
        ELSE IF \A m, n \in named : m = n THEN CHOOSE n \in named : TRUE ELSE "conflict"
  BY DEF readBusinessNetworkBinding
<1>2. DOMAIN l = 1 .. Len(l) /\ Len(l) \in Nat /\ (l # <<>> => Len(l) # 0)
  BY LenProperties, EmptySeq
<1>3. \A j \in bound : j = 1
  BY DEF WellFormed
<1>4. CASE FirstBound(l)
  <2>1. bound = {1}
    BY <1>2, <1>3, <1>4 DEF FirstBound
  <2>2. named = {l[1].network}
    BY <2>1
  <2> HIDE DEF named
  <2>3. named # {} /\ (\A m, n \in named : m = n) /\ (CHOOSE n \in named : TRUE) \in named
    BY <2>2
  <2> QED
    BY <1>1, <1>4, <2>2, <2>3
<1>5. CASE ~FirstBound(l)
  <2>1. bound = {}
    <3>1. ASSUME NEW j \in bound PROVE FALSE
      <4>1. j = 1 /\ 1 \in DOMAIN l /\ l[1].kind = "bound"
        BY <1>3, <3>1
      <4>2. l # <<>>
        BY <4>1
      <4> QED
        BY <1>5, <4>1, <4>2 DEF FirstBound
    <3> QED
      BY <3>1
  <2>2. named = {}
    BY <2>1
  <2> QED
    BY <1>1, <1>5, <2>2
<1> QED
  BY <1>4, <1>5

\* What a session is resolved to, when its log's binding event comes first.
LEMMA ReadsIs ==
  ASSUME TypeOK, NEW s \in Sessions, Shape(s)
  PROVE  /\ FirstBound(log[s]) => Reads(s) \in {log[s][1].network, "conflict"} /\ Reads(s) # NULL
         /\ ~FirstBound(log[s]) => Reads(s) = record[s].network
<1>1. log[s] \in Seq(Events) /\ WellFormed(log[s])
  BY DEF TypeOK, Shape
<1>2. readBusinessNetworkBinding(log[s]) = IF FirstBound(log[s]) THEN log[s][1].network ELSE NULL
  BY <1>1, LogBinding
<1>3. FirstBound(log[s]) => log[s][1].network # NULL
  <2>1. log[s] # <<>> => 1 \in DOMAIN log[s]
    BY <1>1, LenProperties, EmptySeq
  <2> QED
    BY <1>1, <2>1 DEF FirstBound, WellFormed
<1> QED
  BY <1>2, <1>3, NullIsNoNetwork DEF Reads, readDshSessionBusinessNetwork

LEMMA ExplainsOne ==
  ASSUME NEW l, NEW r, Explains(l, r), NEW i \in DOMAIN l, NEW j \in DOMAIN l,
         l[i].network # NULL, l[j].network # NULL
  PROVE  l[i].network = l[j].network
BY DEF Explains

LEMMA ExplainsNothing == \A r : Explains(<<>>, r)
BY DEF Explains

\* The age of a record does not matter to what it explains.
LEMMA ExplainsAnyAge ==
  ASSUME NEW l, NEW r, NEW q, Explains(l, r), q.network = r.network, q.boundAtSeq = r.boundAtSeq
  PROVE  Explains(l, q)
BY DEF Explains

\* A log that needs no record is explained by any.
LEMMA ExplainedByAny ==
  ASSUME NEW l, NEW r, Explains(l, r), FirstBound(l) \/ r.network = NULL
  PROVE  \A q : Explains(l, q)
BY DEF Explains

\* A turn joins a log.
LEMMA ExplainsAppend ==
  ASSUME NEW l \in Seq(Events), NEW r \in Record, Explains(l, r), WellFormed(l),
         r.boundAtSeq <= Len(l), NEW e \in Events, e.kind = "turn",
         e.network # NULL => IF FirstBound(l) THEN e.network = l[1].network
                             ELSE e.network = r.network
  PROVE  WellFormed(Append(l, e)) /\ Explains(Append(l, e), r)
<1> DEFINE m == Append(l, e)
<1>1. /\ Len(l) \in Nat /\ DOMAIN l = 1 .. Len(l) /\ DOMAIN m = 1 .. Len(l) + 1
      /\ m # <<>> /\ (l = <<>> <=> Len(l) = 0)
      /\ \A i \in 1 .. Len(l) : m[i] = l[i]
      /\ m[Len(l) + 1] = e
  <2>1. /\ m \in Seq(Events) /\ Len(m) = Len(l) + 1 /\ Len(l) \in Nat
        /\ \A i \in 1 .. Len(l) : m[i] = l[i]
        /\ m[Len(l) + 1] = e
    BY AppendProperties, LenProperties
  <2> QED
    BY <2>1, LenProperties, EmptySeq
<1> HIDE DEF m
<1>2. FirstBound(m) <=> FirstBound(l)
  <2>1. CASE Len(l) = 0
    BY <1>1, <2>1 DEF FirstBound
  <2>2. CASE Len(l) # 0
    BY <1>1, <2>2 DEF FirstBound
  <2> QED
    BY <2>1, <2>2
<1>3. FirstBound(l) => m[1] = l[1]
  BY <1>1 DEF FirstBound
<1>4. WellFormed(m)
  BY <1>1 DEF WellFormed
<1>5. r.boundAtSeq \in Nat
  BY BoundsAreNatural DEF Record
<1>6. ASSUME NEW i \in DOMAIN m, m[i].network # NULL
      PROVE  IF FirstBound(m) THEN m[i].network = m[1].network
             ELSE r.network = m[i].network /\ r.boundAtSeq < i
  <2>1. CASE i = Len(l) + 1
    BY <1>1, <1>2, <1>3, <1>5, <1>6, <2>1
  <2>2. CASE i # Len(l) + 1
    <3>1. i \in DOMAIN l /\ m[i] = l[i]
      BY <1>1, <2>2
    <3> QED
      BY <1>2, <1>3, <1>6, <3>1 DEF Explains
  <2> QED
    BY <2>1, <2>2
<1> QED
  BY <1>4, <1>6 DEF Explains, m

LEMMA PrefixIs ==
  ASSUME NEW l \in Seq(Events), NEW k \in 0 .. Len(l), WellFormed(l)
  PROVE  /\ SubSeq(l, 1, k) \in Seq(Events) /\ Len(SubSeq(l, 1, k)) = k
         /\ DOMAIN SubSeq(l, 1, k) = 1 .. k /\ (SubSeq(l, 1, k) = <<>> <=> k = 0)
         /\ \A i \in 1 .. k : i \in DOMAIN l /\ SubSeq(l, 1, k)[i] = l[i]
         /\ WellFormed(SubSeq(l, 1, k))
<1> DEFINE m == SubSeq(l, 1, k)
<1>1. Len(l) \in Nat /\ 1 \in 1 .. Len(l) + 1 /\ DOMAIN l = 1 .. Len(l) /\ k \in Nat
  BY LenProperties
<1>2. /\ m \in Seq(Events) /\ Len(m) = IF 1 <= k THEN k - 1 + 1 ELSE 0
      /\ \A i \in 1 .. k - 1 + 1 : m[i] = l[1 + i - 1]
  BY <1>1, SubSeqProperties
<1>3. Len(m) = k /\ \A i \in 1 .. k : i \in DOMAIN l /\ m[i] = l[i]
  BY <1>1, <1>2
<1>4. DOMAIN m = 1 .. k /\ (m = <<>> <=> k = 0)
  BY <1>2, <1>3, LenProperties, EmptySeq
<1> HIDE DEF m
<1>5. WellFormed(m)
  BY <1>3, <1>4 DEF WellFormed
<1> QED
  BY <1>2, <1>3, <1>4, <1>5 DEF m

\* A fork's prefix of a log is explained by what the fork copies of the record.
LEMMA ExplainsPrefix ==
  ASSUME NEW l \in Seq(Events), NEW k \in 0 .. Len(l), NEW r \in Record, Explains(l, r),
         WellFormed(l)
  PROVE  Explains(SubSeq(l, 1, k), IF r.boundAtSeq < k THEN r ELSE NoRecord)
<1> DEFINE m == SubSeq(l, 1, k)
<1>1. /\ Len(l) \in Nat /\ k \in Nat /\ DOMAIN l = 1 .. Len(l) /\ DOMAIN m = 1 .. k
      /\ (m = <<>> <=> k = 0)
      /\ \A i \in 1 .. k : i \in DOMAIN l /\ m[i] = l[i]
  BY PrefixIs, LenProperties
<1> HIDE DEF m
<1>3. FirstBound(m) => FirstBound(l) /\ m[1] = l[1]
  BY <1>1 DEF FirstBound
<1>4. k # 0 /\ FirstBound(l) => FirstBound(m)
  BY <1>1 DEF FirstBound
<1>5. r.boundAtSeq \in Nat
  BY BoundsAreNatural DEF Record
<1>6. ASSUME NEW i \in DOMAIN m, m[i].network # NULL
      PROVE  IF FirstBound(m) THEN m[i].network = m[1].network
             ELSE r.network = m[i].network /\ r.boundAtSeq < i
  <2>1. i \in DOMAIN l /\ m[i] = l[i] /\ k # 0
    BY <1>1
  <2> QED
    BY <1>3, <1>4, <1>6, <2>1 DEF Explains
<1>7. Explains(m, r)
  BY <1>6 DEF Explains
<1>8. r.boundAtSeq >= k => \A i \in DOMAIN m : m[i].network # NULL => FirstBound(m)
  BY <1>1, <1>5, <1>6
<1>9. r.boundAtSeq >= k => Explains(m, NoRecord)
  BY <1>7, <1>8 DEF Explains
<1> QED
  BY <1>1, <1>5, <1>7, <1>9 DEF m

------------------------------------------------------------------------------
(* Sessions that the step leaves alone. *)

LEMMA InheritingRestores ==
  ASSUME BindingInv, NEW s \in Sessions, Inheriting(s)
  PROVE  /\ Restoring(s) /\ host[s] \in Hosts /\ origin[s].parent \in Sessions
         /\ Pending(host[s], s)
         /\ \A h \in Hosts : Here(h, s) \/ OneHost => host[s] = h
<1>1. TypeOK /\ status[s] = "live" /\ queue[host[s]][s] # <<>>
      /\ Inherits(s, queue[host[s]][s][1]) /\ origin[s].parent # NULL
  BY DEF BindingInv, Inheriting
<1>2. host[s] \in Hosts /\ origin[s].parent \in Sessions
  BY <1>1 DEF TypeOK
<1>3. 1 \in DOMAIN queue[host[s]][s]
  BY <1>1, <1>2, QueueOf
<1>4. Restoring(s)
  BY <1>1, <1>2, <1>3 DEF Restoring, Inherits
<1> QED
  BY <1>1, <1>2, <1>4 DEF Pending, Here, OneHost

\* What a fork copies is read from its parent's record.
LEMMA InheritanceTheSame ==
  ASSUME NEW s \in Sessions, origin'[s] = origin[s],
         origin[s].parent # NULL => record'[origin[s].parent] = record[origin[s].parent]
  PROVE  Inheritance(s)' = Inheritance(s)
BY DEF Inheritance

LEMMA InheritanceTypes ==
  ASSUME TypeOK, NEW s \in Sessions
  PROVE  Inheritance(s) \in Record
<1>1. origin[s].parent \in Sessions \cup {NULL}
  BY DEF TypeOK
<1>2. origin[s].parent # NULL => record[origin[s].parent] \in Record
  BY <1>1 DEF TypeOK
<1> QED
  BY <1>2, DecisionTypes DEF Inheritance

\* The first decision of s, and its parent's record, stay as they are.
LEMMA InheritingStays ==
  ASSUME NEW s \in Sessions, Inheriting(s),
         status'[s] = status[s], host'[s] = host[s], s \in stored' => s \in stored,
         record'[s] = record[s], log'[s] = log[s], origin'[s] = origin[s],
         queue'[host[s]][s] # <<>>,
         queue'[host[s]][s][1] = queue[host[s]][s][1],
         record'[origin[s].parent] = record[origin[s].parent],
         origin[s].parent \notin pruning',
         status'[origin[s].parent] = "gone" => ~record[origin[s].parent].old
  PROVE  Inheriting(s)'
<1>1. Inheritance(s)' = Inheritance(s)
  BY InheritanceTheSame
<1>2. Inherits(s, queue[host[s]][s][1])'
  BY <1>1 DEF Inheriting, Inherits
<1> QED
  BY <1>1, <1>2 DEF Inheriting, Inherits

\* Steps that change nothing but the decisions of s, whose own inheritance goes on, is
\* given up for the properties, or is not needed.
LEMMA QueueSteps ==
  ASSUME BindingInv, NetworkInv, NEW h \in Hosts, NEW s \in Sessions,
         Here(h, s) \/ OneHost,
         UNCHANGED <<record, dsh, pruning>>, unrestored \subseteq unrestored',
         \A g \in Hosts, t \in Sessions : g # h \/ t # s => queue'[g][t] = queue[g][t],
         Sound(queue'[h][s], Reach(s)),
         Inheriting(s) => \/ s \in unrestored' \/ Explains(log[s], record[s])
                          \/ queue'[h][s] # <<>> /\ Inherits(s, queue'[h][s][1])
  PROVE  NetworkInv'
<1>1. UNCHANGED <<record, log, status, host, stored, origin, pruning>>
  BY DEF dsh
<1>2. ASSUME NEW t \in Sessions PROVE Shape(t)'
  <2>1. Shape(t) /\ Reach(t)' = Reach(t)
    BY <1>1 DEF NetworkInv, Reach
  <2>2. ASSUME NEW g \in Hosts PROVE Sound(queue'[g][t], Reach(t))
    BY <2>1 DEF Shape
  <2> QED
    BY <1>1, <2>1, <2>2 DEF Shape
<1>3. ASSUME NEW t \in Sessions PROVE Scoped(t)'
  <2>1. Scoped(t)
    BY DEF NetworkInv
  <2>2. CASE t \in unrestored \/ Explains(log[t], record[t])
    BY <1>1, <2>2 DEF Scoped
  <2>3. CASE Inheriting(t) /\ t # s
    <3>1. host[t] \in Hosts /\ queue'[host[t]][t] = queue[host[t]][t]
      BY <2>3, InheritingRestores
    <3>2. Inheriting(t)'
      BY <1>1, <2>3, <3>1, InheritingStays DEF Inheriting
    <3> QED
      BY <3>2 DEF Scoped
  <2>4. CASE Inheriting(t) /\ t = s
    <3>0. host[s] = h
      BY <2>4, InheritingRestores
    <3>1. Inheritance(s)' = Inheritance(s)
      BY <1>1 DEF Inheritance
    <3>2. CASE queue'[h][s] # <<>> /\ Inherits(s, queue'[h][s][1])
      BY <1>1, <2>4, <3>0, <3>1, <3>2 DEF Scoped, Inheriting, Inherits
    <3> QED
      BY <1>1, <2>4, <3>2 DEF Scoped
  <2> QED
    BY <2>1, <2>2, <2>3, <2>4 DEF Scoped
<1> QED
  BY <1>2, <1>3 DEF NetworkInv

------------------------------------------------------------------------------
(* Decisions. *)

LEMMA SoundEmpty == \A n : Sound(<<>>, n)
BY DEF Sound

LEMMA SoundPush ==
  ASSUME NEW q \in Seq(Decisions), NEW n \in Nat, Sound(q, n), NEW d \in Decisions, ~Writing(d)
  PROVE  /\ Sound(Append(q, d), n) /\ Append(q, d) # <<>>
         /\ q # <<>> => Append(q, d)[1] = q[1]
<1>1. /\ Append(q, d) \in Seq(Decisions) /\ Len(q) \in Nat /\ DOMAIN q = 1 .. Len(q)
      /\ DOMAIN Append(q, d) = 1 .. Len(q) + 1
      /\ \A i \in 1 .. Len(q) : Append(q, d)[i] = q[i]
      /\ Append(q, d)[Len(q) + 1] = d
  BY AppendProperties, LenProperties
<1>2. Append(q, d) # <<>> /\ (q # <<>> => Len(q) # 0)
  BY <1>1, EmptySeq
<1>3. d.write = NoRecord /\ d.write.boundAtSeq = 0
  BY DEF Writing, NoRecord
<1>4. ASSUME NEW i \in DOMAIN Append(q, d)
      PROVE  (i \in DOMAIN q /\ Append(q, d)[i] = q[i]) \/ Append(q, d)[i] = d
  BY <1>1
<1> QED
  BY <1>1, <1>2, <1>3, <1>4 DEF Sound

LEMMA SoundPop ==
  ASSUME NEW q \in Seq(Decisions), NEW n, Sound(q, n), q # <<>>
  PROVE  Sound(Tail(q), n)
<1>1. /\ Tail(q) \in Seq(Decisions) /\ Len(q) \in Nat /\ Len(q) # 0 /\ DOMAIN q = 1 .. Len(q)
      /\ Len(Tail(q)) = Len(q) - 1
      /\ \A i \in 1 .. Len(Tail(q)) : Tail(q)[i] = q[i + 1]
  BY HeadTailProperties, LenProperties, EmptySeq
<1>2. DOMAIN Tail(q) = 1 .. Len(q) - 1
  BY <1>1, LenProperties
<1>3. ASSUME NEW i \in DOMAIN Tail(q)
      PROVE  i + 1 \in DOMAIN q /\ Tail(q)[i] = q[i + 1]
  BY <1>1, <1>2
<1> QED
  BY <1>3 DEF Sound

LEMMA SoundWrite ==
  ASSUME NEW q \in Seq(Decisions), NEW n, Sound(q, n), q # <<>>, NEW e \in Decisions,
         e.write.network = NULL => e.write = NoRecord, e.write.boundAtSeq <= n
  PROVE  /\ Sound(<<e>> \o Tail(q), n) /\ <<e>> \o Tail(q) # <<>>
         /\ (<<e>> \o Tail(q))[1] = e
<1>1. /\ Tail(q) \in Seq(Decisions) /\ Len(q) \in Nat /\ Len(q) # 0 /\ DOMAIN q = 1 .. Len(q)
      /\ Len(Tail(q)) = Len(q) - 1
      /\ \A i \in 1 .. Len(Tail(q)) : Tail(q)[i] = q[i + 1]
  BY HeadTailProperties, LenProperties, EmptySeq
<1>2. <<e>> \in Seq(Decisions) /\ Len(<<e>>) = 1 /\ <<e>>[1] = e
  OBVIOUS
<1> DEFINE r == <<e>> \o Tail(q)
<1>3. /\ r \in Seq(Decisions) /\ Len(r) = Len(q)
      /\ \A i \in 1 .. Len(q) : r[i] = IF i <= 1 THEN <<e>>[i] ELSE Tail(q)[i - 1]
  BY <1>1, <1>2, ConcatProperties
<1>4. DOMAIN r = DOMAIN q /\ r # <<>>
  BY <1>1, <1>3, LenProperties, EmptySeq
<1>5. r[1] = e
  BY <1>1, <1>2, <1>3
<1>6. ASSUME NEW i \in DOMAIN r, i # 1 PROVE r[i] = q[i]
  BY <1>1, <1>3, <1>4, <1>6
<1> HIDE DEF r
<1>7. Sound(r, n)
  BY <1>4, <1>5, <1>6 DEF Sound
<1> QED
  BY <1>4, <1>5, <1>7 DEF r

LEMMA SoundDisposed ==
  ASSUME NEW q \in Seq(Decisions), NEW n, Sound(q, n)
  PROVE  Sound(Disposed(q), n)
<1>1. \A d \in Decisions : [d EXCEPT !.agent = FALSE].write = d.write
  BY DEF Decisions
<1>2. \A i \in DOMAIN q : q[i] \in Decisions
  BY LenProperties, ElementOfSeq
<1>3. ASSUME NEW i \in DOMAIN Disposed(q)
      PROVE  i \in DOMAIN q /\ Disposed(q)[i].write = q[i].write
  <2> DEFINE d == q[i]
  <2>1. i \in DOMAIN q /\ d \in Decisions /\ Disposed(q)[i] = [d EXCEPT !.agent = FALSE]
    BY <1>2 DEF Disposed
  <2> HIDE DEF d
  <2>2. Disposed(q)[i].write = d.write
    BY <1>1, <2>1
  <2> QED
    BY <2>1, <2>2 DEF d
<1> QED
  BY <1>3 DEF Sound

LEMMA SoundMore ==
  ASSUME NEW q \in Seq(Decisions), NEW n \in Nat, NEW m \in Nat, Sound(q, n), n <= m
  PROVE  Sound(q, m)
<1>1. \A i \in DOMAIN q : q[i].write.boundAtSeq \in Nat
  <2>1. \A i \in DOMAIN q : q[i] \in Decisions
    BY LenProperties, ElementOfSeq
  <2>2. \A d \in Decisions : d.write.boundAtSeq \in Nat
    BY BoundsAreNatural DEF Decisions, Record
  <2> QED
    BY <2>1, <2>2
<1> QED
  BY <1>1 DEF Sound

LEMMA ReachIs ==
  ASSUME TypeOK, NEW s \in Sessions
  PROVE  /\ Reach(s) \in Nat /\ Reach(s) <= MaxEvents
         /\ Len(log[s]) \in Nat /\ Len(log[s]) <= Reach(s)
<1>1. log[s] \in Seq(Events) /\ Len(log[s]) <= MaxEvents
  BY DEF TypeOK
<1> QED
  BY <1>1, LenProperties, BoundsAreNatural DEF Reach

LEMMA QueueSound ==
  ASSUME BindingInv, NetworkInv, NEW h \in Hosts, NEW s \in Sessions
  PROVE  /\ queue[h][s] \in Seq(Decisions) /\ Sound(queue[h][s], Reach(s)) /\ Reach(s) \in Nat
         /\ Len(log[s]) \in Nat /\ Len(log[s]) <= Reach(s)
<1>1. TypeOK /\ Shape(s)
  BY DEF BindingInv, NetworkInv
<1> QED
  BY <1>1, QueueOf, ReachIs DEF Shape

\* A decision that joins the queue leaves the first one where it is.
LEMMA PushKeeps ==
  ASSUME BindingInv, NetworkInv, NEW h \in Hosts, NEW s \in Sessions,
         Here(h, s) \/ OneHost, NEW d \in Decisions, ~Writing(d), Push(h, s, d),
         UNCHANGED <<record, dsh, pruning, unrestored>>
  PROVE  NetworkInv'
<1> DEFINE q == Append(queue[h][s], d)
<1>1. /\ Sound(q, Reach(s)) /\ q # <<>> /\ (queue[h][s] # <<>> => q[1] = queue[h][s][1])
      /\ q \in Seq(Decisions)
  BY QueueSound, SoundPush, AppendProperties
<1>2. Replaced(h, s, q)
  BY DEF Push, Replaced
<1> HIDE DEF q
<1>3. /\ queue'[h][s] = q
      /\ \A g \in Hosts, t \in Sessions : g # h \/ t # s => queue'[g][t] = queue[g][t]
  BY <1>1, <1>2, QueueSet DEF BindingInv
<1>4. Inheriting(s) => queue'[h][s] # <<>> /\ Inherits(s, queue'[h][s][1])
  BY <1>1, <1>3, InheritingRestores DEF Inheriting
<1> QED
  BY <1>1, <1>3, <1>4, QueueSteps

LEMMA PopKeeps ==
  ASSUME BindingInv, NetworkInv, NEW h \in Hosts, NEW s \in Sessions, queue[h][s] # <<>>,
         Pop(h, s), UNCHANGED <<record, dsh, pruning>>, unrestored \subseteq unrestored',
         Inheriting(s) => s \in unrestored' \/ Explains(log[s], record[s])
  PROVE  NetworkInv'
<1> DEFINE q == Tail(queue[h][s])
<1>1. Sound(q, Reach(s)) /\ q \in Seq(Decisions)
  BY QueueSound, SoundPop, HeadTailProperties
<1>2. Replaced(h, s, q)
  BY DEF Pop, Replaced
<1> HIDE DEF q
<1>3. /\ queue'[h][s] = q /\ (Here(h, s) \/ OneHost)
      /\ \A g \in Hosts, t \in Sessions : g # h \/ t # s => queue'[g][t] = queue[g][t]
  BY <1>1, <1>2, QueueSet, QueuedOf DEF BindingInv
<1> QED
  BY <1>1, <1>3, QueueSteps

LEMMA UserBindKeeps ==
  ASSUME BindingInv, NetworkInv, NEW h \in Hosts, NEW s \in Sessions, NEW n \in Networks,
         UserBind(h, s, n)
  PROVE  NetworkInv'
BY DecisionTypes, PushKeeps DEF UserBind, Here

LEMMA WriteFailsKeeps ==
  ASSUME BindingInv, NetworkInv, NEW h \in Hosts, NEW s \in Sessions, WriteFails(h, s)
  PROVE  NetworkInv'
<1>1. /\ queue[h][s] # <<>> /\ Pop(h, s) /\ UNCHANGED <<record, dsh, pruning>>
      /\ unrestored \subseteq unrestored'
      /\ Head(queue[h][s]).by = "inherit" => s \in unrestored'
  BY DEF WriteFails
<1>2. (Inheriting(s) => host[s] = h) /\ Head(queue[h][s]) = queue[h][s][1]
  BY <1>1, QueuedOf, QueueOf, InheritingRestores DEF BindingInv
<1>3. Inheriting(s) => s \in unrestored'
  BY <1>1, <1>2 DEF Inheriting, Inherits
<1> QED
  BY <1>1, <1>3, PopKeeps

LEMMA RenewedNothing == [NoRecord EXCEPT !.old = FALSE] = NoRecord
<1>1. \A r \in Record : r.old = FALSE => [r EXCEPT !.old = FALSE] = r
  BY DEF Record
<1> QED
  BY <1>1, DecisionTypes DEF NoRecord

\* What a decision writes fits the log, and the first one of a fork is its parent's record.
LEMMA DecideKeeps ==
  ASSUME BindingInv, NetworkInv, NEW h \in Hosts, NEW s \in Sessions, Decide(h, s)
  PROVE  NetworkInv'
<1> DEFINE q == queue[h][s]
           d == Head(q)
           w == WriteOf(s, d)
           e == [d EXCEPT !.write = w]
           inherited == [Inheritance(s) EXCEPT !.old = FALSE]
<1>1. /\ TypeOK /\ q # <<>> /\ d = q[1] /\ d \in Decisions /\ ~Writing(d)
      /\ (Here(h, s) \/ OneHost) /\ (Inheriting(s) => host[s] = h)
      /\ d.by # "inherit" => d.network # NULL
  <2>1. q # <<>> /\ ~Writing(d) /\ TypeOK /\ Orderly(q, Reads(s), Here(h, s))
    BY DEF Decide, BindingInv, WritesWhereUnbound
  <2> QED
    BY <2>1, QueueOf, QueuedOf, InheritingRestores DEF Orderly
<1>2. /\ q \in Seq(Decisions) /\ Sound(q, Reach(s)) /\ Reach(s) \in Nat
      /\ Len(log[s]) \in Nat /\ Len(log[s]) <= Reach(s) /\ Shape(s)
  BY QueueSound DEF NetworkInv
<1>3. /\ UNCHANGED <<record, dsh, pruning, unrestored>>
      /\ \/ w # NoRecord /\ queue' = [queue EXCEPT ![h][s] = <<e>> \o Tail(q)]
         \/ w = NoRecord /\ Pop(h, s)
  BY DEF Decide, AfterRejection
<1>4. /\ Inheritance(s) \in Record /\ inherited \in Record
      /\ inherited.network = Inheritance(s).network
      /\ inherited.boundAtSeq = Inheritance(s).boundAtSeq
  BY <1>1, InheritanceTypes DEF Record
<1>5. /\ inherited.network = NULL => inherited = NoRecord
      /\ inherited.boundAtSeq <= Reach(s)
  <2>1. NoRecord.boundAtSeq = 0
    BY DEF NoRecord
  <2>2. CASE Inheritance(s) = NoRecord
    <3>1. inherited = NoRecord
      BY <2>2, RenewedNothing
    <3> HIDE DEF inherited
    <3> QED
      BY <1>2, <2>1, <3>1
  <2>3. CASE Inheritance(s) # NoRecord
    <3>1. /\ origin[s].parent # NULL /\ Inheritance(s) = record[origin[s].parent]
          /\ Inheritance(s).boundAtSeq < origin[s].inheritedEventCount
      BY <2>3 DEF Inheritance
    <3>2. origin[s].parent \in Sessions /\ origin[s].inheritedEventCount \in 0 .. MaxEvents
      BY <1>1, <3>1 DEF TypeOK
    <3>3. Shape(origin[s].parent) /\ origin[s].inheritedEventCount <= Len(log[s])
      BY <1>2, <3>2 DEF NetworkInv, Shape
    <3>4. Inheritance(s).network # NULL
      BY <2>3, <3>1, <3>3 DEF Shape
    <3>5. Inheritance(s).boundAtSeq \in Nat /\ origin[s].inheritedEventCount \in Nat
      BY <1>4, <3>2, BoundsAreNatural DEF Record
    <3> QED
      BY <1>2, <1>4, <3>1, <3>3, <3>4, <3>5
  <2> QED
    BY <2>2, <2>3
<1>6. Inheriting(s) => d.by = "inherit" /\ d.agent /\ Explains(log[s], Inheritance(s))
                       /\ record[s] = NoRecord
  BY <1>1 DEF Inheriting, Inherits
<1>7. CASE w # NoRecord /\ queue' = [queue EXCEPT ![h][s] = <<e>> \o Tail(q)]
  <2>1. w = IF d.by = "inherit" THEN inherited ELSE NewRecord(d.network, Len(log[s]))
    BY <1>7 DEF WriteOf
  <2>2. w \in Record /\ (w.network = NULL => w = NoRecord) /\ w.boundAtSeq <= Reach(s)
    <3>1. CASE d.by = "inherit"
      BY <1>4, <1>5, <2>1, <3>1
    <3>2. CASE d.by # "inherit"
      <4>1. w = [network |-> d.network, boundAtSeq |-> Len(log[s]), old |-> FALSE]
        BY <2>1, <3>2 DEF NewRecord
      <4>2. d.network \in Networks \cup {NULL} /\ d.network # NULL /\ Len(log[s]) \in 0 .. MaxEvents
        BY <1>1, <1>2, <3>2, BoundsAreNatural DEF Decisions, TypeOK
      <4> HIDE DEF d, q
      <4> QED
        BY <1>2, <4>1, <4>2 DEF Record
    <3> QED
      BY <3>1, <3>2
  <2>3. e \in Decisions /\ e.write = w /\ e.by = d.by /\ e.agent = d.agent
    BY <1>1, <2>2 DEF Decisions
  <2>4. Inheriting(s) => Inherits(s, e)
    BY <1>6, <2>1, <2>3 DEF Inherits
  <2> HIDE DEF e, w, inherited
  <2> DEFINE r == <<e>> \o Tail(q)
  <2>5. Sound(r, Reach(s)) /\ r # <<>> /\ r[1] = e
    BY <1>1, <1>2, <2>2, <2>3, SoundWrite
  <2>6. r \in Seq(Decisions)
    BY <1>1, <1>2, <2>3, HeadTailProperties, ConcatProperties
  <2>7. Replaced(h, s, r)
    BY <1>7 DEF Replaced
  <2> HIDE DEF r
  <2>8. /\ queue'[h][s] = r
        /\ \A g \in Hosts, t \in Sessions : g # h \/ t # s => queue'[g][t] = queue[g][t]
    BY <1>1, <2>6, <2>7, QueueSet
  <2> QED
    BY <1>1, <1>3, <2>4, <2>5, <2>8, QueueSteps
<1>8. CASE w = NoRecord /\ Pop(h, s)
  <2>1. ASSUME Inheriting(s) PROVE Explains(log[s], record[s])
    <3>1. CASE Reads(s) = NULL
      <4>1. inherited = NoRecord
        BY <1>6, <1>8, <2>1, <3>1 DEF WriteOf, Reads
      <4>2. Inheritance(s).network = NULL
        BY <1>4, <4>1 DEF NoRecord
      <4> QED
        BY <1>6, <2>1, <4>2, ExplainedByAny
    <3>2. CASE Reads(s) # NULL
      <4>1. FirstBound(log[s])
        BY <1>1, <1>2, <1>6, <2>1, <3>2, ReadsIs DEF NoRecord
      <4> QED
        BY <1>6, <2>1, <4>1, ExplainedByAny
    <3> QED
      BY <3>1, <3>2
  <2> QED
    BY <1>1, <1>3, <1>8, <2>1, PopKeeps
<1> QED
  BY <1>3, <1>7, <1>8

\* The record appears: a fork of s that waits for it had nothing to inherit, since s was
\* unbound when the decision to write was taken.
LEMMA WriteDoneKeeps ==
  ASSUME BindingInv, NetworkInv, NEW h \in Hosts, NEW s \in Sessions, WriteDone(h, s)
  PROVE  NetworkInv'
<1> DEFINE q == queue[h][s]
           d == Head(q)
<1>1. /\ TypeOK /\ q # <<>> /\ d = q[1] /\ 1 \in DOMAIN q /\ Writing(d)
      /\ (Inheriting(s) => host[s] = h)
      /\ Reads(s) = NULL /\ Pop(h, s)
  <2>1. q # <<>> /\ Writing(d) /\ TypeOK /\ Orderly(q, Reads(s), Here(h, s)) /\ Pop(h, s)
    BY DEF WriteDone, BindingInv, WritesWhereUnbound
  <2>2. d = q[1] /\ 1 \in DOMAIN q /\ (Inheriting(s) => host[s] = h)
    BY <2>1, QueueOf, QueuedOf, InheritingRestores
  <2> QED
    BY <2>1, <2>2 DEF Orderly
<1>2. /\ UNCHANGED <<log, status, host, stored, origin, pruning, unrestored>>
      /\ record' = [record EXCEPT ![s] = d.write]
  BY DEF WriteDone, dsh
<1>3. record'[s] = d.write /\ \A t \in Sessions : t # s => record'[t] = record[t]
  BY <1>1, <1>2 DEF TypeOK
<1>4. /\ q \in Seq(Decisions) /\ Sound(q, Reach(s)) /\ Shape(s)
      /\ d.write.network = NULL => d.write = NoRecord
      /\ d.write.boundAtSeq <= Reach(s)
  BY <1>1, QueueSound DEF NetworkInv, Sound
<1>5. /\ Sound(queue'[h][s], Reach(s))
      /\ \A g \in Hosts, t \in Sessions : g # h \/ t # s => queue'[g][t] = queue[g][t]
  <2> DEFINE r == Tail(q)
  <2>1. r \in Seq(Decisions) /\ Sound(r, Reach(s))
    BY <1>1, <1>4, SoundPop, HeadTailProperties
  <2>2. Replaced(h, s, r)
    BY <1>1 DEF Pop, Replaced
  <2> HIDE DEF r
  <2> QED
    BY <1>1, <2>1, <2>2, QueueSet
<1>6. record[s].network = NULL /\ record[s] = NoRecord /\ ~FirstBound(log[s])
  BY <1>1, <1>4, ReadsIs DEF Shape
<1>7. /\ Inheriting(s) => /\ Inherits(s, d) /\ Explains(log[s], Inheritance(s))
      /\ Inheriting(s) => d.write = [Inheritance(s) EXCEPT !.old = FALSE]
  BY <1>1 DEF Inheriting, Inherits
<1> HIDE DEF d, q
<1>8. ASSUME NEW t \in Sessions PROVE Shape(t)'
  <2>1. Shape(t) /\ Reach(t)' = Reach(t)
    BY <1>2 DEF NetworkInv, Reach
  <2>2. ASSUME NEW g \in Hosts PROVE Sound(queue'[g][t], Reach(t))
    BY <1>5, <2>1 DEF Shape
  <2>3. CASE t = s
    BY <1>2, <1>3, <1>4, <2>1, <2>2, <2>3 DEF Shape
  <2>4. CASE t # s
    BY <1>2, <1>3, <2>1, <2>2, <2>4 DEF Shape
  <2> QED
    BY <2>3, <2>4
<1>9. ASSUME NEW t \in Sessions PROVE Scoped(t)'
  <2>1. Scoped(t)
    BY DEF NetworkInv
  <2>2. CASE t \in unrestored
    BY <1>2, <2>2 DEF Scoped
  <2>3. CASE Explains(log[t], record[t])
    <3>1. CASE t = s
      <4>1. Explains(log[s], record'[s])
        BY <1>6, <2>3, <3>1, ExplainedByAny
      <4> QED
        BY <1>2, <3>1, <4>1 DEF Scoped
    <3>2. CASE t # s
      BY <1>2, <1>3, <2>3, <3>2 DEF Scoped
    <3> QED
      BY <3>1, <3>2
  <2>4. CASE Inheriting(t) /\ t = s
    <3>1. Inheritance(s) \in Record
      BY <1>1, InheritanceTypes
    <3>2. /\ record'[s].network = Inheritance(s).network
          /\ record'[s].boundAtSeq = Inheritance(s).boundAtSeq
      BY <1>3, <1>7, <2>4, <3>1 DEF Record
    <3>3. Explains(log[s], record'[s])
      BY <1>7, <2>4, <3>2, ExplainsAnyAge
    <3> QED
      BY <1>2, <2>4, <3>3 DEF Scoped
  <2>5. CASE Inheriting(t) /\ t # s /\ origin[t].parent = s
    <3>1. Inheritance(t).network = NULL
      BY <1>6, <2>5 DEF Inheritance, NoRecord
    <3>2. Explains(log[t], record[t])
      BY <2>5, <3>1, ExplainedByAny DEF Inheriting
    <3> QED
      BY <1>2, <1>3, <2>5, <3>2 DEF Scoped
  <2>6. CASE Inheriting(t) /\ t # s /\ origin[t].parent # s
    <3>1. /\ host[t] \in Hosts /\ queue'[host[t]][t] = queue[host[t]][t]
          /\ origin[t].parent \in Sessions
      BY <1>5, <2>6, InheritingRestores
    <3>2. Inheriting(t)'
      BY <1>2, <1>3, <2>6, <3>1, InheritingStays DEF Inheriting
    <3> QED
      BY <3>2 DEF Scoped
  <2> QED
    BY <2>1, <2>2, <2>3, <2>4, <2>5, <2>6 DEF Scoped
<1> QED
  BY <1>8, <1>9 DEF NetworkInv

LEMMA NothingChanges ==
  ASSUME NetworkInv, UNCHANGED <<record, dsh, queue, pruning, unrestored>>
  PROVE  NetworkInv'
BY DEF NetworkInv, Shape, Scoped, Inheriting, Inherits, Inheritance, Reach, dsh

LEMMA ContinueKeeps ==
  ASSUME BindingInv, NetworkInv, NEW x \in settled, Continue(x)
  PROVE  NetworkInv'
<1>1. /\ x.host \in Hosts /\ x.session \in Sessions
      /\ Here(x.host, x.session) \/ OneHost
  BY SettledOf
<1>2. UNCHANGED <<record, dsh, pruning, unrestored>>
  BY DEF Continue, BindContinues, RestoreContinues
<1>3. \/ UNCHANGED queue
      \/ \E n \in Networks : Push(x.host, x.session, Decision("workspace", n))
  BY DEF Continue, BindContinues, RestoreContinues
<1>4. ASSUME NEW n \in Networks, Push(x.host, x.session, Decision("workspace", n))
      PROVE  NetworkInv'
  BY <1>1, <1>2, <1>4, DecisionTypes, PushKeeps
<1> QED
  BY <1>2, <1>3, <1>4, NothingChanges

------------------------------------------------------------------------------
(* Sessions come and go. *)

\* A session goes live with a log that its record explains, or, a new fork, with one that
\* the record it is about to inherit explains.
LEMMA GoesLiveKeeps ==
  ASSUME BindingInv, NetworkInv, NEW h \in Hosts, NEW s \in Sessions,
         status[s] \in {"unborn", "closed"},
         NEW seeded \in BOOLEAN, NEW lost \in SUBSET Sessions, GoesLive(h, s, seeded, lost),
         UNCHANGED <<record, stored, pruning>>,
         \A t \in Sessions : t # s => log'[t] = log[t] /\ origin'[t] = origin[t],
         status[s] = "closed" => log'[s] = log[s],
         log'[s] \in Seq(Events), WellFormed(log'[s]),
         origin'[s].inheritedEventCount <= Len(log'[s]),
         record[s].boundAtSeq <= Len(log'[s]),
         \/ s \in unrestored \cup lost
         \/ Explains(log'[s], record[s])
         \/ /\ seeded /\ s \notin stored /\ record[s] = NoRecord
            /\ Explains(log'[s], Inheritance(s)')
            /\ origin'[s].parent \in Sessions \ {s} /\ origin'[s].parent \notin pruning
            /\ status[origin'[s].parent] # "gone"
  PROVE  NetworkInv'
<1> DEFINE d == Decision("inherit", NULL)
<1>1. /\ TypeOK /\ status[s] # "live"
      /\ s \notin stored => \A g \in Hosts : queue[g][s] = <<>>
      /\ status[s] = "unborn" => \A g \in Hosts : queue[g][s] = <<>>
  <2>1. status[s] = "closed" => s \in stored
    BY DEF BindingInv, OldIsStored, Accounted
  <2> QED
    BY <2>1, NotLive DEF BindingInv
<1>2. d \in Decisions /\ ~Writing(d) /\ d.by = "inherit" /\ d.agent
  BY DecisionTypes DEF Decision
<1>3. /\ status' = [status EXCEPT ![s] = "live"] /\ host' = [host EXCEPT ![s] = h]
      /\ unrestored \cup lost \subseteq unrestored'
      /\ \/ Push(h, s, d) /\ seeded
         \/ queue' = queue /\ (seeded => s \in unrestored')
  BY DEF GoesLive, Restore
<1>4. /\ status'[s] = "live" /\ host'[s] = h
      /\ \A t \in Sessions : t # s => status'[t] = status[t] /\ host'[t] = host[t]
  BY <1>1, <1>3 DEF TypeOK
<1> HIDE DEF d
<1> DEFINE n == Len(log'[s])
           q == Append(queue[h][s], d)
<1>5. n \in Nat /\ \A g \in Hosts : Sound(queue[g][s], n)
  <2>1. status[s] = "closed" => \A g \in Hosts : Sound(queue[g][s], n)
    BY DEF NetworkInv, Shape, Reach
  <2> QED
    BY <1>1, <2>1, SoundEmpty, LenProperties
<1>6. /\ q \in Seq(Decisions) /\ Sound(q, n) /\ q # <<>>
      /\ s \notin stored => q[1] = d
  <2>1. queue[h][s] \in Seq(Decisions)
    BY <1>1, QueueOf
  <2>2. q \in Seq(Decisions) /\ Sound(q, n) /\ q # <<>>
    BY <1>2, <1>5, <2>1, SoundPush, AppendProperties
  <2>3. Append(<<>>, d)[1] = d
    OBVIOUS
  <2> QED
    BY <1>1, <2>2, <2>3
<1>7. Push(h, s, d) => Replaced(h, s, q)
  BY DEF Push, Replaced
<1> HIDE DEF q, n
<1>8. /\ \A g \in Hosts, t \in Sessions : g # h \/ t # s => queue'[g][t] = queue[g][t]
      /\ queue'[h][s] = q \/ queue'[h][s] = queue[h][s]
      /\ seeded /\ s \notin unrestored' => queue'[h][s] = q
  BY <1>1, <1>3, <1>6, <1>7, QueueSet
<1>9. ASSUME NEW t \in Sessions PROVE Shape(t)'
  <2>1. Shape(t)
    BY DEF NetworkInv
  <2>2. CASE t # s
    <3>1. Reach(t)' = Reach(t)
      BY <1>4, <2>2 DEF Reach
    <3>2. ASSUME NEW g \in Hosts PROVE Sound(queue'[g][t], Reach(t))
      BY <1>8, <2>1, <2>2 DEF Shape
    <3> QED
      BY <1>4, <2>1, <2>2, <3>1, <3>2 DEF Shape
  <2>3. CASE t = s
    <3>1. Reach(s)' = n
      BY <1>4 DEF Reach, n
    <3>2. ASSUME NEW g \in Hosts PROVE Sound(queue'[g][s], n)
      BY <1>5, <1>6, <1>8
    <3>3. record[s].boundAtSeq <= n /\ origin'[s].inheritedEventCount <= Len(log'[s])
      BY DEF n
    <3> QED
      BY <1>4, <2>1, <2>3, <3>1, <3>2, <3>3 DEF Shape
  <2> QED
    BY <2>2, <2>3
<1>10. ASSUME NEW t \in Sessions PROVE Scoped(t)'
  <2>1. Scoped(t)
    BY DEF NetworkInv
  <2>2. CASE t = s
    <3>1. CASE s \in unrestored \cup lost \/ Explains(log'[s], record[s])
      BY <1>3, <2>2, <3>1 DEF Scoped
    <3>2. CASE /\ seeded /\ s \notin stored /\ record[s] = NoRecord
               /\ Explains(log'[s], Inheritance(s)')
               /\ origin'[s].parent \in Sessions \ {s} /\ origin'[s].parent \notin pruning
               /\ status[origin'[s].parent] # "gone"
      <4>1. CASE s \in unrestored'
        BY <2>2, <4>1 DEF Scoped
      <4>2. CASE s \notin unrestored'
        <5>1. queue'[h][s] # <<>> /\ queue'[h][s][1] = d
          BY <1>6, <1>8, <3>2, <4>2
        <5>2. Inherits(s, d)'
          BY <1>2 DEF Inherits, Writing
        <5>3. origin'[s].parent # NULL /\ status'[origin'[s].parent] # "gone"
          BY <1>4, <3>2, NullIsNoNetwork
        <5>4. Inheriting(s)'
          BY <1>2, <1>4, <3>2, <5>1, <5>3 DEF Inheriting, Inherits
        <5> QED
          BY <2>2, <5>4 DEF Scoped
      <4> QED
        BY <4>1, <4>2
    <3> QED
      BY <3>1, <3>2
  <2>3. CASE t # s /\ (t \in unrestored \/ Explains(log[t], record[t]))
    BY <1>3, <2>3 DEF Scoped
  <2>4. CASE t # s /\ Inheriting(t)
    <3>1. /\ host[t] \in Hosts /\ queue'[host[t]][t] = queue[host[t]][t]
          /\ origin[t].parent \in Sessions
      BY <1>8, <2>4, InheritingRestores
    <3>2. status'[origin[t].parent] = "gone" => status[origin[t].parent] = "gone"
      BY <1>4, <3>1
    <3>3. Inheriting(t)'
      BY <1>4, <2>4, <3>1, <3>2, InheritingStays DEF Inheriting
    <3> QED
      BY <3>3 DEF Scoped
  <2> QED
    BY <2>1, <2>2, <2>3, <2>4 DEF Scoped
<1> QED
  BY <1>9, <1>10 DEF NetworkInv

LEMMA CreateKeeps ==
  ASSUME BindingInv, NetworkInv, NEW h \in Hosts, NEW s \in Sessions, Create(h, s)
  PROVE  NetworkInv'
<1>1. /\ status[s] = "unborn" /\ GoesLive(h, s, FALSE, {})
      /\ UNCHANGED <<record, log, stored, origin, pruning>>
      /\ {} \in SUBSET Sessions /\ FALSE \in BOOLEAN
  BY DEF Create
<1>2. /\ log[s] \in Seq(Events) /\ WellFormed(log[s]) /\ log[s] = <<>>
      /\ origin[s].inheritedEventCount <= Len(log[s]) /\ record[s].boundAtSeq <= Len(log[s])
  BY <1>1 DEF BindingInv, TypeOK, NetworkInv, Shape, Reach
<1>3. Explains(log[s], record[s])
  BY <1>2, ExplainsNothing
<1> QED
  BY <1>1, <1>2, <1>3, GoesLiveKeeps

LEMMA ReopenKeeps ==
  ASSUME BindingInv, NetworkInv, NEW h \in Hosts, NEW s \in Sessions, Reopen(h, s)
  PROVE  NetworkInv'
<1> DEFINE seeded == origin[s].parent # NULL
<1>1. /\ status[s] = "closed" /\ GoesLive(h, s, seeded, {})
      /\ UNCHANGED <<record, log, stored, origin, pruning>>
      /\ {} \in SUBSET Sessions /\ seeded \in BOOLEAN
  BY DEF Reopen
<1> HIDE DEF seeded
<1>2. /\ log[s] \in Seq(Events) /\ WellFormed(log[s])
      /\ origin[s].inheritedEventCount <= Len(log[s]) /\ record[s].boundAtSeq <= Len(log[s])
  BY <1>1 DEF BindingInv, TypeOK, NetworkInv, Shape, Reach
<1>3. s \in unrestored \/ Explains(log[s], record[s])
  BY <1>1 DEF NetworkInv, Scoped, Inheriting
<1> QED
  BY <1>1, <1>2, <1>3, GoesLiveKeeps

\* A fork starts from a session whose restoration has ended, and copies a prefix of its log.
LEMMA ForkKeeps ==
  ASSUME BindingInv, NetworkInv, NEW h \in Hosts, NEW s \in Sessions, NEW p \in Sessions,
         NEW k \in 0 .. MaxEvents, Fork(h, p, s, k)
  PROVE  NetworkInv'
<1> DEFINE q == SubSeq(log[p], 1, k)
           o == [parent |-> p, inheritedEventCount |-> k]
           lost == IF p \in unrestored THEN {s} ELSE {}
<1>1. /\ TypeOK /\ status[s] = "unborn" /\ k \in 0 .. Len(log[p]) /\ log[p] \in Seq(Events)
      /\ status[p] \in {"closed", "live"} /\ (status[p] = "live" => ~Restoring(p))
      /\ log' = [log EXCEPT ![s] = q] /\ origin' = [origin EXCEPT ![s] = o]
      /\ GoesLive(h, s, TRUE, lost) /\ UNCHANGED <<record, stored, pruning>>
      /\ lost \in SUBSET Sessions /\ TRUE \in BOOLEAN /\ p # s
  BY DEF BindingInv, TypeOK, Fork
<1>2. Shape(p) /\ Shape(s) /\ record[s] = NoRecord /\ s \notin stored /\ p \notin pruning
  BY <1>1 DEF NetworkInv, Shape, BindingInv, OldIsStored, Accounted
<1>3. p \in unrestored \/ Explains(log[p], record[p])
  <2>1. Inheriting(p) => status[p] = "live" /\ Restoring(p)
    BY InheritingRestores DEF Inheriting
  <2> QED
    BY <1>1, <2>1 DEF NetworkInv, Scoped
<1>4. p \in unrestored => s \in lost
  OBVIOUS
<1>5. q \in Seq(Events) /\ Len(q) = k /\ WellFormed(q)
  BY <1>1, <1>2, PrefixIs DEF Shape
<1>6. Explains(log[p], record[p]) =>
        Explains(q, IF record[p].boundAtSeq < k THEN record[p] ELSE NoRecord)
  <2>1. record[p] \in Record
    BY <1>1 DEF TypeOK
  <2> QED
    BY <1>1, <1>2, <2>1, ExplainsPrefix DEF Shape
<1> HIDE DEF q, lost
<1>7. /\ log'[s] = q /\ origin'[s] = o /\ o.parent = p /\ o.inheritedEventCount = k
      /\ \A t \in Sessions : t # s => log'[t] = log[t] /\ origin'[t] = origin[t]
  BY <1>1 DEF TypeOK
<1>8. Inheritance(s)' = IF record[p].boundAtSeq < k THEN record[p] ELSE NoRecord
  <2>1. p # NULL
    BY NullIsNoNetwork
  <2> QED
    BY <1>1, <1>7, <2>1 DEF Inheritance
<1>9. record[s].boundAtSeq <= Len(q)
  BY <1>1, <1>2, <1>5, LenProperties DEF NoRecord
<1> HIDE DEF o
<1>10. \/ s \in unrestored \cup lost
       \/ /\ TRUE /\ s \notin stored /\ record[s] = NoRecord
          /\ Explains(log'[s], Inheritance(s)')
          /\ origin'[s].parent \in Sessions \ {s} /\ origin'[s].parent \notin pruning
          /\ status[origin'[s].parent] # "gone"
  BY <1>1, <1>2, <1>3, <1>4, <1>6, <1>7, <1>8
<1>11. /\ log'[s] \in Seq(Events) /\ WellFormed(log'[s])
       /\ origin'[s].inheritedEventCount <= Len(log'[s]) /\ record[s].boundAtSeq <= Len(log'[s])
  BY <1>1, <1>5, <1>7, <1>9
<1> QED
  BY <1>1, <1>7, <1>10, <1>11, GoesLiveKeeps

\* A turn runs under the network that is read, or under none.  A fork's before its record
\* is there is accounted for by the properties.
LEMMA LogTurnKeeps ==
  ASSUME BindingInv, NetworkInv, NEW s \in Sessions, LogTurn(s)
  PROVE  NetworkInv'
<1> DEFINE e == [kind |-> "turn", network |-> mounted[s]]
           l == log[s]
<1>1. /\ TypeOK /\ status[s] = "live" /\ l \in Seq(Events) /\ Len(l) \in Nat
      /\ Shape(s) /\ record[s] \in Record
  BY LenProperties DEF BindingInv, TypeOK, LogTurn, NetworkInv
<1>2. e \in Events /\ e.kind = "turn" /\ e.network = mounted[s]
  BY <1>1 DEF TypeOK, Events
<1>3. /\ log' = [log EXCEPT ![s] = Append(l, e)] /\ stored' = stored \cup {s}
      /\ UNCHANGED <<record, status, host, origin, queue, pruning>>
      /\ unrestored \subseteq unrestored' /\ (Missing(s) => s \in unrestored')
  BY DEF LogTurn
<1>4. log'[s] = Append(l, e) /\ \A t \in Sessions : t # s => log'[t] = log[t]
  BY <1>1, <1>3 DEF TypeOK
<1>5. Append(l, e) \in Seq(Events) /\ Len(Append(l, e)) = Len(l) + 1
  BY <1>1, <1>2, AppendProperties
<1>6. e.network # NULL => IF FirstBound(l) THEN e.network = l[1].network
                          ELSE e.network = record[s].network
  <2>1. e.network # NULL => Reads(s) = e.network /\ e.network # "conflict"
    BY <1>1, <1>2, ConflictIsNoNetwork DEF BindingInv, MountedIsDurable, Reads, TypeOK
  <2> HIDE DEF e
  <2> QED
    BY <1>1, <2>1, ReadsIs
<1>7. ASSUME s \notin unrestored' PROVE Explains(l, record[s])
  <2>1. Explains(l, record[s]) \/ Inheriting(s)
    BY <1>3, <1>7 DEF NetworkInv, Scoped
  <2>2. CASE Inheriting(s)
    <3>1. ~Missing(s) /\ record[s].network = NULL /\ Explains(l, Inheritance(s))
      BY <1>3, <1>7, <2>2 DEF Inheriting, NoRecord
    <3>2. Reads(s) # NULL \/ Inheritance(s) = NoRecord
      BY <3>1 DEF Missing, Reads
    <3>3. FirstBound(l) \/ Inheritance(s).network = NULL
      BY <1>1, <3>1, <3>2, ReadsIs DEF NoRecord
    <3> QED
      BY <3>1, <3>3, ExplainedByAny
  <2> QED
    BY <2>1, <2>2
<1>8. WellFormed(Append(l, e)) /\ (s \notin unrestored' => Explains(Append(l, e), record[s]))
  <2>1. record[s].boundAtSeq <= Len(l) /\ WellFormed(l)
    BY <1>1 DEF Shape, Reach
  <2>2. WellFormed(Append(l, e))
    <3>1. /\ DOMAIN l = 1 .. Len(l) /\ DOMAIN Append(l, e) = 1 .. Len(l) + 1
          /\ \A i \in 1 .. Len(l) : Append(l, e)[i] = l[i]
          /\ Append(l, e)[Len(l) + 1] = e
      BY <1>1, <1>2, <1>5, AppendProperties, LenProperties
    <3> HIDE DEF e, l
    <3> QED
      BY <1>1, <1>2, <2>1, <3>1 DEF WellFormed
  <2> HIDE DEF e, l
  <2> QED
    BY <1>1, <1>2, <1>6, <1>7, <2>1, <2>2, ExplainsAppend
<1> HIDE DEF e
<1>9. ASSUME NEW t \in Sessions PROVE Shape(t)'
  <2>1. Shape(t)
    BY DEF NetworkInv
  <2>2. CASE t # s
    BY <1>3, <1>4, <2>1, <2>2 DEF Shape, Reach
  <2>3. CASE t = s
    <3>1. origin[s].inheritedEventCount <= Len(l) + 1 /\ record[s].boundAtSeq <= Len(l) + 1
      <4>1. origin[s].inheritedEventCount \in Nat /\ record[s].boundAtSeq \in Nat
        BY <1>1, BoundsAreNatural DEF TypeOK, Record
      <4> QED
        BY <1>1, <4>1 DEF Shape, Reach
    <3>2. ASSUME NEW g \in Hosts PROVE Sound(queue[g][s], Len(l) + 1)
      <4>1. queue[g][s] \in Seq(Decisions) /\ Sound(queue[g][s], Len(l))
        BY <1>1, QueueOf DEF Shape, Reach
      <4> QED
        BY <1>1, <4>1, SoundMore
    <3> HIDE DEF l
    <3> QED
      BY <1>1, <1>3, <1>4, <1>5, <1>8, <2>1, <2>3, <3>1, <3>2 DEF Shape, Reach
  <2> QED
    BY <2>2, <2>3
<1>10. ASSUME NEW t \in Sessions PROVE Scoped(t)'
  <2>1. Scoped(t)
    BY DEF NetworkInv
  <2>2. CASE t = s
    BY <1>3, <1>4, <1>8, <2>2 DEF Scoped
  <2>3. CASE t # s /\ (t \in unrestored \/ Explains(log[t], record[t]))
    BY <1>3, <1>4, <2>3 DEF Scoped
  <2>4. CASE t # s /\ Inheriting(t)
    <3>1. Inheriting(t)'
      BY <1>3, <1>4, <2>4, InheritingStays DEF Inheriting
    <3> QED
      BY <3>1 DEF Scoped
  <2> QED
    BY <2>1, <2>2, <2>3, <2>4 DEF Scoped
<1> QED
  BY <1>9, <1>10 DEF NetworkInv

\* Sessions S end, those of V without a log.  A fork that waits for the record of one of
\* them waits for one too young to be taken for an orphan's.
LEMMA EndingKeeps ==
  ASSUME BindingInv, NetworkInv, NEW S \in SUBSET Sessions, NEW V \in SUBSET S,
         \A t \in S : /\ status[t] # "gone"
                      /\ IF t \in V THEN status'[t] = "gone" ELSE status'[t] = "closed",
         \A t \in S \ V : t \in stored,
         \A t \in Sessions : t \notin S => status'[t] = status[t] /\ host'[t] = host[t],
         Vanish(V), UNCHANGED <<record, pruning>>,
         queue' \in [Hosts -> [Sessions -> Seq(Decisions)]],
         \A g \in Hosts, t \in Sessions :
           IF t \in S THEN Sound(queue'[g][t], Reach(t))
           ELSE queue'[g][t] = queue[g][t] \/ (queue'[g][t] = <<>> /\ ~Here(g, t)),
         \A t \in Sessions :
           Inheriting(t) /\ origin[t].parent \in V => ~record[origin[t].parent].old
  PROVE  NetworkInv'
<1>1. /\ \A t \in Sessions : /\ log'[t] = IF t \in V THEN <<>> ELSE log[t]
                             /\ origin'[t] = IF t \in V THEN NoOrigin ELSE origin[t]
      /\ stored' = stored \ V /\ unrestored' = unrestored \ V
  BY DEF Vanish
<1>2. /\ TypeOK
      /\ \A t \in Sessions : /\ Reach(t) \in Nat /\ MaxEvents \in Nat /\ Reach(t) <= MaxEvents
                             /\ t \notin V => Reach(t)' = Reach(t)
                             /\ t \in V => Reach(t)' = MaxEvents
  <2>1. \A t \in Sessions : t \notin V => (status'[t] = "gone" <=> status[t] = "gone")
    OBVIOUS
  <2> QED
    BY <1>1, <2>1, ReachIs, BoundsAreNatural DEF BindingInv, Reach
<1>3. ASSUME NEW t \in Sessions PROVE Shape(t)'
  <2>1. Shape(t) /\ record[t].boundAtSeq \in Nat
    BY <1>2, BoundsAreNatural DEF NetworkInv, TypeOK, Record
  <2>2. ASSUME NEW g \in Hosts PROVE Sound(queue'[g][t], Reach(t)')
    <3>1. Sound(queue'[g][t], Reach(t)) /\ queue'[g][t] \in Seq(Decisions)
      BY <2>1, SoundEmpty DEF Shape
    <3> QED
      BY <1>2, <3>1, SoundMore
  <2>3. record[t].boundAtSeq <= Reach(t)'
    BY <1>2, <2>1 DEF Shape
  <2>4. CASE t \in V
    <3>1. WellFormed(<<>>) /\ Len(<<>>) = 0 /\ NoOrigin.inheritedEventCount = 0
      BY DEF WellFormed, NoOrigin
    <3>2. /\ status'[t] = "gone" /\ log'[t] = <<>> /\ origin'[t] = NoOrigin /\ t \notin stored'
      BY <1>1, <2>4
    <3> QED
      BY <2>1, <2>2, <2>3, <3>1, <3>2 DEF Shape
  <2>5. CASE t \in S \ V
    BY <1>1, <2>1, <2>2, <2>3, <2>5 DEF Shape
  <2>6. CASE t \notin S
    BY <1>1, <2>1, <2>2, <2>3, <2>6 DEF Shape
  <2> QED
    BY <2>4, <2>5, <2>6
<1>4. ASSUME NEW t \in Sessions PROVE Scoped(t)'
  <2>1. Scoped(t)
    BY DEF NetworkInv
  <2>2. CASE t \in V
    <3>1. log'[t] = <<>>
      BY <1>1, <2>2
    <3> QED
      BY <3>1, ExplainsNothing DEF Scoped
  <2>3. CASE t \notin V /\ (t \in unrestored \/ Explains(log[t], record[t]))
    BY <1>1, <2>3 DEF Scoped
  <2>4. CASE t \notin V /\ Inheriting(t)
    <3>1. t \notin S
      BY <2>4 DEF Inheriting
    <3>2. /\ host[t] \in Hosts /\ queue'[host[t]][t] = queue[host[t]][t]
          /\ origin[t].parent \in Sessions
      BY <2>4, <3>1, InheritingRestores DEF Here
    <3>3. status'[origin[t].parent] = "gone" => ~record[origin[t].parent].old
      <4> DEFINE p == origin[t].parent
      <4>1. status[p] = "gone" => ~record[p].old
        BY <2>4 DEF Inheriting
      <4>2. p \in V => ~record[p].old
        BY <2>4
      <4>3. p \notin V /\ status'[p] = "gone" => status[p] = "gone"
        BY <3>2
      <4> QED
        BY <4>1, <4>2, <4>3
    <3>4. Inheriting(t)'
      BY <1>1, <2>4, <3>1, <3>2, <3>3, InheritingStays DEF Inheriting
    <3> QED
      BY <3>4 DEF Scoped
  <2> QED
    BY <2>1, <2>2, <2>3, <2>4 DEF Scoped
<1> QED
  BY <1>3, <1>4 DEF NetworkInv

LEMMA EndKeeps ==
  ASSUME BindingInv, NetworkInv, NEW S \in SUBSET Sessions, \A t \in S : status[t] = "live",
         End(S), UNCHANGED <<record, pruning>>,
         queue' \in [Hosts -> [Sessions -> Seq(Decisions)]],
         \A g \in Hosts, t \in Sessions :
           IF t \in S THEN Sound(queue'[g][t], Reach(t))
           ELSE queue'[g][t] = queue[g][t] \/ (queue'[g][t] = <<>> /\ ~Here(g, t))
  PROVE  NetworkInv'
<1> DEFINE V == S \ stored
<1>1. /\ V \in SUBSET S /\ Vanish(V) /\ (\A t \in S \ V : t \in stored)
      /\ \A t \in V : t \notin stored /\ status[t] = "live"
  BY DEF End
<1>2. \A t \in Sessions : t \notin S => status'[t] = status[t] /\ host'[t] = host[t]
  BY DEF End
<1>3. \A t \in S : status'[t] = IF t \in V THEN "gone" ELSE "closed"
  BY DEF End
<1>4. \A t \in V : ~record[t].old
  BY <1>1 DEF BindingInv, OldIsStored, Accounted
<1> HIDE DEF V
<1> QED
  BY <1>1, <1>2, <1>3, <1>4, EndingKeeps

LEMMA CloseKeeps ==
  ASSUME BindingInv, NetworkInv, Exclusive, NEW s \in Sessions, Close(s)
  PROVE  NetworkInv'
<1>1. /\ status[s] = "live" /\ End({s}) /\ UNCHANGED <<record, pruning>>
      /\ queue' \in [Hosts -> [Sessions -> Seq(Decisions)]]
      /\ \A g \in Hosts : queue'[g][s] = Disposed(queue[g][s])
      /\ \A g \in Hosts, t \in Sessions : t # s => queue'[g][t] = queue[g][t]
  BY CloseIs
<1>2. ASSUME NEW g \in Hosts PROVE Sound(queue'[g][s], Reach(s))
  BY <1>1, QueueSound, SoundDisposed
<1> DEFINE S == {s}
<1>3. S \in SUBSET Sessions /\ (\A t \in S : status[t] = "live") /\ End(S)
  BY <1>1
<1>4. \A g \in Hosts, t \in Sessions :
        IF t \in S THEN Sound(queue'[g][t], Reach(t))
        ELSE queue'[g][t] = queue[g][t] \/ (queue'[g][t] = <<>> /\ ~Here(g, t))
  BY <1>1, <1>2
<1> HIDE DEF S
<1> QED
  BY <1>1, <1>3, <1>4, EndKeeps

LEMMA CrashKeeps ==
  ASSUME BindingInv, NetworkInv, NEW h \in Hosts, Crash(h)
  PROVE  NetworkInv'
<1> DEFINE S == Live(h)
<1>1. /\ End(S) /\ UNCHANGED <<record, pruning>>
      /\ queue' \in [Hosts -> [Sessions -> Seq(Decisions)]]
      /\ \A t \in Sessions : t \in S <=> Here(h, t)
      /\ \A t \in S : t \in Sessions /\ status[t] = "live"
      /\ \A g \in Hosts, t \in Sessions :
           queue'[g][t] = IF g = h \/ t \in S THEN <<>> ELSE queue[g][t]
  BY CrashIs
<1>2. S \in SUBSET Sessions
  BY <1>1
<1> HIDE DEF S
<1>3. \A g \in Hosts, t \in Sessions :
        IF t \in S THEN Sound(queue'[g][t], Reach(t))
        ELSE queue'[g][t] = queue[g][t] \/ (queue'[g][t] = <<>> /\ ~Here(g, t))
  BY <1>1, SoundEmpty
<1> QED
  BY <1>1, <1>2, <1>3, EndKeeps

\* A log is not removed while a fork of it waits.
LEMMA RemoveLogKeeps ==
  ASSUME BindingInv, NetworkInv, NEW s \in Sessions, RemoveLog(s)
  PROVE  NetworkInv'
<1>1. /\ TypeOK /\ status[s] = "closed" /\ status' = [status EXCEPT ![s] = "gone"] /\ Vanish({s})
      /\ UNCHANGED <<record, host, queue, pruning>>
      /\ \A t \in Sessions : Restoring(t) => origin[t].parent # s
  BY DEF BindingInv, RemoveLog
<1>2. ASSUME NEW g \in Hosts PROVE Sound(queue'[g][s], Reach(s))
  BY <1>1, QueueSound
<1>3. status'[s] = "gone" /\ \A t \in Sessions : t # s => status'[t] = status[t]
  BY <1>1 DEF TypeOK
<1> DEFINE S == {s}
<1>4. /\ S \in SUBSET Sessions /\ S \in SUBSET S /\ Vanish(S)
      /\ (\A t \in S : status[t] # "gone" /\ status'[t] = "gone")
      /\ \A t \in Sessions : t \notin S => status'[t] = status[t] /\ host'[t] = host[t]
      /\ queue' \in [Hosts -> [Sessions -> Seq(Decisions)]]
      /\ \A g \in Hosts, t \in Sessions :
           IF t \in S THEN Sound(queue'[g][t], Reach(t))
           ELSE queue'[g][t] = queue[g][t] \/ (queue'[g][t] = <<>> /\ ~Here(g, t))
      /\ \A t \in S \ S : t \in stored
  BY <1>1, <1>2, <1>3 DEF TypeOK
<1>5. \A t \in Sessions : Inheriting(t) => origin[t].parent \notin S
  BY <1>1, InheritingRestores
<1> HIDE DEF S
<1> QED
  BY <1>1, <1>4, <1>5, EndingKeeps

\* The settings are saved only while no fork waits on the host.
LEMMA ReloadKeeps ==
  ASSUME BindingInv, NetworkInv, NEW h \in Hosts, Reload(h)
  PROVE  NetworkInv'
<1> DEFINE d == Decision("inherit", NULL)
           q == [t \in Sessions |-> IF t \in Live(h) /\ origin[t].parent # NULL
                                    THEN <<d>> ELSE <<>>]
<1>1. /\ TypeOK /\ (\A t \in Sessions : ~Pending(h, t)) /\ queue' = [queue EXCEPT ![h] = q]
      /\ UNCHANGED <<record, log, status, host, stored, origin, pruning, unrestored>>
  BY DEF BindingInv, Reload, dsh
<1>2. \A n \in Nat : Sound(<<d>>, n) /\ Sound(<<>>, n)
  <2>1. DOMAIN <<d>> = {1} /\ <<d>>[1] = d
    OBVIOUS
  <2>2. d.write = NoRecord /\ NoRecord.boundAtSeq = 0
    BY DEF Decision, NoRecord
  <2> HIDE DEF d
  <2> QED
    BY <2>1, <2>2, SoundEmpty DEF Sound
<1> HIDE DEF d
<1>3. \A t \in Sessions : \A n \in Nat : Sound(q[t], n)
  BY <1>2
<1> HIDE DEF q
<1>4. queue'[h] = q /\ \A g \in Hosts : g # h => queue'[g] = queue[g]
  BY <1>1 DEF TypeOK
<1>5. ASSUME NEW t \in Sessions PROVE Shape(t)'
  <2>1. Shape(t) /\ Reach(t)' = Reach(t)
    BY <1>1 DEF NetworkInv, Reach
  <2>2. ASSUME NEW g \in Hosts PROVE Sound(queue'[g][t], Reach(t))
    <3>1. Reach(t) \in Nat
      BY <1>1, ReachIs
    <3> QED
      BY <1>3, <1>4, <2>1, <3>1 DEF Shape
  <2> QED
    BY <1>1, <2>1, <2>2 DEF Shape
<1>6. ASSUME NEW t \in Sessions PROVE Scoped(t)'
  <2>1. Scoped(t)
    BY DEF NetworkInv
  <2>2. CASE Inheriting(t)
    <3>1. host[t] \in Hosts /\ host[t] # h
      BY <1>1, <2>2, InheritingRestores
    <3>2. Inheriting(t)'
      BY <1>1, <1>4, <2>2, <3>1, InheritingStays DEF Inheriting
    <3> QED
      BY <3>2 DEF Scoped
  <2>3. CASE t \in unrestored \/ Explains(log[t], record[t])
    BY <1>1, <2>3 DEF Scoped
  <2> QED
    BY <2>1, <2>2, <2>3 DEF Scoped
<1> QED
  BY <1>5, <1>6 DEF NetworkInv

------------------------------------------------------------------------------
(* Orphan records. *)

\* No record comes of age while a fork waits for one.
LEMMA AgeKeeps ==
  ASSUME BindingInv, NetworkInv, NEW s \in Sessions, Age(s)
  PROVE  NetworkInv'
<1>1. /\ TypeOK /\ record[s] # NoRecord /\ (\A t \in Sessions : ~Restoring(t))
      /\ record' = [record EXCEPT ![s] = [record[s] EXCEPT !.old = TRUE]]
      /\ UNCHANGED <<log, status, host, stored, origin, queue, pruning, unrestored>>
  BY DEF BindingInv, Age, dsh
<1>2. record[s] \in Record
  BY <1>1 DEF TypeOK
<1>3. \A t \in Sessions : /\ record'[t].network = record[t].network
                          /\ record'[t].boundAtSeq = record[t].boundAtSeq
                          /\ t # s => record'[t] = record[t]
  BY <1>1, <1>2 DEF TypeOK, Record
<1>4. ASSUME NEW t \in Sessions PROVE Shape(t)'
  <2>1. Shape(t) /\ Shape(s) /\ Reach(t)' = Reach(t)
    BY <1>1 DEF NetworkInv, Reach
  <2>2. record'[t].network = NULL => record'[t] = NoRecord
    BY <1>1, <1>3, <2>1 DEF Shape
  <2> QED
    BY <1>1, <1>3, <2>1, <2>2 DEF Shape
<1>5. ASSUME NEW t \in Sessions PROVE Scoped(t)'
  <2>1. t \in unrestored \/ Explains(log[t], record[t])
    BY <1>1, InheritingRestores DEF NetworkInv, Scoped
  <2>2. Explains(log[t], record[t]) => Explains(log[t], record'[t])
    BY <1>3, ExplainsAnyAge
  <2> QED
    BY <1>1, <2>1, <2>2 DEF Scoped
<1> QED
  BY <1>4, <1>5 DEF NetworkInv

\* An old record without a log is of a session that is gone.
LEMMA PruneLookKeeps ==
  ASSUME BindingInv, NetworkInv, NEW h \in Hosts, NEW s \in Sessions, PruneLook(h, s)
  PROVE  NetworkInv'
<1>1. /\ record[s].old /\ s \notin stored /\ pruning' = pruning \cup {s}
      /\ UNCHANGED <<record, log, status, host, stored, origin, queue, unrestored>>
  BY DEF PruneLook, Orphan, Exists, dsh
<1>2. status[s] = "gone"
  BY <1>1 DEF BindingInv, OldIsStored, Accounted
<1>3. ASSUME NEW t \in Sessions PROVE Shape(t)'
  BY <1>1 DEF NetworkInv, Shape, Reach
<1>4. ASSUME NEW t \in Sessions PROVE Scoped(t)'
  <2>1. Scoped(t)
    BY DEF NetworkInv
  <2>2. CASE Inheriting(t)
    <3>1. origin[t].parent # s
      BY <1>1, <1>2, <2>2 DEF Inheriting
    <3>2. Inheriting(t)'
      BY <1>1, <2>2, <3>1, InheritingStays DEF Inheriting
    <3> QED
      BY <3>2 DEF Scoped
  <2>3. CASE t \in unrestored \/ Explains(log[t], record[t])
    BY <1>1, <2>3 DEF Scoped
  <2> QED
    BY <2>1, <2>2, <2>3 DEF Scoped
<1> QED
  BY <1>3, <1>4 DEF NetworkInv

LEMMA PruneRemoveKeeps ==
  ASSUME BindingInv, NetworkInv, NEW s \in Sessions, PruneRemove(s)
  PROVE  NetworkInv'
<1>1. /\ TypeOK /\ s \in pruning /\ pruning' = pruning \ {s}
      /\ record' = [record EXCEPT ![s] = NoRecord]
      /\ UNCHANGED <<log, status, host, stored, origin, queue, unrestored>>
  BY DEF BindingInv, PruneRemove, dsh
<1>2. status[s] = "gone"
  BY <1>1 DEF BindingInv, OldIsStored, Accounted
<1>3. record'[s] = NoRecord /\ \A t \in Sessions : t # s => record'[t] = record[t]
  BY <1>1 DEF TypeOK
<1>4. ASSUME NEW t \in Sessions PROVE Shape(t)'
  <2>1. Shape(t) /\ Reach(t)' = Reach(t) /\ Reach(t) \in Nat
    BY <1>1, ReachIs DEF NetworkInv, Reach
  <2>2. CASE t = s
    <3>1. NoRecord.boundAtSeq <= Reach(t)
      BY <2>1 DEF NoRecord
    <3> QED
      BY <1>1, <1>2, <1>3, <2>1, <2>2, <3>1 DEF Shape
  <2>3. CASE t # s
    BY <1>1, <1>3, <2>1, <2>3 DEF Shape
  <2> QED
    BY <2>2, <2>3
<1>5. ASSUME NEW t \in Sessions PROVE Scoped(t)'
  <2>1. Scoped(t)
    BY DEF NetworkInv
  <2>2. CASE t = s
    <3>1. log[s] = <<>>
      BY <1>2 DEF NetworkInv, Shape
    <3> QED
      BY <1>1, <2>2, <3>1, ExplainsNothing DEF Scoped
  <2>3. CASE t # s /\ Inheriting(t)
    <3>1. origin[t].parent # s /\ origin[t].parent \in Sessions
      BY <1>1, <2>3, InheritingRestores DEF Inheriting
    <3>2. Inheriting(t)'
      BY <1>1, <1>3, <2>3, <3>1, InheritingStays DEF Inheriting
    <3> QED
      BY <3>2 DEF Scoped
  <2>4. CASE t # s /\ (t \in unrestored \/ Explains(log[t], record[t]))
    BY <1>1, <1>3, <2>4 DEF Scoped
  <2> QED
    BY <2>1, <2>2, <2>3, <2>4 DEF Scoped
<1> QED
  BY <1>4, <1>5 DEF NetworkInv

------------------------------------------------------------------------------
(* The invariant holds. *)

LEMMA NetworkInitially == Init => NetworkInv
<1> SUFFICES ASSUME Init PROVE NetworkInv
  OBVIOUS
<1>1. BindingInv /\ TypeOK
  BY BindingInitially DEF BindingInv
<1>2. ASSUME NEW s \in Sessions
      PROVE  /\ WellFormed(log[s]) /\ Explains(log[s], record[s])
             /\ status[s] \in {"unborn", "closed"}
             /\ status[s] = "unborn" => log[s] = <<>> /\ s \notin stored
             /\ Len(log[s]) \in Nat
  <2>1. log[s] = <<>> \/ \E n \in Networks : log[s] = <<[kind |-> "bound", network |-> n]>>
    BY DEF Init
  <2>2. CASE log[s] = <<>>
    BY <2>2, ExplainsNothing DEF WellFormed, Init
  <2>3. ASSUME NEW n \in Networks, log[s] = <<[kind |-> "bound", network |-> n]>>
        PROVE  /\ WellFormed(log[s]) /\ Explains(log[s], record[s]) /\ log[s] # <<>>
               /\ Len(log[s]) \in Nat
    <3>1. /\ DOMAIN log[s] = {1} /\ log[s][1].network = n /\ log[s][1].kind = "bound"
          /\ log[s] # <<>>
      BY <2>3
    <3> QED
      BY <2>3, <3>1, NullIsNoNetwork DEF WellFormed, Explains, FirstBound
  <2> QED
    BY <2>1, <2>2, <2>3 DEF Init
<1>3. ASSUME NEW s \in Sessions
      PROVE  /\ origin[s].inheritedEventCount = 0 /\ record[s].boundAtSeq = 0
             /\ record[s].network = NULL => record[s] = NoRecord
             /\ \A h \in Hosts : queue[h][s] = <<>>
  <2>1. record[s] = NoRecord \/ \E n \in Networks : record[s] = NewRecord(n, 0)
    BY DEF Init
  <2> QED
    BY <2>1, NullIsNoNetwork DEF Init, NoOrigin, NoRecord, NewRecord
<1>4. ASSUME NEW s \in Sessions PROVE Shape(s) /\ Scoped(s)
  BY <1>1, <1>2, <1>3, ReachIs, SoundEmpty DEF Shape, Scoped
<1> QED
  BY <1>4 DEF NetworkInv

LEMMA NetworkSteps ==
  ASSUME Exclusive, BindingInv, NetworkInv, [Next]_vars
  PROVE  NetworkInv'
<1>1. CASE UNCHANGED vars
  BY <1>1, NothingChanges DEF vars, dsh
<1>2. ASSUME NEW h \in Hosts, NEW s \in Sessions,
             \/ Create(h, s) \/ Reopen(h, s)
             \/ \E p \in Sessions, k \in 0 .. MaxEvents : Fork(h, p, s, k)
             \/ \E n \in Networks : UserBind(h, s, n)
             \/ Decide(h, s) \/ WriteDone(h, s) \/ WriteFails(h, s) \/ PruneLook(h, s)
      PROVE  NetworkInv'
  BY <1>2, CreateKeeps, ReopenKeeps, ForkKeeps, UserBindKeeps, DecideKeeps, WriteDoneKeeps,
     WriteFailsKeeps, PruneLookKeeps
<1>3. ASSUME NEW h \in Hosts, Crash(h) \/ Reload(h) PROVE NetworkInv'
  BY <1>3, CrashKeeps, ReloadKeeps
<1>4. ASSUME NEW s \in Sessions,
             LogTurn(s) \/ Close(s) \/ RemoveLog(s) \/ Age(s) \/ PruneRemove(s)
      PROVE  NetworkInv'
  BY <1>4, LogTurnKeeps, CloseKeeps, RemoveLogKeeps, AgeKeeps, PruneRemoveKeeps
<1>5. ASSUME NEW x \in settled, Continue(x) PROVE NetworkInv'
  BY <1>5, ContinueKeeps
<1> QED
  BY <1>1, <1>2, <1>3, <1>4, <1>5 DEF Next

\* Whatever is forked from whatever, closed, crashed, reloaded and cleaned up, no session
\* has turns of two networks, unless it, or what it was forked from, missed its inheritance.
THEOREM OneNetwork ==
  ASSUME Exclusive
  PROVE  Spec => []OneNetworkUnlessUnrestored
<1>1. BindingInv /\ NetworkInv /\ [Next]_vars => BindingInv' /\ NetworkInv'
  BY BindingSteps, NetworkSteps
<1>2. Init => BindingInv /\ NetworkInv
  BY BindingInitially, NetworkInitially
<1>3. NetworkInv => OneNetworkUnlessUnrestored
  <2>1. ASSUME NetworkInv, NEW s \in Sessions \ unrestored,
               NEW m \in TurnNetworks(s), NEW n \in TurnNetworks(s)
        PROVE  m = n
    <3>1. PICK i \in DOMAIN log[s] : m = log[s][i].network
      BY DEF TurnNetworks
    <3>2. PICK j \in DOMAIN log[s] : n = log[s][j].network
      BY DEF TurnNetworks
    <3>3. m # NULL /\ n # NULL
      BY DEF TurnNetworks
    <3>4. Explains(log[s], record[s]) \/ Explains(log[s], Inheritance(s))
      BY <2>1 DEF NetworkInv, Scoped, Inheriting
    <3> QED
      BY <3>1, <3>2, <3>3, <3>4, ExplainsOne
  <2> QED
    BY <2>1 DEF OneNetworkUnlessUnrestored
<1> QED
  BY <1>1, <1>2, <1>3, PTL DEF Spec
=============================================================================
