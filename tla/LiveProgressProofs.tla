-------------------------- MODULE LiveProgressProofs --------------------------
(***************************************************************************)
(* Theorems about LiveProgress, for any number of recipients, requests,    *)
(* ticks and losses, and any buffer.                                       *)
(***************************************************************************)
EXTENDS LiveProgress, FunctionTheorems, FiniteSetTheorems, TLAPS

-----------------------------------------------------------------------------
(* The wire: a message is appended, or taken from the front *)

\* The indices of a sequence with one message more, or one less.
LEMMA WireIndices ==
  ASSUME NEW M, NEW w \in Seq(M)
  PROVE  /\ DOMAIN w = 1..Len(w) /\ Len(w) \in Nat
         /\ \A i \in DOMAIN w : w[i] \in M
         /\ \A m \in M : LET v == Append(w, m) IN
              /\ v \in Seq(M) /\ Len(v) = Len(w) + 1 /\ DOMAIN v = 1..(Len(w) + 1)
              /\ \A i \in DOMAIN w : i \in DOMAIN v /\ v[i] = w[i]
              /\ v[Len(w) + 1] = m
         /\ w # <<>> => /\ Tail(w) \in Seq(M) /\ Len(Tail(w)) = Len(w) - 1
                        /\ DOMAIN Tail(w) = 1..(Len(w) - 1)
                        /\ \A i \in DOMAIN Tail(w) : i + 1 \in DOMAIN w /\ Tail(w)[i] = w[i + 1]
                        /\ 1 \in DOMAIN w /\ Head(w) = w[1] /\ Head(w) \in M
<1>1. DOMAIN w = 1..Len(w) /\ Len(w) \in Nat /\ \A i \in DOMAIN w : w[i] \in M
  OBVIOUS
<1>2. ASSUME NEW m \in M
      PROVE  LET v == Append(w, m) IN
               /\ v \in Seq(M) /\ Len(v) = Len(w) + 1 /\ DOMAIN v = 1..(Len(w) + 1)
               /\ \A i \in DOMAIN w : i \in DOMAIN v /\ v[i] = w[i]
               /\ v[Len(w) + 1] = m
  BY <1>1
<1>3. ASSUME w # <<>>
      PROVE  /\ Tail(w) \in Seq(M) /\ Len(Tail(w)) = Len(w) - 1
             /\ DOMAIN Tail(w) = 1..(Len(w) - 1)
             /\ \A i \in DOMAIN Tail(w) : i + 1 \in DOMAIN w /\ Tail(w)[i] = w[i + 1]
             /\ 1 \in DOMAIN w /\ Head(w) = w[1] /\ Head(w) \in M
  <2>1. Tail(w) \in Seq(M) /\ Len(Tail(w)) = Len(w) - 1 /\ Len(w) >= 1
    BY <1>1, <1>3
  <2>2. DOMAIN Tail(w) = 1..(Len(w) - 1)
    BY <2>1
  <2>3. \A i \in 1..(Len(w) - 1) : i + 1 \in DOMAIN w /\ Tail(w)[i] = w[i + 1]
    BY <1>1, <1>3, <2>1
  <2>4. 1 \in DOMAIN w /\ Head(w) = w[1]
    BY <1>1, <2>1
  <2>5. QED
    BY <1>1, <2>1, <2>2, <2>3, <2>4
<1>4. QED
  BY <1>1, <1>2, <1>3

\* A message appended is the last of its kind.
LEMMA WireAppend ==
  ASSUME NEW M, NEW w \in Seq(M), NEW m \in M
  PROVE  LET v == Append(w, m) IN
         /\ \A kind : Has(v, kind) <=> Has(w, kind) \/ m.event = kind
         /\ m.event = "status_change" => LastStatus(v, m.status) /\ StatusEnds(v)
         /\ m.event # "status_change" => \A s : LastStatus(w, s) => LastStatus(v, s)
         /\ m.event = "progress" => LastProgress(v, m.done)
         /\ m.event # "progress" => \A d : LastProgress(w, d) => LastProgress(v, d)
         /\ m.event # "progress" /\ StatusEnds(w) => StatusEnds(v)
<1> DEFINE v == Append(w, m)
           n == Len(w)
<1>1. /\ n \in Nat /\ DOMAIN w = 1..n /\ DOMAIN v = 1..(n + 1)
      /\ \A i \in DOMAIN w : v[i] = w[i]
      /\ v[n + 1] = m
  BY WireIndices
<1> HIDE DEF v, n
<1>2. \A i \in DOMAIN v : i \in DOMAIN w \/ i = n + 1
  BY <1>1
<1>3. \A kind : Has(v, kind) <=> Has(w, kind) \/ m.event = kind
  BY <1>1, <1>2 DEF Has
<1>4. \A i \in DOMAIN w : IsLast(v, i) => IsLast(w, i) /\ m.event # w[i].event
  BY <1>1 DEF IsLast
<1>5. m.event = "status_change" => LastStatus(v, m.status)
  BY <1>1, <1>2, <1>4 DEF LastStatus
<1>6. m.event = "status_change" => StatusEnds(v)
  BY <1>1, <1>2 DEF StatusEnds
<1>7. m.event # "status_change" => \A s : LastStatus(w, s) => LastStatus(v, s)
  BY <1>1, <1>2, <1>4 DEF LastStatus
<1>8. m.event = "progress" => LastProgress(v, m.done)
  BY <1>1, <1>2, <1>4 DEF LastProgress
<1>9. m.event # "progress" => \A d : LastProgress(w, d) => LastProgress(v, d)
  BY <1>1, <1>2, <1>4 DEF LastProgress
<1>10. m.event # "progress" /\ StatusEnds(w) => StatusEnds(v)
  BY <1>1, <1>2 DEF StatusEnds
<1>11. QED
  BY <1>3, <1>5, <1>6, <1>7, <1>8, <1>9, <1>10 DEF v

\* What is left when the first message is taken.
LEMMA WireTail ==
  ASSUME NEW M, NEW w \in Seq(M), w # <<>>
  PROVE  LET m == Head(w)
             v == Tail(w) IN
         /\ \A kind : Has(w, kind) <=> Has(v, kind) \/ m.event = kind
         /\ \A s : LastStatus(w, s) =>
              /\ LastStatus(v, s)
              /\ m.event = "status_change" /\ ~Has(v, "status_change") => m.status = s
         /\ \A d : LastProgress(w, d) =>
              /\ LastProgress(v, d)
              /\ m.event = "progress" /\ ~Has(v, "progress") => m.done = d
         /\ StatusEnds(w) => StatusEnds(v)
         /\ StatusEnds(v) /\ ~Has(v, "status_change") => ~Has(v, "progress")
<1> DEFINE m == Head(w)
           v == Tail(w)
           n == Len(w)
<1>1. /\ n \in Nat /\ DOMAIN w = 1..n /\ DOMAIN v = 1..(n - 1)
      /\ \A i \in DOMAIN v : i + 1 \in DOMAIN w /\ v[i] = w[i + 1]
      /\ 1 \in DOMAIN w /\ m = w[1]
  BY WireIndices
<1> HIDE DEF v, n, m
<1>2. ASSUME NEW i \in DOMAIN w PROVE i = 1 \/ (i - 1 \in DOMAIN v /\ v[i - 1] = w[i])
  <2>1. i # 1 => i - 1 \in DOMAIN v /\ (i - 1) + 1 = i
    BY <1>1
  <2>2. QED
    BY <1>1, <2>1
<1>3. \A kind : Has(w, kind) <=> Has(v, kind) \/ m.event = kind
  <2>1. ASSUME NEW kind, Has(w, kind) PROVE Has(v, kind) \/ m.event = kind
    BY <1>1, <1>2, <2>1 DEF Has
  <2>2. ASSUME NEW kind, Has(v, kind) \/ m.event = kind PROVE Has(w, kind)
    BY <1>1, <2>2 DEF Has
  <2>3. QED
    BY <2>1, <2>2
<1>4. ASSUME NEW i \in DOMAIN v, IsLast(v, i)
      PROVE  IsLast(w, i + 1)
  <2>1. SUFFICES ASSUME NEW j \in DOMAIN w, j > i + 1 PROVE w[j].event # w[i + 1].event
    BY <1>1 DEF IsLast
  <2>2. j - 1 \in DOMAIN v /\ v[j - 1] = w[j] /\ j - 1 > i
    BY <1>1, <1>2, <2>1
  <2>3. QED
    BY <1>1, <1>4, <2>2 DEF IsLast
<1>5. ASSUME ~Has(v, m.event)
      PROVE  IsLast(w, 1)
  <2>1. SUFFICES ASSUME NEW j \in DOMAIN w, j > 1 PROVE w[j].event # m.event
    BY <1>1 DEF IsLast
  <2>2. j - 1 \in DOMAIN v /\ v[j - 1] = w[j]
    BY <1>1, <1>2, <2>1
  <2>3. QED
    BY <1>5, <2>2 DEF Has
<1>6. ASSUME NEW s, LastStatus(w, s)
      PROVE  /\ LastStatus(v, s)
             /\ m.event = "status_change" /\ ~Has(v, "status_change") => m.status = s
  BY <1>1, <1>4, <1>5, <1>6 DEF LastStatus
<1>7. ASSUME NEW d, LastProgress(w, d)
      PROVE  /\ LastProgress(v, d)
             /\ m.event = "progress" /\ ~Has(v, "progress") => m.done = d
  BY <1>1, <1>4, <1>5, <1>7 DEF LastProgress
<1>8. ASSUME StatusEnds(w)
      PROVE  StatusEnds(v)
  <2>1. SUFFICES ASSUME NEW i \in DOMAIN v, v[i].event = "progress"
                 PROVE  \E j \in DOMAIN v : j > i /\ v[j].event = "status_change"
    BY DEF StatusEnds
  <2>2. PICK j \in DOMAIN w : j > i + 1 /\ w[j].event = "status_change"
    BY <1>1, <1>8, <2>1 DEF StatusEnds
  <2>3. j - 1 \in DOMAIN v /\ v[j - 1] = w[j] /\ j - 1 > i
    BY <1>1, <1>2, <2>2
  <2>4. QED
    BY <2>2, <2>3
<1>9. StatusEnds(v) /\ ~Has(v, "status_change") => ~Has(v, "progress")
  BY DEF StatusEnds, Has
<1>10. QED
  BY <1>3, <1>6, <1>7, <1>8, <1>9 DEF v, m

\* Nothing is on the empty wire.
LEMMA WireEmpty ==
  /\ \A kind : ~Has(<<>>, kind)
  /\ \A x : LastStatus(<<>>, x) /\ LastProgress(<<>>, x)
  /\ StatusEnds(<<>>)
  BY DEF Has, LastStatus, LastProgress, StatusEnds

\* The batch that a message brings joins those on the wire.
LEMMA WiredAppend ==
  ASSUME NEW M, NEW w \in Seq(M), NEW m \in M
  PROVE  LET v == Append(w, m)
             batch == BatchOf(m) IN
         /\ Wired(v) = Wired(w) \cup Range(batch)
         /\ WiredOnce(w) /\ IsInjective(batch) /\ Range(batch) \cap Wired(w) = {} => WiredOnce(v)
<1> DEFINE v == Append(w, m)
           n == Len(w)
           batch == BatchOf(m)
<1>1. /\ n \in Nat /\ DOMAIN w = 1..n /\ DOMAIN v = 1..(n + 1)
      /\ \A i \in DOMAIN w : v[i] = w[i]
      /\ v[n + 1] = m
  BY WireIndices
<1> HIDE DEF v, n
<1>2. \A i \in DOMAIN v : (i \in DOMAIN w /\ v[i] = w[i]) \/ (i = n + 1 /\ v[i] = m)
  BY <1>1
<1>3. \A i \in DOMAIN w : i \in DOMAIN v
  BY <1>1
<1>4. Wired(v) = Wired(w) \cup Range(batch)
  <2>1. ASSUME NEW x \in Wired(v) PROVE x \in Wired(w) \cup Range(batch)
    BY <1>2, <2>1 DEF Wired
  <2>2. ASSUME NEW x \in Wired(w) PROVE x \in Wired(v)
    BY <1>1, <1>3, <2>2 DEF Wired
  <2>3. ASSUME NEW x \in Range(batch) PROVE x \in Wired(v)
    <3>1. n + 1 \in DOMAIN v
      BY <1>1
    <3>2. QED
      BY <1>1, <2>3, <3>1 DEF Wired
  <2>4. QED
    BY <2>1, <2>2, <2>3
<1>5. ASSUME WiredOnce(w), IsInjective(batch), Range(batch) \cap Wired(w) = {}
      PROVE  WiredOnce(v)
  <2>1. \A i \in DOMAIN w : Range(BatchOf(w[i])) \cap Range(batch) = {}
    BY <1>5 DEF Wired
  <2>2. \A i \in DOMAIN v : IsInjective(BatchOf(v[i]))
    BY <1>2, <1>5 DEF WiredOnce
  <2>3. ASSUME NEW i \in DOMAIN v, NEW j \in DOMAIN v, i # j
        PROVE  Range(BatchOf(v[i])) \cap Range(BatchOf(v[j])) = {}
    <3>1. CASE i \in DOMAIN w /\ j \in DOMAIN w
      BY <1>1, <1>5, <2>3, <3>1 DEF WiredOnce
    <3>2. CASE i = n + 1 /\ v[i] = m /\ j \in DOMAIN w /\ v[j] = w[j]
      BY <2>1, <3>2
    <3>3. CASE j = n + 1 /\ v[j] = m /\ i \in DOMAIN w /\ v[i] = w[i]
      BY <2>1, <3>3
    <3>4. QED
      BY <1>2, <2>3, <3>1, <3>2, <3>3
  <2>4. QED
    BY <2>2, <2>3 DEF WiredOnce
<1>6. QED
  BY <1>4, <1>5 DEF v

\* The batch of the first message leaves the wire.
LEMMA WiredTail ==
  ASSUME NEW M, NEW w \in Seq(M), w # <<>>
  PROVE  LET batch == BatchOf(Head(w))
             v == Tail(w) IN
         /\ Wired(w) = Range(batch) \cup Wired(v)
         /\ WiredOnce(w) => /\ IsInjective(batch) /\ WiredOnce(v)
                            /\ Range(batch) \cap Wired(v) = {}
<1> DEFINE v == Tail(w)
           n == Len(w)
           batch == BatchOf(Head(w))
<1>1. /\ n \in Nat /\ DOMAIN w = 1..n /\ DOMAIN v = 1..(n - 1)
      /\ \A i \in DOMAIN v : i + 1 \in DOMAIN w /\ v[i] = w[i + 1]
      /\ 1 \in DOMAIN w /\ batch = BatchOf(w[1])
  BY WireIndices
<1> HIDE DEF v, n, batch
<1>2. ASSUME NEW i \in DOMAIN w PROVE i = 1 \/ (i - 1 \in DOMAIN v /\ v[i - 1] = w[i])
  <2>1. i # 1 => i - 1 \in DOMAIN v /\ (i - 1) + 1 = i
    BY <1>1
  <2>2. QED
    BY <1>1, <2>1
<1>3. Wired(w) = Range(batch) \cup Wired(v)
  <2>1. ASSUME NEW x \in Wired(w) PROVE x \in Range(batch) \cup Wired(v)
    <3>1. PICK i \in DOMAIN w : x \in Range(BatchOf(w[i]))
      BY <2>1 DEF Wired
    <3>2. QED
      BY <1>1, <1>2, <3>1 DEF Wired
  <2>2. ASSUME NEW x \in Wired(v) PROVE x \in Wired(w)
    <3>1. PICK i \in DOMAIN v : x \in Range(BatchOf(v[i]))
      BY <2>2 DEF Wired
    <3>2. QED
      BY <1>1, <3>1 DEF Wired
  <2>3. ASSUME NEW x \in Range(batch) PROVE x \in Wired(w)
    BY <1>1, <2>3 DEF Wired
  <2>4. QED
    BY <2>1, <2>2, <2>3
<1>4. ASSUME WiredOnce(w)
      PROVE  IsInjective(batch) /\ WiredOnce(v) /\ Range(batch) \cap Wired(v) = {}
  <2>1. IsInjective(batch) /\ \A i \in DOMAIN v : IsInjective(BatchOf(v[i]))
    BY <1>1, <1>4 DEF WiredOnce
  <2>2. ASSUME NEW i \in DOMAIN v, NEW j \in DOMAIN v,
               Range(BatchOf(v[i])) \cap Range(BatchOf(v[j])) # {}
        PROVE  i = j
    <3>1. i + 1 = j + 1
      BY <1>1, <1>4, <2>2 DEF WiredOnce
    <3>2. QED
      BY <1>1, <3>1
  <2>3. ASSUME NEW i \in DOMAIN v
        PROVE  Range(batch) \cap Range(BatchOf(v[i])) = {}
    <3>1. i + 1 # 1 /\ i + 1 \in DOMAIN w /\ v[i] = w[i + 1]
      BY <1>1
    <3>2. QED
      BY <1>1, <1>4, <3>1 DEF WiredOnce
  <2>4. QED
    BY <2>1, <2>2, <2>3 DEF WiredOnce, Wired
<1>5. QED
  BY <1>3, <1>4 DEF v, batch

\* Two sequences without repetitions and without a common member, one after the
\* other; and one member more.
LEMMA OnceConcat ==
  ASSUME NEW S, NEW s \in Seq(S), NEW t \in Seq(S)
  PROVE  /\ s \o t \in Seq(S)
         /\ Range(s \o t) = Range(s) \cup Range(t)
         /\ IsInjective(s) /\ IsInjective(t) /\ Range(s) \cap Range(t) = {}
              => IsInjective(s \o t)
<1> DEFINE u == s \o t
           n == Len(s)
<1>1. /\ u \in Seq(S) /\ n \in Nat /\ Len(t) \in Nat /\ DOMAIN s = 1..n /\ DOMAIN t = 1..Len(t)
      /\ DOMAIN u = 1..(n + Len(t))
      /\ \A i \in DOMAIN u : u[i] = IF i <= n THEN s[i] ELSE t[i - n]
  OBVIOUS
<1> HIDE DEF u, n
<1>2. ASSUME NEW i \in DOMAIN u
      PROVE  \/ i \in DOMAIN s /\ u[i] = s[i]
             \/ i > n /\ i - n \in DOMAIN t /\ u[i] = t[i - n]
  BY <1>1
<1>3. \A i \in DOMAIN s : i \in DOMAIN u /\ u[i] = s[i]
  BY <1>1
<1>4. \A i \in DOMAIN t : i + n \in DOMAIN u /\ u[i + n] = t[i]
  BY <1>1
<1>5. Range(u) = Range(s) \cup Range(t)
  <2>1. ASSUME NEW i \in DOMAIN u PROVE u[i] \in Range(s) \cup Range(t)
    BY <1>2 DEF Range
  <2>2. ASSUME NEW i \in DOMAIN s PROVE s[i] \in Range(u)
    BY <1>3 DEF Range
  <2>3. ASSUME NEW i \in DOMAIN t PROVE t[i] \in Range(u)
    BY <1>4 DEF Range
  <2>4. Range(u) \subseteq Range(s) \cup Range(t)
    BY <2>1 DEF Range
  <2>5. Range(s) \subseteq Range(u) /\ Range(t) \subseteq Range(u)
    BY <2>2, <2>3 DEF Range
  <2>6. QED
    BY <2>4, <2>5
<1>6. ASSUME IsInjective(s), IsInjective(t), Range(s) \cap Range(t) = {}
      PROVE  IsInjective(u)
  <2>1. SUFFICES ASSUME NEW i \in DOMAIN u, NEW j \in DOMAIN u, u[i] = u[j] PROVE i = j
    BY DEF IsInjective
  <2>2. \A k \in DOMAIN s, l \in DOMAIN t : s[k] # t[l]
    BY <1>6 DEF Range
  <2>3. CASE i \in DOMAIN s /\ u[i] = s[i]
    BY <1>2, <1>6, <2>1, <2>2, <2>3 DEF IsInjective
  <2>4. CASE i > n /\ i - n \in DOMAIN t /\ u[i] = t[i - n]
    <3>1. j > n /\ j - n \in DOMAIN t /\ u[j] = t[j - n]
      BY <1>2, <2>1, <2>2, <2>4
    <3>2. i - n = j - n
      BY <1>6, <2>1, <2>4, <3>1 DEF IsInjective
    <3>3. QED
      BY <1>1, <3>2
  <2>5. QED
    BY <1>2, <2>3, <2>4
<1>7. QED
  BY <1>1, <1>5, <1>6 DEF u

LEMMA OnceAppend ==
  ASSUME NEW S, NEW s \in Seq(S), NEW x \in S
  PROVE  /\ Append(s, x) \in Seq(S)
         /\ Range(Append(s, x)) = Range(s) \cup {x}
         /\ IsInjective(s) /\ x \notin Range(s) => IsInjective(Append(s, x))
<1> DEFINE u == Append(s, x)
           n == Len(s)
<1>1. /\ n \in Nat /\ DOMAIN s = 1..n /\ DOMAIN u = 1..(n + 1)
      /\ \A i \in DOMAIN s : i \in DOMAIN u /\ u[i] = s[i]
      /\ u[n + 1] = x /\ u \in Seq(S)
  BY WireIndices
<1> HIDE DEF u, n
<1>2. \A i \in DOMAIN u : (i \in DOMAIN s /\ u[i] = s[i]) \/ (i = n + 1 /\ u[i] = x)
  BY <1>1
<1>3. Range(u) = Range(s) \cup {x}
  <2>1. n + 1 \in DOMAIN u
    BY <1>1
  <2>2. QED
    BY <1>1, <1>2, <2>1 DEF Range
<1>4. ASSUME IsInjective(s), x \notin Range(s) PROVE IsInjective(u)
  BY <1>2, <1>4 DEF IsInjective, Range
<1>5. QED
  BY <1>1, <1>3, <1>4 DEF u

\* A sequence that has each of n numbers once has n members.
LEMMA OnceLength ==
  ASSUME NEW S, NEW s \in Seq(S), NEW n \in Nat, IsInjective(s), Range(s) = 1..n
  PROVE  Len(s) = n
<1>1. /\ Len(s) \in Nat /\ DOMAIN s = 1..Len(s)
      /\ s \in [1..Len(s) -> 1..n]
  BY DEF Range
<1>2. s \in Bijection(1..Len(s), 1..n)
  BY <1>1 DEF Bijection, Injection, Surjection, Range
<1>3. /\ IsFiniteSet(1..Len(s)) /\ Cardinality(1..Len(s)) = Len(s)
      /\ Cardinality(1..n) = n
  <2>1. \A k \in Nat : IsFiniteSet(1..k) /\ Cardinality(1..k) = IF 1 > k THEN 0 ELSE k - 1 + 1
    BY FS_Interval
  <2>2. QED
    BY <1>1, <2>1
<1>4. Cardinality(1..n) = Cardinality(1..Len(s))
  <2>1. ExistsBijection(1..Len(s), 1..n)
    BY <1>2 DEF ExistsBijection
  <2>2. QED
    BY <1>3, <2>1, FS_Bijection
<1>5. QED
  BY <1>3, <1>4

-----------------------------------------------------------------------------
(* Type correctness, with the stages it rests on *)

\* What the three kinds of event carry.
LEMMA EventTypes ==
  /\ \A d \in 0..Pending : Progress(d) \in Events
  /\ \A s \in Statuses : StatusChange(s) \in Events
  /\ \A rs \in ResultNumbers : SendResults(rs) \in Events
  /\ \A m \in Events :
       /\ m.event \in {"progress", "status_change", "send_results"}
       /\ m.event = "progress" => m.done \in 0..Pending
       /\ m.event = "status_change" => m.status \in Statuses
       /\ m.event = "send_results" => m.results \in ResultNumbers
  BY DEF Events, Progress, StatusChange, SendResults

Histories == [missed : BOOLEAN, lost : BOOLEAN, late : BOOLEAN, untold : BOOLEAN,
              unsaved : BOOLEAN, panic : BOOLEAN]

\* A broadcast puts its message on the wire, or leaves a trace that it did not.
LEMMA BroadcastShape ==
  ASSUME TypeOK, NEW m \in Events, Broadcast(m)
  PROVE  /\ wire' \in Seq(Events) /\ Len(wire') <= Buffer
         /\ seen' \in Histories
         /\ wire' = Append(wire, m) \/ wire' = wire
         /\ seen'.late = seen.late /\ seen'.untold = seen.untold /\ seen'.unsaved = seen.unsaved
         /\ seen.missed => seen'.missed
         /\ seen.lost => seen'.lost
         /\ m.event = "status_change" /\ ~seen'.missed => wire' = Append(wire, m)
         /\ m.event # "status_change" /\ ~seen'.lost => wire' = Append(wire, m)
         /\ m.event # "status_change" => seen'.missed = seen.missed
         /\ ChannelInv => ~seen'.panic
<1>1. /\ wire \in Seq(Events) /\ Len(wire) <= Buffer /\ Len(wire) \in Nat
      /\ seen \in Histories /\ hub \in [inMap : BOOLEAN, open : BOOLEAN]
  BY DEF TypeOK, Histories
<1>2. Append(wire, m) \in Seq(Events) /\ Len(Append(wire, m)) = Len(wire) + 1
  BY <1>1
<1>3. Len(wire) < Buffer => Len(wire) + 1 <= Buffer
  BY <1>1, SizesAssumption
<1>4. wire' = IF hub.inMap /\ Len(wire) < Buffer THEN Append(wire, m) ELSE wire
  BY DEF Broadcast, Reaches
<1>5. wire' \in Seq(Events) /\ Len(wire') <= Buffer
  BY <1>1, <1>2, <1>3, <1>4
<1>6. /\ seen' \in Histories
      /\ seen'.late = seen.late /\ seen'.untold = seen.untold /\ seen'.unsaved = seen.unsaved
      /\ seen'.missed <=> (seen.missed \/ (m.event = "status_change" /\ ~(Reaches /\ sock = "open")))
      /\ seen'.lost <=> (seen.lost \/ (m.event # "status_change" /\ ~(Reaches /\ sock = "open")))
      /\ seen'.panic <=> (seen.panic \/ (hub.inMap /\ ~hub.open))
  BY <1>1 DEF Broadcast, Histories
<1>7. m.event # "status_change" => seen'.missed = seen.missed
  BY <1>1, <1>6 DEF Histories
<1>8. Reaches => wire' = Append(wire, m)
  BY <1>4 DEF Reaches
<1>9. ChannelInv => ~seen'.panic
  BY <1>6 DEF ChannelInv
<1>10. QED
  BY <1>4, <1>5, <1>6, <1>7, <1>8, <1>9

\* The initial states.
LEMMA TypeInit == Init => TypeOK /\ StageInv /\ QueryInv /\ ChannelInv
<1> SUFFICES ASSUME Init PROVE TypeOK /\ StageInv /\ QueryInv /\ ChannelInv
  OBVIOUS
<1> USE DEF Init, Actors, Page, Other, Runner, Silent, NoRow, NoRequest, NotLaunched, Over, Statuses
<1>1. TypeOK
  <2>1. 0 \in 0..Pending /\ 0 \in 0..MaxRequests /\ 0 \in 0..MaxHaps
    BY PendingAssumption, BoundsAssumption
  <2>2. wire \in Seq(Events) /\ Len(wire) <= Buffer
    BY SizesAssumption
  <2>3. <<>> \in ResultNumbers
    BY DEF ResultNumbers
  <2>4. row \in Rows \ {NoRow} /\ query \in [data : Rows, fetch : {"idle", "asked", "served"}, reply : Rows]
    BY DEF Rows
  <2>5. QED
    BY <2>1, <2>2, <2>3, <2>4 DEF TypeOK
<1>2. StageInv
  BY WireEmpty DEF StageInv, Telling
<1>3. QueryInv /\ ChannelInv
  BY DEF QueryInv, ChannelInv, Loaded
<1>4. QED
  BY <1>1, <1>2, <1>3

Speakers == Actors \cup {Runner}
Quiet(p) == says[p].at = "idle"

\* Who speaks has something of a status's type to say; a request speaks while it
\* is telling, the run when it announces.
LEMMA SpeakerFacts ==
  ASSUME TypeOK, StageInv, NEW p \in Speakers, ~Quiet(p)
  PROVE  /\ says[p].status \in Statuses /\ says[p].done \in 0..Pending
         /\ run.phase # "none"
         /\ (p = Runner /\ run.phase = "announcing") \/ (p \in Actors /\ Telling(p))
<1>1. CASE p \in Actors
  BY <1>1 DEF StageInv, Quiet, TypeOK, Turned, Statuses, Telling
<1>2. CASE p = Runner
  BY <1>2 DEF StageInv, Quiet, TypeOK, Statuses
<1>3. QED
  BY <1>1, <1>2 DEF Speakers

\* The two broadcasts of SetStatus.
LEMMA SaysShape ==
  ASSUME TypeOK, StageInv, NEW p \in Speakers, Says(p)
  PROVE  /\ ~Quiet(p)
         /\ says' \in [Speakers -> [at : {"idle", "progress", "status", "said"},
                                    status : Statuses \cup {"none"}, done : 0..Pending]]
         /\ \A q \in Speakers \ {p} : says'[q] = says[q]
         /\ says'[p].status = says[p].status /\ says'[p].done = says[p].done
         /\ \/ /\ says[p].at = "progress" /\ says'[p].at = "status"
               /\ Broadcast(Progress(says[p].done)) /\ Progress(says[p].done) \in Events
            \/ /\ says[p].at = "status" /\ says'[p].at = "said"
               /\ Broadcast(StatusChange(says[p].status)) /\ StatusChange(says[p].status) \in Events
         /\ UNCHANGED <<row, run, feed, ticker, req, hub, made, haps, sock, query, page>>
<1>1. ~Quiet(p)
  BY DEF Says, AnnouncesProgress, AnnouncesStatus, Quiet
<1>2. Progress(says[p].done) \in Events /\ StatusChange(says[p].status) \in Events
  BY <1>1, SpeakerFacts, EventTypes
<1>3. says \in [Speakers -> [at : {"idle", "progress", "status", "said"},
                             status : Statuses \cup {"none"}, done : 0..Pending]]
  BY DEF TypeOK, Speakers
<1>4. QED
  BY <1>1, <1>2, <1>3 DEF Says, AnnouncesProgress, AnnouncesStatus, KeepServer, KeepBrowser

LEMMA TypeSays ==
  ASSUME TypeOK, StageInv, QueryInv, ChannelInv, NEW p \in Speakers, Says(p)
  PROVE  TypeOK' /\ StageInv' /\ QueryInv' /\ ChannelInv'
<1>1. wire' \in Seq(Events) /\ Len(wire') <= Buffer /\ seen' \in Histories /\ ~seen'.panic
  BY SaysShape, BroadcastShape
<1>2. TypeOK'
  <2>1. /\ UNCHANGED <<row, run, feed, ticker, req, hub, made, haps, sock, query, page>>
        /\ says' \in [Speakers -> [at : {"idle", "progress", "status", "said"},
                                   status : Statuses \cup {"none"}, done : 0..Pending]]
    BY SaysShape
  <2>2. QED
    BY <1>1, <2>1 DEF TypeOK, Speakers, Histories
<1>3. \A q \in Speakers : /\ Quiet(q)' <=> Quiet(q)
                          /\ says'[q].status = says[q].status /\ says'[q].done = says[q].done
  BY SaysShape DEF Quiet
<1>4. run.phase # "none" /\ seen'.unsaved = seen.unsaved
  BY SaysShape, SpeakerFacts, BroadcastShape
<1>5. StageInv'
  BY <1>3, <1>4, SaysShape DEF StageInv, Telling, Quiet, Speakers
<1>6. QueryInv' /\ ChannelInv'
  BY <1>1, SaysShape DEF QueryInv, ChannelInv, Loaded
<1>7. QED
  BY <1>2, <1>5, <1>6

\* The ticker.
TickerActs == \/ TicksProgress \/ TickerSendsProgress \/ TicksResults
              \/ TickerSendsResults \/ TickerEnds

LEMMA TickerShape ==
  ASSUME TypeOK, TickerActs
  PROVE  /\ UNCHANGED <<row, run, says, req, hub, made, sock, query, page>>
         /\ ticker' \in [at : {"off", "select", "progress", "results"}, done : 0..Pending,
                         results : ResultNumbers]
         /\ haps' \in 0..MaxHaps
         /\ feed'.status = feed.status
         /\ \/ /\ feed' = feed /\ ticker'.results = ticker.results
               /\ ticker'.at \in {"off", "select", "progress"} /\ ticker.at # "results"
               /\ UNCHANGED <<wire, seen>>
            \/ /\ feed' = feed /\ ticker'.results = ticker.results
               /\ ticker.at = "progress" /\ ticker'.at = "select"
               /\ wire' \in {wire, Append(wire, Progress(ticker.done))}
               /\ Len(wire) < Buffer \/ wire' = wire
               /\ \E late, panic \in BOOLEAN :
                    /\ seen' = [seen EXCEPT !.late = late, !.panic = panic]
                    /\ late <=> seen.late \/ run.phase = "over" \/ says[Runner].at \in {"status", "said"}
                    /\ panic <=> seen.panic \/ (hub.inMap /\ ~hub.open)
            \/ /\ ticker.at = "select" /\ feed'.results = <<>> /\ ticker'.results = feed.results
               /\ UNCHANGED <<wire, seen>>
            \/ /\ ticker.at = "results" /\ feed' = feed /\ ticker'.results = <<>>
               /\ Broadcast(SendResults(ticker.results))
<1> USE DEF TickerStep, KeepBrowser
<1>1. /\ ticker \in [at : {"off", "select", "progress", "results"}, done : 0..Pending,
                     results : ResultNumbers]
      /\ feed \in [status : Statuses \cup {"none"}, results : ResultNumbers]
      /\ run.n \in 0..Pending /\ haps \in 0..MaxHaps /\ 0 \in 0..Pending
      /\ <<>> \in ResultNumbers
  BY PendingAssumption DEF TypeOK, ResultNumbers
<1>2. ASSUME Happens PROVE haps' \in 0..MaxHaps
  BY <1>1, <1>2, BoundsAssumption DEF Happens
<1>3. CASE TicksProgress
  BY <1>1, <1>2, <1>3 DEF TicksProgress
<1>4. CASE TickerSendsProgress
  <2>1. seen \in Histories
    BY DEF TypeOK, Histories
  <2>2. PICK late, panic \in BOOLEAN :
          /\ late <=> seen.late \/ run.phase = "over" \/ says[Runner].at \in {"status", "said"}
          /\ panic <=> seen.panic \/ (hub.inMap /\ ~hub.open)
    OBVIOUS
  <2>3. seen' = [seen EXCEPT !.late = late, !.panic = panic]
    BY <1>4, <2>1, <2>2 DEF TickerSendsProgress, Histories
  <2>4. QED
    BY <1>1, <1>4, <2>2, <2>3 DEF TickerSendsProgress, Reaches
<1>5. CASE TicksResults
  BY <1>1, <1>2, <1>5 DEF TicksResults, Flushed
<1>6. CASE TickerSendsResults
  BY <1>1, <1>6 DEF TickerSendsResults
<1>7. CASE TickerEnds
  BY <1>1, <1>7 DEF TickerEnds
<1>8. QED
  BY <1>3, <1>4, <1>5, <1>6, <1>7 DEF TickerActs

LEMMA TypeTicker ==
  ASSUME TypeOK, StageInv, QueryInv, ChannelInv, TickerActs
  PROVE  TypeOK' /\ StageInv' /\ QueryInv' /\ ChannelInv'
<1>1. /\ UNCHANGED <<row, run, says, req, hub, made, sock, query, page>>
      /\ ticker' \in [at : {"off", "select", "progress", "results"}, done : 0..Pending,
                      results : ResultNumbers]
      /\ haps' \in 0..MaxHaps
  BY TickerShape
<1>2. feed' \in [status : Statuses \cup {"none"}, results : ResultNumbers]
  <2>1. feed \in [status : Statuses \cup {"none"}, results : ResultNumbers] /\ <<>> \in ResultNumbers
    BY DEF TypeOK, ResultNumbers
  <2>2. feed' = feed \/ feed' = [feed EXCEPT !.results = <<>>]
    BY DEF TickerActs, TicksProgress, TickerSendsProgress, TicksResults, Flushed,
       TickerSendsResults, TickerEnds
  <2>3. QED
    BY <2>1, <2>2
<1>3. /\ wire' \in Seq(Events) /\ Len(wire') <= Buffer /\ seen' \in Histories /\ ~seen'.panic
      /\ seen'.unsaved = seen.unsaved
      /\ Has(wire', "status_change") => Has(wire, "status_change")
  <2>1. wire \in Seq(Events) /\ Len(wire) <= Buffer /\ seen \in Histories
    BY DEF TypeOK, Histories
  <2>2. CASE UNCHANGED <<wire, seen>>
    BY <2>1, <2>2 DEF ChannelInv
  <2>3. ASSUME NEW m \in Events, m.event # "status_change", Broadcast(m)
        PROVE  /\ wire' \in Seq(Events) /\ Len(wire') <= Buffer
               /\ seen' \in Histories /\ ~seen'.panic /\ seen'.unsaved = seen.unsaved
               /\ Has(wire', "status_change") => Has(wire, "status_change")
    BY <2>1, <2>3, BroadcastShape, WireAppend
  <2>4. ticker.results \in ResultNumbers => /\ SendResults(ticker.results) \in Events
                                            /\ SendResults(ticker.results).event = "send_results"
    BY EventTypes DEF SendResults
  <2>5. CASE TickerSendsProgress
    <3>1. Progress(ticker.done) \in Events /\ Progress(ticker.done).event = "progress"
      BY EventTypes DEF TypeOK, Progress
    <3>2. wire' = wire \/ (wire' = Append(wire, Progress(ticker.done)) /\ Len(wire) < Buffer)
      BY <2>5 DEF TickerSendsProgress, Reaches
    <3>3. Len(Append(wire, Progress(ticker.done))) = Len(wire) + 1 /\ Len(wire) \in Nat
      BY <2>1, <3>1
    <3>4. wire' \in Seq(Events) /\ Len(wire') <= Buffer
      BY <2>1, <3>1, <3>2, <3>3, SizesAssumption
    <3>5. Has(wire', "status_change") => Has(wire, "status_change")
      BY ZenonT(30), <2>1, <3>1, <3>2, WireAppend
    <3>6. seen' \in Histories /\ ~seen'.panic /\ seen'.unsaved = seen.unsaved
      BY <2>1, <2>5 DEF TickerSendsProgress, Histories, ChannelInv
    <3>7. QED
      BY <3>4, <3>5, <3>6
  <2>6. CASE TickerSendsResults
    BY <2>3, <2>4, <2>6 DEF TickerSendsResults, TypeOK
  <2>7. QED
    BY <2>2, <2>5, <2>6 DEF TickerActs, TicksProgress, TicksResults, TickerEnds
<1>4. TypeOK'
  BY <1>1, <1>2, <1>3 DEF TypeOK, Histories
<1>5. StageInv'
  BY <1>1, <1>3 DEF StageInv, Telling
<1>6. QueryInv' /\ ChannelInv'
  BY <1>1, <1>3 DEF QueryInv, ChannelInv, Loaded
<1>7. QED
  BY <1>4, <1>5, <1>6

\* A statement whose error is not read writes its row, or fails and leaves a trace.
Historied(b) ==
  /\ seen' \in Histories /\ seen'.missed = seen.missed /\ seen'.lost = seen.lost
  /\ seen'.late = seen.late /\ seen'.panic = seen.panic
  /\ seen'.untold <=> seen.untold \/ b
  /\ seen.unsaved => seen'.unsaved
Failed == row' = row /\ seen'.unsaved

LEMMA SavesShape ==
  ASSUME TypeOK, NEW r \in [status : Statuses, done : Nat, ver : Nat \ {0}],
         NEW b \in BOOLEAN, Saves(r, b)
  PROVE  /\ Historied(b) /\ haps' \in 0..MaxHaps
         /\ row' = [status |-> r.status, done |-> r.done, ver |-> row.ver + 1] \/ Failed
<1>1. seen \in Histories /\ haps \in 0..MaxHaps /\ MaxHaps \in Nat
  BY BoundsAssumption DEF TypeOK, Histories
<1>2. CASE /\ row' = [r EXCEPT !.ver = row.ver + 1] /\ Untold(b) /\ Calm
  <2>1. Historied(b)
    BY <1>1, <1>2 DEF Untold, Historied, Histories
  <2>2. row' = [status |-> r.status, done |-> r.done, ver |-> row.ver + 1]
    BY <1>2
  <2>3. QED
    BY <1>1, <1>2, <2>1, <2>2 DEF Calm
<1>3. CASE /\ row' = row /\ Happens
           /\ seen' = [seen EXCEPT !.untold = @ \/ b, !.unsaved = TRUE]
  <2>1. Historied(b) /\ Failed
    BY <1>1, <1>3 DEF Historied, Histories, Failed
  <2>2. haps' \in 0..MaxHaps
    BY <1>1, <1>3 DEF Happens
  <2>3. QED
    BY <2>1, <2>2
<1>4. QED
  BY <1>2, <1>3 DEF Saves

\* The run.
LEMMA RunShape ==
  ASSUME TypeOK, StageInv, Run
  PROVE  /\ UNCHANGED <<ticker, req, hub, made, sock, query, page>> /\ haps' \in 0..MaxHaps
         /\ run' \in [phase : {"none", "sending", "saving", "recording", "announcing", "over"},
                      n : 0..Pending, paused : BOOLEAN, ctxDone : BOOLEAN,
                      status : {"sending", "paused", "cancelled"}, verdict : Over \cup {"none"}]
         /\ feed' \in [status : Statuses \cup {"none"}, results : ResultNumbers]
         /\ run'.n = run.n \/ run.phase = "sending"
         /\ \/ /\ run.phase = "sending" /\ run'.phase = "sending" /\ run'.n = run.n + 1
               /\ feed'.results = Append(feed.results, run.n + 1)
               /\ UNCHANGED <<row, says, wire, seen>>
            \/ /\ run.phase = "sending" /\ run'.phase = "saving" /\ run'.n = run.n
               /\ feed'.results = <<>>
               /\ \/ feed.results # <<>> /\ Broadcast(SendResults(feed.results))
                  \/ feed.results = <<>> /\ UNCHANGED <<wire, seen>>
               /\ UNCHANGED <<row, says>>
            \/ /\ run.phase = "saving" /\ run'.phase = "recording" /\ run'.verdict \in Over
               /\ feed'.results = feed.results /\ UNCHANGED <<row, says, wire, seen>>
            \/ /\ run.phase = "recording" /\ run'.phase = "announcing" /\ run'.verdict = run.verdict
               /\ \/ row' = [status |-> run.verdict, done |-> row.done + run.n, ver |-> row.ver + 1]
                  \/ Failed
               /\ Historied(FALSE) /\ run'.n = run.n
               /\ feed'.results = feed.results /\ UNCHANGED <<says, wire>>
            \/ /\ run.phase = "announcing" /\ Quiet(Runner) /\ run' = run
               /\ says' = [says EXCEPT ![Runner] =
                             [at |-> "progress", status |-> run.verdict, done |-> run.n]]
               /\ feed'.results = feed.results /\ UNCHANGED <<row, wire, seen>>
            \/ /\ run.phase = "announcing" /\ says[Runner].at = "said" /\ run'.phase = "over"
               /\ says' = [says EXCEPT ![Runner] = Silent]
               /\ feed'.results = feed.results /\ UNCHANGED <<row, wire, seen>>
<1> USE DEF RunStep, KeepBrowser, Calm
<1>1. /\ run \in [phase : {"none", "sending", "saving", "recording", "announcing", "over"},
                  n : 0..Pending, paused : BOOLEAN, ctxDone : BOOLEAN,
                  status : {"sending", "paused", "cancelled"}, verdict : Over \cup {"none"}]
      /\ feed \in [status : Statuses \cup {"none"}, results : ResultNumbers]
      /\ Pending \in Nat /\ run.n \in 0..Pending /\ haps \in 0..MaxHaps
  BY PendingAssumption DEF TypeOK
<1>2. row = [status |-> row.status, done |-> row.done, ver |-> row.ver]
  BY DEF TypeOK, Rows, NoRow
<1>3. CASE RunReports
  <2>1. run.n + 1 \in 0..Pending /\ run.n + 1 \in 1..Pending
    BY <1>1, <1>3 DEF RunReports
  <2>2. Append(feed.results, run.n + 1) \in ResultNumbers
    BY <1>1, <2>1 DEF ResultNumbers
  <2>3. QED
    BY <1>1, <1>3, <2>1, <2>2 DEF RunReports
<1>4. CASE RunFlushes
  <2>1. <<>> \in ResultNumbers
    BY DEF ResultNumbers
  <2>2. QED
    BY <1>1, <1>4, <2>1 DEF RunFlushes, Flushed
<1>5. CASE RunJudges
  BY <1>1, <1>5 DEF RunJudges, FinalStatus, Over
<1>6. CASE RunRecords
  <2> DEFINE r == [row EXCEPT !.status = run.verdict, !.done = @ + run.n]
  <2>1. /\ row.status \in Statuses /\ row.done \in Nat /\ row.ver \in Nat \ {0}
        /\ row \in [status : Statuses, done : Nat, ver : Nat \ {0}]
    BY DEF TypeOK, Rows, NoRow
  <2>2. run.verdict \in Statuses /\ row.done + run.n \in Nat
    BY <1>1, <1>6, <2>1 DEF RunRecords, StageInv, Statuses
  <2>3. r \in [status : Statuses, done : Nat, ver : Nat \ {0}]
        /\ r.status = run.verdict /\ r.done = row.done + run.n
    BY <2>1, <2>2
  <2>4. Saves(r, FALSE)
    BY <1>6 DEF RunRecords
  <2>5. /\ Historied(FALSE) /\ haps' \in 0..MaxHaps
        /\ \/ row' = [status |-> run.verdict, done |-> row.done + run.n, ver |-> row.ver + 1]
           \/ Failed
    <3> HIDE DEF r
    <3>1. QED
      BY <2>3, <2>4, SavesShape
  <2>6. /\ run.phase = "recording" /\ run' = [run EXCEPT !.phase = "announcing"]
        /\ UNCHANGED <<feed, says, wire, ticker, req, hub, made, sock, query, page>>
    BY <1>6 DEF RunRecords
  <2>7. /\ run' \in [phase : {"none", "sending", "saving", "recording", "announcing", "over"},
                     n : 0..Pending, paused : BOOLEAN, ctxDone : BOOLEAN,
                     status : {"sending", "paused", "cancelled"}, verdict : Over \cup {"none"}]
        /\ run'.phase = "announcing" /\ run'.verdict = run.verdict /\ run'.n = run.n
    BY <1>1, <2>6
  <2>8. QED
    BY <1>1, <2>5, <2>6, <2>7
<1>7. CASE RunAnnounces
  <2>1. feed' \in [status : Statuses \cup {"none"}, results : ResultNumbers] /\ feed'.results = feed.results
    BY <1>1, <1>7 DEF RunAnnounces, SetStatus, Statuses
  <2>2. QED
    BY <1>1, <1>7, <2>1 DEF RunAnnounces, MayAnnounce, SetStatus, Quiet
<1>8. CASE RunLeaves
  BY <1>1, <1>8 DEF RunLeaves, NotLaunched
<1>9. QED
  BY <1>3, <1>4, <1>5, <1>6, <1>7, <1>8 DEF Run

LEMMA TypeRun ==
  ASSUME TypeOK, StageInv, QueryInv, ChannelInv, Run
  PROVE  TypeOK' /\ StageInv' /\ QueryInv' /\ ChannelInv'
<1>1. /\ UNCHANGED <<ticker, req, hub, made, sock, query, page>> /\ haps' \in 0..MaxHaps
      /\ run' \in [phase : {"none", "sending", "saving", "recording", "announcing", "over"},
                   n : 0..Pending, paused : BOOLEAN, ctxDone : BOOLEAN,
                   status : {"sending", "paused", "cancelled"}, verdict : Over \cup {"none"}]
      /\ feed' \in [status : Statuses \cup {"none"}, results : ResultNumbers]
  BY RunShape
<1>2. /\ wire' \in Seq(Events) /\ Len(wire') <= Buffer /\ seen' \in Histories /\ ~seen'.panic
      /\ Has(wire', "status_change") => Has(wire, "status_change")
  <2>1. wire \in Seq(Events) /\ Len(wire) <= Buffer /\ seen \in Histories
    BY DEF TypeOK, Histories
  <2>2. CASE UNCHANGED <<wire, seen>>
    BY <2>1, <2>2 DEF ChannelInv
  <2>3. SendResults(feed.results) \in Events /\ SendResults(feed.results).event = "send_results"
    BY EventTypes DEF SendResults, TypeOK
  <2>4. CASE Broadcast(SendResults(feed.results))
    BY <2>1, <2>3, <2>4, BroadcastShape, WireAppend
  <2>6. CASE wire' = wire /\ Historied(FALSE)
    BY <2>1, <2>6 DEF ChannelInv, Historied
  <2>5. QED
    BY <2>2, <2>4, <2>6, RunShape
<1>3. row' \in Rows \ {NoRow} /\ row'.ver >= row.ver
  <2>1. /\ row.status \in Statuses /\ row.done \in Nat /\ row.ver \in Nat \ {0}
        /\ row \in Rows \ {NoRow}
    BY DEF TypeOK, Rows, NoRow
  <2>2. CASE UNCHANGED row
    BY <2>1, <2>2
  <2>3. CASE run.phase = "recording" /\ row' = [status |-> run.verdict, done |-> row.done + run.n, ver |-> row.ver + 1]
    <3>1. run.verdict \in Statuses /\ run.n \in Nat
      BY <2>3, PendingAssumption DEF StageInv, Statuses, TypeOK
    <3>2. row.done + run.n \in Nat /\ row.ver + 1 \in Nat \ {0} /\ row.ver + 1 >= row.ver
      BY <2>1, <3>1
    <3>3. QED
      BY <2>1, <2>3, <3>1, <3>2 DEF Rows, NoRow
  <2>4. QED
    BY <2>2, <2>3, RunShape DEF Failed
<1>4. says' \in [Speakers -> [at : {"idle", "progress", "status", "said"},
                              status : Statuses \cup {"none"}, done : 0..Pending]]
  <2>1. /\ says \in [Speakers -> [at : {"idle", "progress", "status", "said"},
                                  status : Statuses \cup {"none"}, done : 0..Pending]]
        /\ Runner \in Speakers /\ run.n \in 0..Pending
    BY DEF TypeOK, Speakers
  <2>2. CASE UNCHANGED says
    BY <2>1, <2>2
  <2>3. CASE run.phase = "announcing" /\ says' = [says EXCEPT ![Runner] =
                             [at |-> "progress", status |-> run.verdict, done |-> run.n]]
    BY <2>1, <2>3 DEF StageInv, Statuses
  <2>4. CASE says' = [says EXCEPT ![Runner] = Silent]
    <3>1. 0 \in 0..Pending
      BY PendingAssumption
    <3>2. QED
      BY <2>1, <2>4, <3>1 DEF Silent
  <2>5. QED
    BY <2>2, <2>3, <2>4, RunShape
<1>5. TypeOK'
  BY <1>1, <1>2, <1>3, <1>4 DEF TypeOK, Speakers, Histories
<1>6. StageInv'
  <2>1. /\ \A a \in Actors : says'[a] = says[a] /\ (Telling(a)' <=> Telling(a))
        /\ says'[Runner] = says[Runner] \/ (run.phase = "announcing" /\ run' = run
             /\ says'[Runner] = [at |-> "progress", status |-> run.verdict, done |-> run.n])
           \/ says'[Runner] = Silent
    BY <1>1, RunShape DEF Telling, TypeOK, Speakers, Actors, Runner, Page, Other
  <2>2. row.done \in Nat /\ run.n \in Nat /\ row.status \in Statuses
    BY PendingAssumption DEF TypeOK, Rows, NoRow
  <2>3. /\ run'.phase \in {"recording", "announcing"} => run'.verdict \in Over
        /\ run.phase # "none" /\ run'.phase # "none"
    BY RunShape DEF StageInv
  <2>10. \/ row' = row /\ run.phase \in {"sending", "saving"}
              /\ run'.phase \in {"sending", "saving", "recording"}
         \/ row' = row /\ run.phase = "announcing" /\ run' = run
         \/ row' = row /\ run.phase = "announcing" /\ run'.phase = "over" /\ run'.n = run.n
              /\ says' = [says EXCEPT ![Runner] = Silent]
         \/ /\ run.phase = "recording" /\ run'.phase = "announcing"
            /\ run'.verdict = run.verdict /\ run'.n = run.n
            /\ \/ row' = [status |-> run.verdict, done |-> row.done + run.n, ver |-> row.ver + 1]
               \/ Failed
    BY RunShape
  <2>4. says'[Runner].at # "idle" => /\ run'.phase = "announcing"
                                     /\ says'[Runner].status = run'.verdict /\ says'[Runner].done = run'.n
    <3>1. says' = [says EXCEPT ![Runner] = Silent] => says'[Runner].at = "idle"
      BY DEF TypeOK, Silent, Speakers
    <3>2. CASE says'[Runner] = says[Runner]
      BY <2>10, <3>1, <3>2 DEF StageInv
    <3>3. CASE says'[Runner] # says[Runner]
      BY <2>1, <3>3 DEF Silent
    <3>4. QED
      BY <3>2, <3>3
  <2>9. ~seen'.unsaved => ~seen.unsaved
    <3>1. ASSUME feed.results # <<>>, Broadcast(SendResults(feed.results))
          PROVE  seen'.unsaved = seen.unsaved
      <4>1. SendResults(feed.results) \in Events
        BY EventTypes DEF SendResults, TypeOK
      <4>2. QED
        BY <3>1, <4>1, BroadcastShape
    <3>2. QED
      BY <3>1, RunShape DEF Historied
  <2>5. ~seen'.unsaved => row'.status \in {"sending", "paused"} \cup Over
    BY <2>9, <2>10 DEF StageInv, Failed
  <2>6. row'.status \in Over => \/ run'.phase = "announcing" /\ row'.status = run'.verdict
                                \/ run'.phase = "over"
    BY <2>10 DEF StageInv, Failed, Over
  <2>7. ~seen'.unsaved =>
          row'.done = IF run'.phase \in {"announcing", "over"} THEN run'.n ELSE 0
    BY <2>2, <2>9, <2>10 DEF StageInv, Failed
  <2>8. QED
    BY <2>1, <2>3, <2>4, <2>5, <2>6, <2>7, <1>1 DEF StageInv, Telling
<1>7. QueryInv' /\ ChannelInv'
  <2>1. row.ver \in Nat /\ row'.ver \in Nat /\ query.data.ver \in Nat /\ query.reply.ver \in Nat
    BY <1>3 DEF TypeOK, Rows, NoRow
  <2>2. QED
    BY <1>1, <1>2, <1>3, <2>1 DEF QueryInv, ChannelInv, Loaded
<1>8. QED
  BY <1>5, <1>6, <1>7

\* The requests.  One that writes the row bumps its version, outside the run; a
\* pause or a resume begins to tell; any other leaves the row and the talk alone.
Answered(a, ok) ==
  /\ \A b \in Actors \ {a} : req'[b] = req[b]
  /\ req'[a].at = IF a = Page THEN "answered" ELSE "idle"
  /\ a = Page => (req'[a].ok <=> ok)
Writes(status) ==
  /\ row' = [status |-> status, done |-> row.done, ver |-> row.ver + 1] \/ Failed
  /\ UNCHANGED says
Keeps == UNCHANGED <<row, says, seen>>

ServerTypes ==
  /\ run' \in [phase : {"none", "sending", "saving", "recording", "announcing", "over"},
               n : 0..Pending, paused : BOOLEAN, ctxDone : BOOLEAN,
               status : {"sending", "paused", "cancelled"}, verdict : Over \cup {"none"}]
  /\ feed' \in [status : Statuses \cup {"none"}, results : ResultNumbers]
  /\ ticker' \in [at : {"off", "select", "progress", "results"}, done : 0..Pending,
                  results : ResultNumbers]
  /\ says' \in [Speakers -> [at : {"idle", "progress", "status", "said"},
                             status : Statuses \cup {"none"}, done : 0..Pending]]
  /\ req' \in [Actors -> [at : {"idle", "telling", "answered"},
                          op : Ops \cup {"none"}, ok : BOOLEAN]]
  /\ feed'.results = feed.results /\ ticker'.results = ticker.results
  /\ run'.n = run.n /\ run'.verdict = run.verdict

LEMMA RowFields ==
  ASSUME TypeOK
  PROVE  /\ row = [status |-> row.status, done |-> row.done, ver |-> row.ver]
         /\ row.status \in Statuses /\ row.done \in Nat /\ row.ver \in Nat \ {0}
         /\ \A s \in Statuses : Write(s) => row' = [status |-> s, done |-> row.done, ver |-> row.ver + 1]
         /\ query.data.ver \in Nat /\ query.reply.ver \in Nat
<1>1. /\ row = [status |-> row.status, done |-> row.done, ver |-> row.ver]
      /\ row.status \in Statuses /\ row.done \in Nat /\ row.ver \in Nat \ {0}
      /\ query.data.ver \in Nat /\ query.reply.ver \in Nat
  BY DEF TypeOK, Rows, NoRow
<1>2. row \in [status : Statuses, done : Nat, ver : Nat]
  BY DEF TypeOK, Rows, NoRow
<1>3. ASSUME NEW s \in Statuses, Write(s)
      PROVE  row' = [status |-> s, done |-> row.done, ver |-> row.ver + 1]
  BY <1>2, <1>3 DEF Write
<1>4. QED
  BY <1>1, <1>3

LEMMA AnswerShape ==
  ASSUME TypeOK, NEW a \in Actors, NEW op \in Ops, NEW ok \in BOOLEAN, Answer(a, op, ok)
  PROVE  /\ req' \in [Actors -> [at : {"idle", "telling", "answered"},
                                 op : Ops \cup {"none"}, ok : BOOLEAN]]
         /\ Answered(a, ok)
BY DEF TypeOK, Answer, Answered, NoRequest, Actors, Page, Other

LEMMA LaunchShape ==
  ASSUME TypeOK, NEW b \in BOOLEAN, Launch(b), UNCHANGED says,
         req' \in [Actors -> [at : {"idle", "telling", "answered"},
                              op : Ops \cup {"none"}, ok : BOOLEAN]]
  PROVE  /\ ServerTypes /\ Writes("sending") /\ Historied(b) /\ haps' \in 0..MaxHaps
         /\ run.phase = "none" /\ run'.phase = "sending"
<1> DEFINE r == [row EXCEPT !.status = "sending"]
<1>1. r \in [status : Statuses, done : Nat, ver : Nat \ {0}] /\ r.status = "sending" /\ r.done = row.done
  BY RowFields DEF Statuses
<1>2. /\ Saves(r, b) /\ run.phase = "none"
      /\ run' = [run EXCEPT !.phase = "sending"]
      /\ feed' = [feed EXCEPT !.status = "sending"]
      /\ ticker' = [ticker EXCEPT !.at = "select"]
  BY DEF Launch
<1> HIDE DEF r
<1>3. /\ Historied(b) /\ haps' \in 0..MaxHaps
      /\ row' = [status |-> "sending", done |-> row.done, ver |-> row.ver + 1] \/ Failed
  BY <1>1, <1>2, SavesShape
<1>4. ServerTypes /\ run'.phase = "sending"
  BY <1>2 DEF TypeOK, ServerTypes, Statuses, Speakers
<1>5. QED
  BY <1>2, <1>3, <1>4 DEF Writes

LEMMA ServeShape ==
  ASSUME TypeOK, StageInv, NEW a \in Actors, NEW op \in Ops, Serve(a, op)
  PROVE  /\ ServerTypes /\ UNCHANGED <<hub, wire>>
         /\ made' \in 0..MaxRequests /\ haps' \in 0..MaxHaps
         /\ req[a].at = "idle"
         /\ \/ /\ Writes("sending") /\ run.phase = "none" /\ run'.phase = "sending"
               /\ Answered(a, TRUE) /\ Historied(a = Other)
            \/ /\ \E s \in {"draft", "scheduled"} : row.status \in {"draft", "scheduled"} /\ Writes(s)
               /\ run' = run /\ ticker' = ticker
               /\ Answered(a, TRUE) /\ Historied(a = Other)
            \/ /\ Running /\ run'.phase = run.phase
               /\ says' = [says EXCEPT ![a] = [at |-> "progress", status |-> Turned(op), done |-> run.n]]
               /\ \A b \in Actors \ {a} : req'[b] = req[b]
               /\ req'[a].at = "telling" /\ req'[a].op = op
               /\ ticker' = ticker /\ UNCHANGED <<row, seen>>
            \/ /\ run'.phase = run.phase /\ ticker' = ticker
               /\ \E ok \in BOOLEAN : Answered(a, ok)
               /\ Keeps
<1> DEFINE Unmoved == run' = run /\ feed' = feed /\ ticker' = ticker /\ says' = says
<1>1. /\ req[a].at = "idle" /\ made' \in 0..MaxRequests /\ UNCHANGED <<hub, wire>>
      /\ Calm => haps' \in 0..MaxHaps
  <2>1. /\ made \in 0..MaxRequests /\ made < MaxRequests /\ made' = made + 1
        /\ haps \in 0..MaxHaps
    BY DEF TypeOK, Serve
  <2>2. QED
    BY <2>1, BoundsAssumption DEF Serve, RequestStep, Calm
<1>2. seen \in Histories
  BY DEF TypeOK, Histories
<1>3. \A b \in BOOLEAN : Untold(b) => Historied(b)
  BY <1>2 DEF Untold, Historied, Histories
<1>4. (a = Other) \in BOOLEAN
  OBVIOUS
<1>5. ASSUME Unmoved, req' \in [Actors -> [at : {"idle", "telling", "answered"},
                                           op : Ops \cup {"none"}, ok : BOOLEAN]]
      PROVE  ServerTypes
  BY <1>5 DEF TypeOK, ServerTypes, Speakers
<1>6. CASE Refuse(a, op)
  <2>1. Unmoved /\ Keeps /\ Answer(a, op, FALSE) /\ Calm
    BY <1>6 DEF Refuse, Keeps
  <2>2. Answered(a, FALSE) /\ ServerTypes
    BY <1>5, <2>1, AnswerShape
  <2>3. QED
    BY <1>1, <2>1, <2>2
<1>7. CASE Launch(a = Other) /\ Answer(a, "start", TRUE) /\ UNCHANGED says
  <2>1. Answered(a, TRUE) /\ req' \in [Actors -> [at : {"idle", "telling", "answered"},
                                                  op : Ops \cup {"none"}, ok : BOOLEAN]]
    BY <1>7, AnswerShape DEF Ops
  <2>2. QED
    BY <1>1, <1>4, <1>7, <2>1, LaunchShape
<1>8. ASSUME NEW s \in {"draft", "scheduled"}, row.status \in {"draft", "scheduled"},
             Write(s), Answer(a, op, TRUE), Untold(a = Other), Unmoved, Calm
      PROVE  /\ \E t \in {"draft", "scheduled"} : row.status \in {"draft", "scheduled"} /\ Writes(t)
             /\ run' = run /\ ticker' = ticker /\ ServerTypes
             /\ Answered(a, TRUE) /\ Historied(a = Other)
  <2>1. Writes(s)
    BY <1>8, RowFields DEF Writes, Statuses
  <2>2. Answered(a, TRUE) /\ ServerTypes
    BY <1>5, <1>8, AnswerShape
  <2>3. QED
    BY <1>3, <1>4, <1>8, <2>1, <2>2
<1>9. CASE Reschedule(a, op) /\ ~Refuse(a, op)
  BY <1>1, <1>8, <1>9 DEF Reschedule
<1>10. CASE Turn(a, op) /\ ~Refuse(a, op)
  <2>1. /\ Running /\ run' = [run EXCEPT !.paused = (op = "pause"), !.status = Turned(op)]
        /\ feed' = [feed EXCEPT !.status = Turned(op)]
        /\ says' = [says EXCEPT ![a] = [at |-> "progress", status |-> Turned(op), done |-> run.n]]
        /\ req' = [req EXCEPT ![a] = [at |-> "telling", op |-> op, ok |-> TRUE]]
        /\ UNCHANGED <<row, ticker, seen>> /\ Calm
    BY <1>10 DEF Turn, SetStatus
  <2>2. /\ Turned(op) \in {"sending", "paused"} /\ Turned(op) \in Statuses
        /\ (op = "pause") \in BOOLEAN /\ run.n \in 0..Pending
    BY DEF Turned, Statuses, TypeOK
  <2>3. /\ run' \in [phase : {"none", "sending", "saving", "recording", "announcing", "over"},
                     n : 0..Pending, paused : BOOLEAN, ctxDone : BOOLEAN,
                     status : {"sending", "paused", "cancelled"}, verdict : Over \cup {"none"}]
        /\ run'.n = run.n /\ run'.verdict = run.verdict /\ run'.phase = run.phase
    BY <2>1, <2>2 DEF TypeOK
  <2>6. /\ says' \in [Speakers -> [at : {"idle", "progress", "status", "said"},
                                   status : Statuses \cup {"none"}, done : 0..Pending]]
        /\ req' \in [Actors -> [at : {"idle", "telling", "answered"},
                                op : Ops \cup {"none"}, ok : BOOLEAN]]
    BY <2>1, <2>2 DEF TypeOK, Speakers
  <2>7. ServerTypes
    BY <2>1, <2>2, <2>3, <2>6 DEF TypeOK, ServerTypes
  <2>4. /\ \A b \in Actors \ {a} : req'[b] = req[b]
        /\ req'[a].at = "telling" /\ req'[a].op = op
    BY <2>1 DEF TypeOK
  <2>5. QED
    BY <1>1, <2>1, <2>3, <2>4, <2>7
<1>11. CASE Cancel(a) /\ op = "cancel" /\ ~Refuse(a, op)
  <2>1. /\ run' = [run EXCEPT !.status = "cancelled", !.ctxDone = TRUE]
        /\ Answer(a, op, TRUE) /\ Calm
        /\ UNCHANGED <<row, feed, ticker, says, seen>>
    BY <1>11 DEF Cancel
  <2>2. Answered(a, TRUE) /\ req' \in [Actors -> [at : {"idle", "telling", "answered"},
                                                  op : Ops \cup {"none"}, ok : BOOLEAN]]
    BY <2>1, AnswerShape
  <2>3. ServerTypes /\ run'.phase = run.phase
    BY <2>1, <2>2 DEF TypeOK, ServerTypes, Speakers
  <2>4. QED
    BY <1>1, <2>1, <2>2, <2>3 DEF Keeps
<1>12. QED
  <2>1. CASE op = "start"
    BY <1>6, <1>7, <2>1 DEF Serve, Start
  <2>2. CASE op \in {"schedule", "unschedule"}
    BY <1>6, <1>9, <2>2 DEF Serve
  <2>3. CASE op \in {"pause", "resume"}
    BY <1>6, <1>10, <2>3 DEF Serve
  <2>4. CASE op = "cancel"
    BY <1>6, <1>11, <2>4 DEF Serve
  <2>5. QED
    BY <2>1, <2>2, <2>3, <2>4 DEF Ops

LEMMA TurnRecordsShape ==
  ASSUME TypeOK, StageInv, NEW a \in Actors, TurnRecords(a)
  PROVE  /\ ServerTypes /\ UNCHANGED <<hub, wire, made, sock, query, page, run, ticker>>
         /\ Telling(a) /\ says[a].at = "said" /\ haps' \in 0..MaxHaps
         /\ \/ row' = [status |-> Turned(req[a].op), done |-> row.done, ver |-> row.ver + 1]
            \/ Failed
         /\ Turned(req[a].op) \in {"sending", "paused"}
         /\ says' = [says EXCEPT ![a] = Silent]
         /\ Answered(a, TRUE) /\ Historied(a = Other)
<1> DEFINE r == [row EXCEPT !.status = Turned(req[a].op)]
<1>1. Turned(req[a].op) \in {"sending", "paused"} /\ Turned(req[a].op) \in Statuses
  BY DEF Turned, Statuses
<1>2. /\ Saves(r, a = Other) /\ Answer(a, req[a].op, TRUE)
      /\ says' = [says EXCEPT ![a] = Silent]
      /\ UNCHANGED <<run, feed, ticker, made, hub, wire, sock, query, page>>
      /\ Telling(a) /\ says[a].at = "said"
  BY DEF TurnRecords, RequestStep, KeepBrowser, Telling
<1>3. 0 \in 0..Pending /\ (a = Other) \in BOOLEAN
  BY PendingAssumption
<1>4. /\ Historied(a = Other) /\ haps' \in 0..MaxHaps
      /\ row' = [status |-> Turned(req[a].op), done |-> row.done, ver |-> row.ver + 1] \/ Failed
  <2>1. r \in [status : Statuses, done : Nat, ver : Nat \ {0}]
        /\ r.status = Turned(req[a].op) /\ r.done = row.done
    BY <1>1, RowFields
  <2> HIDE DEF r
  <2>2. QED
    BY <1>2, <1>3, <2>1, SavesShape
<1>5. /\ says' \in [Speakers -> [at : {"idle", "progress", "status", "said"},
                                 status : Statuses \cup {"none"}, done : 0..Pending]]
      /\ req' \in [Actors -> [at : {"idle", "telling", "answered"},
                              op : Ops \cup {"none"}, ok : BOOLEAN]]
      /\ Answered(a, TRUE)
  BY <1>2, <1>3 DEF TypeOK, Speakers, Silent, Answer, Answered, NoRequest, Actors, Page, Other
<1>6. ServerTypes
  BY <1>2, <1>5 DEF TypeOK, ServerTypes
<1>7. QED
  BY <1>1, <1>2, <1>4, <1>5, <1>6

\* A row written by a request.
LEMMA WriteKeeps ==
  ASSUME TypeOK, NEW s \in Statuses,
         row' = [status |-> s, done |-> row.done, ver |-> row.ver + 1]
  PROVE  row' \in Rows \ {NoRow} /\ row'.ver > row.ver /\ row'.done = row.done /\ row'.status = s
BY RowFields DEF Rows, NoRow

LEMMA WritesKeep ==
  ASSUME TypeOK, NEW s \in Statuses,
         row' = [status |-> s, done |-> row.done, ver |-> row.ver + 1] \/ Failed
  PROVE  /\ row' \in Rows \ {NoRow} /\ row'.ver >= row.ver /\ row'.done = row.done
         /\ (row'.ver > row.ver /\ row'.status = s) \/ Failed
<1>1. row.ver \in Nat
  BY RowFields
<1>2. CASE Failed
  BY <1>1, <1>2 DEF Failed, TypeOK
<1>3. CASE row' = [status |-> s, done |-> row.done, ver |-> row.ver + 1]
  BY <1>1, <1>3, WriteKeeps
<1>4. QED
  BY <1>2, <1>3

\* Requests are those of the page, of the other user and of the scheduler.
PageOr(a, op) == IF a = Page THEN PageActs(op) ELSE OtherActs(op)

LEMMA PageOrShape ==
  ASSUME TypeOK, NEW a \in Actors, NEW op \in Ops, PageOr(a, op)
  PROVE  /\ Serve(a, op) /\ sock' = sock /\ query' = query
         /\ page' \in [status : Statuses \cup {"none"}, done : Nat, results : ResultNumbers,
                       acting : Ops \cup {"none"}]
         /\ page'.status = page.status /\ page'.done = page.done /\ page'.results = page.results
         /\ a = Page => Loaded
BY DEF TypeOK, PageOr, PageActs, OtherActs, KeepBrowser, Actors, Page, Other

\* While nobody has launched the run, the row is a draft's or a scheduled one's.
LEMMA NotLaunchedFacts ==
  ASSUME TypeOK, StageInv
  PROVE  /\ run.phase = "none" => row.status \in {"draft", "scheduled"}
         /\ row.status \in {"draft", "scheduled"} /\ ~seen.unsaved => run.phase = "none"
         /\ RowFinal => run.phase \in {"announcing", "over"}
         /\ RowFinal /\ run.phase = "announcing" => row.status = run.verdict
         /\ RowFinal /\ ~seen.unsaved => row.done = run.n
         /\ row.status \in {"draft", "scheduled", "sending", "paused"} => ~RowFinal
         /\ run.phase = "none" => ~Has(wire, "status_change")
         /\ says[Runner].at # "idle" => run.phase = "announcing"
BY DEF StageInv, RowFinal, Over

LEMMA TypeServe ==
  ASSUME TypeOK, StageInv, QueryInv, ChannelInv,
         NEW a \in Actors, NEW op \in Ops, PageOr(a, op)
  PROVE  TypeOK' /\ StageInv' /\ QueryInv' /\ ChannelInv'
<1>1. /\ ServerTypes /\ UNCHANGED <<hub, wire, sock, query>>
      /\ made' \in 0..MaxRequests /\ haps' \in 0..MaxHaps
      /\ req[a].at = "idle" /\ (a = Page => Loaded)
      /\ page' \in [status : Statuses \cup {"none"}, done : Nat, results : ResultNumbers,
                    acting : Ops \cup {"none"}]
  BY PageOrShape, ServeShape
<1> DEFINE S == seen' \in Histories /\ (seen'.panic <=> seen.panic)
           R == /\ row' \in Rows \ {NoRow} /\ row'.ver >= row.ver /\ row'.done = row.done
           Rest == S /\ R /\ StageInv'
<1>2. seen \in Histories /\ row \in Rows \ {NoRow} /\ row.ver \in Nat
  BY RowFields DEF TypeOK, Histories
<1>3. \A b \in Actors : says[b].at = "idle" <=> ~Telling(b)
  BY DEF StageInv
<1>4. /\ ~Telling(a) /\ says[a].at = "idle"
      /\ Runner \in Speakers /\ Runner \notin Actors /\ Actors \subseteq Speakers
  BY <1>1, <1>3 DEF Telling, Speakers, Actors, Runner, Page, Other
<1>5. ASSUME NEW ok \in BOOLEAN, Answered(a, ok)
      PROVE  \A b \in Actors : (Telling(b)' <=> Telling(b)) /\ (Telling(b) => req'[b] = req[b])
  BY <1>4, <1>5 DEF Answered, Telling
<1>6. ASSUME Writes("sending"), run.phase = "none", run'.phase = "sending",
             Answered(a, TRUE), Historied(a = Other)
      PROVE  Rest
  <2>1. S /\ R /\ (row'.status = "sending" \/ Failed) /\ says' = says
    BY <1>6, WritesKeep DEF Writes, Historied, Statuses
  <2>2. \A b \in Actors : ~Telling(b)' /\ says'[b].at = "idle"
    BY <1>3, <1>5, <1>6 DEF StageInv, Writes
  <2>3. says'[Runner].at = "idle" /\ run'.n = 0 /\ row'.status \notin Over
    BY <1>1, <1>6, <2>1 DEF StageInv, Failed, ServerTypes, Over
  <2>4. ~seen'.unsaved => row'.done = 0 /\ row'.status = "sending"
    BY <1>6, <2>1 DEF StageInv, Historied, Failed
  <2>5. StageInv'
    BY <1>1, <1>6, <2>1, <2>2, <2>3, <2>4 DEF StageInv, Telling, Over
  <2>6. QED
    BY <2>1, <2>5
<1>7. ASSUME \E s \in {"draft", "scheduled"} : row.status \in {"draft", "scheduled"} /\ Writes(s),
             run' = run, Answered(a, TRUE), Historied(a = Other)
      PROVE  Rest
  <2>1. /\ S /\ R /\ row'.status \in {"draft", "scheduled"} /\ says' = says
        /\ run.phase = "none" \/ seen.unsaved
        /\ seen.unsaved => seen'.unsaved
    BY <1>7, WritesKeep, NotLaunchedFacts DEF Writes, Historied, Statuses, Failed
  <2>2. \A b \in Actors : (Telling(b)' <=> Telling(b)) /\ (Telling(b) => req'[b] = req[b])
    BY <1>5, <1>7
  <2>3. \A b \in Actors : IF Telling(b)'
                          THEN says'[b].at # "idle" /\ says'[b].status = Turned(req'[b].op)
                          ELSE says'[b].at = "idle"
    BY <2>1, <2>2 DEF StageInv
  <2>4. run.phase = "none" => /\ run'.n = 0 /\ \A b \in Actors : ~Telling(b)'
                              /\ ~seen'.unsaved => row'.done = 0
    BY <1>7, <2>1, <2>2 DEF StageInv
  <2>5. StageInv'
    BY <1>1, <1>7, <2>1, <2>2, <2>3, <2>4 DEF StageInv, Over
  <2>6. QED
    BY <2>1, <2>5
<1>8. ASSUME Running, run'.phase = run.phase,
             says' = [says EXCEPT ![a] = [at |-> "progress", status |-> Turned(op), done |-> run.n]],
             \A b \in Actors \ {a} : req'[b] = req[b],
             req'[a].at = "telling", req'[a].op = op,
             UNCHANGED <<row, seen>>
      PROVE  Rest
  <2>1. S /\ R
    BY <1>2, <1>8
  <2>2. says'[a].at = "progress" /\ says'[a].status = Turned(op)
        /\ \A b \in Speakers \ {a} : says'[b] = says[b]
    BY <1>4, <1>8 DEF TypeOK, Speakers
  <2>3. \A b \in Actors : IF Telling(b)'
                          THEN says'[b].at # "idle" /\ says'[b].status = Turned(req'[b].op)
                          ELSE says'[b].at = "idle"
    BY <1>4, <1>8, <2>2 DEF StageInv, Telling
  <2>4. run'.phase # "none" /\ run'.verdict = run.verdict /\ run'.n = run.n
    BY <1>1, <1>8 DEF Running, ServerTypes
  <2>5. says'[Runner] = says[Runner]
    BY <1>4, <2>2
  <2>6. StageInv'
    BY <1>1, <1>8, <2>3, <2>4, <2>5 DEF StageInv, Telling
  <2>7. QED
    BY <2>1, <2>6
<1>9. ASSUME run'.phase = run.phase, \E ok \in BOOLEAN : Answered(a, ok), Keeps
      PROVE  Rest
  <2>1. S /\ R
    BY <1>2, <1>9 DEF Keeps
  <2>2. \A b \in Actors : (Telling(b)' <=> Telling(b)) /\ (Telling(b) => req'[b] = req[b])
    BY <1>5, <1>9
  <2>5. /\ says' = says /\ row' = row /\ wire' = wire /\ seen' = seen
        /\ run'.n = run.n /\ run'.verdict = run.verdict
    BY <1>1, <1>9 DEF ServerTypes, Keeps
  <2>6. \A b \in Actors : IF Telling(b)'
                          THEN says'[b].at # "idle" /\ says'[b].status = Turned(req'[b].op)
                          ELSE says'[b].at = "idle"
    BY <2>2, <2>5 DEF StageInv
  <2>3. StageInv'
    BY <1>9, <2>2, <2>5, <2>6 DEF StageInv, Telling
  <2>4. QED
    BY <2>1, <2>3
<1>10. Rest
  BY ZenonT(30), <1>6, <1>7, <1>8, <1>9, PageOrShape, ServeShape
<1>11. TypeOK'
  BY <1>1, <1>10 DEF TypeOK, ServerTypes, Speakers, Histories
<1>12. QueryInv' /\ ChannelInv'
  <2>1. row.ver \in Nat /\ row'.ver \in Nat /\ query.data.ver \in Nat /\ query.reply.ver \in Nat
    BY <1>10, RowFields DEF Rows, NoRow
  <2>2. req'[Page].at # "idle" => Loaded
    BY <1>1, PageOrShape, ServeShape DEF Answered, QueryInv, Actors
  <2>3. QED
    BY <1>1, <1>10, <2>1, <2>2 DEF QueryInv, ChannelInv, Loaded
<1>13. QED
  BY <1>10, <1>11, <1>12

LEMMA TypeTurnRecords ==
  ASSUME TypeOK, StageInv, QueryInv, ChannelInv, NEW a \in Actors, TurnRecords(a)
  PROVE  TypeOK' /\ StageInv' /\ QueryInv' /\ ChannelInv'
<1>1. /\ ServerTypes /\ UNCHANGED <<hub, wire, made, sock, query, page, run, ticker>>
      /\ haps' \in 0..MaxHaps /\ Telling(a) /\ says[a].at = "said"
      /\ says' = [says EXCEPT ![a] = Silent]
      /\ Answered(a, TRUE) /\ Historied(a = Other)
  BY TurnRecordsShape
<1>2. /\ row' \in Rows \ {NoRow} /\ row'.ver >= row.ver /\ row'.done = row.done
      /\ row'.status \in {"sending", "paused"} \/ Failed
  <2>1. Turned(req[a].op) \in {"sending", "paused"} /\ Turned(req[a].op) \in Statuses
    BY TurnRecordsShape DEF Statuses
  <2>2. QED
    BY <2>1, TurnRecordsShape, WritesKeep
<1>3. TypeOK'
  BY <1>1, <1>2 DEF TypeOK, ServerTypes, Speakers, Historied, Histories
<1>4. StageInv'
  <2>1. /\ says'[a].at = "idle"
        /\ \A b \in Actors \ {a} : says'[b] = says[b] /\ req'[b] = req[b]
        /\ says'[Runner] = says[Runner] /\ ~Telling(a)'
    BY <1>1 DEF TypeOK, Actors, Runner, Page, Other, Silent, Answered, Telling
  <2>2. \A b \in Actors : IF Telling(b)'
                          THEN says'[b].at # "idle" /\ says'[b].status = Turned(req'[b].op)
                          ELSE says'[b].at = "idle"
    BY <2>1 DEF StageInv, Telling
  <2>3. run.phase # "none"
    BY <1>1 DEF StageInv
  <2>4. seen.unsaved => seen'.unsaved
    BY <1>1 DEF Historied
  <2>5. QED
    BY <1>1, <1>2, <2>1, <2>2, <2>3, <2>4 DEF StageInv, Over, Failed
<1>5. QueryInv' /\ ChannelInv'
  <2>1. row.ver \in Nat /\ row'.ver \in Nat /\ query.data.ver \in Nat /\ query.reply.ver \in Nat
    BY <1>2, RowFields DEF Rows, NoRow
  <2>2. req'[Page].at # "idle" => Loaded
    BY <1>1 DEF Answered, QueryInv, Actors, Telling
  <2>3. QED
    BY <1>1, <1>2, <2>1, <2>2 DEF QueryInv, ChannelInv, Loaded, Historied
<1>6. QED
  BY <1>3, <1>4, <1>5

LEMMA SchedulerShape ==
  ASSUME TypeOK, SchedulerStarts
  PROVE  /\ ServerTypes /\ Writes("sending") /\ run.phase = "none" /\ run'.phase = "sending"
         /\ UNCHANGED <<says, req, made, hub, wire, sock, query, page>>
         /\ Historied(TRUE) /\ haps' \in 0..MaxHaps
<1>1. /\ req' \in [Actors -> [at : {"idle", "telling", "answered"},
                              op : Ops \cup {"none"}, ok : BOOLEAN]]
      /\ Launch(TRUE) /\ UNCHANGED <<says, req, made, hub, wire, sock, query, page>>
  BY DEF TypeOK, SchedulerStarts, RequestStep, KeepBrowser
<1>2. QED
  BY <1>1, LaunchShape

LEMMA TypeScheduler ==
  ASSUME TypeOK, StageInv, QueryInv, ChannelInv, SchedulerStarts
  PROVE  TypeOK' /\ StageInv' /\ QueryInv' /\ ChannelInv'
<1>1. /\ ServerTypes /\ run.phase = "none" /\ run'.phase = "sending"
      /\ UNCHANGED <<says, req, made, hub, wire, sock, query, page>>
      /\ Historied(TRUE) /\ haps' \in 0..MaxHaps
  BY SchedulerShape
<1>2. /\ row' \in Rows \ {NoRow} /\ row'.ver >= row.ver /\ row'.done = row.done
      /\ row'.status = "sending" \/ Failed
  BY SchedulerShape, WritesKeep DEF Statuses, Writes
<1>3. TypeOK'
  BY <1>1, <1>2 DEF TypeOK, ServerTypes, Speakers, Historied, Histories
<1>4. StageInv'
  <2>1. /\ row'.status \notin Over /\ run'.n = 0
        /\ ~seen'.unsaved => row'.status = "sending" /\ row'.done = 0
    BY <1>1, <1>2 DEF StageInv, Over, Failed, ServerTypes, Historied
  <2>2. QED
    BY <1>1, <2>1 DEF StageInv, Telling, Over
<1>5. QueryInv' /\ ChannelInv'
  <2>1. row.ver \in Nat /\ row'.ver \in Nat /\ query.data.ver \in Nat /\ query.reply.ver \in Nat
    BY <1>2, RowFields DEF Rows, NoRow
  <2>2. QED
    BY <1>1, <1>2, <2>1 DEF QueryInv, ChannelInv, Loaded, Historied
<1>6. QED
  BY <1>3, <1>4, <1>5

\* The socket and the hub.
SocketActs == SockOpens \/ SockCloses \/ HubUnregisters

LEMMA SocketShape ==
  ASSUME TypeOK, SocketActs
  PROVE  /\ UNCHANGED <<row, run, feed, ticker, says, req, query, page, made>>
         /\ haps' \in 0..MaxHaps /\ hub' \in [inMap : BOOLEAN, open : BOOLEAN]
         /\ sock' \in {"connecting", "open", "closed"}
         /\ ChannelInv => (hub'.inMap \/ sock' = "connecting" => hub'.open)
         /\ seen' \in Histories /\ seen'.panic = seen.panic
         /\ seen'.late = seen.late /\ seen'.untold = seen.untold /\ seen'.unsaved = seen.unsaved
         /\ \/ UNCHANGED <<wire, seen>>
            \/ /\ wire' = <<>>
               /\ ~seen'.missed => ~seen.missed /\ ~Has(wire, "status_change")
               /\ ~seen'.lost => ~seen.lost
                                 /\ \A i \in DOMAIN wire : wire[i].event = "status_change"
<1>1. /\ seen \in Histories /\ hub \in [inMap : BOOLEAN, open : BOOLEAN]
      /\ sock \in {"connecting", "open", "closed"} /\ haps \in 0..MaxHaps
  BY DEF TypeOK, Histories
<1>2. CASE SockOpens
  BY <1>1, <1>2 DEF SockOpens, KeepServer, ChannelInv
<1>3. CASE SockCloses
  <2>1. haps' \in 0..MaxHaps
    BY <1>1, <1>3, BoundsAssumption DEF SockCloses, Happens
  <2>2. /\ seen' \in Histories /\ seen'.panic = seen.panic
        /\ seen'.late = seen.late /\ seen'.untold = seen.untold /\ seen'.unsaved = seen.unsaved
        /\ seen'.missed <=> (seen.missed \/ \E i \in DOMAIN wire : wire[i].event = "status_change")
        /\ seen'.lost <=> (seen.lost \/ \E i \in DOMAIN wire : wire[i].event # "status_change")
    <3> DEFINE missed == seen.missed \/ \E i \in DOMAIN wire : wire[i].event = "status_change"
               lost == seen.lost \/ \E i \in DOMAIN wire : wire[i].event # "status_change"
    <3>1. seen' = [seen EXCEPT !.missed = missed, !.lost = lost]
      BY <1>3 DEF SockCloses
    <3>2. missed \in BOOLEAN /\ lost \in BOOLEAN
      BY <1>1 DEF Histories
    <3> HIDE DEF missed, lost
    <3>3. /\ seen' \in Histories /\ seen'.panic = seen.panic
          /\ seen'.late = seen.late /\ seen'.untold = seen.untold /\ seen'.unsaved = seen.unsaved
          /\ (seen'.missed <=> missed) /\ (seen'.lost <=> lost)
      BY <1>1, <3>1, <3>2 DEF Histories
    <3>4. QED
      BY <3>3 DEF missed, lost
  <2>3. ~seen'.missed => ~seen.missed /\ ~Has(wire, "status_change")
    BY <2>2 DEF Has
  <2>4. QED
    BY <1>1, <1>3, <2>1, <2>2, <2>3 DEF SockCloses, KeepServer, ChannelInv
<1>4. CASE HubUnregisters
  BY <1>1, <1>4 DEF HubUnregisters, Unregistered, KeepServer, KeepBrowser
<1>5. QED
  BY <1>2, <1>3, <1>4 DEF SocketActs

LEMMA TypeSocket ==
  ASSUME TypeOK, StageInv, QueryInv, ChannelInv, SocketActs
  PROVE  TypeOK' /\ StageInv' /\ QueryInv' /\ ChannelInv'
<1>1. /\ UNCHANGED <<row, run, feed, ticker, says, req, query, page, made>>
      /\ haps' \in 0..MaxHaps /\ hub' \in [inMap : BOOLEAN, open : BOOLEAN]
      /\ sock' \in {"connecting", "open", "closed"}
      /\ hub'.inMap \/ sock' = "connecting" => hub'.open
      /\ seen' \in Histories /\ seen'.panic = seen.panic /\ seen'.unsaved = seen.unsaved
      /\ wire' = wire \/ wire' = <<>>
  BY SocketShape
<1>2. wire' \in Seq(Events) /\ Len(wire') <= Buffer
      /\ (Has(wire', "status_change") => Has(wire, "status_change"))
  <2>1. wire \in Seq(Events) /\ Len(wire) <= Buffer /\ <<>> \in Seq(Events) /\ Len(<<>>) <= Buffer
    BY SizesAssumption DEF TypeOK
  <2>2. ~Has(<<>>, "status_change")
    BY WireEmpty
  <2>3. QED
    BY <1>1, <2>1, <2>2
<1>3. TypeOK'
  BY <1>1, <1>2 DEF TypeOK, Histories
<1>4. StageInv' /\ QueryInv' /\ ChannelInv'
  BY <1>1, <1>2 DEF StageInv, QueryInv, ChannelInv, Telling, Loaded
<1>5. QED
  BY <1>3, <1>4

\* The page hears of its request, or gives it up.
LEMMA PageAnsweredShape ==
  ASSUME TypeOK, QueryInv, NEW heard \in BOOLEAN, PageAnswered(heard)
  PROVE  /\ UNCHANGED <<row, run, feed, ticker, says, hub, wire, made, sock>>
         /\ req[Page].at = "answered" /\ req'[Page] = NoRequest /\ req'[Other] = req[Other]
         /\ req' \in [Actors -> [at : {"idle", "telling", "answered"},
                                 op : Ops \cup {"none"}, ok : BOOLEAN]]
         /\ haps' \in 0..MaxHaps
         /\ page' = [page EXCEPT !.acting = "none"]
         /\ Loaded /\ (heard => req[Page].ok)
         /\ query' = IF heard THEN [query EXCEPT !.fetch = "asked", !.reply = NoRow] ELSE query
         /\ \E b \in BOOLEAN : Historied(b) /\ (req[Page].ok /\ ~heard => b)
<1>1. /\ seen \in Histories /\ haps \in 0..MaxHaps
      /\ req \in [Actors -> [at : {"idle", "telling", "answered"},
                             op : Ops \cup {"none"}, ok : BOOLEAN]]
  BY DEF TypeOK, Histories
<1>2. Loaded
  BY DEF QueryInv, PageAnswered
<1>3. haps' \in 0..MaxHaps
  <2>1. haps' = haps \/ Happens
    BY DEF PageAnswered
  <2>2. QED
    BY <1>1, <2>1, BoundsAssumption DEF Happens
<1>4. \E b \in BOOLEAN : Historied(b) /\ (req[Page].ok /\ ~heard => b)
  <2>1. CASE req[Page].ok /\ ~heard
    <3>1. Historied(TRUE)
      BY <1>1, <2>1 DEF PageAnswered, Untold, Historied, Histories
    <3>2. QED
      BY <3>1
  <2>2. CASE ~(req[Page].ok /\ ~heard)
    <3>1. Historied(FALSE)
      BY <1>1, <2>2 DEF PageAnswered, Historied, Histories
    <3>2. QED
      BY <2>2, <3>1
  <2>3. QED
    BY <2>1, <2>2
<1>5. /\ req'[Page] = NoRequest /\ req'[Other] = req[Other]
      /\ req' \in [Actors -> [at : {"idle", "telling", "answered"},
                              op : Ops \cup {"none"}, ok : BOOLEAN]]
  BY <1>1 DEF PageAnswered, NoRequest, Actors, Page, Other
<1>6. QED
  BY <1>2, <1>3, <1>4, <1>5 DEF PageAnswered, Invalidated, KeepServer

LEMMA TypePageAnswered ==
  ASSUME TypeOK, StageInv, QueryInv, ChannelInv, NEW heard \in BOOLEAN, PageAnswered(heard)
  PROVE  TypeOK' /\ StageInv' /\ QueryInv' /\ ChannelInv'
<1>1. /\ UNCHANGED <<row, run, feed, ticker, says, hub, wire, made, sock>>
      /\ req[Page].at = "answered" /\ req'[Page] = NoRequest /\ req'[Other] = req[Other]
      /\ req' \in [Actors -> [at : {"idle", "telling", "answered"},
                              op : Ops \cup {"none"}, ok : BOOLEAN]]
      /\ haps' \in 0..MaxHaps
      /\ page' = [page EXCEPT !.acting = "none"]
      /\ query' = IF heard THEN [query EXCEPT !.fetch = "asked", !.reply = NoRow] ELSE query
      /\ seen' \in Histories /\ seen'.panic = seen.panic
      /\ seen.unsaved => seen'.unsaved
  BY PageAnsweredShape DEF Historied
<1>2. /\ query' \in [data : Rows, fetch : {"idle", "asked", "served"}, reply : Rows]
      /\ query'.data = query.data
      /\ query'.fetch = "served" => query'.reply = query.reply /\ query.fetch = "served"
  BY <1>1 DEF TypeOK, Rows
<1>3. page' \in [status : Statuses \cup {"none"}, done : Nat, results : ResultNumbers,
                 acting : Ops \cup {"none"}]
  BY <1>1 DEF TypeOK
<1>4. TypeOK'
  BY <1>1, <1>2, <1>3 DEF TypeOK, Histories
<1>5. StageInv'
  <2>1. \A a \in Actors : (Telling(a)' <=> Telling(a)) /\ (Telling(a) => req'[a] = req[a])
    BY <1>1 DEF Telling, Actors, NoRequest
  <2>2. \A b \in Actors : IF Telling(b)'
                          THEN says'[b].at # "idle" /\ says'[b].status = Turned(req'[b].op)
                          ELSE says'[b].at = "idle"
    BY <1>1, <2>1 DEF StageInv
  <2>3. QED
    BY <1>1, <2>1, <2>2 DEF StageInv
<1>6. QueryInv' /\ ChannelInv'
  BY <1>1, <1>2 DEF QueryInv, ChannelInv, Loaded, NoRequest
<1>7. QED
  BY <1>4, <1>5, <1>6

\* The fetch of the campaign.
Fetches == FetchServed \/ FetchDone

LEMMA FetchShape ==
  ASSUME TypeOK, QueryInv, Fetches
  PROVE  /\ UNCHANGED <<row, run, feed, ticker, says, req, hub, wire, made, haps, sock, seen>>
         /\ \/ /\ query.fetch = "asked" /\ page' = page
               /\ query'.fetch = "served" /\ query'.reply = row /\ query'.data = query.data
            \/ /\ query.fetch = "served" /\ query.reply # NoRow
               /\ query'.fetch = "idle" /\ query'.data = query.reply
               /\ \/ query.reply = query.data /\ page' = page
                  \/ page' = [page EXCEPT !.status = query.reply.status, !.done = query.reply.done]
                     /\ query.reply \in Rows \ {NoRow}
         /\ query' \in [data : Rows, fetch : {"idle", "asked", "served"}, reply : Rows]
<1>1. /\ query \in [data : Rows, fetch : {"idle", "asked", "served"}, reply : Rows]
      /\ row \in Rows /\ NoRow \in Rows
  BY DEF TypeOK, Rows
<1>2. CASE FetchServed
  BY <1>1, <1>2 DEF FetchServed, QueryStep, KeepServer
<1>3. CASE FetchDone
  BY <1>1, <1>3 DEF FetchDone, QueryStep, KeepServer, QueryInv
<1>4. QED
  BY <1>2, <1>3 DEF Fetches

LEMMA TypeFetch ==
  ASSUME TypeOK, StageInv, QueryInv, ChannelInv, Fetches
  PROVE  TypeOK' /\ StageInv' /\ QueryInv' /\ ChannelInv'
<1>1. /\ UNCHANGED <<row, run, feed, ticker, says, req, hub, wire, made, haps, sock, seen>>
      /\ query' \in [data : Rows, fetch : {"idle", "asked", "served"}, reply : Rows]
  BY FetchShape
<1>2. page' \in [status : Statuses \cup {"none"}, done : Nat, results : ResultNumbers,
                 acting : Ops \cup {"none"}]
  <2>1. page \in [status : Statuses \cup {"none"}, done : Nat, results : ResultNumbers,
                  acting : Ops \cup {"none"}]
    BY DEF TypeOK
  <2>2. query.reply \in Rows \ {NoRow} => query.reply.status \in Statuses /\ query.reply.done \in Nat
    BY DEF Rows
  <2>3. QED
    BY <2>1, <2>2, FetchShape
<1>3. TypeOK'
  BY <1>1, <1>2 DEF TypeOK
<1>4. QueryInv'
  <2>1. row \in Rows \ {NoRow} /\ row.ver \in Nat
    BY RowFields DEF TypeOK
  <2>2. CASE query.fetch = "asked" /\ query'.reply = row /\ query'.data = query.data
    BY <1>1, <2>1, <2>2 DEF QueryInv, Loaded
  <2>3. CASE query.fetch = "served" /\ query'.fetch = "idle" /\ query'.data = query.reply
             /\ query.reply # NoRow
    BY <1>1, <2>1, <2>3 DEF QueryInv, Loaded
  <2>4. QED
    BY <2>2, <2>3, FetchShape
<1>5. StageInv' /\ ChannelInv'
  BY <1>1 DEF StageInv, ChannelInv, Telling
<1>6. QED
  BY <1>3, <1>4, <1>5

\* A message comes to the page.
LEMMA ReceivesShape ==
  ASSUME TypeOK, PageReceives
  PROVE  /\ UNCHANGED <<row, run, feed, ticker, says, req, hub, made, haps, sock>>
         /\ wire \in Seq(Events) /\ wire # <<>> /\ wire' = Tail(wire)
         /\ Head(wire) \in Events
         /\ page'.acting = page.acting
         /\ \/ /\ Head(wire).event = "progress"
               /\ page' = [page EXCEPT !.done = Head(wire).done]
               /\ UNCHANGED <<query, seen>>
            \/ /\ Head(wire).event = "status_change"
               /\ page' = [page EXCEPT !.status = Head(wire).status]
               /\ query' = Invalidated
               /\ query'.data = query.data
               /\ query' \in {query, [query EXCEPT !.fetch = "asked", !.reply = NoRow]}
               /\ seen' \in Histories /\ seen'.panic = seen.panic /\ seen'.lost = seen.lost
               /\ seen'.late = seen.late /\ seen'.untold = seen.untold /\ seen'.unsaved = seen.unsaved
               /\ ~seen'.missed => ~seen.missed /\ query'.fetch = "asked"
            \/ /\ Head(wire).event = "send_results"
               /\ page' = [page EXCEPT !.results = @ \o Head(wire).results]
               /\ UNCHANGED <<query, seen>>
<1>1. /\ seen \in Histories /\ wire \in Seq(Events)
      /\ query \in [data : Rows, fetch : {"idle", "asked", "served"}, reply : Rows]
      /\ page \in [status : Statuses \cup {"none"}, done : Nat, results : ResultNumbers,
                   acting : Ops \cup {"none"}]
  BY DEF TypeOK, Histories
<1>2. wire # <<>> /\ wire' = Tail(wire)
      /\ UNCHANGED <<row, run, feed, ticker, says, req, hub, made, haps, sock>>
  BY DEF PageReceives, OnProgress, OnStatusChange, OnSendResults, Receives, ReceiveStep, KeepServer
<1>3. Head(wire) \in Events
  BY <1>1, <1>2, WireIndices
<1>4. CASE OnProgress
  BY <1>1, <1>2, <1>3, <1>4 DEF OnProgress, Receives
<1>5. CASE OnStatusChange
  <2>1. /\ query' \in {query, [query EXCEPT !.fetch = "asked", !.reply = NoRow]}
        /\ query'.data = query.data
        /\ query'.fetch # "asked" => ~Loaded /\ query.fetch = "served"
    BY <1>1, <1>5 DEF OnStatusChange, Invalidated
  <2>2. /\ seen' \in Histories /\ seen'.panic = seen.panic /\ seen'.lost = seen.lost
        /\ seen'.late = seen.late /\ seen'.untold = seen.untold /\ seen'.unsaved = seen.unsaved
        /\ seen'.missed <=> (seen.missed \/ (~Loaded /\ query.fetch = "served"))
    BY <1>1, <1>5 DEF OnStatusChange, Histories
  <2>3. QED
    BY <1>1, <1>2, <1>3, <1>5, <2>1, <2>2 DEF OnStatusChange, Receives
<1>6. CASE OnSendResults
  BY <1>1, <1>2, <1>3, <1>6 DEF OnSendResults, Receives
<1>7. QED
  BY <1>4, <1>5, <1>6 DEF PageReceives

LEMMA TypeReceives ==
  ASSUME TypeOK, StageInv, QueryInv, ChannelInv, PageReceives
  PROVE  TypeOK' /\ StageInv' /\ QueryInv' /\ ChannelInv'
<1>1. /\ UNCHANGED <<row, run, feed, ticker, says, req, hub, made, haps, sock>>
      /\ wire \in Seq(Events) /\ wire # <<>> /\ wire' = Tail(wire)
      /\ Head(wire) \in Events
      /\ query'.data = query.data
      /\ query' \in {query, [query EXCEPT !.fetch = "asked", !.reply = NoRow]}
  BY ReceivesShape
<1>2. /\ wire' \in Seq(Events) /\ Len(wire') <= Buffer
      /\ Has(wire', "status_change") => Has(wire, "status_change")
  <2>1. Len(wire) \in Nat /\ Len(wire') = Len(wire) - 1 /\ wire' \in Seq(Events)
    BY <1>1, WireIndices
  <2>2. Len(wire) <= Buffer /\ Buffer \in Nat
    BY SizesAssumption DEF TypeOK
  <2>3. QED
    BY <1>1, <2>1, <2>2, WireTail
<1>3. seen' \in Histories /\ seen'.panic = seen.panic /\ seen'.unsaved = seen.unsaved
  BY ReceivesShape DEF TypeOK, Histories
<1>4. page' \in [status : Statuses \cup {"none"}, done : Nat, results : ResultNumbers,
                 acting : Ops \cup {"none"}]
  <2>1. /\ page \in [status : Statuses \cup {"none"}, done : Nat, results : ResultNumbers,
                     acting : Ops \cup {"none"}]
        /\ page.results \in Seq(1..Pending)
    BY DEF TypeOK, ResultNumbers
  <2>2. CASE Head(wire).event = "progress" /\ page' = [page EXCEPT !.done = Head(wire).done]
    <3>1. Head(wire).done \in Nat
      BY <1>1, <2>2, EventTypes, PendingAssumption
    <3>2. QED
      BY <2>1, <2>2, <3>1
  <2>3. CASE Head(wire).event = "status_change" /\ page' = [page EXCEPT !.status = Head(wire).status]
    <3>1. Head(wire).status \in Statuses
      BY <1>1, <2>3, EventTypes
    <3>2. QED
      BY <2>1, <2>3, <3>1
  <2>4. CASE Head(wire).event = "send_results"
             /\ page' = [page EXCEPT !.results = page.results \o Head(wire).results]
    <3>1. Head(wire).results \in Seq(1..Pending)
      BY <1>1, <2>4, EventTypes DEF ResultNumbers
    <3>2. page.results \o Head(wire).results \in ResultNumbers
      BY <2>1, <3>1, OnceConcat DEF ResultNumbers
    <3>3. QED
      BY <2>1, <2>4, <3>2
  <2>5. QED
    BY <2>2, <2>3, <2>4, ReceivesShape
<1>5. query' \in [data : Rows, fetch : {"idle", "asked", "served"}, reply : Rows]
      /\ (query'.fetch = "served" => query' = query)
  BY ZenonT(30), <1>1 DEF TypeOK, Rows
<1>6. TypeOK'
  BY <1>1, <1>2, <1>3, <1>4, <1>5 DEF TypeOK, Histories
<1>7. StageInv'
  BY <1>1, <1>2, <1>3 DEF StageInv, Telling
<1>8. QueryInv' /\ ChannelInv'
  BY <1>1, <1>3, <1>5 DEF QueryInv, ChannelInv, Loaded
<1>9. QED
  BY <1>6, <1>7, <1>8

\* A step is one of these.
Moves ==
  \/ Run \/ TickerActs \/ SchedulerStarts \/ SocketActs \/ Fetches \/ PageReceives
  \/ \E p \in Speakers : Says(p)
  \/ \E a \in Actors : TurnRecords(a)
  \/ \E a \in Actors, op \in Ops : PageOr(a, op)
  \/ \E heard \in BOOLEAN : PageAnswered(heard)

LEMMA NextMoves == Next => Moves
<1>1. Page \in Actors /\ Other \in Actors /\ Other # Page
  BY DEF Actors, Page, Other
<1>2. \A op \in Ops : (OtherActs(op) => PageOr(Other, op)) /\ (PageActs(op) => PageOr(Page, op))
  BY <1>1 DEF PageOr
<1>3. ASSUME System PROVE Moves
  BY <1>3 DEF System, Browser, Moves, TickerActs, SocketActs, Fetches, Speakers
<1>4. ASSUME \E op \in Ops : OtherActs(op) \/ PageActs(op) PROVE Moves
  <2>1. \E a \in Actors, op \in Ops : PageOr(a, op)
    BY <1>1, <1>2, <1>4
  <2>2. QED
    BY <2>1 DEF Moves
<1>5. QED
  BY <1>3, <1>4 DEF Next, Moves, TickerActs, SocketActs

BaseInv == TypeOK /\ StageInv /\ QueryInv /\ ChannelInv

LEMMA BaseStep == BaseInv /\ [Next]_vars => BaseInv'
<1>1. ASSUME BaseInv, Moves PROVE BaseInv'
  BY <1>1, TypeRun, TypeTicker, TypeScheduler, TypeSocket, TypeFetch, TypeReceives, TypeSays,
     TypeTurnRecords, TypeServe, TypePageAnswered DEF Moves, BaseInv
<1>2. ASSUME BaseInv, UNCHANGED vars PROVE BaseInv'
  BY <1>2 DEF BaseInv, vars, TypeOK, StageInv, QueryInv, ChannelInv, Telling, Loaded
<1>3. QED
  BY <1>1, <1>2, NextMoves

-----------------------------------------------------------------------------
(* The status *)

LEMMA StatusInit == Init => StatusInv /\ CountsInv
<1> SUFFICES ASSUME Init PROVE StatusInv /\ CountsInv
  OBVIOUS
<1>1. /\ row.status = "draft" /\ wire = <<>> /\ query.fetch = "asked" /\ query.data # row
      /\ \A a \in Actors : ~Telling(a)
  BY DEF Init, NoRow, Telling, Actors, NoRequest
<1>2. StatusKnown /\ StatusComes /\ ~RowFinal
  BY <1>1, WireEmpty DEF StatusKnown, StatusComes, RowFinal, Over
<1>3. QED
  BY <1>1, <1>2 DEF StatusInv, CountsInv, Actors

\* What the invariant depends on: a step that leaves the row, the query and the
\* status on the page, takes no status_change away and makes nobody tell keeps it.
LEMMA StatusFrame ==
  ASSUME StatusInv,
         row' = row, query' = query, page'.status = page.status, req' = req,
         Has(wire', "status_change") <=> Has(wire, "status_change"),
         \A s : LastStatus(wire, s) => LastStatus(wire', s),
         seen.missed => seen'.missed, seen.untold => seen'.untold,
         seen.unsaved => seen'.unsaved,
         Announced' /\ RowFinal => Announced,
         says'[Page].at = "said" => says[Page].at = "said" /\ says'[Page].status = says[Page].status,
         run'.phase \in {"none", "sending"} => run.phase \in {"none", "sending"}
  PROVE  StatusInv'
<1>1. /\ \A a \in Actors : Telling(a)' <=> Telling(a)
      /\ RowFinal' <=> RowFinal
      /\ Page \in Actors /\ Other \in Actors
  BY DEF Telling, RowFinal, Actors
<1>2. /\ StatusKnown => StatusKnown'
      /\ StatusComes => StatusComes'
      /\ WillAsk' <=> WillAsk
  BY DEF StatusKnown, StatusComes, WillAsk
<1>3. OwnOnly' => OwnOnly
  BY <1>1 DEF OwnOnly
<1>4. QED
  BY <1>1, <1>2, <1>3 DEF StatusInv

LEMMA SameWire ==
  ASSUME wire' = wire
  PROVE  /\ \A kind : Has(wire', kind) <=> Has(wire, kind)
         /\ \A s : LastStatus(wire, s) => LastStatus(wire', s)
         /\ \A d : LastProgress(wire, d) => LastProgress(wire', d)
         /\ StatusEnds(wire) => StatusEnds(wire')
OBVIOUS

\* The ticker and the last flush send no status_change.
LEMMA WireGrows ==
  ASSUME TypeOK, NEW m \in Events, m.event # "status_change",
         wire' = wire \/ wire' = Append(wire, m)
  PROVE  /\ Has(wire', "status_change") <=> Has(wire, "status_change")
         /\ \A s : LastStatus(wire, s) => LastStatus(wire', s)
         /\ m.event # "progress" => /\ Has(wire', "progress") <=> Has(wire, "progress")
                                    /\ \A d : LastProgress(wire, d) => LastProgress(wire', d)
                                    /\ StatusEnds(wire) => StatusEnds(wire')
<1>1. wire \in Seq(Events)
  BY DEF TypeOK
<1>2. CASE wire' = wire
  BY <1>2, SameWire
<1>3. CASE wire' = Append(wire, m)
  BY <1>1, <1>3, WireAppend
<1>4. QED
  BY <1>2, <1>3

LEMMA TickerWire ==
  ASSUME TypeOK, TickerActs
  PROVE  /\ Has(wire', "status_change") <=> Has(wire, "status_change")
         /\ \A s : LastStatus(wire, s) => LastStatus(wire', s)
         /\ seen'.missed = seen.missed /\ seen'.untold = seen.untold /\ seen'.unsaved = seen.unsaved
         /\ seen.lost => seen'.lost
         /\ seen.late => seen'.late
         /\ \/ seen'.late \/ ~(run.phase = "over" \/ says[Runner].at \in {"status", "said"})
            \/ /\ Has(wire', "progress") <=> Has(wire, "progress")
               /\ \A d : LastProgress(wire, d) => LastProgress(wire', d)
               /\ StatusEnds(wire) => StatusEnds(wire')
<1>1. seen \in Histories /\ ticker.done \in 0..Pending /\ ticker.results \in ResultNumbers
  BY DEF TypeOK, Histories
<1>2. CASE UNCHANGED <<wire, seen>>
  BY <1>2, SameWire
<1>3. CASE TickerSendsProgress
  <2>1. Progress(ticker.done) \in Events /\ Progress(ticker.done).event = "progress"
    BY <1>1, EventTypes DEF Progress
  <2>2. /\ Has(wire', "status_change") <=> Has(wire, "status_change")
        /\ \A s : LastStatus(wire, s) => LastStatus(wire', s)
    BY <1>3, <2>1, WireGrows DEF TickerSendsProgress
  <2>3. /\ seen'.missed = seen.missed /\ seen'.untold = seen.untold /\ seen'.unsaved = seen.unsaved /\ seen'.lost = seen.lost
        /\ seen'.late <=> (seen.late \/ run.phase = "over" \/ says[Runner].at \in {"status", "said"})
    BY <1>1, <1>3 DEF TickerSendsProgress, Histories
  <2>4. QED
    BY <2>2, <2>3
<1>4. CASE TickerSendsResults
  <2>1. /\ SendResults(ticker.results) \in Events
        /\ SendResults(ticker.results).event = "send_results"
    BY <1>1, EventTypes DEF SendResults
  <2>2. Broadcast(SendResults(ticker.results))
    BY <1>4 DEF TickerSendsResults
  <2>3. QED
    BY <2>1, <2>2, WireGrows, BroadcastShape
<1>5. QED
  BY <1>2, <1>3, <1>4 DEF TickerActs, TicksProgress, TicksResults, TickerEnds

LEMMA StatusTicker ==
  ASSUME TypeOK, StatusInv, TickerActs
  PROVE  StatusInv'
<1>1. UNCHANGED <<row, run, says, req, query, page>>
  BY TickerShape
<1>2. Announced' <=> Announced
  BY <1>1 DEF Announced
<1>3. QED
  BY <1>1, <1>2, TickerWire, StatusFrame

LEMMA RunWire ==
  ASSUME TypeOK, StageInv, Run
  PROVE  /\ Has(wire', "status_change") <=> Has(wire, "status_change")
         /\ \A s : LastStatus(wire, s) => LastStatus(wire', s)
         /\ seen'.missed = seen.missed
         /\ (seen.untold => seen'.untold) /\ (seen.unsaved => seen'.unsaved)
         /\ run'.phase = "announcing" \/ run'.phase = "over" =>
              wire' = wire /\ (seen' = seen \/ run.phase = "recording")
<1>1. CASE UNCHANGED <<wire, seen>>
  BY <1>1, SameWire
<1>2. CASE run'.phase = "saving" /\ Broadcast(SendResults(feed.results))
  <2>1. /\ SendResults(feed.results) \in Events
        /\ SendResults(feed.results).event = "send_results"
    BY EventTypes DEF SendResults, TypeOK
  <2>2. QED
    BY <1>2, <2>1, WireGrows, BroadcastShape
<1>3. CASE wire' = wire /\ run.phase = "recording" /\ Historied(FALSE)
  BY <1>3, SameWire DEF Historied
<1>4. QED
  BY <1>1, <1>2, <1>3, RunShape

LEMMA StatusRun ==
  ASSUME TypeOK, StageInv, StatusInv, Run
  PROVE  StatusInv'
<1>1. UNCHANGED <<req, query, page>>
  BY RunShape
<1>2. CASE run.phase = "recording" /\ run'.phase = "announcing" /\ UNCHANGED says
  <2>1. ~Announced' /\ ~OwnOnly'
    BY <1>2 DEF Announced, OwnOnly, StageInv
  <2>2. QED
    BY <2>1 DEF StatusInv
<1>3. CASE row' = row
  <2>1. says'[Page] = says[Page]
    BY RunShape DEF TypeOK, Page, Runner, Actors
  <2>2. Announced' /\ RowFinal => Announced
    <3>1. says'[Runner].at = "said" => says[Runner].at = "said"
      <4>1. \/ says' = says
            \/ says' = [says EXCEPT ![Runner] =
                          [at |-> "progress", status |-> run.verdict, done |-> run.n]]
            \/ says' = [says EXCEPT ![Runner] = Silent]
        BY RunShape
      <4>2. QED
        BY <4>1 DEF TypeOK, Silent
    <3>2. run'.phase = "over" => run.phase = "over" \/ says[Runner].at = "said"
      BY RunShape
    <3>3. QED
      BY <3>1, <3>2 DEF Announced
  <2>3. run'.phase \in {"none", "sending"} => run.phase \in {"none", "sending"}
    BY RunShape
  <2>4. QED
    BY <1>1, <1>3, <2>1, <2>2, <2>3, RunWire, StatusFrame
<1>4. QED
  BY <1>2, <1>3, RunShape

LEMMA StatusSocket ==
  ASSUME TypeOK, StatusInv, SocketActs
  PROVE  StatusInv'
<1>1. UNCHANGED <<row, run, says, req, query, page>> /\ seen'.untold = seen.untold /\ seen'.unsaved = seen.unsaved
  BY SocketShape
<1>2. Announced' <=> Announced
  BY <1>1 DEF Announced
<1>3. CASE UNCHANGED <<wire, seen>>
  BY <1>1, <1>2, <1>3, SameWire, StatusFrame
<1>4. CASE /\ wire' = <<>>
           /\ ~seen'.missed => ~seen.missed /\ ~Has(wire, "status_change")
  <2>1. CASE seen'.missed
    BY <2>1 DEF StatusInv
  <2>2. CASE ~seen'.missed
    <3>1. /\ Has(wire', "status_change") <=> Has(wire, "status_change")
          /\ \A s : LastStatus(wire', s)
      BY <1>4, <2>2, WireEmpty
    <3>2. QED
      BY <1>1, <1>2, <1>4, <2>2, <3>1, StatusFrame
  <2>3. QED
    BY <2>1, <2>2
<1>5. QED
  BY <1>3, <1>4, SocketShape

LEMMA StatusSays ==
  ASSUME TypeOK, StageInv, StatusInv, NEW p \in Speakers, Says(p)
  PROVE  StatusInv'
<1>1. /\ UNCHANGED <<row, run, req, query, page>> /\ ~Quiet(p)
      /\ \A q \in Speakers \ {p} : says'[q] = says[q]
      /\ says'[p].status = says[p].status
      /\ says[p].status \in Statuses
      /\ Page \in Speakers /\ Runner \in Speakers /\ Page # Runner /\ Other # Runner /\ Other # Page
      /\ wire \in Seq(Events)
  BY SaysShape, SpeakerFacts DEF Speakers, Actors, Page, Other, Runner, TypeOK
<1>2. CASE /\ says[p].at = "progress" /\ says'[p].at = "status"
           /\ Broadcast(Progress(says[p].done)) /\ Progress(says[p].done) \in Events
  <2>1. Progress(says[p].done).event = "progress"
    BY DEF Progress
  <2>2. /\ Has(wire', "status_change") <=> Has(wire, "status_change")
        /\ \A s : LastStatus(wire, s) => LastStatus(wire', s)
        /\ seen'.missed = seen.missed /\ seen'.untold = seen.untold /\ seen'.unsaved = seen.unsaved
    BY <1>2, <2>1, WireGrows, BroadcastShape
  <2>3. Announced' => Announced
    BY <1>1, <1>2 DEF Announced
  <2>4. says'[Page].at = "said" => says[Page].at = "said" /\ says'[Page].status = says[Page].status
    BY <1>1, <1>2
  <2>5. QED
    BY <1>1, <2>2, <2>3, <2>4, StatusFrame
<1>3. CASE /\ says[p].at = "status" /\ says'[p].at = "said"
           /\ Broadcast(StatusChange(says[p].status)) /\ StatusChange(says[p].status) \in Events
  <2> SUFFICES ASSUME ~seen'.missed PROVE StatusInv'
    BY DEF StatusInv
  <2>1. /\ StatusChange(says[p].status).event = "status_change"
        /\ StatusChange(says[p].status).status = says[p].status
    BY DEF StatusChange
  <2>2. /\ wire' = Append(wire, StatusChange(says[p].status))
        /\ ~seen.missed /\ seen'.untold = seen.untold /\ seen'.unsaved = seen.unsaved
    BY <1>3, <2>1, BroadcastShape
  <2>3. LastStatus(wire', says[p].status) /\ Has(wire', "status_change")
    BY <1>1, <1>3, <2>1, <2>2, WireAppend
  <2>4. /\ \A a \in Actors : Telling(a)' <=> Telling(a)
        /\ RowFinal' <=> RowFinal
    BY <1>1 DEF Telling, RowFinal
  <2>5. CASE p = Runner
    <3>1. run.phase = "announcing" /\ says[p].status = run.verdict
      BY <1>3, <2>5 DEF StageInv
    <3>2. ~OwnOnly'
      BY <1>1, <3>1 DEF OwnOnly
    <3>3. RowFinal => says[p].status = row.status
      BY <3>1, NotLaunchedFacts
    <3>4. RowFinal => StatusKnown' /\ StatusComes'
      BY <1>1, <2>3, <3>3 DEF StatusKnown, StatusComes
    <3>5. QED
      BY <2>4, <3>2, <3>4 DEF StatusInv
  <2>6. CASE p \in Actors
    <3>1. Telling(p) /\ ~RowFinal'
      BY <1>3, <2>4, <2>6 DEF StageInv, RowFinal
    <3>2. CASE p = Page
      BY <1>1, <2>3, <2>4, <3>1, <3>2 DEF StatusInv, Actors
    <3>3. CASE p = Other
      BY <2>4, <3>1, <3>3 DEF StatusInv, OwnOnly, Actors
    <3>4. QED
      BY <2>6, <3>2, <3>3 DEF Actors
  <2>7. QED
    BY <2>5, <2>6 DEF Speakers
<1>4. QED
  BY <1>2, <1>3, SaysShape

LEMMA StatusServe ==
  ASSUME TypeOK, StageInv, QueryInv, StatusInv,
         NEW a \in Actors, NEW op \in Ops, PageOr(a, op)
  PROVE  StatusInv'
<1>1. /\ ServerTypes /\ UNCHANGED <<wire, query>> /\ page'.status = page.status
      /\ req[a].at = "idle" /\ ~Telling(a)
      /\ Page \in Actors /\ Other \in Actors /\ Page # Other
      /\ a \in {Page, Other}
  BY PageOrShape, ServeShape DEF Telling, Actors, Page, Other
<1>2. ASSUME row'.ver > row.ver, row'.status \in {"draft", "scheduled", "sending"}, run.phase = "none",
             Answered(a, TRUE), Historied(a = Other)
      PROVE  StatusInv'
  <2>1. ~RowFinal'
    BY <1>2 DEF RowFinal, Over
  <2>2. CASE a = Other
    BY <1>2, <2>1, <2>2 DEF StatusInv, Historied, OwnOnly
  <2>3. CASE a = Page
    <3>1. WillAsk' /\ ~Telling(Page)'
      BY <1>2, <2>3 DEF Answered, WillAsk, Telling
    <3>2. ~Has(wire', "status_change")
      BY <1>1, <1>2, NotLaunchedFacts
    <3>3. LastStatus(wire', row'.status)
      BY <3>2 DEF LastStatus, Has
    <3>4. query'.data # row'
      <4>1. row.ver \in Nat /\ query.data.ver \in Nat /\ query.data.ver <= row.ver
        BY RowFields DEF QueryInv
      <4>2. row'.ver \in Nat \/ ~(query.data = row')
        BY <4>1
      <4>3. QED
        BY <1>1, <1>2, <4>1, <4>2
    <3>5. QED
      BY <2>1, <3>1, <3>3, <3>4 DEF StatusInv, StatusKnown
  <2>4. QED
    BY <1>1, <2>2, <2>3
<1>8. ASSUME seen'.unsaved PROVE StatusInv'
  BY <1>8 DEF StatusInv
<1>3. CASE Writes("sending") /\ run.phase = "none" /\ Answered(a, TRUE) /\ Historied(a = Other)
  BY <1>2, <1>3, <1>8, WritesKeep DEF Writes, Statuses, Failed
<1>4. CASE (\E s \in {"draft", "scheduled"} : row.status \in {"draft", "scheduled"} /\ Writes(s))
           /\ Answered(a, TRUE) /\ Historied(a = Other)
  <2>1. PICK s \in {"draft", "scheduled"} : row.status \in {"draft", "scheduled"} /\ Writes(s)
    BY <1>4
  <2>2. Failed \/ (row'.ver > row.ver /\ row'.status = s)
    BY <2>1, WritesKeep DEF Writes, Statuses
  <2>3. CASE ~seen'.unsaved
    <3>1. run.phase = "none" /\ ~Failed
      BY <1>4, <2>1, <2>3, NotLaunchedFacts DEF Historied, Failed
    <3>2. QED
      BY <1>2, <1>4, <2>2, <3>1
  <2>4. QED
    BY <1>8, <2>3
<1>5. CASE /\ says' = [says EXCEPT ![a] = [at |-> "progress", status |-> Turned(op), done |-> run.n]]
           /\ req'[a].at = "telling" /\ UNCHANGED <<row, seen>>
  <2>1. Telling(a)' /\ ~RowFinal'
    BY <1>5 DEF Telling, RowFinal
  <2>2. CASE a = Other
    BY <2>1, <2>2 DEF StatusInv, OwnOnly
  <2>3. CASE a = Page
    <3>1. says'[Page].at = "progress"
      BY <1>5, <2>3 DEF TypeOK
    <3>2. QED
      BY <2>1, <2>3, <3>1 DEF StatusInv
  <2>4. QED
    BY <1>1, <2>2, <2>3
<1>6. CASE run'.phase = run.phase /\ (\E ok \in BOOLEAN : Answered(a, ok)) /\ Keeps
  <2>1. /\ \A b \in Actors : Telling(b)' <=> Telling(b)
        /\ says' = says /\ row' = row /\ seen' = seen
        /\ WillAsk => WillAsk'
    BY <1>1, <1>6 DEF Answered, Telling, Keeps, WillAsk
  <2>2. /\ StatusKnown => StatusKnown'
        /\ StatusComes => StatusComes'
        /\ Announced' <=> Announced
        /\ RowFinal' <=> RowFinal
        /\ OwnOnly' <=> OwnOnly
    BY <1>1, <1>6, <2>1 DEF StatusKnown, StatusComes, Announced, RowFinal, OwnOnly
  <2>3. QED
    BY <1>1, <2>1, <2>2 DEF StatusInv
<1>7. QED
  BY <1>3, <1>4, <1>5, <1>6, PageOrShape, ServeShape

LEMMA StatusTurnRecords ==
  ASSUME TypeOK, StageInv, QueryInv, StatusInv, NEW a \in Actors, TurnRecords(a)
  PROVE  StatusInv'
<1> SUFFICES ASSUME ~seen'.unsaved PROVE StatusInv'
  BY DEF StatusInv
<1>1. /\ UNCHANGED <<wire, query, page, run>>
      /\ Telling(a) /\ says[a].at = "said"
      /\ Answered(a, TRUE) /\ Historied(a = Other)
      /\ says[a].status = Turned(req[a].op)
      /\ Page \in Actors /\ Other \in Actors /\ a \in {Page, Other} /\ Page # Other
  BY TurnRecordsShape DEF StageInv, Actors, Page, Other
<1>2. row'.status = Turned(req[a].op) /\ Turned(req[a].op) \in {"sending", "paused"} /\ row'.ver > row.ver
  BY TurnRecordsShape, WriteKeeps DEF Statuses, Failed
<1>3. ~RowFinal'
  BY <1>2 DEF RowFinal, Over
<1>4. CASE a = Other
  BY <1>1, <1>3, <1>4 DEF StatusInv, Historied, OwnOnly
<1>5. CASE a = Page
  <2>1. WillAsk' /\ ~Telling(Page)' /\ (Telling(Other)' <=> Telling(Other))
    BY <1>1, <1>5 DEF Answered, WillAsk, Telling
  <2>2. query'.data # row'
    <3>1. row.ver \in Nat /\ query.data.ver \in Nat /\ query.data.ver <= row.ver
      BY RowFields DEF QueryInv
    <3>2. QED
      BY <1>1, <1>2, <3>1
  <2>3. OwnOnly' => OwnOnly
    BY <1>1, <2>1 DEF OwnOnly, Historied
  <2>4. seen'.missed = seen.missed /\ ~seen.unsaved
    BY <1>1 DEF Historied
  <2>5. OwnOnly /\ ~seen.missed => LastStatus(wire, row'.status)
    BY <1>1, <1>2, <1>5, <2>4 DEF StatusInv
  <2>6. QED
    BY <1>1, <1>3, <2>1, <2>2, <2>3, <2>4, <2>5 DEF StatusInv, StatusKnown
<1>6. QED
  BY <1>1, <1>4, <1>5

LEMMA StatusScheduler ==
  ASSUME TypeOK, StatusInv, SchedulerStarts
  PROVE  StatusInv'
<1> SUFFICES ASSUME ~seen'.unsaved PROVE StatusInv'
  BY DEF StatusInv
<1>1. Historied(TRUE) /\ row'.status = "sending"
  BY SchedulerShape, WriteKeeps DEF Statuses, Writes, Failed
<1>2. ~RowFinal' /\ ~OwnOnly'
  BY <1>1 DEF RowFinal, Over, Historied, OwnOnly
<1>3. QED
  BY <1>2 DEF StatusInv

LEMMA StatusAnswered ==
  ASSUME TypeOK, StageInv, QueryInv, StatusInv, NEW heard \in BOOLEAN, PageAnswered(heard)
  PROVE  StatusInv'
<1>1. /\ UNCHANGED <<row, run, says, wire>> /\ page'.status = page.status
      /\ req[Page].at = "answered" /\ (heard => req[Page].ok)
      /\ req'[Page] = NoRequest /\ req'[Other] = req[Other]
  BY PageAnsweredShape DEF TypeOK
<1>2. /\ query'.data = query.data
      /\ heard => query'.fetch = "asked"
      /\ ~heard => query' = query
  <2>1. query \in [data : Rows, fetch : {"idle", "asked", "served"}, reply : Rows]
    BY DEF TypeOK
  <2>2. query' = IF heard THEN [query EXCEPT !.fetch = "asked", !.reply = NoRow] ELSE query
    BY PageAnsweredShape
  <2>3. QED
    BY <2>1, <2>2
<1>3. /\ seen'.missed = seen.missed /\ (seen.untold => seen'.untold)
      /\ seen.unsaved => seen'.unsaved
      /\ req[Page].ok /\ ~heard => seen'.untold
  BY PageAnsweredShape DEF Historied
<1>4. /\ \A a \in Actors : Telling(a)' <=> Telling(a)
      /\ ~Telling(Page) /\ Page \in Actors /\ Other \in Actors
  BY <1>1 DEF Telling, NoRequest, Actors
<1>5. /\ StatusKnown => StatusKnown'
      /\ StatusComes => StatusComes'
      /\ heard => StatusComes'
      /\ Announced' <=> Announced
      /\ RowFinal' <=> RowFinal
  BY <1>1, <1>2, <1>4 DEF StatusKnown, StatusComes, Announced, RowFinal
<1>6. OwnOnly' => OwnOnly /\ (heard \/ ~WillAsk)
  BY <1>1, <1>3, <1>4 DEF OwnOnly, WillAsk
<1>7. QED
  BY <1>3, <1>4, <1>5, <1>6 DEF StatusInv

LEMMA StatusFetch ==
  ASSUME TypeOK, StageInv, QueryInv, StatusInv, Fetches
  PROVE  StatusInv'
<1>1. UNCHANGED <<row, run, says, req, wire, seen>>
  BY FetchShape
<1>2. /\ \A a \in Actors : Telling(a)' <=> Telling(a)
      /\ Announced' <=> Announced
      /\ RowFinal' <=> RowFinal
      /\ OwnOnly' <=> OwnOnly
      /\ WillAsk' <=> WillAsk
      /\ Page \in Actors
  BY <1>1 DEF Telling, Announced, RowFinal, OwnOnly, WillAsk, Actors
<1>3. page \in [status : Statuses \cup {"none"}, done : Nat, results : ResultNumbers,
                acting : Ops \cup {"none"}]
  BY DEF TypeOK
<1>4. StatusKnown => StatusKnown' /\ (StatusComes => StatusComes')
  <2> SUFFICES ASSUME StatusKnown PROVE StatusKnown' /\ (StatusComes => StatusComes')
    OBVIOUS
  <2>1. CASE /\ query.fetch = "asked" /\ page' = page
             /\ query'.fetch = "served" /\ query'.reply = row /\ query'.data = query.data
    BY <1>1, <2>1 DEF StatusKnown, StatusComes
  <2>2. CASE /\ query.fetch = "served" /\ query'.fetch = "idle" /\ query'.data = query.reply
             /\ query.reply = query.data /\ page' = page
    BY <1>1, <2>2 DEF StatusKnown, StatusComes
  <2>3. CASE /\ query.fetch = "served" /\ query'.fetch = "idle" /\ query'.data = query.reply
             /\ page' = [page EXCEPT !.status = query.reply.status, !.done = query.reply.done]
    <3>1. page'.status = query.reply.status
      BY <1>3, <2>3
    <3>2. QED
      BY <1>1, <2>3, <3>1 DEF StatusKnown, StatusComes
  <2>4. QED
    BY <2>1, <2>2, <2>3, FetchShape
<1>5. QED
  BY <1>1, <1>2, <1>4 DEF StatusInv

LEMMA StatusReceives ==
  ASSUME TypeOK, StageInv, StatusInv, PageReceives
  PROVE  StatusInv'
<1>1. /\ UNCHANGED <<row, run, says, req>>
      /\ wire \in Seq(Events) /\ wire # <<>> /\ wire' = Tail(wire)
      /\ page \in [status : Statuses \cup {"none"}, done : Nat, results : ResultNumbers,
                   acting : Ops \cup {"none"}]
  BY ReceivesShape DEF TypeOK
<1>2. /\ \A kind : Has(wire, kind) <=> Has(wire', kind) \/ Head(wire).event = kind
      /\ \A s : LastStatus(wire, s) =>
           /\ LastStatus(wire', s)
           /\ Head(wire).event = "status_change" /\ ~Has(wire', "status_change")
                => Head(wire).status = s
  BY <1>1, WireTail
<1>3. Announced' <=> Announced
  BY <1>1 DEF Announced
<1>4. CASE Head(wire).event # "status_change"
  <2>1. UNCHANGED <<query, seen>> /\ page'.status = page.status
    BY <1>1, <1>4, ReceivesShape
  <2>2. QED
    BY <1>1, <1>2, <1>3, <1>4, <2>1, StatusFrame
<1>5. CASE Head(wire).event = "status_change"
  <2> SUFFICES ASSUME ~seen'.missed PROVE StatusInv'
    BY DEF StatusInv
  <2>1. /\ page'.status = Head(wire).status /\ query'.data = query.data
        /\ query'.fetch = "asked" /\ ~seen.missed /\ seen'.untold = seen.untold /\ seen'.unsaved = seen.unsaved
    BY <1>1, <1>5, ReceivesShape
  <2>2. /\ \A a \in Actors : Telling(a)' <=> Telling(a)
        /\ RowFinal' <=> RowFinal
        /\ OwnOnly' <=> OwnOnly
        /\ Page \in Actors
    BY <1>1, <2>1 DEF Telling, RowFinal, OwnOnly, Actors
  <2>3. (StatusKnown => StatusKnown') /\ StatusComes'
    BY <1>1, <1>2, <1>5, <2>1 DEF StatusKnown, StatusComes
  <2>4. QED
    BY <1>1, <1>2, <1>3, <2>1, <2>2, <2>3 DEF StatusInv
<1>6. QED
  BY <1>4, <1>5

LEMMA StatusStep == BaseInv /\ StatusInv /\ [Next]_vars => StatusInv'
<1>1. ASSUME BaseInv, StatusInv, Moves PROVE StatusInv'
  BY <1>1, StatusRun, StatusTicker, StatusScheduler, StatusSocket, StatusFetch, StatusReceives,
     StatusSays, StatusTurnRecords, StatusServe, StatusAnswered DEF Moves, BaseInv
<1>2. ASSUME StatusInv, UNCHANGED vars PROVE StatusInv'
  BY <1>2 DEF vars, StatusInv, StatusKnown, StatusComes, WillAsk, OwnOnly, RowFinal, Announced, Telling
<1>3. QED
  BY <1>1, <1>2, NextMoves

-----------------------------------------------------------------------------
(* The counts *)

\* The invariant speaks of the states after the last snapshot of the run.
CountsOpen == RowFinal /\ (Announced \/ says[Runner].at = "status")
              /\ ~seen.missed /\ ~seen.lost /\ ~seen.late /\ ~seen.unsaved

LEMMA CountsFrame ==
  ASSUME CountsInv, CountsOpen' => CountsOpen,
         row' = row, query' = query, page'.done = page.done,
         Has(wire', "status_change") <=> Has(wire, "status_change"),
         Has(wire', "progress") <=> Has(wire, "progress"),
         \A d : LastProgress(wire, d) => LastProgress(wire', d),
         StatusEnds(wire) => StatusEnds(wire'),
         CountsOpen' /\ Announced' => Announced
  PROVE  CountsInv'
<1>1. /\ CountsKnown => CountsKnown'
      /\ CountsCome => CountsCome'
  BY DEF CountsKnown, CountsCome
<1>2. QED
  BY <1>1 DEF CountsInv, CountsOpen

LEMMA CountsTicker ==
  ASSUME TypeOK, CountsInv, TickerActs
  PROVE  CountsInv'
<1>1. UNCHANGED <<row, run, says, req, query, page>>
  BY TickerShape
<1>2. /\ Announced' <=> Announced
      /\ RowFinal' <=> RowFinal
  BY <1>1 DEF Announced, RowFinal, Telling
<1>3. CountsOpen' => CountsOpen /\ (run.phase = "over" \/ says[Runner].at \in {"status", "said"})
  BY <1>1, <1>2, TickerWire DEF CountsOpen, Announced
<1>4. CASE ~CountsOpen'
  BY <1>4 DEF CountsInv, CountsOpen
<1>5. CASE CountsOpen'
  BY <1>1, <1>2, <1>3, <1>5, TickerWire, CountsFrame DEF CountsOpen
<1>6. QED
  BY <1>4, <1>5

LEMMA CountsRun ==
  ASSUME BaseInv, CountsInv, Run
  PROVE  CountsInv'
<1>1. BaseInv'
  BY TypeRun DEF BaseInv
<1>2. UNCHANGED <<req, query, page>>
  BY RunShape DEF BaseInv
<1>3. CASE ~CountsOpen'
  BY <1>3 DEF CountsInv, CountsOpen
<1>4. CASE CountsOpen'
  <2>1. run'.phase \in {"announcing", "over"}
    <3>1. row'.status \in Over
      BY <1>4 DEF CountsOpen, RowFinal
    <3>2. QED
      BY <1>1, <3>1 DEF BaseInv, StageInv
  <2>3. Announced' \/ says'[Runner].at = "status"
    BY <1>4 DEF CountsOpen
  <2>7. run.phase = "recording" => says'[Runner].at = "idle" /\ run'.phase = "announcing"
    BY RunShape DEF BaseInv, StageInv
  <2>8. run.phase # "recording"
    BY <2>3, <2>7 DEF Announced
  <2>2. wire' = wire /\ seen' = seen
    BY <2>1, <2>8, RunWire DEF BaseInv
  <2>4. run.phase = "announcing" /\ row' = row /\ says[Runner].at = "said"
    <3>1. \/ run.phase = "announcing" /\ Quiet(Runner) /\ run' = run /\ row' = row
             /\ says' = [says EXCEPT ![Runner] =
                           [at |-> "progress", status |-> run.verdict, done |-> run.n]]
          \/ run.phase = "announcing" /\ says[Runner].at = "said" /\ row' = row
      BY <2>1, <2>8, RunShape DEF BaseInv
    <3>2. says' = [says EXCEPT ![Runner] =
                    [at |-> "progress", status |-> run.verdict, done |-> run.n]]
            => says'[Runner].at = "progress"
      BY DEF BaseInv, TypeOK
    <3>3. QED
      BY <2>3, <3>1, <3>2 DEF Announced
  <2>5. RowFinal' <=> RowFinal
    BY <1>2, <2>4 DEF RowFinal, Telling
  <2>6. QED
    BY <1>2, <1>4, <2>2, <2>4, <2>5, SameWire, CountsFrame DEF CountsOpen, Announced
<1>5. QED
  BY <1>3, <1>4

LEMMA CountsSocket ==
  ASSUME TypeOK, CountsInv, SocketActs
  PROVE  CountsInv'
<1>1. /\ UNCHANGED <<row, run, says, req, query, page>>
      /\ seen'.late = seen.late /\ seen'.unsaved = seen.unsaved
  BY SocketShape
<1>2. /\ Announced' <=> Announced
      /\ RowFinal' <=> RowFinal
  BY <1>1 DEF Announced, RowFinal, Telling
<1>3. CASE ~CountsOpen'
  BY <1>3 DEF CountsInv, CountsOpen
<1>4. CASE CountsOpen'
  <2>1. CASE UNCHANGED <<wire, seen>>
    BY <1>1, <1>2, <2>1, SameWire, CountsFrame DEF CountsOpen
  <2>2. CASE /\ wire' = <<>>
             /\ ~seen'.missed => ~seen.missed /\ ~Has(wire, "status_change")
             /\ ~seen'.lost => ~seen.lost
                               /\ \A i \in DOMAIN wire : wire[i].event = "status_change"
    <3>1. CountsOpen /\ ~Has(wire, "status_change")
          /\ \A i \in DOMAIN wire : wire[i].event = "status_change"
      BY <1>1, <1>2, <1>4, <2>2 DEF CountsOpen
    <3>2. ~Has(wire, "progress")
      BY <3>1 DEF Has
    <3>3. /\ ~Has(wire', "status_change") /\ ~Has(wire', "progress")
          /\ \A d : LastProgress(wire', d)
          /\ StatusEnds(wire')
      BY <2>2, WireEmpty
    <3>4. QED
      BY <1>1, <1>2, <3>1, <3>2, <3>3, CountsFrame
  <2>3. QED
    BY <2>1, <2>2, SocketShape
<1>5. QED
  BY <1>3, <1>4

LEMMA CountsSays ==
  ASSUME TypeOK, StageInv, CountsInv, NEW p \in Speakers, Says(p)
  PROVE  CountsInv'
<1>1. /\ UNCHANGED <<row, run, req, query, page>>
      /\ says'[p].done = says[p].done
      /\ wire \in Seq(Events)
      /\ seen'.late = seen.late /\ seen'.unsaved = seen.unsaved
      /\ seen.missed => seen'.missed
      /\ seen.lost => seen'.lost
  BY SaysShape, BroadcastShape DEF TypeOK
<1>2. RowFinal' <=> RowFinal
  BY <1>1 DEF RowFinal, Telling
<1>3. CASE ~CountsOpen'
  BY <1>3 DEF CountsInv, CountsOpen
<1>4. CASE CountsOpen'
  <2>1. RowFinal /\ ~seen'.missed /\ ~seen'.lost /\ ~seen.missed /\ ~seen.lost /\ ~seen.late
        /\ ~seen.unsaved
    BY <1>1, <1>2, <1>4 DEF CountsOpen
  <2>2. p = Runner /\ run.phase = "announcing" /\ says[p].done = row.done
    <3>1. ~Quiet(p)
      BY SaysShape
    <3>2. p = Runner /\ run.phase = "announcing"
      BY <2>1, <3>1, SpeakerFacts DEF RowFinal
    <3>3. QED
      BY <2>1, <3>1, <3>2, NotLaunchedFacts DEF StageInv, Quiet
  <2>3. CASE /\ says[p].at = "progress" /\ says'[p].at = "status"
             /\ Broadcast(Progress(says[p].done)) /\ Progress(says[p].done) \in Events
    <3>1. Progress(says[p].done).event = "progress" /\ Progress(says[p].done).done = says[p].done
      BY DEF Progress
    <3>2. wire' = Append(wire, Progress(says[p].done))
      BY <2>1, <2>3, <3>1, BroadcastShape
    <3>3. LastProgress(wire', row.done) /\ Has(wire', "progress")
      BY <1>1, <2>2, <2>3, <3>1, <3>2, WireAppend
    <3>4. CountsKnown' /\ ~Announced'
      BY <1>1, <2>2, <2>3, <3>3 DEF CountsKnown, Announced
    <3>5. QED
      BY <3>4 DEF CountsInv
  <2>4. CASE /\ says[p].at = "status" /\ says'[p].at = "said"
             /\ Broadcast(StatusChange(says[p].status)) /\ StatusChange(says[p].status) \in Events
    <3>1. StatusChange(says[p].status).event = "status_change"
      BY DEF StatusChange
    <3>2. wire' = Append(wire, StatusChange(says[p].status))
      BY <2>1, <2>4, <3>1, BroadcastShape
    <3>3. /\ Has(wire', "status_change") /\ StatusEnds(wire')
          /\ Has(wire', "progress") <=> Has(wire, "progress")
          /\ \A d : LastProgress(wire, d) => LastProgress(wire', d)
      BY <1>1, <2>4, <3>1, <3>2, WireAppend
    <3>4. CountsKnown
      BY <2>1, <2>2, <2>4 DEF CountsInv
    <3>5. CountsKnown' /\ CountsCome'
      BY <1>1, <3>3, <3>4 DEF CountsKnown, CountsCome
    <3>6. QED
      BY <3>5 DEF CountsInv
  <2>5. QED
    BY <2>3, <2>4, SaysShape
<1>5. QED
  BY <1>3, <1>4

LEMMA CountsServe ==
  ASSUME TypeOK, StageInv, CountsInv, NEW a \in Actors, NEW op \in Ops, PageOr(a, op)
  PROVE  CountsInv'
<1>1. /\ UNCHANGED <<wire, query>> /\ page'.done = page.done /\ req[a].at = "idle"
  BY PageOrShape, ServeShape
<1>2. CASE ~CountsOpen'
  BY <1>2 DEF CountsInv, CountsOpen
<1>3. CASE CountsOpen'
  <2>1. RowFinal'
    BY <1>3 DEF CountsOpen
  <2>2. ~Writes("sending") /\ ~(\E s \in {"draft", "scheduled"} : Writes(s))
    <3>1. \A s \in Statuses : Writes(s) => row'.status = s
      BY <1>3, WriteKeeps DEF Writes, Failed, CountsOpen
    <3>2. QED
      BY <2>1, <3>1 DEF RowFinal, Over, Statuses
  <2>3. ~(req'[a].at = "telling")
    BY <2>1 DEF RowFinal, Telling
  <2>4. run'.phase = run.phase /\ (\E ok \in BOOLEAN : Answered(a, ok)) /\ Keeps
    BY <2>2, <2>3, PageOrShape, ServeShape
  <2>5. \A b \in Actors : Telling(b)' <=> Telling(b)
    BY <1>1, <2>4 DEF Answered, Telling
  <2>6. /\ Announced' <=> Announced
        /\ RowFinal' <=> RowFinal
    BY <2>4, <2>5 DEF Announced, RowFinal, Keeps
  <2>7. QED
    BY <1>1, <1>3, <2>4, <2>6, SameWire, CountsFrame DEF CountsOpen, Keeps
<1>4. QED
  BY <1>2, <1>3

LEMMA CountsTurnRecords ==
  ASSUME TypeOK, StageInv, NEW a \in Actors, TurnRecords(a)
  PROVE  CountsInv'
<1> SUFFICES ASSUME ~seen'.unsaved PROVE CountsInv'
  BY DEF CountsInv
<1>1. row'.status = Turned(req[a].op) /\ Turned(req[a].op) \in {"sending", "paused"}
  BY TurnRecordsShape, WriteKeeps DEF Statuses, Failed
<1>2. QED
  BY <1>1 DEF CountsInv, RowFinal, Over

LEMMA CountsScheduler ==
  ASSUME TypeOK, SchedulerStarts
  PROVE  CountsInv'
<1> SUFFICES ASSUME ~seen'.unsaved PROVE CountsInv'
  BY DEF CountsInv
<1>1. row'.status = "sending"
  BY SchedulerShape, WriteKeeps DEF Statuses, Writes, Failed
<1>2. QED
  BY <1>1 DEF CountsInv, RowFinal, Over

LEMMA CountsAnswered ==
  ASSUME TypeOK, QueryInv, CountsInv, NEW heard \in BOOLEAN, PageAnswered(heard)
  PROVE  CountsInv'
<1>1. /\ UNCHANGED <<row, run, says, wire>> /\ page'.done = page.done
      /\ req[Page].at = "answered"
      /\ req'[Page] = NoRequest /\ req'[Other] = req[Other]
  BY PageAnsweredShape DEF TypeOK
<1>2. /\ query'.data = query.data
      /\ query' = query \/ query'.fetch = "asked"
  <2>1. query \in [data : Rows, fetch : {"idle", "asked", "served"}, reply : Rows]
    BY DEF TypeOK
  <2>2. query' = IF heard THEN [query EXCEPT !.fetch = "asked", !.reply = NoRow] ELSE query
    BY PageAnsweredShape
  <2>3. QED
    BY <2>1, <2>2
<1>3. /\ seen'.missed = seen.missed /\ seen'.lost = seen.lost /\ seen'.late = seen.late
      /\ seen.unsaved => seen'.unsaved
  BY PageAnsweredShape DEF Historied
<1>4. \A a \in Actors : Telling(a)' <=> Telling(a)
  BY <1>1 DEF Telling, NoRequest, Actors
<1>5. /\ CountsKnown => CountsKnown'
      /\ CountsCome => CountsCome'
      /\ Announced' <=> Announced
      /\ RowFinal' <=> RowFinal
  BY <1>1, <1>2, <1>4 DEF CountsKnown, CountsCome, Announced, RowFinal
<1>6. QED
  BY <1>1, <1>3, <1>5 DEF CountsInv

LEMMA CountsFetch ==
  ASSUME TypeOK, QueryInv, CountsInv, Fetches
  PROVE  CountsInv'
<1>1. UNCHANGED <<row, run, says, req, wire, seen>>
  BY FetchShape
<1>2. /\ Announced' <=> Announced
      /\ RowFinal' <=> RowFinal
  BY <1>1 DEF Telling, Announced, RowFinal
<1>3. page \in [status : Statuses \cup {"none"}, done : Nat, results : ResultNumbers,
                acting : Ops \cup {"none"}]
  BY DEF TypeOK
<1>4. StatusEnds(wire) /\ Has(wire, "progress") => Has(wire, "status_change")
  BY DEF StatusEnds, Has
<1>5. CountsKnown => CountsKnown' /\ (CountsCome => CountsCome')
  <2> SUFFICES ASSUME CountsKnown PROVE CountsKnown' /\ (CountsCome => CountsCome')
    OBVIOUS
  <2>1. CASE /\ query.fetch = "asked" /\ page' = page
             /\ query'.fetch = "served" /\ query'.reply = row /\ query'.data = query.data
    BY <1>1, <2>1 DEF CountsKnown, CountsCome
  <2>2. CASE /\ query.fetch = "served" /\ query'.fetch = "idle" /\ query'.data = query.reply
             /\ query.reply = query.data /\ page' = page
    BY <1>1, <1>4, <2>2 DEF CountsKnown, CountsCome
  <2>3. CASE /\ query.fetch = "served" /\ query'.fetch = "idle" /\ query'.data = query.reply
             /\ page' = [page EXCEPT !.status = query.reply.status, !.done = query.reply.done]
    <3>1. page'.done = query.reply.done
      BY <1>3, <2>3
    <3>2. QED
      BY <1>1, <2>3, <3>1 DEF CountsKnown, CountsCome
  <2>4. QED
    BY <2>1, <2>2, <2>3, FetchShape
<1>6. QED
  BY <1>1, <1>2, <1>5 DEF CountsInv

LEMMA CountsReceives ==
  ASSUME TypeOK, CountsInv, PageReceives
  PROVE  CountsInv'
<1>1. /\ UNCHANGED <<row, run, says, req>>
      /\ wire \in Seq(Events) /\ wire # <<>> /\ wire' = Tail(wire)
      /\ query'.data = query.data
      /\ page \in [status : Statuses \cup {"none"}, done : Nat, results : ResultNumbers,
                   acting : Ops \cup {"none"}]
  BY ReceivesShape DEF TypeOK
<1>2. /\ \A kind : Has(wire, kind) <=> Has(wire', kind) \/ Head(wire).event = kind
      /\ \A d : LastProgress(wire, d) =>
           /\ LastProgress(wire', d)
           /\ Head(wire).event = "progress" /\ ~Has(wire', "progress") => Head(wire).done = d
      /\ StatusEnds(wire) => StatusEnds(wire')
  BY <1>1, WireTail
<1>3. /\ Announced' <=> Announced
      /\ RowFinal' <=> RowFinal
  BY <1>1 DEF Announced, RowFinal, Telling
<1>4. StatusEnds(wire) /\ Has(wire, "progress") => Has(wire, "status_change")
  BY DEF StatusEnds, Has
<1>5. CASE Head(wire).event = "progress"
  <2>1. page'.done = Head(wire).done /\ UNCHANGED <<query, seen>>
    BY <1>1, <1>5, ReceivesShape
  <2>2. /\ CountsKnown => CountsKnown'
        /\ CountsCome => CountsCome'
    BY <1>1, <1>2, <1>4, <1>5, <2>1 DEF CountsKnown, CountsCome
  <2>3. QED
    BY <1>1, <1>3, <2>1, <2>2 DEF CountsInv
<1>6. CASE Head(wire).event = "status_change"
  <2> SUFFICES ASSUME ~seen'.missed PROVE CountsInv'
    BY DEF CountsInv
  <2>1. /\ page'.done = page.done /\ query'.fetch = "asked"
        /\ ~seen.missed /\ seen'.lost = seen.lost /\ seen'.late = seen.late
        /\ seen'.unsaved = seen.unsaved
    BY <1>1, <1>6, ReceivesShape
  <2>2. /\ CountsKnown => CountsKnown'
        /\ CountsCome => CountsCome'
    BY <1>1, <1>2, <1>6, <2>1 DEF CountsKnown, CountsCome
  <2>3. QED
    BY <1>1, <1>3, <2>1, <2>2 DEF CountsInv
<1>7. CASE Head(wire).event = "send_results"
  <2>1. page'.done = page.done /\ UNCHANGED <<query, seen>>
    BY <1>1, <1>7, ReceivesShape
  <2>2. QED
    BY <1>1, <1>2, <1>3, <1>7, <2>1, CountsFrame DEF CountsOpen
<1>8. QED
  BY <1>5, <1>6, <1>7, ReceivesShape

LEMMA CountsStep == BaseInv /\ CountsInv /\ [Next]_vars => CountsInv'
<1>1. ASSUME BaseInv, CountsInv, Moves PROVE CountsInv'
  BY <1>1, CountsRun, CountsTicker, CountsScheduler, CountsSocket, CountsFetch, CountsReceives,
     CountsSays, CountsTurnRecords, CountsServe, CountsAnswered DEF Moves, BaseInv
<1>2. ASSUME CountsInv, UNCHANGED vars PROVE CountsInv'
  BY <1>2 DEF vars, CountsInv, CountsKnown, CountsCome, RowFinal, Announced, Telling
<1>3. QED
  BY <1>1, <1>2, NextMoves

-----------------------------------------------------------------------------
(* The results *)

LEMMA NoResults ==
  /\ Range(<<>>) = {} /\ IsInjective(<<>>)
  /\ Wired(<<>>) = {} /\ WiredOnce(<<>>)
  /\ \A m \in Events : m.event # "send_results" => BatchOf(m) = <<>>
  /\ \A rs \in ResultNumbers : rs # <<>> => Range(rs) # {}
<1>1. Range(<<>>) = {} /\ IsInjective(<<>>)
  BY DEF Range, IsInjective
<1>2. Wired(<<>>) = {} /\ WiredOnce(<<>>)
  BY DEF Wired, WiredOnce
<1>3. ASSUME NEW rs \in ResultNumbers, rs # <<>> PROVE Range(rs) # {}
  <2>1. 1 \in DOMAIN rs
    BY <1>3 DEF ResultNumbers
  <2>2. QED
    BY <2>1 DEF Range
<1>4. QED
  BY <1>1, <1>2, <1>3 DEF BatchOf

LEMMA ResultsInit == Init => ResultsInv
<1> SUFFICES ASSUME Init PROVE ResultsInv
  OBVIOUS
<1>1. /\ page.results = <<>> /\ wire = <<>> /\ ticker.results = <<>> /\ feed.results = <<>>
      /\ run.n = 0 /\ 1..0 = {}
  BY DEF Init, NotLaunched
<1>2. QED
  BY <1>1, NoResults DEF ResultsInv

\* A step that moves no batch.
LEMMA ResultsFrame ==
  ASSUME ResultsInv,
         page'.results = page.results, ticker'.results = ticker.results,
         feed'.results = feed.results, run'.n = run.n,
         Wired(wire') = Wired(wire), WiredOnce(wire) => WiredOnce(wire'),
         ticker'.at # "results" => ticker.results = <<>>,
         run'.phase # "sending" => feed.results = <<>>,
         seen.lost => seen'.lost
  PROVE  ResultsInv'
BY DEF ResultsInv

\* A broadcast of a snapshot or a status moves none.
LEMMA PlainWire ==
  ASSUME TypeOK, NEW m \in Events, m.event # "send_results",
         wire' = wire \/ wire' = Append(wire, m)
  PROVE  Wired(wire') = Wired(wire) /\ (WiredOnce(wire) => WiredOnce(wire'))
<1>1. wire \in Seq(Events) /\ BatchOf(m) = <<>>
  BY NoResults DEF TypeOK
<1>2. CASE wire' = wire
  BY <1>2
<1>3. CASE wire' = Append(wire, m)
  <2>1. LET v == Append(wire, m)
            batch == BatchOf(m) IN
        /\ Wired(v) = Wired(wire) \cup Range(batch)
        /\ WiredOnce(wire) /\ IsInjective(batch) /\ Range(batch) \cap Wired(wire) = {} => WiredOnce(v)
    BY <1>1, WiredAppend
  <2>2. Range(BatchOf(m)) = {} /\ IsInjective(BatchOf(m))
    BY <1>1, NoResults
  <2>3. QED
    BY <1>3, <2>1, <2>2
<1>4. QED
  BY <1>2, <1>3

\* A broadcast of a batch puts it on the wire, or it is lost.
LEMMA BatchWire ==
  ASSUME TypeOK, NEW rs \in ResultNumbers, Broadcast(SendResults(rs)),
         WiredOnce(wire), IsInjective(rs), Range(rs) \cap Wired(wire) = {}
  PROVE  /\ WiredOnce(wire')
         /\ (seen.lost => seen'.lost)
         /\ \/ Wired(wire') = Wired(wire) \cup Range(rs)
            \/ Wired(wire') = Wired(wire) /\ seen'.lost
<1>1. /\ SendResults(rs) \in Events /\ SendResults(rs).event = "send_results"
      /\ BatchOf(SendResults(rs)) = rs
  BY EventTypes DEF SendResults, BatchOf
<1>2. wire \in Seq(Events)
  BY DEF TypeOK
<1>3. /\ seen.lost => seen'.lost
      /\ wire' = Append(wire, SendResults(rs)) \/ (wire' = wire /\ seen'.lost)
  BY <1>1, BroadcastShape
<1>4. CASE wire' = Append(wire, SendResults(rs))
  BY <1>1, <1>2, <1>3, <1>4, WiredAppend
<1>5. CASE wire' = wire /\ seen'.lost
  BY <1>5
<1>6. QED
  BY <1>3, <1>4, <1>5

LEMMA ResultsTicker ==
  ASSUME TypeOK, ResultsInv, TickerActs
  PROVE  ResultsInv'
<1>1. UNCHANGED <<row, run, says, req, query, page>>
  BY TickerShape
<1>2. ticker.results \in ResultNumbers /\ feed.results \in ResultNumbers /\ seen \in Histories
  BY DEF TypeOK, Histories
<1>3. CASE /\ feed' = feed /\ ticker'.results = ticker.results
           /\ ticker'.at \in {"off", "select", "progress"} /\ ticker.at # "results"
           /\ UNCHANGED <<wire, seen>>
  BY <1>1, <1>3 DEF ResultsInv
<1>4. CASE /\ feed' = feed /\ ticker'.results = ticker.results
           /\ ticker.at = "progress" /\ ticker'.at = "select"
           /\ wire' \in {wire, Append(wire, Progress(ticker.done))}
           /\ seen.lost => seen'.lost
  <2>1. Progress(ticker.done) \in Events /\ Progress(ticker.done).event = "progress"
    BY EventTypes DEF Progress, TypeOK
  <2>2. Wired(wire') = Wired(wire) /\ (WiredOnce(wire) => WiredOnce(wire'))
    BY <1>4, <2>1, PlainWire
  <2>3. ticker.results = <<>> /\ (run.phase # "sending" => feed.results = <<>>)
    BY <1>4 DEF ResultsInv
  <2>4. QED
    BY <1>1, <1>4, <2>2, <2>3, ResultsFrame
<1>5. CASE /\ ticker.at = "select" /\ feed'.results = <<>> /\ ticker'.results = feed.results
           /\ UNCHANGED <<wire, seen>>
  <2>1. ticker.results = <<>>
    BY <1>5 DEF ResultsInv
  <2>2. ticker'.at # "results" => feed.results = <<>>
    <3>1. ticker'.at = "results" \/ feed' = feed
      BY <1>5 DEF TickerActs, TicksProgress, TickerSendsProgress, TicksResults, TickerSendsResults,
         TickerEnds, TypeOK
    <3>2. QED
      BY <1>5, <3>1
  <2>3. QED
    BY <1>1, <1>5, <2>1, <2>2, NoResults DEF ResultsInv
<1>6. CASE /\ ticker.at = "results" /\ feed' = feed /\ ticker'.results = <<>>
           /\ Broadcast(SendResults(ticker.results))
  <2>1. /\ WiredOnce(wire')
        /\ (seen.lost => seen'.lost)
        /\ \/ Wired(wire') = Wired(wire) \cup Range(ticker.results)
           \/ Wired(wire') = Wired(wire) /\ seen'.lost
    BY <1>2, <1>6, BatchWire DEF ResultsInv
  <2>2. QED
    BY <1>1, <1>6, <2>1, NoResults DEF ResultsInv
<1>7. (ticker.at = "progress" /\ ticker'.at = "select" /\ feed' = feed) => (seen.lost => seen'.lost)
  BY TickerWire
<1>8. QED
  BY <1>3, <1>4, <1>5, <1>6, <1>7, TickerShape

LEMMA ResultsRun ==
  ASSUME TypeOK, StageInv, ResultsInv, Run
  PROVE  ResultsInv'
<1>1. UNCHANGED <<ticker, page>>
  BY RunShape
<1>2. /\ feed.results \in Seq(1..Pending) /\ run.n \in 0..Pending /\ Pending \in Nat
  BY PendingAssumption DEF TypeOK, ResultNumbers
<1>3. CASE /\ run.phase = "sending" /\ run'.phase = "sending" /\ run'.n = run.n + 1
           /\ feed'.results = Append(feed.results, run.n + 1)
           /\ UNCHANGED <<wire, seen>>
  <2>1. run.n + 1 \in 1..Pending
    <3>1. run'.n \in 0..Pending
      BY RunShape
    <3>2. QED
      BY <1>2, <1>3, <3>1
  <2>2. 1..(run.n + 1) = 1..run.n \cup {run.n + 1} /\ run.n + 1 \notin 1..run.n
    BY <1>2
  <2>3. /\ Range(feed'.results) = Range(feed.results) \cup {run.n + 1}
        /\ IsInjective(feed.results) /\ run.n + 1 \notin Range(feed.results)
             => IsInjective(feed'.results)
    BY SMTT(30), <1>2, <1>3, <2>1, OnceAppend
  <2> DEFINE n == run.n
             x == run.n + 1
             P == Range(page.results)
             W == Wired(wire)
             T == Range(ticker.results)
             F == Range(feed.results)
  <2>4. /\ P \cup W \cup T \cup F \subseteq 1..n /\ x \notin 1..n /\ 1..x = 1..n \cup {x}
        /\ P \cap W = {} /\ (P \cup W) \cap T = {} /\ (P \cup W \cup T) \cap F = {}
        /\ ~seen.lost => 1..n \subseteq P \cup W \cup T \cup F
    BY <2>2 DEF ResultsInv
  <2>5. /\ (P \cup W \cup T) \cap (F \cup {x}) = {}
        /\ P \cup W \cup T \cup (F \cup {x}) \subseteq 1..x
        /\ ~seen.lost => 1..x \subseteq P \cup W \cup T \cup (F \cup {x})
        /\ x \notin F
    <3> HIDE DEF x, n, P, W, T, F
    <3>1. QED
      BY <2>4
  <2>6. QED
    BY <1>1, <1>3, <2>3, <2>4, <2>5 DEF ResultsInv
<1>4. CASE /\ run'.phase = "saving" /\ run'.n = run.n /\ feed'.results = <<>>
           /\ Broadcast(SendResults(feed.results))
  <2>1. /\ WiredOnce(wire')
        /\ (seen.lost => seen'.lost)
        /\ \/ Wired(wire') = Wired(wire) \cup Range(feed.results)
           \/ Wired(wire') = Wired(wire) /\ seen'.lost
    BY <1>2, <1>4, BatchWire DEF ResultsInv, ResultNumbers
  <2>2. QED
    BY <1>1, <1>4, <2>1, NoResults DEF ResultsInv
<1>5. CASE /\ run'.n = run.n /\ UNCHANGED <<wire, seen>> /\ feed'.results = feed.results
           /\ run'.phase # "sending" => feed.results = <<>>
  BY <1>1, <1>5 DEF ResultsInv
<1>8. CASE /\ run'.n = run.n /\ wire' = wire /\ Historied(FALSE) /\ feed'.results = feed.results
           /\ run.phase = "recording"
  BY <1>1, <1>8 DEF ResultsInv, Historied
<1>6. run.phase # "sending" => run'.n = run.n /\ feed.results = <<>>
  BY RunShape DEF ResultsInv
<1>7. QED
  BY <1>3, <1>4, <1>5, <1>6, <1>8, RunShape

LEMMA ResultsSays ==
  ASSUME TypeOK, StageInv, ResultsInv, NEW p \in Speakers, Says(p)
  PROVE  ResultsInv'
<1>1. UNCHANGED <<run, feed, ticker, page>>
  BY SaysShape
<1>2. PICK m \in Events : m.event # "send_results" /\ Broadcast(m)
  <2>1. Progress(says[p].done).event = "progress" /\ StatusChange(says[p].status).event = "status_change"
    BY DEF Progress, StatusChange
  <2>2. QED
    BY <2>1, SaysShape
<1>3. /\ wire' = wire \/ wire' = Append(wire, m)
      /\ seen.lost => seen'.lost
  BY <1>2, BroadcastShape
<1>4. Wired(wire') = Wired(wire) /\ (WiredOnce(wire) => WiredOnce(wire'))
  BY <1>2, <1>3, PlainWire
<1>5. QED
  BY <1>1, <1>3, <1>4, ResultsFrame DEF ResultsInv

LEMMA ResultsReceives ==
  ASSUME TypeOK, ResultsInv, PageReceives
  PROVE  ResultsInv'
<1>1. /\ UNCHANGED <<run, feed, ticker>>
      /\ wire \in Seq(Events) /\ wire # <<>> /\ wire' = Tail(wire) /\ Head(wire) \in Events
      /\ seen'.lost = seen.lost
      /\ page \in [status : Statuses \cup {"none"}, done : Nat, results : ResultNumbers,
                   acting : Ops \cup {"none"}]
  BY ReceivesShape DEF TypeOK
<1> DEFINE batch == BatchOf(Head(wire))
<1>2. /\ Wired(wire) = Range(batch) \cup Wired(wire')
      /\ WiredOnce(wire) => /\ IsInjective(batch) /\ WiredOnce(wire')
                            /\ Range(batch) \cap Wired(wire') = {}
  BY <1>1, WiredTail
<1>3. CASE Head(wire).event # "send_results"
  <2>1. page'.results = page.results
    BY <1>1, <1>3, ReceivesShape
  <2>2. batch = <<>> /\ Range(batch) = {}
    BY <1>1, <1>3, NoResults
  <2>3. QED
    BY <1>1, <1>2, <2>1, <2>2, ResultsFrame DEF ResultsInv
<1>4. CASE Head(wire).event = "send_results"
  <2>1. /\ page'.results = page.results \o batch
        /\ page.results \in Seq(1..Pending) /\ batch \in Seq(1..Pending)
    BY <1>1, <1>4, ReceivesShape, EventTypes DEF BatchOf, ResultNumbers
  <2>2. /\ Range(page'.results) = Range(page.results) \cup Range(batch)
        /\ IsInjective(page.results) /\ IsInjective(batch) /\ Range(page.results) \cap Range(batch) = {}
             => IsInjective(page'.results)
    BY <2>1, OnceConcat
  <2>3. WiredOnce(wire) /\ IsInjective(page.results) /\ Range(page.results) \cap Wired(wire) = {}
    BY DEF ResultsInv
  <2>4. IsInjective(page'.results) /\ WiredOnce(wire')
        /\ Range(page'.results) \cap Wired(wire') = {}
        /\ Range(page'.results) \cup Wired(wire') = Range(page.results) \cup Wired(wire)
    <3> HIDE DEF batch
    <3>1. QED
      BY <1>2, <2>2, <2>3
  <2>5. QED
    <3> HIDE DEF batch
    <3>1. QED
      BY <1>1, <2>4 DEF ResultsInv
<1>5. QED
  BY <1>3, <1>4

LEMMA ResultsSocket ==
  ASSUME TypeOK, ResultsInv, SocketActs
  PROVE  ResultsInv'
<1>1. UNCHANGED <<run, feed, ticker, page>>
  BY SocketShape
<1>2. CASE UNCHANGED <<wire, seen>>
  BY <1>1, <1>2 DEF ResultsInv
<1>3. CASE /\ wire' = <<>>
           /\ ~seen'.lost => ~seen.lost /\ \A i \in DOMAIN wire : wire[i].event = "status_change"
  <2>1. Wired(wire') = {} /\ WiredOnce(wire')
    BY <1>3, NoResults
  <2>2. ~seen'.lost => ~seen.lost /\ Wired(wire) = {}
    <3>1. ASSUME ~seen'.lost, NEW i \in DOMAIN wire
          PROVE  Range(BatchOf(wire[i])) = {}
      <4>1. wire[i] \in Events /\ wire[i].event # "send_results"
        BY <1>3, <3>1, WireIndices DEF TypeOK
      <4>2. QED
        BY <4>1, NoResults
    <3>2. QED
      BY <1>3, <3>1 DEF Wired
  <2>3. QED
    BY <1>1, <2>1, <2>2 DEF ResultsInv
<1>4. QED
  BY <1>2, <1>3, SocketShape

\* A request moves none; a launch finds the ticker without a batch.
LEMMA ResultsRequest ==
  ASSUME TypeOK, StageInv, ResultsInv, ServerTypes, wire' = wire, page'.results = page.results,
         seen.lost => seen'.lost,
         (run.phase = "none" /\ run'.phase = "sending")
         \/ (run'.phase = run.phase /\ ticker' = ticker)
  PROVE  ResultsInv'
<1>1. /\ feed'.results = feed.results /\ ticker'.results = ticker.results /\ run'.n = run.n
      /\ ticker.results \in ResultNumbers
  BY DEF ServerTypes, TypeOK
<1>2. CASE run.phase = "none" /\ run'.phase = "sending"
  <2>1. Range(ticker.results) \subseteq 1..0 /\ 1..0 = {}
    BY <1>2 DEF StageInv, ResultsInv
  <2>2. ticker.results = <<>>
    BY <1>1, <2>1, NoResults
  <2>3. QED
    BY <1>1, <1>2, <2>2, ResultsFrame
<1>3. CASE run'.phase = run.phase /\ ticker' = ticker
  BY <1>1, <1>3, ResultsFrame DEF ResultsInv
<1>4. QED
  BY <1>2, <1>3

LEMMA ResultsStep == BaseInv /\ ResultsInv /\ [Next]_vars => ResultsInv'
<1>1. ASSUME BaseInv, ResultsInv, NEW a \in Actors, NEW op \in Ops, PageOr(a, op)
      PROVE  ResultsInv'
  <2>1. ServerTypes /\ wire' = wire /\ page'.results = page.results
    BY <1>1, PageOrShape, ServeShape DEF BaseInv
  <2>2. /\ seen.lost => seen'.lost
        /\ (run.phase = "none" /\ run'.phase = "sending")
           \/ (run'.phase = run.phase /\ ticker' = ticker)
    BY <1>1, PageOrShape, ServeShape DEF BaseInv, Historied, Keeps
  <2>3. QED
    BY <1>1, <2>1, <2>2, ResultsRequest DEF BaseInv
<1>2. ASSUME BaseInv, ResultsInv, NEW a \in Actors, TurnRecords(a)
      PROVE  ResultsInv'
  BY <1>2, TurnRecordsShape, ResultsRequest DEF BaseInv, Historied
<1>3. ASSUME BaseInv, ResultsInv, SchedulerStarts
      PROVE  ResultsInv'
  BY <1>3, SchedulerShape, ResultsRequest DEF BaseInv, Historied
<1>4. ASSUME BaseInv, ResultsInv, NEW heard \in BOOLEAN, PageAnswered(heard)
      PROVE  ResultsInv'
  <2>1. /\ UNCHANGED <<run, feed, ticker, wire>> /\ page'.results = page.results
        /\ seen'.lost = seen.lost
    BY <1>4, PageAnsweredShape DEF BaseInv, TypeOK, Historied
  <2>2. QED
    BY <1>4, <2>1 DEF ResultsInv
<1>5. ASSUME BaseInv, ResultsInv, Fetches
      PROVE  ResultsInv'
  <2>1. /\ UNCHANGED <<run, feed, ticker, wire, seen>> /\ page'.results = page.results
    BY <1>5, FetchShape DEF BaseInv, TypeOK
  <2>2. QED
    BY <1>5, <2>1 DEF ResultsInv
<1>6. ASSUME BaseInv, ResultsInv, Moves PROVE ResultsInv'
  BY <1>1, <1>2, <1>3, <1>4, <1>5, <1>6, ResultsRun, ResultsTicker, ResultsSocket,
     ResultsReceives, ResultsSays DEF Moves, BaseInv
<1>7. ASSUME ResultsInv, UNCHANGED vars PROVE ResultsInv'
  BY <1>7 DEF vars, ResultsInv
<1>8. QED
  BY <1>6, <1>7, NextMoves

-----------------------------------------------------------------------------
(* Theorems *)

\* The parts of the invariant hold together in every state.
THEOREM PageInvariant == Spec => []PageInv
<1>1. Init => BaseInv /\ StatusInv /\ CountsInv /\ ResultsInv
  BY TypeInit, StatusInit, ResultsInit DEF BaseInv
<1>2. BaseInv /\ StatusInv /\ CountsInv /\ ResultsInv /\ [Next]_vars
        => (BaseInv /\ StatusInv /\ CountsInv /\ ResultsInv)'
  BY BaseStep, StatusStep, CountsStep, ResultsStep
<1>3. BaseInv /\ StatusInv /\ CountsInv /\ ResultsInv => PageInv
  BY DEF PageInv, BaseInv
<1>4. QED
  BY <1>1, <1>2, <1>3, PTL DEF Spec

\* The types of the variables.
THEOREM PageTypes == Spec => []TypeOK
<1>1. PageInv => TypeOK
  BY DEF PageInv
<1>2. QED
  BY <1>1, PageInvariant, PTL

\* Nothing is broadcast to a channel that unregister has closed: the hub forgets
\* the client in the step that closes it.
THEOREM ChannelIsOpen == Spec => []NoSendOnClosed
<1>1. PageInv => NoSendOnClosed
  BY DEF PageInv, ChannelInv, NoSendOnClosed
<1>2. QED
  BY <1>1, PageInvariant, PTL

\* A page that is settled shows the row's status: at the end whatever happened to
\* the answers, before it unless the row was changed behind its back; a statement
\* that failed unseen excepted.
THEOREM SettledStatus == Spec => []StatusShown
<1>1. ASSUME PageInv PROVE StatusShown
  <2>1. /\ StageInv /\ StatusInv /\ QueryInv
        /\ Page \in Actors /\ Other \in Actors
    BY <1>1 DEF PageInv, Actors
  <2>2. Settled => ~Has(wire, "status_change") /\ \A a \in Actors : ~Telling(a) /\ req[a].at = "idle"
    BY WireEmpty DEF Settled, Telling
  <2>3. FinalStatusShown
    BY <2>1, <2>2 DEF FinalStatusShown, Ended, Settled, StatusInv, StatusComes, RowFinal, Announced
  <2>4. OwnStatusShown
    BY <2>1, <2>2 DEF OwnStatusShown, Settled, StatusInv, StatusComes, OwnOnly, WillAsk
  <2>5. QED
    BY <2>3, <2>4 DEF StatusShown
<1>2. QED
  BY <1>1, PageInvariant, PTL

\* The page ends on the counts of the row, unless a message was lost or a snapshot
\* of the ticker went out after the run's last one, or a statement failed.
THEOREM EndCounts == Spec => []FinalCountsShown
<1>1. ASSUME PageInv PROVE FinalCountsShown
  <2>1. SUFFICES ASSUME Ended, ~seen.missed, ~seen.lost, ~seen.late, ~seen.unsaved
                 PROVE  page.done = row.done
    BY DEF FinalCountsShown
  <2>2. /\ ~Has(wire, "status_change")
        /\ RowFinal /\ Announced /\ query.fetch = "idle"
    BY <2>1, WireEmpty DEF Ended, Settled, Telling, RowFinal, Announced
  <2>3. CountsCome
    BY <1>1, <2>1, <2>2 DEF PageInv, CountsInv
  <2>4. QED
    BY <2>2, <2>3 DEF CountsCome
<1>2. QED
  BY <1>1, PageInvariant, PTL

\* Each result reaches the page's list at most once, and all do at the end unless a
\* message was lost.
THEOREM ResultsOnce == Spec => []ResultsShownOnce
<1>1. ASSUME PageInv PROVE ResultsShownOnce
  <2>1. /\ IsInjective(page.results) /\ Range(page.results) \subseteq 1..run.n
        /\ page.results \in Seq(1..Pending) /\ run.n \in Nat
    BY <1>1, PendingAssumption DEF PageInv, ResultsInv, TypeOK, ResultNumbers
  <2>2. ASSUME Ended, ~seen.lost PROVE Len(page.results) = run.n
    <3>1. ticker.results = <<>> /\ feed.results = <<>> /\ wire = <<>>
      BY <1>1, <2>2 DEF PageInv, ResultsInv, Ended, Settled
    <3>2. 1..run.n \subseteq Range(page.results)
      BY <1>1, <2>2, <3>1, NoResults DEF PageInv, ResultsInv
    <3>3. QED
      BY <2>1, <3>2, OnceLength
  <2>3. QED
    BY <2>1, <2>2 DEF ResultsShownOnce, IsInjective
<1>2. QED
  BY <1>1, PageInvariant, PTL

=============================================================================
