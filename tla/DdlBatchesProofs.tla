-------------------------- MODULE DdlBatchesProofs --------------------------
(***************************************************************************)
(* Batches report every operation once, keep to their windows and leak no  *)
(* connection, for any number of batches, any amounts and any pool sizes.  *)
(*                                                                         *)
(* The three hold together only.  That an operation is not reported twice  *)
(* needs the numbering of a batch: what was started is reported or         *)
(* running, never both.  That a drop batch starts once needs the pools: it *)
(* waits or has its connection, and has started nothing while it waits.    *)
(* That a pool is not leaked needs both.                                   *)
(***************************************************************************)
EXTENDS DdlBatches, FiniteSetTheorems, SequenceTheorems, TLAPS

Tickets == [batch : Batches, operation : Nat]
Results == [operation : Nat, ok : BOOLEAN]

BatchesTypeOK ==
    /\ state \in [Batches -> {"Idle", "Running", "Done", "Cancelled"}]
    /\ amount \in [Batches -> Nat]
    /\ started \in [Batches -> Nat]
    /\ running \in [Batches -> SUBSET Nat]
    /\ queue \in [Pools -> Seq(Tickets)]
    /\ held \in [Pools -> SUBSET Tickets]
    /\ reports \in [Batches -> Seq(Results)]

\* No two results of b are about the same operation.
ReportsDiffer(b) ==
    \A j, k \in 1 .. Len(reports[b]) :
        reports[b][j].operation = reports[b][k].operation => j = k

\* The numbering of a batch: what was started is reported or running.
Numbered(b) ==
    /\ started[b] <= amount[b]
    /\ ReportsDiffer(b)
    /\ Reported(b) \cap running[b] = {}
    /\ state[b] = "Idle" => amount[b] = 0 /\ started[b] = 0 /\ reports[b] = <<>>
    /\ state[b] = "Running" => amount[b] > 0 /\ Reported(b) \cup running[b] = 0 .. started[b] - 1
    /\ state[b] = "Running" /\ running[b] = {} => b \in DropBatches /\ started[b] = 0
    /\ state[b] # "Running" => running[b] = {}
    /\ state[b] = "Done" => Reported(b) = Operations(b)

\* A drop batch has started nothing while it waits, and works once connected.
DropsWaitOrWork ==
    \A b \in DropBatches :
        /\ Ticket(b, 0) \in ToSet(queue["cleanup"]) => running[b] = {}
        /\ Ticket(b, 0) \in held["cleanup"] => running[b] # {}

Limit(b) == IF b \in CreateBatches THEN CreationPool ELSE PipelineDepth

WindowOf(b) ==
    /\ Cardinality(running[b]) <= Limit(b)
    /\ running[b] # {} => Cardinality(running[b]) = Limit(b) \/ started[b] = amount[b]

Wanted(p) ==
    IF p = "creation"
    THEN UNION {{Ticket(b, i) : i \in running[b]} : b \in CreateBatches}
    ELSE {Ticket(b, 0) : b \in {x \in DropBatches : state[x] = "Running"}}

NoRepeats(q) == \A j, k \in 1 .. Len(q) : q[j] = q[k] => j = k

PoolAccounted(p) ==
    /\ IsFiniteSet(held[p])
    /\ Cardinality(held[p]) <= Size(p)
    /\ NoRepeats(queue[p])
    /\ ToSet(queue[p]) \cap held[p] = {}
    /\ ToSet(queue[p]) \cup held[p] = Wanted(p)

BatchesInv ==
    /\ BatchesTypeOK
    /\ \A b \in Batches : Numbered(b) /\ WindowOf(b)
    /\ \A p \in Pools : PoolAccounted(p)
    /\ DropsWaitOrWork
----------------------------------------------------------------------------

\* A set listed without repetition has as many elements as the list.
LEMMA ListedOnce ==
    ASSUME NEW n \in Nat, NEW S, NEW f \in [1 .. n -> S],
           \A j, k \in 1 .. n : f[j] = f[k] => j = k,
           \A x \in S : \E k \in 1 .. n : f[k] = x
    PROVE  Cardinality(S) = n
<1>1. f \in Bijection(1 .. n, S)
    BY DEF Bijection, Injection, Surjection, IsInjective
<1> QED
    BY <1>1, FS_CountingElements DEF ExistsBijection

\* What leaves a queue leaves it once and for all; the others stay, in no other
\* number.
LEMMA WithoutRemoves ==
    ASSUME NEW S, NEW q \in Seq(S), NEW gone
    PROVE  /\ Without(q, gone) \in Seq(S)
           /\ ToSet(Without(q, gone)) = ToSet(q) \ gone
           /\ NoRepeats(q) => NoRepeats(Without(q, gone))
<1> DEFINE kept == {i \in DOMAIN q : q[i] \notin gone}
           upTo(i) == {j \in kept : j <= i}
           n == Cardinality(kept)
           place == [i \in kept |-> Cardinality(upTo(i))]
           from(k) == CHOOSE i \in kept : Cardinality({j \in kept : j <= i}) = k
<1>1. DOMAIN q = 1 .. Len(q) /\ Len(q) \in Nat
    OBVIOUS
<1>2. kept \subseteq 1 .. Len(q) /\ IsFiniteSet(kept) /\ n \in Nat
    <2>1. kept \in SUBSET (1 .. Len(q))
        BY <1>1
    <2>2. IsFiniteSet(1 .. Len(q))
        BY <1>1, FS_Interval
    <2> HIDE DEF kept
    <2> QED
        BY <2>1, <2>2, FS_Subset, FS_CardinalityType
<1>3. \A i \in kept : upTo(i) \in SUBSET kept /\ i \in upTo(i)
    BY <1>2
<1>4. \A i \in kept : IsFiniteSet(upTo(i)) /\ Cardinality(upTo(i)) \in Nat
                      /\ Cardinality(upTo(i)) <= n /\ Cardinality(upTo(i)) # 0
    <2> TAKE i \in kept
    <2> HIDE DEF kept, upTo, n
    <2>1. IsFiniteSet(upTo(i)) /\ Cardinality(upTo(i)) <= Cardinality(kept)
        BY <1>2, <1>3, FS_Subset
    <2>2. Cardinality(upTo(i)) \in Nat
        BY <2>1, FS_CardinalityType
    <2>3. Cardinality(upTo(i)) # 0
        BY <2>1, <1>3, FS_EmptySet
    <2> QED
        BY <2>1, <2>2, <2>3 DEF n
<1>5. place \in [kept -> 1 .. n]
    <2> HIDE DEF kept, upTo, n
    <2> QED
        BY <1>2, <1>4
<1>6. ASSUME NEW i \in kept, NEW j \in kept, i < j
      PROVE  place[i] # place[j]
    <2>1. upTo(i) \in SUBSET upTo(j) /\ upTo(i) # upTo(j)
        BY <1>2, <1>6
    <2> HIDE DEF kept, upTo, n
    <2>2. Cardinality(upTo(j)) # Cardinality(upTo(i))
        BY <2>1, <1>4, FS_Subset
    <2> QED
        BY <2>2
<1>7. \A i, j \in kept : place[i] = place[j] => i = j
    <2> HIDE DEF place
    <2> QED
        BY <1>2, <1>6
<1>8. \A k \in 1 .. n : \E i \in kept : place[i] = k
    <2> HIDE DEF kept, n, place
    <2>1. place \in Injection(kept, 1 .. n)
        BY <1>5, <1>7 DEF Injection, IsInjective
    <2>2. IsFiniteSet(1 .. n) /\ Cardinality(1 .. n) = n
        BY <1>2, FS_Interval
    <2>3. place \in Surjection(kept, 1 .. n)
        BY <2>1, <2>2, FS_Injection DEF n
    <2> QED
        BY <2>3 DEF Surjection
<1>9. \A k \in 1 .. n : from(k) \in kept /\ place[from(k)] = k
    <2> TAKE k \in 1 .. n
    <2>1. PICK i \in kept : place[i] = k
        BY <1>8
    <2>2. Cardinality({j \in kept : j <= i}) = k
        BY <2>1
    <2> HIDE DEF kept, n
    <2> QED
        BY <2>2
<1>10. \A i \in kept : place[i] \in 1 .. n /\ from(place[i]) = i
    <2> HIDE DEF kept, n, place, from
    <2> QED
        BY <1>5, <1>7, <1>9
<1>11. Without(q, gone) = [k \in 1 .. n |-> q[from(k)]]
    BY DEF Without
<1>12. \A k \in 1 .. n : q[from(k)] \in S /\ q[from(k)] \in ToSet(q) \ gone
    <2> TAKE k \in 1 .. n
    <2>1. from(k) \in kept
        BY <1>9
    <2>2. from(k) \in 1 .. Len(q) /\ q[from(k)] \notin gone
        BY <2>1, <1>1
    <2> HIDE DEF kept, n, from
    <2> QED
        BY <2>2, <1>1 DEF ToSet
<1>13. Without(q, gone) \in Seq(S) /\ Len(Without(q, gone)) = n /\ DOMAIN Without(q, gone) = 1 .. n
    <2> HIDE DEF kept, n, from
    <2> QED
        BY <1>2, <1>11, <1>12
<1>14. ASSUME NEW x \in ToSet(q) \ gone
       PROVE  \E k \in 1 .. n : x = q[from(k)]
    <2>1. PICK i \in kept : q[i] = x
        BY <1>1 DEF ToSet
    <2> HIDE DEF kept, n, from, place
    <2> QED
        BY <2>1, <1>10
<1>15. ToSet(Without(q, gone)) = ToSet(q) \ gone
    <2>1. ToSet(Without(q, gone)) = {q[from(k)] : k \in 1 .. n}
        <3> HIDE DEF kept, n, from
        <3> QED
            BY <1>11, <1>13 DEF ToSet
    <2> HIDE DEF kept, n, from, place
    <2> QED
        BY <2>1, <1>12, <1>14
<1>16. NoRepeats(q) => NoRepeats(Without(q, gone))
    <2> HIDE DEF n, from, place
    <2>1. SUFFICES ASSUME NoRepeats(q), NEW j \in 1 .. n, NEW k \in 1 .. n, q[from(j)] = q[from(k)]
                   PROVE  j = k
        BY <1>11, <1>13 DEF NoRepeats
    <2>2. from(j) \in 1 .. Len(q) /\ from(k) \in 1 .. Len(q)
        BY <1>2, <1>9
    <2>3. from(j) = from(k)
        BY <2>1, <2>2 DEF NoRepeats
    <2> QED
        BY <2>3, <1>9
<1> QED
    BY <1>13, <1>15, <1>16

\* The elements of a sequence that grows at its end or is cut at its front.
LEMMA ConcatSet ==
    ASSUME NEW S, NEW q \in Seq(S), NEW r \in Seq(S)
    PROVE  /\ ToSet(q \o r) = ToSet(q) \cup ToSet(r)
           /\ NoRepeats(q) /\ NoRepeats(r) /\ ToSet(q) \cap ToSet(r) = {} => NoRepeats(q \o r)
<1>1. /\ q \o r \in Seq(S) /\ Len(q \o r) = Len(q) + Len(r) /\ Len(q) \in Nat /\ Len(r) \in Nat
      /\ \A i \in 1 .. Len(q) + Len(r) :
            (q \o r)[i] = IF i <= Len(q) THEN q[i] ELSE r[i - Len(q)]
    OBVIOUS
<1>2. /\ DOMAIN q = 1 .. Len(q) /\ DOMAIN r = 1 .. Len(r)
      /\ DOMAIN (q \o r) = 1 .. Len(q) + Len(r)
    BY <1>1
<1> DEFINE c == q \o r
<1> HIDE DEF c
<1>3. ASSUME NEW i \in 1 .. Len(r)
      PROVE  i + Len(q) \in DOMAIN c /\ c[i + Len(q)] = r[i]
    BY <1>1, <1>2 DEF c
<1>4. ASSUME NEW i \in 1 .. Len(q)
      PROVE  i \in DOMAIN c /\ c[i] = q[i]
    BY <1>1, <1>2 DEF c
<1>5. ToSet(c) = ToSet(q) \cup ToSet(r)
    <2>1. ASSUME NEW x \in ToSet(c) PROVE x \in ToSet(q) \cup ToSet(r)
        <3>1. PICK i \in 1 .. Len(q) + Len(r) : x = c[i]
            BY <1>2 DEF ToSet, c
        <3>2. CASE i <= Len(q)
            BY <3>1, <3>2, <1>1, <1>2 DEF ToSet, c
        <3>3. CASE ~(i <= Len(q))
            <4>1. i - Len(q) \in 1 .. Len(r) /\ x = r[i - Len(q)]
                BY <3>1, <3>3, <1>1 DEF c
            <4> QED
                BY <4>1, <1>2 DEF ToSet
        <3> QED
            BY <3>2, <3>3
    <2>2. ASSUME NEW x \in ToSet(q) PROVE x \in ToSet(c)
        BY <1>2, <1>4 DEF ToSet
    <2>3. ASSUME NEW x \in ToSet(r) PROVE x \in ToSet(c)
        <3>1. PICK i \in 1 .. Len(r) : x = r[i]
            BY <1>2 DEF ToSet
        <3> QED
            BY <3>1, <1>3 DEF ToSet
    <2> QED
        BY <2>1, <2>2, <2>3
<1>6. ASSUME NoRepeats(q), NoRepeats(r), ToSet(q) \cap ToSet(r) = {},
             NEW j \in 1 .. Len(c), NEW k \in 1 .. Len(c), c[j] = c[k]
      PROVE  j = k
    <2>1. \A a \in 1 .. Len(q), b \in 1 .. Len(r) : q[a] # r[b]
        BY <1>2, <1>6 DEF ToSet
    <2>2. CASE j <= Len(q) /\ k <= Len(q)
        BY <2>2, <1>1, <1>6 DEF NoRepeats, c
    <2>3. CASE ~(j <= Len(q)) /\ ~(k <= Len(q))
        <3>1. j - Len(q) \in 1 .. Len(r) /\ k - Len(q) \in 1 .. Len(r)
              /\ r[j - Len(q)] = r[k - Len(q)]
            BY <2>3, <1>1, <1>6 DEF c
        <3>2. j - Len(q) = k - Len(q)
            BY <3>1, <1>6 DEF NoRepeats
        <3> QED
            BY <3>2, <1>1 DEF c
    <2>4. CASE j <= Len(q) /\ ~(k <= Len(q))
        BY <2>1, <2>4, <1>1, <1>6 DEF c
    <2>5. CASE ~(j <= Len(q)) /\ k <= Len(q)
        BY <2>1, <2>5, <1>1, <1>6 DEF c
    <2> QED
        BY <2>2, <2>3, <2>4, <2>5
<1> QED
    BY <1>5, <1>6 DEF c, NoRepeats

LEMMA TailSet ==
    ASSUME NEW S, NEW q \in Seq(S), q # <<>>, NoRepeats(q)
    PROVE  /\ Head(q) \in ToSet(q)
           /\ Tail(q) \in Seq(S)
           /\ ToSet(Tail(q)) = ToSet(q) \ {Head(q)}
           /\ NoRepeats(Tail(q))
<1>1. /\ Len(q) \in Nat \ {0} /\ Tail(q) \in Seq(S) /\ Len(Tail(q)) = Len(q) - 1
      /\ DOMAIN q = 1 .. Len(q) /\ DOMAIN Tail(q) = 1 .. Len(q) - 1
      /\ Head(q) = q[1]
      /\ \A i \in 1 .. Len(q) - 1 : Tail(q)[i] = q[i + 1]
    OBVIOUS
<1>2. ToSet(Tail(q)) = ToSet(q) \ {Head(q)}
    <2>1. ASSUME NEW i \in 1 .. Len(q) - 1
          PROVE  Tail(q)[i] \in ToSet(q) \ {Head(q)}
        BY <1>1 DEF ToSet, NoRepeats
    <2>2. ASSUME NEW x \in ToSet(q) \ {Head(q)}
          PROVE  x \in ToSet(Tail(q))
        <3>1. PICK i \in 1 .. Len(q) : x = q[i]
            BY <1>1 DEF ToSet
        <3>2. i - 1 \in DOMAIN Tail(q) /\ Tail(q)[i - 1] = x
            BY <3>1, <1>1
        <3> QED
            BY <3>2 DEF ToSet
    <2> QED
        BY <2>1, <2>2, <1>1, ZenonT(30) DEF ToSet
<1>3. NoRepeats(Tail(q))
    BY <1>1 DEF NoRepeats
<1>4. Head(q) \in ToSet(q)
    BY <1>1 DEF ToSet
<1> QED
    BY <1>1, <1>2, <1>3, <1>4

----------------------------------------------------------------------------
\* The batches.

\* What a step does not touch stays as it is.
LEMMA OtherBatches ==
    ASSUME NEW b \in Batches, Numbered(b), WindowOf(b),
           state'[b] = state[b], amount'[b] = amount[b], started'[b] = started[b],
           running'[b] = running[b], reports'[b] = reports[b]
    PROVE  Numbered(b)' /\ WindowOf(b)'
<1>1. Reported(b)' = Reported(b)
    BY DEF Reported
<1>2. Numbered(b)'
    BY <1>1 DEF Numbered, ReportsDiffer, Operations
<1> QED
    BY <1>2 DEF WindowOf, Limit

\* A batch that is numbered has finitely many operations running.
LEMMA RunningIsFinite ==
    ASSUME BatchesInv, NEW b \in Batches
    PROVE  /\ IsFiniteSet(running[b]) /\ Cardinality(running[b]) \in Nat
           /\ started[b] \notin running[b]
           /\ running[b] \subseteq 0 .. started[b] - 1
<1>1. started[b] \in Nat /\ Numbered(b)
    BY DEF BatchesInv, BatchesTypeOK
<1>2. running[b] \in SUBSET (0 .. started[b] - 1)
    BY <1>1 DEF Numbered
<1>3. IsFiniteSet(0 .. started[b] - 1)
    BY <1>1, FS_Interval
<1>4. IsFiniteSet(running[b]) /\ Cardinality(running[b]) \in Nat
    BY <1>2, <1>3, FS_Subset, FS_CardinalityType
<1> QED
    BY <1>1, <1>2, <1>4

\* The operations reported after one more result.
LEMMA OneMoreReport ==
    ASSUME NEW b \in Batches, NEW i \in Nat, NEW ok \in BOOLEAN,
           reports[b] \in Seq(Results), ReportsDiffer(b), i \notin Reported(b),
           reports'[b] = Append(reports[b], [operation |-> i, ok |-> ok])
    PROVE  /\ reports'[b] \in Seq(Results)
           /\ Reported(b)' = Reported(b) \cup {i}
           /\ ReportsDiffer(b)'
<1> DEFINE r == reports[b]
           e == [operation |-> i, ok |-> ok]
           s == reports'[b]
<1>1. e \in Results /\ e.operation = i
    BY DEF Results
<1>2. r \in Seq(Results) /\ s = Append(r, e)
    OBVIOUS
<1> HIDE DEF e, r, s
<1>3. /\ s \in Seq(Results) /\ Len(s) = Len(r) + 1 /\ Len(r) \in Nat
      /\ DOMAIN s = 1 .. Len(r) + 1 /\ DOMAIN r = 1 .. Len(r)
      /\ \A k \in 1 .. Len(r) : s[k] = r[k]
      /\ s[Len(r) + 1] = e
    BY <1>1, <1>2
<1>4. Reported(b) = {r[k].operation : k \in 1 .. Len(r)}
    BY <1>3 DEF Reported, r
<1>5. Reported(b)' = {s[k].operation : k \in 1 .. Len(r) + 1}
    BY <1>3 DEF Reported, s
<1>6. Reported(b)' = Reported(b) \cup {i}
    <2>1. \A k \in 1 .. Len(r) + 1 : k \in 1 .. Len(r) \/ k = Len(r) + 1
        BY <1>3
    <2>2. 1 .. Len(r) \subseteq 1 .. Len(r) + 1 /\ Len(r) + 1 \in 1 .. Len(r) + 1
        BY <1>3
    <2> QED
        BY <2>1, <2>2, <1>1, <1>3, <1>4, <1>5, SMTT(30)
<1>7. ASSUME NEW j \in 1 .. Len(r) + 1, NEW k \in 1 .. Len(r) + 1,
             s[j].operation = s[k].operation
      PROVE  j = k
    <2>1. \A x \in 1 .. Len(r) : r[x].operation # i
        BY <1>4 DEF r
    <2>2. \A x, y \in 1 .. Len(r) : r[x].operation = r[y].operation => x = y
        BY DEF ReportsDiffer, r
    <2>3. CASE j \in 1 .. Len(r) /\ k \in 1 .. Len(r)
        BY <2>2, <2>3, <1>3, <1>7
    <2>4. CASE j \in 1 .. Len(r) /\ k = Len(r) + 1
        BY <2>1, <2>4, <1>1, <1>3, <1>7
    <2>5. CASE j = Len(r) + 1 /\ k \in 1 .. Len(r)
        BY <2>1, <2>5, <1>1, <1>3, <1>7
    <2> QED
        BY <2>3, <2>4, <2>5, <1>3
<1>8. ReportsDiffer(b)'
    BY <1>3, <1>7 DEF ReportsDiffer, s
<1> QED
    BY <1>3, <1>6, <1>8 DEF s

\* An operation that ends is reported, the next one takes its place, and the
\* last one ends the batch.
LEMMA EndKeepsNumbers ==
    ASSUME BatchesInv, NEW b \in Batches, NEW i \in running[b], NEW ok \in BOOLEAN, End(b, i, ok)
    PROVE  /\ state' \in [Batches -> {"Idle", "Running", "Done", "Cancelled"}]
           /\ amount' \in [Batches -> Nat] /\ started' \in [Batches -> Nat]
           /\ running' \in [Batches -> SUBSET Nat] /\ reports' \in [Batches -> Seq(Results)]
           /\ \A x \in Batches : Numbered(x)' /\ WindowOf(x)'
           /\ \A x \in Batches \ {b} : running'[x] = running[x] /\ state'[x] = state[x]
           /\ state[b] = "Running"
           /\ state'[b] = IF running'[b] = {} THEN "Done" ELSE "Running"
           /\ running'[b] = (running[b] \ {i}) \cup
                            (IF started[b] < started'[b] THEN {started[b]} ELSE {})
<1> DEFINE rest == running[b] \ {i}
           next == IF started[b] < amount[b] THEN {started[b]} ELSE {}
<1>1. /\ running' = [running EXCEPT ![b] = rest \cup next]
      /\ started' = [started EXCEPT ![b] = started[b] + Cardinality(next)]
      /\ reports' = [reports EXCEPT ![b] = Append(reports[b], [operation |-> i, ok |-> ok])]
      /\ state' = IF rest \cup next = {} THEN [state EXCEPT ![b] = "Done"] ELSE state
      /\ amount' = amount
    BY DEF End
<1>2. BatchesTypeOK /\ Numbered(b) /\ WindowOf(b)
    BY DEF BatchesInv
<1>3. /\ started[b] \in Nat /\ amount[b] \in Nat /\ i \in Nat /\ running[b] \in SUBSET Nat
      /\ reports[b] \in Seq(Results)
    BY <1>2 DEF BatchesTypeOK
<1>4. /\ IsFiniteSet(running[b]) /\ Cardinality(running[b]) \in Nat
      /\ started[b] \notin running[b] /\ running[b] \subseteq 0 .. started[b] - 1
    BY RunningIsFinite
<1>5. state[b] = "Running"
    BY <1>2 DEF Numbered
<1>6. Cardinality(next) = IF started[b] < amount[b] THEN 1 ELSE 0
    BY FS_EmptySet, FS_Singleton
<1>7. started'[b] = IF started[b] < amount[b] THEN started[b] + 1 ELSE started[b]
    <2> HIDE DEF next
    <2> QED
        BY <1>1, <1>2, <1>3, <1>6 DEF BatchesTypeOK
<1>8. running'[b] = rest \cup next /\ rest \cup next \subseteq Nat
    BY <1>1, <1>2, <1>3 DEF BatchesTypeOK
<1>9. reports'[b] = Append(reports[b], [operation |-> i, ok |-> ok])
    <2> HIDE DEF rest, next
    <2> QED
        BY <1>1, <1>2 DEF BatchesTypeOK
<1>10. i \notin Reported(b)
    BY <1>2 DEF Numbered
<1>11. /\ reports'[b] \in Seq(Results) /\ Reported(b)' = Reported(b) \cup {i}
       /\ ReportsDiffer(b)'
    BY <1>2, <1>3, <1>9, <1>10, OneMoreReport DEF Numbered
<1>12. state'[b] = IF running'[b] = {} THEN "Done" ELSE "Running"
    <2> HIDE DEF rest, next
    <2> QED
        BY <1>1, <1>2, <1>5, <1>8 DEF BatchesTypeOK
<1>13. /\ state' \in [Batches -> {"Idle", "Running", "Done", "Cancelled"}]
       /\ amount' \in [Batches -> Nat] /\ started' \in [Batches -> Nat]
       /\ running' \in [Batches -> SUBSET Nat]
    <2> HIDE DEF rest, next
    <2>1. Cardinality(next) \in Nat
        BY <1>6
    <2> QED
        BY <1>1, <1>2, <1>3, <1>8, <2>1 DEF BatchesTypeOK
<1>14. reports' \in [Batches -> Seq(Results)]
    <2>1. \A x \in Batches : reports'[x] \in Seq(Results)
        BY <1>1, <1>2, <1>11 DEF BatchesTypeOK
    <2> QED
        BY <2>1, <1>1, <1>2 DEF BatchesTypeOK
<1>15. Numbered(b)'
    <2>1. amount'[b] = amount[b] /\ amount[b] > 0 /\ started[b] <= amount[b]
          /\ Reported(b) \cup running[b] = 0 .. started[b] - 1
          /\ Reported(b) \cap running[b] = {}
        BY <1>1, <1>2, <1>5 DEF Numbered
    <2>2. Reported(b)' \cup running'[b] = 0 .. started'[b] - 1
        <3>1. Reported(b)' \cup running'[b] = 0 .. started[b] - 1 \cup next
            BY <2>1, <1>8, <1>11
        <3> QED
            BY <3>1, <1>3, <1>7
    <2>3. Reported(b)' \cap running'[b] = {}
        <3>1. started[b] \notin Reported(b) \cup {i}
            BY <2>1, <1>3
        <3> QED
            BY <3>1, <2>1, <1>8, <1>11
    <2>4. running'[b] = {} => started'[b] = amount[b] /\ Reported(b)' = Operations(b)'
        <3>1. running'[b] = {} => started[b] = amount[b]
            BY <2>1, <1>3, <1>8
        <3>2. Operations(b)' = 0 .. amount[b] - 1
            BY <2>1 DEF Operations
        <3> HIDE DEF rest, next
        <3> QED
            BY <3>1, <3>2, <2>2, <1>3, <1>7
    <2>5. started'[b] <= amount[b]
        BY <2>1, <1>3, <1>7
    <2> HIDE DEF rest, next
    <2> QED
        BY <2>1, <2>2, <2>3, <2>4, <2>5, <1>11, <1>12 DEF Numbered
<1>16. WindowOf(b)'
    <2>1. IsFiniteSet(rest) /\ Cardinality(rest) = Cardinality(running[b]) - 1
        BY <1>4, FS_RemoveElement
    <2>2. CASE started[b] < amount[b]
        <3>1. Cardinality(rest \cup {started[b]}) = Cardinality(running[b])
            <4>1. started[b] \notin rest
                BY <1>4
            <4> HIDE DEF rest
            <4>2. Cardinality(rest \cup {started[b]}) = Cardinality(rest) + 1
                BY <4>1, <2>1, FS_AddElement
            <4> QED
                BY <4>2, <2>1, <1>4
        <3>2. running'[b] = rest \cup {started[b]}
            BY <2>2, <1>8
        <3>3. Cardinality(running[b]) = Limit(b)
            BY <2>2, <1>2, <1>3 DEF WindowOf
        <3> HIDE DEF rest
        <3>4. Limit(b)' = Limit(b) /\ Limit(b) \in Nat
            BY BatchAssumption DEF Limit
        <3> QED
            BY <3>1, <3>2, <3>3, <3>4 DEF WindowOf
    <2>3. CASE ~(started[b] < amount[b])
        <3>1. running'[b] = rest
            BY <2>3, <1>8
        <3>2. started'[b] = amount'[b]
            BY <2>3, <1>1, <1>2, <1>3, <1>7 DEF Numbered
        <3>3. Limit(b)' = Limit(b) /\ Limit(b) \in Nat
            BY BatchAssumption DEF Limit
        <3> HIDE DEF rest
        <3>4. Cardinality(rest) <= Limit(b)
            BY <3>3, <2>1, <1>2, <1>4 DEF WindowOf
        <3> QED
            BY <3>1, <3>2, <3>3, <3>4 DEF WindowOf
    <2> QED
        BY <2>2, <2>3
<1>17. \A x \in Batches \ {b} :
            /\ state'[x] = state[x] /\ amount'[x] = amount[x] /\ started'[x] = started[x]
            /\ running'[x] = running[x] /\ reports'[x] = reports[x]
    <2> HIDE DEF rest, next
    <2> QED
        BY <1>1, <1>2 DEF BatchesTypeOK
<1>18. \A x \in Batches \ {b} : Numbered(x)' /\ WindowOf(x)'
    BY <1>17, OtherBatches DEF BatchesInv
<1>19. running'[b] = rest \cup (IF started[b] < started'[b] THEN {started[b]} ELSE {})
    BY <1>3, <1>7, <1>8
<1> HIDE DEF rest, next
<1> QED
    BY <1>5, <1>12, <1>13, <1>14, <1>15, <1>16, <1>17, <1>18, <1>19 DEF rest

----------------------------------------------------------------------------
\* The pools.

LEMMA TicketsDiffer ==
    \A a, b, i, j : Ticket(a, i) = Ticket(b, j) <=> a = b /\ i = j
<1> SUFFICES ASSUME NEW a, NEW b, NEW i, NEW j
             PROVE  Ticket(a, i) = Ticket(b, j) <=> a = b /\ i = j
    OBVIOUS
<1>1. /\ Ticket(a, i).batch = a /\ Ticket(a, i).operation = i
      /\ Ticket(b, j).batch = b /\ Ticket(b, j).operation = j
    BY DEF Ticket
<1> QED
    BY <1>1

LEMMA WhoWants ==
    /\ \A x, j : Ticket(x, j) \in Wanted("creation") <=> x \in CreateBatches /\ j \in running[x]
    /\ \A t \in Wanted("creation") : \E x \in CreateBatches : \E j \in running[x] : t = Ticket(x, j)
    /\ \A x, j : Ticket(x, j) \in Wanted("cleanup") <=>
                    x \in DropBatches /\ state[x] = "Running" /\ j = 0
    /\ \A t \in Wanted("cleanup") : \E x \in DropBatches : state[x] = "Running" /\ t = Ticket(x, 0)
<1>1. Wanted("creation") = UNION {{Ticket(b, i) : i \in running[b]} : b \in CreateBatches}
    BY DEF Wanted
<1>2. Wanted("cleanup") = {Ticket(b, 0) : b \in {x \in DropBatches : state[x] = "Running"}}
    BY DEF Wanted
<1>3. \A x, j : x \in CreateBatches /\ j \in running[x] => Ticket(x, j) \in Wanted("creation")
    BY <1>1
<1>4. \A t \in Wanted("creation") : \E x \in CreateBatches : \E j \in running[x] : t = Ticket(x, j)
    BY <1>1
<1>5. \A t \in Wanted("cleanup") : \E x \in DropBatches : state[x] = "Running" /\ t = Ticket(x, 0)
    BY <1>2
<1>6. \A x : x \in DropBatches /\ state[x] = "Running" => Ticket(x, 0) \in Wanted("cleanup")
    BY <1>2
<1> QED
    BY <1>3, <1>4, <1>5, <1>6, TicketsDiffer

LEMMA WhoWantsNext ==
    /\ \A x, j : Ticket(x, j) \in Wanted("creation")' <=> x \in CreateBatches /\ j \in running'[x]
    /\ \A t \in Wanted("creation")' : \E x \in CreateBatches : \E j \in running'[x] : t = Ticket(x, j)
    /\ \A x, j : Ticket(x, j) \in Wanted("cleanup")' <=>
                    x \in DropBatches /\ state'[x] = "Running" /\ j = 0
    /\ \A t \in Wanted("cleanup")' : \E x \in DropBatches : state'[x] = "Running" /\ t = Ticket(x, 0)
<1>1. Wanted("creation")' = UNION {{Ticket(b, i) : i \in running'[b]} : b \in CreateBatches}
    BY DEF Wanted
<1>2. Wanted("cleanup")' = {Ticket(b, 0) : b \in {x \in DropBatches : state'[x] = "Running"}}
    BY DEF Wanted
<1>3. \A x, j : x \in CreateBatches /\ j \in running'[x] => Ticket(x, j) \in Wanted("creation")'
    BY <1>1
<1>4. \A t \in Wanted("creation")' : \E x \in CreateBatches : \E j \in running'[x] : t = Ticket(x, j)
    BY <1>1
<1>5. \A t \in Wanted("cleanup")' : \E x \in DropBatches : state'[x] = "Running" /\ t = Ticket(x, 0)
    BY <1>2
<1>6. \A x : x \in DropBatches /\ state'[x] = "Running" => Ticket(x, 0) \in Wanted("cleanup")'
    BY <1>2
<1> QED
    BY <1>3, <1>4, <1>5, <1>6, TicketsDiffer

\* A pool whose batches go on as before is accounted for as before.
LEMMA OtherPool ==
    ASSUME NEW p \in Pools, PoolAccounted(p),
           queue'[p] = queue[p], held'[p] = held[p], Wanted(p)' = Wanted(p)
    PROVE  PoolAccounted(p)'
BY DEF PoolAccounted, NoRepeats, ToSet, Size

\* An operation of a create batch ends and its place in the pool, in the queue
\* or among the holders, is given up; the next operation of the batch queues.
LEMMA CreatePlaceGivenUp ==
    ASSUME BatchesInv, NEW b \in CreateBatches, NEW i \in running[b], NEW ok \in BOOLEAN,
           End(b, i, ok),
           NEW STATE q, NEW STATE h,
           q \in Seq(Tickets), NoRepeats(q), h \subseteq held["creation"],
           ToSet(q) \subseteq ToSet(queue["creation"]),
           ToSet(q) \cup h = Wanted("creation") \ {Ticket(b, i)},
           queue' = [queue EXCEPT !["creation"] = q \o NextTicket(b)],
           held' = [held EXCEPT !["creation"] = h]
    PROVE  BatchesInv'
<1> DEFINE n == NextTicket(b)
<1>1. b \in Batches /\ b \notin DropBatches
    BY BatchAssumption DEF Batches
<1>2. /\ BatchesTypeOK /\ PoolAccounted("creation") /\ PoolAccounted("cleanup") /\ DropsWaitOrWork
      /\ "creation" \in Pools /\ "cleanup" \in Pools
    BY DEF BatchesInv, Pools
<1>3. /\ state' \in [Batches -> {"Idle", "Running", "Done", "Cancelled"}]
      /\ amount' \in [Batches -> Nat] /\ started' \in [Batches -> Nat]
      /\ running' \in [Batches -> SUBSET Nat] /\ reports' \in [Batches -> Seq(Results)]
      /\ \A x \in Batches : Numbered(x)' /\ WindowOf(x)'
      /\ \A x \in Batches \ {b} : running'[x] = running[x] /\ state'[x] = state[x]
      /\ running'[b] = (running[b] \ {i}) \cup
                       (IF started[b] < started'[b] THEN {started[b]} ELSE {})
    BY <1>1, EndKeepsNumbers
<1>4. started[b] \in Nat /\ started[b] \notin running[b]
    BY <1>1, <1>2, RunningIsFinite DEF BatchesTypeOK
<1>5. /\ n \in Seq(Tickets) /\ NoRepeats(n)
      /\ ToSet(n) = IF started[b] < started'[b] THEN {Ticket(b, started[b])} ELSE {}
    <2>1. CASE started[b] < started'[b]
        <3>1. n = <<Ticket(b, started[b])>>
            BY <2>1 DEF NextTicket
        <3>2. Ticket(b, started[b]) \in Tickets
            BY <1>1, <1>4 DEF Ticket, Tickets
        <3> QED
            BY <2>1, <3>1, <3>2 DEF NoRepeats, ToSet
    <2>2. CASE ~(started[b] < started'[b])
        <3>1. n = <<>>
            BY <2>2 DEF NextTicket
        <3> QED
            BY <2>2, <3>1 DEF NoRepeats, ToSet
    <2> QED
        BY <2>1, <2>2
<1> HIDE DEF n
<1>6. /\ queue'["creation"] = q \o n /\ queue'["cleanup"] = queue["cleanup"]
      /\ held'["creation"] = h /\ held'["cleanup"] = held["cleanup"]
    BY <1>2 DEF BatchesTypeOK, Pools, n
<1>7. Wanted("creation")' = (Wanted("creation") \ {Ticket(b, i)}) \cup ToSet(n)
    <2>1. ASSUME NEW t \in Wanted("creation")'
          PROVE  t \in (Wanted("creation") \ {Ticket(b, i)}) \cup ToSet(n)
        <3>0. PICK x \in CreateBatches : \E j \in running'[x] : t = Ticket(x, j)
            BY WhoWantsNext
        <3>1. PICK j \in running'[x] : t = Ticket(x, j)
            BY <3>0
        <3>2. CASE x = b
            BY <3>1, <3>2, <1>3, <1>5, WhoWants, TicketsDiffer
        <3>3. CASE x # b
            <4>1. j \in running[x]
                BY <3>1, <3>3, <1>3 DEF Batches
            <4> QED
                BY <4>1, <3>1, <3>3, WhoWants, TicketsDiffer
        <3> QED
            BY <3>2, <3>3
    <2>2. ASSUME NEW t \in Wanted("creation"), t # Ticket(b, i)
          PROVE  t \in Wanted("creation")'
        <3>0. PICK x \in CreateBatches : \E j \in running[x] : t = Ticket(x, j)
            BY WhoWants
        <3>1. PICK j \in running[x] : t = Ticket(x, j)
            BY <3>0
        <3>2. j \in running'[x]
            BY <3>1, <2>2, <1>3, TicketsDiffer DEF Batches
        <3> QED
            BY <3>1, <3>2, WhoWantsNext
    <2>3. ToSet(n) \subseteq Wanted("creation")'
        BY <1>3, <1>5, WhoWantsNext
    <2> QED
        BY <2>1, <2>2, <2>3
<1>8. ToSet(n) \cap Wanted("creation") = {}
    BY <1>4, <1>5, WhoWants
<1>9. PoolAccounted("creation")'
    <2>1. ToSet(q \o n) = ToSet(q) \cup ToSet(n)
        BY <1>5, ConcatSet
    <2>2. NoRepeats(q \o n)
        BY <1>5, <1>8, ConcatSet
    <2>3. h \in SUBSET held["creation"] /\ IsFiniteSet(held["creation"])
          /\ Cardinality(held["creation"]) <= Size("creation")
          /\ ToSet(queue["creation"]) \cap held["creation"] = {}
        BY <1>2 DEF PoolAccounted
    <2>4. IsFiniteSet(h) /\ Cardinality(h) <= Cardinality(held["creation"])
          /\ Cardinality(h) \in Nat /\ Cardinality(held["creation"]) \in Nat
        BY <2>3, FS_Subset, FS_CardinalityType
    <2>5. Cardinality(h) <= Size("creation") /\ Size("creation")' = Size("creation")
        BY <2>3, <2>4, BatchAssumption DEF Size
    <2>6. ToSet(q \o n) \cap h = {}
        BY <2>1, <2>3, <1>8
    <2>7. ToSet(q \o n) \cup h = Wanted("creation")'
        BY <2>1, <1>7
    <2>8. ToSet(queue["creation"])' = ToSet(q \o n) /\ NoRepeats(queue["creation"])'
        <3> DEFINE c == q \o n
        <3>1. queue'["creation"] = c /\ NoRepeats(c)
            BY <1>6, <2>2
        <3> HIDE DEF c
        <3>2. ToSet(queue["creation"])' = ToSet(c)
            BY <3>1 DEF ToSet
        <3>3. NoRepeats(queue["creation"])'
            <4>1. \A j, k \in 1 .. Len(c) : c[j] = c[k] => j = k
                BY <3>1 DEF NoRepeats
            <4>2. \A j, k \in 1 .. Len(queue'["creation"]) :
                        queue'["creation"][j] = queue'["creation"][k] => j = k
                BY <3>1, <4>1
            <4> QED
                BY <4>2 DEF NoRepeats
        <3> QED
            BY <3>2, <3>3 DEF c
    <2> QED
        BY <1>6, <2>4, <2>5, <2>6, <2>7, <2>8 DEF PoolAccounted
<1>10. Wanted("cleanup")' = Wanted("cleanup")
    <2>1. \A x \in DropBatches : state'[x] = state[x]
        BY <1>1, <1>3 DEF Batches
    <2> QED
        BY <2>1 DEF Wanted
<1>11. PoolAccounted("cleanup")'
    BY <1>2, <1>6, <1>10, OtherPool
<1>12. DropsWaitOrWork'
    <2>1. \A x \in DropBatches : running'[x] = running[x]
        BY <1>1, <1>3 DEF Batches
    <2> QED
        BY <2>1, <1>2, <1>6 DEF DropsWaitOrWork, ToSet
<1>13. BatchesTypeOK'
    <2>1. q \o n \in Seq(Tickets)
        BY <1>5
    <2>2. h \subseteq Tickets
        BY <1>2 DEF BatchesTypeOK
    <2> QED
        BY <1>2, <1>3, <1>6, <2>1, <2>2 DEF BatchesTypeOK, n
<1> QED
    BY <1>3, <1>9, <1>11, <1>12, <1>13 DEF BatchesInv, Pools

LEMMA CreateHolderEnds ==
    ASSUME BatchesInv, NEW b \in CreateBatches, NEW i \in running[b], NEW ok \in BOOLEAN,
           Ticket(b, i) \in held["creation"], CreateEnds(b, i, ok)
    PROVE  BatchesInv'
<1> DEFINE q == queue["creation"]
           h == held["creation"] \ {Ticket(b, i)}
<1>1. BatchesTypeOK /\ PoolAccounted("creation") /\ "creation" \in Pools
    BY DEF BatchesInv, Pools
<1>2. /\ End(b, i, ok)
      /\ queue' = [queue EXCEPT !["creation"] = q \o NextTicket(b)]
      /\ held' = [held EXCEPT !["creation"] = h]
    BY DEF CreateEnds
<1>3. q \in Seq(Tickets) /\ NoRepeats(q)
    BY <1>1 DEF BatchesTypeOK, PoolAccounted
<1>4. ToSet(q) \cup h = Wanted("creation") \ {Ticket(b, i)}
    BY <1>1 DEF PoolAccounted
<1>5. h \subseteq held["creation"] /\ ToSet(q) \subseteq ToSet(queue["creation"])
    OBVIOUS
<1> HIDE DEF q, h
<1> QED
    BY <1>2, <1>3, <1>4, <1>5, CreatePlaceGivenUp

LEMMA CreateWaiterEnds ==
    ASSUME BatchesInv, NEW b \in CreateBatches, NEW i \in running[b], CreateUnconnected(b, i)
    PROVE  BatchesInv'
<1> DEFINE q == Without(queue["creation"], {Ticket(b, i)})
           h == held["creation"]
<1>1. BatchesTypeOK /\ PoolAccounted("creation") /\ "creation" \in Pools
    BY DEF BatchesInv, Pools
<1>2. /\ End(b, i, FALSE)
      /\ queue' = [queue EXCEPT !["creation"] = q \o NextTicket(b)]
      /\ held' = held
      /\ \E k \in 1 .. Len(queue["creation"]) : queue["creation"][k] = Ticket(b, i)
    BY DEF CreateUnconnected, Contains
<1>3. held' = [held EXCEPT !["creation"] = h]
    BY <1>1, <1>2 DEF BatchesTypeOK
<1>4. queue["creation"] \in Seq(Tickets) /\ NoRepeats(queue["creation"])
    BY <1>1 DEF BatchesTypeOK, PoolAccounted
<1>5. q \in Seq(Tickets) /\ NoRepeats(q) /\ ToSet(q) = ToSet(queue["creation"]) \ {Ticket(b, i)}
    BY <1>4, WithoutRemoves
<1>6. Ticket(b, i) \in ToSet(queue["creation"])
    BY <1>2, <1>4 DEF ToSet
<1> HIDE DEF q
<1>7. ToSet(q) \cup h = Wanted("creation") \ {Ticket(b, i)}
    BY <1>1, <1>5, <1>6 DEF PoolAccounted
<1>8. h \subseteq held["creation"] /\ ToSet(q) \subseteq ToSet(queue["creation"])
    BY <1>5
<1>9. FALSE \in BOOLEAN
    OBVIOUS
<1> HIDE DEF h
<1> QED
    BY <1>2, <1>3, <1>5, <1>7, <1>8, <1>9, CreatePlaceGivenUp

\* What makes a pool accounted for after a step.
LEMMA PoolNext ==
    ASSUME NEW p \in Pools, NEW q, NEW h, queue'[p] = q, held'[p] = h,
           IsFiniteSet(h), Cardinality(h) <= Size(p), NoRepeats(q),
           ToSet(q) \cap h = {}, ToSet(q) \cup h = Wanted(p)'
    PROVE  PoolAccounted(p)'
<1>1. ToSet(queue[p])' = ToSet(q)
    BY DEF ToSet
<1>2. NoRepeats(queue[p])'
    BY DEF NoRepeats
<1>3. Size(p)' = Size(p)
    BY DEF Size
<1> QED
    BY <1>1, <1>2, <1>3 DEF PoolAccounted

LEMMA DropPlaceHeld ==
    ASSUME BatchesInv, NEW b \in DropBatches, NEW i \in running[b], NEW ok \in BOOLEAN,
           DropEnds(b, i, ok)
    PROVE  BatchesInv'
<1>1. b \in Batches /\ b \notin CreateBatches
    BY BatchAssumption DEF Batches
<1>2. /\ BatchesTypeOK /\ PoolAccounted("creation") /\ PoolAccounted("cleanup") /\ DropsWaitOrWork
      /\ "creation" \in Pools /\ "cleanup" \in Pools
    BY DEF BatchesInv, Pools
<1>3. /\ End(b, i, ok) /\ Ticket(b, 0) \in held["cleanup"]
      /\ held' = IF state'[b] = "Done"
                 THEN [held EXCEPT !["cleanup"] = held["cleanup"] \ {Ticket(b, 0)}] ELSE held
      /\ queue' = queue
    BY DEF DropEnds
<1>4. /\ state' \in [Batches -> {"Idle", "Running", "Done", "Cancelled"}]
      /\ amount' \in [Batches -> Nat] /\ started' \in [Batches -> Nat]
      /\ running' \in [Batches -> SUBSET Nat] /\ reports' \in [Batches -> Seq(Results)]
      /\ \A x \in Batches : Numbered(x)' /\ WindowOf(x)'
      /\ \A x \in Batches \ {b} : running'[x] = running[x] /\ state'[x] = state[x]
      /\ state[b] = "Running" /\ state'[b] = IF running'[b] = {} THEN "Done" ELSE "Running"
    BY <1>1, <1>3, EndKeepsNumbers
<1>5. held'["creation"] = held["creation"]
      /\ held'["cleanup"] = IF state'[b] = "Done" THEN held["cleanup"] \ {Ticket(b, 0)} ELSE held["cleanup"]
    BY <1>2, <1>3 DEF BatchesTypeOK, Pools
<1>6. BatchesTypeOK'
    <2>1. CASE state'[b] = "Done"
        BY <2>1, <1>2, <1>3, <1>4 DEF BatchesTypeOK, Pools
    <2>2. CASE state'[b] # "Done"
        BY <2>2, <1>2, <1>3, <1>4 DEF BatchesTypeOK
    <2> QED
        BY <2>1, <2>2
<1>7. PoolAccounted("creation")'
    <2>1. \A x \in CreateBatches : running'[x] = running[x]
        BY <1>1, <1>4 DEF Batches
    <2>2. Wanted("creation")' = Wanted("creation")
        BY <2>1 DEF Wanted
    <2> QED
        BY <2>2, <1>2, <1>3, <1>5, OtherPool
<1>8. Wanted("cleanup")' = IF state'[b] = "Done" THEN Wanted("cleanup") \ {Ticket(b, 0)}
                           ELSE Wanted("cleanup")
    <2>1. \A x \in DropBatches \ {b} : state'[x] = state[x]
        BY <1>4 DEF Batches
    <2>2. \A x \in DropBatches : state'[x] = "Running" <=>
                state[x] = "Running" /\ ~(x = b /\ state'[b] = "Done")
        BY <2>1, <1>4
    <2>3. Wanted("cleanup") = {Ticket(x, 0) : x \in {y \in DropBatches : state[y] = "Running"}}
          /\ Wanted("cleanup")' = {Ticket(x, 0) : x \in {y \in DropBatches : state'[y] = "Running"}}
        BY DEF Wanted
    <2>4. \A x, y : Ticket(x, 0) = Ticket(y, 0) <=> x = y
        BY TicketsDiffer
    <2> QED
        BY <2>2, <2>3, <2>4
<1>9. PoolAccounted("cleanup")'
    <2> DEFINE h == held'["cleanup"]
    <2>1. /\ IsFiniteSet(held["cleanup"]) /\ Cardinality(held["cleanup"]) <= Size("cleanup")
          /\ NoRepeats(queue["cleanup"]) /\ ToSet(queue["cleanup"]) \cap held["cleanup"] = {}
          /\ ToSet(queue["cleanup"]) \cup held["cleanup"] = Wanted("cleanup")
        BY <1>2 DEF PoolAccounted
    <2>2. h \in SUBSET held["cleanup"]
        BY <1>5
    <2>3. IsFiniteSet(h) /\ Cardinality(h) <= Cardinality(held["cleanup"])
          /\ Cardinality(h) \in Nat /\ Cardinality(held["cleanup"]) \in Nat
        BY <2>1, <2>2, FS_Subset, FS_CardinalityType
    <2>4. Cardinality(h) <= Size("cleanup")
        <3> HIDE DEF h
        <3> QED
            BY <2>1, <2>3, BatchAssumption DEF Size
    <2>5. ToSet(queue["cleanup"]) \cup h = Wanted("cleanup")'
        BY <2>1, <1>3, <1>5, <1>8
    <2>6. ToSet(queue["cleanup"]) \cap h = {}
        BY <2>1, <2>2
    <2>7. queue'["cleanup"] = queue["cleanup"] /\ held'["cleanup"] = h
        BY <1>3
    <2> HIDE DEF h
    <2> QED
        BY <2>1, <2>3, <2>4, <2>5, <2>6, <2>7, <1>2, PoolNext
<1>10. DropsWaitOrWork'
    <2> SUFFICES ASSUME NEW x \in DropBatches
                 PROVE  /\ Ticket(x, 0) \in ToSet(queue["cleanup"])' => running'[x] = {}
                        /\ Ticket(x, 0) \in held'["cleanup"] => running'[x] # {}
        BY DEF DropsWaitOrWork
    <2>1. ToSet(queue["cleanup"])' = ToSet(queue["cleanup"])
        BY <1>3
    <2>2. CASE x = b
        <3>1. Ticket(b, 0) \notin ToSet(queue["cleanup"])
            BY <1>2, <1>3 DEF PoolAccounted
        <3> QED
            BY <3>1, <2>1, <2>2, <1>4, <1>5
    <2>3. CASE x # b
        BY <2>1, <2>3, <1>2, <1>4, <1>5 DEF DropsWaitOrWork, Batches
    <2> QED
        BY <2>2, <2>3
<1> QED
    BY <1>4, <1>6, <1>7, <1>9, <1>10 DEF BatchesInv, Pools

\* A batch that fills its window for the first time.
LEMMA WindowFills ==
    ASSUME NEW b \in Batches, NEW n \in Nat \ {0},
           reports[b] = <<>>, state'[b] = "Running", amount'[b] = n,
           started'[b] = Window(b, n), running'[b] = 0 .. Window(b, n) - 1, reports'[b] = reports[b]
    PROVE  /\ Window(b, n) \in 1 .. n /\ running'[b] # {}
           /\ Numbered(b)' /\ WindowOf(b)'
<1>1. Limit(b) \in Nat \ {0} /\ Window(b, n) = Smaller(n, Limit(b))
    BY BatchAssumption DEF Limit, Window
<1> DEFINE w == Window(b, n)
<1>2. w \in 1 .. n /\ w <= Limit(b) /\ (w = Limit(b) \/ w = n)
    BY <1>1 DEF Smaller
<1> HIDE DEF w
<1>3. started'[b] = w /\ running'[b] = 0 .. w - 1
    BY DEF w
<1>4. Cardinality(running'[b]) = w /\ running'[b] # {}
    <2>1. Cardinality(0 .. w - 1) = IF 0 > w - 1 THEN 0 ELSE w - 1 - 0 + 1
        <3>1. 0 \in Int /\ w - 1 \in Int
            BY <1>2
        <3> QED
            BY <3>1, FS_Interval
    <2>2. Cardinality(0 .. w - 1) = w
        BY <2>1, <1>2
    <2>3. 0 \in 0 .. w - 1
        BY <1>2
    <2> QED
        BY <2>2, <2>3, <1>3
<1>5. Reported(b)' = {} /\ ReportsDiffer(b)'
    BY DEF Reported, ReportsDiffer
<1>6. Numbered(b)'
    BY <1>2, <1>3, <1>4, <1>5 DEF Numbered
<1>7. Limit(b)' = Limit(b)
    BY DEF Limit
<1>8. WindowOf(b)'
    BY <1>1, <1>2, <1>3, <1>4, <1>7 DEF WindowOf
<1> QED
    BY <1>2, <1>4, <1>6, <1>8 DEF w

LEMMA FirstTicketsSet ==
    ASSUME NEW b \in Batches, NEW n \in Nat
    PROVE  /\ FirstTickets(b, n) \in Seq(Tickets) /\ NoRepeats(FirstTickets(b, n))
           /\ ToSet(FirstTickets(b, n)) = {Ticket(b, i) : i \in 0 .. n - 1}
<1>1. \A k \in 1 .. n : Ticket(b, k - 1) \in Tickets
    BY DEF Ticket, Tickets
<1> DEFINE f == FirstTickets(b, n)
<1>2. f \in Seq(Tickets) /\ Len(f) = n /\ DOMAIN f = 1 .. n /\ \A k \in 1 .. n : f[k] = Ticket(b, k - 1)
    BY <1>1 DEF FirstTickets
<1> HIDE DEF f
<1>3. NoRepeats(f)
    <2> SUFFICES ASSUME NEW j \in 1 .. n, NEW k \in 1 .. n, f[j] = f[k] PROVE j = k
        BY <1>2 DEF NoRepeats
    <2>1. j - 1 = k - 1
        BY <1>2, TicketsDiffer
    <2> QED
        BY <2>1
<1>4. ToSet(f) = {Ticket(b, k - 1) : k \in 1 .. n}
    BY <1>2 DEF ToSet
<1>5. {Ticket(b, k - 1) : k \in 1 .. n} = {Ticket(b, i) : i \in 0 .. n - 1}
    <2>1. ASSUME NEW i \in 0 .. n - 1
          PROVE  \E k \in 1 .. n : Ticket(b, i) = Ticket(b, k - 1)
        <3>1. i + 1 \in 1 .. n /\ i = (i + 1) - 1
            OBVIOUS
        <3> QED
            BY <3>1
    <2>2. ASSUME NEW k \in 1 .. n
          PROVE  \E i \in 0 .. n - 1 : Ticket(b, k - 1) = Ticket(b, i)
        <3>1. k - 1 \in 0 .. n - 1
            OBVIOUS
        <3> QED
            BY <3>1
    <2> QED
        BY <2>1, <2>2
<1> QED
    BY <1>2, <1>3, <1>4, <1>5 DEF f

LEMMA SubmitEmptyKeeps ==
    ASSUME BatchesInv, NEW b \in Batches, SubmitEmpty(b)
    PROVE  BatchesInv'
<1>1. /\ BatchesTypeOK /\ DropsWaitOrWork /\ Numbered(b) /\ WindowOf(b)
      /\ \A p \in Pools : PoolAccounted(p)
    BY DEF BatchesInv
<1>2. /\ state[b] = "Idle" /\ state' = [state EXCEPT ![b] = "Done"]
      /\ UNCHANGED <<amount, started, running, queue, held, reports, failures>>
    BY DEF SubmitEmpty
<1>3. state'[b] = "Done" /\ \A x \in Batches \ {b} : state'[x] = state[x]
    BY <1>1, <1>2 DEF BatchesTypeOK
<1>4. Numbered(b)' /\ WindowOf(b)'
    <2>1. amount[b] = 0 /\ reports[b] = <<>> /\ running[b] = {} /\ started[b] = 0
        BY <1>1, <1>2 DEF Numbered
    <2>2. Reported(b)' = {} /\ ReportsDiffer(b)' /\ Operations(b)' = {}
        BY <2>1, <1>2 DEF Reported, ReportsDiffer, Operations
    <2> QED
        BY <2>1, <2>2, <1>1, <1>2, <1>3 DEF Numbered, WindowOf, Limit
<1>5. \A x \in Batches \ {b} : Numbered(x)' /\ WindowOf(x)'
    BY <1>2, <1>3, OtherBatches DEF BatchesInv
<1>6. BatchesTypeOK'
    BY <1>1, <1>2 DEF BatchesTypeOK
<1>7. Wanted("creation")' = Wanted("creation")
    BY <1>2 DEF Wanted
<1>8. Wanted("cleanup")' = Wanted("cleanup")
    <2>1. \A x \in DropBatches : state'[x] = "Running" <=> state[x] = "Running"
        BY <1>2, <1>3 DEF Batches
    <2> QED
        BY <2>1 DEF Wanted
<1>9. \A p \in Pools : PoolAccounted(p)'
    BY <1>1, <1>2, <1>7, <1>8, OtherPool DEF Pools
<1>10. DropsWaitOrWork'
    BY <1>1, <1>2 DEF DropsWaitOrWork
<1> QED
    BY <1>4, <1>5, <1>6, <1>9, <1>10 DEF BatchesInv

LEMMA SubmitCreatesKeeps ==
    ASSUME BatchesInv, NEW b \in CreateBatches, NEW n \in 1 .. MaxAmount, SubmitCreates(b, n)
    PROVE  BatchesInv'
<1> DEFINE w == Window(b, n)
           f == FirstTickets(b, w)
<1>1. /\ BatchesTypeOK /\ DropsWaitOrWork /\ Numbered(b)
      /\ PoolAccounted("creation") /\ PoolAccounted("cleanup")
      /\ "creation" \in Pools /\ "cleanup" \in Pools
      /\ b \in Batches /\ b \notin DropBatches /\ n \in Nat \ {0}
    BY BatchAssumption DEF BatchesInv, Pools, Batches
<1>2. /\ state[b] = "Idle" /\ state' = [state EXCEPT ![b] = "Running"]
      /\ amount' = [amount EXCEPT ![b] = n] /\ started' = [started EXCEPT ![b] = w]
      /\ running' = [running EXCEPT ![b] = 0 .. w - 1]
      /\ queue' = [queue EXCEPT !["creation"] = queue["creation"] \o f]
      /\ held' = held /\ reports' = reports
    BY DEF SubmitCreates
<1> HIDE DEF w, f
<1>3. /\ state'[b] = "Running" /\ amount'[b] = n /\ started'[b] = w /\ running'[b] = 0 .. w - 1
      /\ \A x \in Batches \ {b} : /\ state'[x] = state[x] /\ amount'[x] = amount[x]
                                  /\ started'[x] = started[x] /\ running'[x] = running[x]
      /\ queue'["creation"] = queue["creation"] \o f /\ queue'["cleanup"] = queue["cleanup"]
    BY <1>1, <1>2 DEF BatchesTypeOK
<1>4. reports[b] = <<>> /\ running[b] = {}
    BY <1>1, <1>2 DEF Numbered
<1>5. w \in 1 .. n /\ Numbered(b)' /\ WindowOf(b)'
    <2>1. w = Window(b, n) /\ reports'[b] = reports[b]
        BY <1>2 DEF w
    <2> QED
        BY <2>1, <1>1, <1>3, <1>4, WindowFills
<1>6. \A x \in Batches \ {b} : Numbered(x)' /\ WindowOf(x)'
    BY <1>2, <1>3, OtherBatches DEF BatchesInv
<1>7. f \in Seq(Tickets) /\ NoRepeats(f) /\ ToSet(f) = {Ticket(b, i) : i \in 0 .. w - 1}
    BY <1>1, <1>5, FirstTicketsSet DEF f
<1>8. Wanted("creation")' = Wanted("creation") \cup ToSet(f)
    <2>1. \A x \in CreateBatches \ {b} : running'[x] = running[x]
        BY <1>3 DEF Batches
    <2>2. ASSUME NEW t \in Wanted("creation")' PROVE t \in Wanted("creation") \cup ToSet(f)
        <3>1. PICK x \in CreateBatches : \E j \in running'[x] : t = Ticket(x, j)
            BY WhoWantsNext
        <3>2. PICK j \in running'[x] : t = Ticket(x, j)
            BY <3>1
        <3>3. CASE x = b
            <4>1. j \in 0 .. w - 1
                BY <3>2, <3>3, <1>3
            <4> QED
                BY <4>1, <3>2, <3>3, <1>7
        <3>4. CASE x # b
            BY <3>2, <3>4, <2>1, WhoWants
        <3> QED
            BY <3>3, <3>4
    <2>3. ASSUME NEW t \in Wanted("creation") PROVE t \in Wanted("creation")'
        <3>1. PICK x \in CreateBatches : \E j \in running[x] : t = Ticket(x, j)
            BY WhoWants
        <3> QED
            BY <3>1, <2>1, <1>4, WhoWantsNext
    <2>4. ASSUME NEW t \in ToSet(f) PROVE t \in Wanted("creation")'
        <3>1. PICK i \in 0 .. w - 1 : t = Ticket(b, i)
            BY <1>7
        <3>2. i \in running'[b]
            BY <1>3
        <3> QED
            BY <3>1, <3>2, WhoWantsNext
    <2> QED
        BY <2>2, <2>3, <2>4
<1>9. ToSet(f) \cap Wanted("creation") = {}
    BY <1>4, <1>7, WhoWants
<1>10. PoolAccounted("creation")'
    <2> DEFINE c == queue["creation"] \o f
               h == held["creation"]
    <2>1. /\ IsFiniteSet(h) /\ Cardinality(h) <= Size("creation")
          /\ NoRepeats(queue["creation"]) /\ ToSet(queue["creation"]) \cap h = {}
          /\ ToSet(queue["creation"]) \cup h = Wanted("creation")
          /\ queue["creation"] \in Seq(Tickets)
        BY <1>1 DEF PoolAccounted, BatchesTypeOK
    <2>2. ToSet(queue["creation"]) \cap ToSet(f) = {}
        BY <2>1, <1>9
    <2>3. ToSet(c) = ToSet(queue["creation"]) \cup ToSet(f) /\ NoRepeats(c)
        BY <2>1, <2>2, <1>7, ConcatSet
    <2>4. queue'["creation"] = c /\ held'["creation"] = h
        BY <1>2, <1>3
    <2> HIDE DEF c, h
    <2>5. ToSet(c) \cap h = {} /\ ToSet(c) \cup h = Wanted("creation")'
        BY <2>1, <2>3, <1>8, <1>9
    <2> QED
        BY <2>1, <2>3, <2>4, <2>5, <1>1, PoolNext
<1>11. PoolAccounted("cleanup")'
    <2>1. \A x \in DropBatches : state'[x] = state[x]
        BY <1>1, <1>3 DEF Batches
    <2>2. Wanted("cleanup")' = Wanted("cleanup")
        BY <2>1 DEF Wanted
    <2> QED
        BY <2>2, <1>1, <1>2, <1>3, OtherPool
<1>12. DropsWaitOrWork'
    <2>1. \A x \in DropBatches : running'[x] = running[x]
        BY <1>1, <1>3 DEF Batches
    <2> QED
        BY <2>1, <1>1, <1>2, <1>3 DEF DropsWaitOrWork, ToSet
<1>13. BatchesTypeOK'
    <2>1. queue["creation"] \o f \in Seq(Tickets)
        BY <1>1, <1>7 DEF BatchesTypeOK
    <2>2. 0 .. w - 1 \subseteq Nat /\ w \in Nat /\ n \in Nat
        BY <1>1, <1>5
    <2> QED
        BY <2>1, <2>2, <1>1, <1>2 DEF BatchesTypeOK
<1> QED
    BY <1>5, <1>6, <1>10, <1>11, <1>12, <1>13 DEF BatchesInv, Pools

LEMMA SubmitDropsKeeps ==
    ASSUME BatchesInv, NEW b \in DropBatches, NEW n \in 1 .. MaxAmount, SubmitDrops(b, n)
    PROVE  BatchesInv'
<1> DEFINE t == Ticket(b, 0)
<1>1. /\ BatchesTypeOK /\ DropsWaitOrWork /\ Numbered(b) /\ WindowOf(b)
      /\ PoolAccounted("creation") /\ PoolAccounted("cleanup")
      /\ "creation" \in Pools /\ "cleanup" \in Pools
      /\ b \in Batches /\ b \notin CreateBatches /\ n \in Nat \ {0}
    BY BatchAssumption DEF BatchesInv, Pools, Batches
<1>2. /\ state[b] = "Idle" /\ state' = [state EXCEPT ![b] = "Running"]
      /\ amount' = [amount EXCEPT ![b] = n]
      /\ queue' = [queue EXCEPT !["cleanup"] = Append(queue["cleanup"], t)]
      /\ started' = started /\ running' = running /\ held' = held /\ reports' = reports
    BY DEF SubmitDrops
<1>3. /\ state'[b] = "Running" /\ amount'[b] = n
      /\ \A x \in Batches \ {b} : state'[x] = state[x] /\ amount'[x] = amount[x]
      /\ queue'["cleanup"] = Append(queue["cleanup"], t) /\ queue'["creation"] = queue["creation"]
    BY <1>1, <1>2 DEF BatchesTypeOK
<1>4. reports[b] = <<>> /\ running[b] = {} /\ started[b] = 0
    BY <1>1, <1>2 DEF Numbered
<1>5. Numbered(b)'
    <2>1. Reported(b)' = {} /\ ReportsDiffer(b)'
        BY <1>2, <1>4 DEF Reported, ReportsDiffer
    <2>2. 0 .. started'[b] - 1 = {}
        BY <1>2, <1>4
    <2> QED
        BY <2>1, <2>2, <1>1, <1>2, <1>3, <1>4 DEF Numbered
<1>6. WindowOf(b)'
    BY <1>1, <1>2, <1>4 DEF WindowOf, Limit
<1>7. \A x \in Batches \ {b} : Numbered(x)' /\ WindowOf(x)'
    BY <1>2, <1>3, OtherBatches DEF BatchesInv
<1>8. t \in Tickets
    BY <1>1 DEF Ticket, Tickets
<1>9. Wanted("cleanup")' = Wanted("cleanup") \cup {t}
    <2>1. \A x \in DropBatches : state'[x] = "Running" <=> state[x] = "Running" \/ x = b
        BY <1>3 DEF Batches
    <2> QED
        BY <2>1 DEF Wanted
<1>10. t \notin Wanted("cleanup")
    BY <1>2, WhoWants
<1> HIDE DEF t
<1>11. PoolAccounted("cleanup")'
    <2> DEFINE q == queue["cleanup"]
               c == q \o <<t>>
               h == held["cleanup"]
    <2>1. /\ IsFiniteSet(h) /\ Cardinality(h) <= Size("cleanup")
          /\ NoRepeats(q) /\ ToSet(q) \cap h = {} /\ ToSet(q) \cup h = Wanted("cleanup")
          /\ q \in Seq(Tickets)
        BY <1>1 DEF PoolAccounted, BatchesTypeOK
    <2>2. <<t>> \in Seq(Tickets) /\ ToSet(<<t>>) = {t} /\ NoRepeats(<<t>>)
        BY <1>8 DEF ToSet, NoRepeats
    <2>3. Append(q, t) = c
        BY <2>1, <1>8
    <2> HIDE DEF q
    <2>4. ToSet(q) \cap ToSet(<<t>>) = {}
        BY <2>1, <2>2, <1>10
    <2>5. ToSet(c) = ToSet(q) \cup {t} /\ NoRepeats(c)
        <3> DEFINE r == <<t>>
        <3>1. r \in Seq(Tickets) /\ ToSet(r) = {t} /\ NoRepeats(r) /\ ToSet(q) \cap ToSet(r) = {}
            BY <2>2, <2>4
        <3> HIDE DEF r
        <3>2. ToSet(q \o r) = ToSet(q) \cup {t} /\ NoRepeats(q \o r)
            BY <2>1, <3>1, ConcatSet
        <3> QED
            BY <3>2 DEF r
    <2>6. queue'["cleanup"] = c /\ held'["cleanup"] = h
        BY <2>3, <1>2, <1>3 DEF q
    <2> HIDE DEF c, h
    <2>7. ToSet(c) \cap h = {} /\ ToSet(c) \cup h = Wanted("cleanup")'
        BY <2>1, <2>5, <1>9, <1>10
    <2> QED
        BY <2>1, <2>5, <2>6, <2>7, <1>1, PoolNext
<1>12. PoolAccounted("creation")'
    <2>1. Wanted("creation")' = Wanted("creation")
        BY <1>2 DEF Wanted
    <2> QED
        BY <2>1, <1>1, <1>2, <1>3, OtherPool
<1>13. DropsWaitOrWork'
    <2> SUFFICES ASSUME NEW x \in DropBatches
                 PROVE  /\ Ticket(x, 0) \in ToSet(queue["cleanup"])' => running'[x] = {}
                        /\ Ticket(x, 0) \in held'["cleanup"] => running'[x] # {}
        BY DEF DropsWaitOrWork
    <2>1. CASE x = b
        <3>1. Ticket(b, 0) \notin held["cleanup"]
            BY <1>1, <1>10 DEF PoolAccounted, t
        <3> QED
            BY <3>1, <2>1, <1>2, <1>4
    <2>2. CASE x # b
        <3>1. Ticket(x, 0) # t
            BY <2>2, TicketsDiffer DEF t
        <3>2. ToSet(queue["cleanup"])' \cup held'["cleanup"] = Wanted("cleanup")'
              /\ ToSet(queue["cleanup"])' \cap held'["cleanup"] = {}
            BY <1>11 DEF PoolAccounted
        <3>3. ToSet(queue["cleanup"]) \cup held["cleanup"] = Wanted("cleanup")
            BY <1>1 DEF PoolAccounted
        <3> QED
            BY <3>1, <3>2, <3>3, <1>1, <1>2, <1>9 DEF DropsWaitOrWork
    <2> QED
        BY <2>1, <2>2
<1>14. BatchesTypeOK'
    <2>1. Append(queue["cleanup"], t) \in Seq(Tickets)
        BY <1>1, <1>8 DEF BatchesTypeOK
    <2> QED
        BY <2>1, <1>1, <1>2 DEF BatchesTypeOK
<1> QED
    BY <1>5, <1>6, <1>7, <1>11, <1>12, <1>13, <1>14 DEF BatchesInv, Pools

\* The first of a queue becomes a holder.
LEMMA HeadIsConnected ==
    ASSUME BatchesTypeOK, NEW p \in Pools, PoolAccounted(p), queue[p] # <<>>,
           Cardinality(held[p]) < Size(p),
           held' = [held EXCEPT ![p] = held[p] \cup {Head(queue[p])}],
           queue' = [queue EXCEPT ![p] = Tail(queue[p])],
           Wanted(p)' = Wanted(p)
    PROVE  /\ PoolAccounted(p)'
           /\ held' \in [Pools -> SUBSET Tickets] /\ queue' \in [Pools -> Seq(Tickets)]
<1> DEFINE q == queue[p]
           h == held[p] \cup {Head(q)}
<1>1. /\ q \in Seq(Tickets) /\ NoRepeats(q) /\ IsFiniteSet(held[p]) /\ held[p] \subseteq Tickets
      /\ ToSet(q) \cap held[p] = {} /\ ToSet(q) \cup held[p] = Wanted(p)
    BY DEF BatchesTypeOK, PoolAccounted
<1>2. q # <<>>
    OBVIOUS
<1> HIDE DEF q
<1>3. /\ Head(q) \in ToSet(q) /\ Tail(q) \in Seq(Tickets)
      /\ ToSet(Tail(q)) = ToSet(q) \ {Head(q)} /\ NoRepeats(Tail(q))
    BY <1>1, <1>2, TailSet
<1>4. Head(q) \notin held[p] /\ Head(q) \in Tickets
    BY <1>1, <1>2, <1>3
<1>5. IsFiniteSet(h) /\ Cardinality(h) = Cardinality(held[p]) + 1
    BY <1>1, <1>4, FS_AddElement
<1>6. Cardinality(h) <= Size(p)
    <2>1. Cardinality(held[p]) \in Nat /\ Size(p) \in Nat
        BY <1>1, FS_CardinalityType, BatchAssumption DEF Size
    <2> HIDE DEF h
    <2> QED
        BY <2>1, <1>5
<1>7. queue'[p] = Tail(q) /\ held'[p] = h
    BY DEF BatchesTypeOK, q
<1>8. ToSet(Tail(q)) \cap h = {} /\ ToSet(Tail(q)) \cup h = Wanted(p)'
    BY <1>1, <1>3
<1>9. held' \in [Pools -> SUBSET Tickets] /\ queue' \in [Pools -> Seq(Tickets)]
    BY <1>1, <1>3, <1>4 DEF BatchesTypeOK, q
<1> DEFINE r == Tail(q)
<1> HIDE DEF h, r
<1>10. PoolAccounted(p)'
    <2>1. queue'[p] = r /\ NoRepeats(r) /\ ToSet(r) \cap h = {} /\ ToSet(r) \cup h = Wanted(p)'
        BY <1>3, <1>7, <1>8 DEF r
    <2> QED
        BY <2>1, <1>5, <1>6, <1>7, PoolNext
<1> QED
    BY <1>9, <1>10

LEMMA ConnectedKeeps ==
    ASSUME BatchesInv, NEW p \in Pools, Connected(p)
    PROVE  BatchesInv'
<1> DEFINE t == Head(queue[p])
           b == t.batch
<1>1. /\ BatchesTypeOK /\ DropsWaitOrWork /\ PoolAccounted(p)
      /\ PoolAccounted("creation") /\ PoolAccounted("cleanup")
      /\ "creation" \in Pools /\ "cleanup" \in Pools /\ CreateBatches \cap DropBatches = {}
    BY BatchAssumption DEF BatchesInv, Pools
<1>2. /\ queue[p] # <<>> /\ Cardinality(held[p]) < Size(p)
      /\ held' = [held EXCEPT ![p] = held[p] \cup {t}]
      /\ queue' = [queue EXCEPT ![p] = Tail(queue[p])]
      /\ state' = state /\ amount' = amount /\ reports' = reports
    BY DEF Connected
<1>3. t \in ToSet(queue[p]) /\ ToSet(queue[p]) \subseteq Wanted(p) /\ queue[p] \in Seq(Tickets)
      /\ ToSet(Tail(queue[p])) = ToSet(queue[p]) \ {t}
    BY <1>1, <1>2, TailSet DEF PoolAccounted, BatchesTypeOK
<1>4. Wanted("cleanup")' = Wanted("cleanup")
    BY <1>2 DEF Wanted
<1>5. CASE p = "creation"
    <2>1. PICK x \in CreateBatches : \E j \in running[x] : t = Ticket(x, j)
        BY <1>3, <1>5, WhoWants
    <2>2. b \in CreateBatches
        BY <2>1 DEF Ticket
    <2>3. started' = started /\ running' = running
        BY <2>2, <1>1 DEF Connected
    <2>4. Wanted("creation")' = Wanted("creation")
        BY <2>3 DEF Wanted
    <2>5. /\ PoolAccounted("creation")'
          /\ held' \in [Pools -> SUBSET Tickets] /\ queue' \in [Pools -> Seq(Tickets)]
        BY <2>4, <1>1, <1>2, <1>5, HeadIsConnected
    <2>6. queue'["cleanup"] = queue["cleanup"] /\ held'["cleanup"] = held["cleanup"]
        BY <1>1, <1>2, <1>5 DEF BatchesTypeOK
    <2>7. PoolAccounted("cleanup")'
        BY <2>6, <1>1, <1>4, OtherPool
    <2>8. \A y \in Batches : Numbered(y)' /\ WindowOf(y)'
        BY <2>3, <1>2, OtherBatches DEF BatchesInv
    <2>9. DropsWaitOrWork'
        BY <2>3, <2>6, <1>1 DEF DropsWaitOrWork, ToSet
    <2>10. BatchesTypeOK'
        BY <2>3, <2>5, <1>1, <1>2 DEF BatchesTypeOK
    <2> QED
        BY <2>5, <2>7, <2>8, <2>9, <2>10 DEF BatchesInv, Pools
<1>6. CASE p = "cleanup"
    <2>1. PICK x \in DropBatches : state[x] = "Running" /\ t = Ticket(x, 0)
        BY <1>3, <1>6, WhoWants
    <2>2. b = x
        BY <2>1 DEF Ticket
    <2> DEFINE w == Window(x, amount[x])
    <2>3. /\ started' = [started EXCEPT ![x] = w] /\ running' = [running EXCEPT ![x] = 0 .. w - 1]
        BY <2>1, <2>2 DEF Connected
    <2>4. x \in Batches /\ x \notin CreateBatches /\ Numbered(x)
        BY <2>1, <1>1 DEF BatchesInv, Batches
    <2>5. running[x] = {}
        BY <2>1, <1>1, <1>3, <1>6 DEF DropsWaitOrWork
    <2>6. amount[x] \in Nat \ {0} /\ reports[x] = <<>>
        <3>1. amount[x] \in Nat /\ amount[x] > 0 /\ started[x] = 0 /\ reports[x] \in Seq(Results)
              /\ Reported(x) \cup running[x] = 0 .. started[x] - 1
            BY <2>1, <2>4, <2>5, <1>1 DEF Numbered, BatchesTypeOK
        <3>2. Reported(x) = {}
            BY <3>1, <2>5
        <3>3. reports[x] # <<>> => 1 \in DOMAIN reports[x]
            BY <3>1
        <3>4. reports[x] = <<>>
            BY <3>2, <3>3 DEF Reported
        <3> QED
            BY <3>1, <3>4
    <2> HIDE DEF w
    <2>7. /\ started'[x] = w /\ running'[x] = 0 .. w - 1
          /\ \A y \in Batches \ {x} : started'[y] = started[y] /\ running'[y] = running[y]
        BY <2>3, <2>4, <1>1 DEF BatchesTypeOK
    <2>8. /\ w \in 1 .. amount[x] /\ running'[x] # {} /\ Numbered(x)' /\ WindowOf(x)'
        BY <2>1, <2>4, <2>6, <2>7, <1>2, WindowFills DEF w
    <2>9. \A y \in Batches \ {x} : Numbered(y)' /\ WindowOf(y)'
        BY <2>7, <1>2, OtherBatches DEF BatchesInv
    <2>10. /\ PoolAccounted("cleanup")'
           /\ held' \in [Pools -> SUBSET Tickets] /\ queue' \in [Pools -> Seq(Tickets)]
        BY <1>1, <1>2, <1>4, <1>6, HeadIsConnected
    <2>11. queue'["creation"] = queue["creation"] /\ held'["creation"] = held["creation"]
           /\ queue'["cleanup"] = Tail(queue["cleanup"])
           /\ held'["cleanup"] = held["cleanup"] \cup {Ticket(x, 0)}
        BY <2>1, <1>1, <1>2, <1>6 DEF BatchesTypeOK
    <2>12. PoolAccounted("creation")'
        <3>1. \A y \in CreateBatches : running'[y] = running[y]
            BY <2>4, <2>7 DEF Batches
        <3>2. Wanted("creation")' = Wanted("creation")
            BY <3>1 DEF Wanted
        <3> QED
            BY <3>2, <2>11, <1>1, OtherPool
    <2>13. DropsWaitOrWork'
        <3> SUFFICES ASSUME NEW y \in DropBatches
                     PROVE  /\ Ticket(y, 0) \in ToSet(queue["cleanup"])' => running'[y] = {}
                            /\ Ticket(y, 0) \in held'["cleanup"] => running'[y] # {}
            BY DEF DropsWaitOrWork
        <3>1. ToSet(queue["cleanup"])' = ToSet(queue["cleanup"]) \ {Ticket(x, 0)}
            <4>1. ToSet(queue["cleanup"])' = ToSet(Tail(queue["cleanup"]))
                BY <2>11
            <4> QED
                BY <4>1, <2>1, <1>3, <1>6
        <3>2. CASE y = x
            BY <3>1, <3>2, <2>8
        <3>3. CASE y # x
            BY <3>1, <3>3, <2>7, <2>11, <1>1, TicketsDiffer DEF DropsWaitOrWork, Batches
        <3> QED
            BY <3>2, <3>3
    <2>14. BatchesTypeOK'
        <3>1. w \in Nat /\ 0 .. w - 1 \subseteq Nat
            BY <2>6, <2>8
        <3> QED
            BY <3>1, <2>3, <2>10, <1>1, <1>2 DEF BatchesTypeOK
    <2> QED
        BY <2>8, <2>9, <2>10, <2>12, <2>13, <2>14 DEF BatchesInv, Pools
<1> QED
    BY <1>5, <1>6 DEF Pools

LEMMA DropUnconnectedKeeps ==
    ASSUME BatchesInv, NEW b \in DropBatches, DropUnconnected(b)
    PROVE  BatchesInv'
<1> DEFINE t == Ticket(b, 0)
           q == queue["cleanup"]
           all == [k \in 1 .. amount[b] |-> [operation |-> k - 1, ok |-> FALSE]]
<1>1. /\ BatchesTypeOK /\ DropsWaitOrWork /\ Numbered(b) /\ WindowOf(b)
      /\ PoolAccounted("creation") /\ PoolAccounted("cleanup")
      /\ "creation" \in Pools /\ "cleanup" \in Pools
      /\ b \in Batches /\ b \notin CreateBatches /\ amount[b] \in Nat
      /\ q \in Seq(Tickets) /\ NoRepeats(q)
    BY BatchAssumption DEF BatchesInv, Pools, Batches, BatchesTypeOK, PoolAccounted
<1>2. /\ \E k \in 1 .. Len(q) : q[k] = t
      /\ queue' = [queue EXCEPT !["cleanup"] = Without(q, {t})]
      /\ reports' = [reports EXCEPT ![b] = all] /\ state' = [state EXCEPT ![b] = "Done"]
      /\ amount' = amount /\ started' = started /\ running' = running /\ held' = held
    BY DEF DropUnconnected, Contains
<1>3. t \in ToSet(q)
    BY <1>1, <1>2 DEF ToSet
<1>4. running[b] = {} /\ state[b] = "Running"
    <2>1. t \in Wanted("cleanup")
        BY <1>1, <1>3 DEF PoolAccounted
    <2> QED
        BY <2>1, <1>1, <1>3, WhoWants DEF DropsWaitOrWork
<1>5. /\ all \in Seq(Results) /\ Len(all) = amount[b] /\ DOMAIN all = 1 .. amount[b]
      /\ \A k \in 1 .. amount[b] : all[k].operation = k - 1
    <2>1. \A k \in 1 .. amount[b] : [operation |-> k - 1, ok |-> FALSE] \in Results
        BY <1>1 DEF Results
    <2> QED
        BY <2>1, <1>1
<1> HIDE DEF all
<1>6. /\ state'[b] = "Done" /\ reports'[b] = all
      /\ \A x \in Batches \ {b} : state'[x] = state[x] /\ reports'[x] = reports[x]
      /\ queue'["cleanup"] = Without(q, {t}) /\ queue'["creation"] = queue["creation"]
    BY <1>1, <1>2 DEF BatchesTypeOK
<1>7. Numbered(b)'
    <2>1. Reported(b)' = {k - 1 : k \in 1 .. amount[b]}
        BY <1>5, <1>6 DEF Reported
    <2>2. {k - 1 : k \in 1 .. amount[b]} = 0 .. amount[b] - 1
        <3>1. ASSUME NEW i \in 0 .. amount[b] - 1 PROVE \E k \in 1 .. amount[b] : i = k - 1
            <4>1. i + 1 \in 1 .. amount[b] /\ i = (i + 1) - 1
                BY <1>1
            <4> QED
                BY <4>1
        <3>2. \A k \in 1 .. amount[b] : k - 1 \in 0 .. amount[b] - 1
            BY <1>1
        <3> QED
            BY <3>1, <3>2
    <2>3. Reported(b)' = Operations(b)'
        BY <2>1, <2>2, <1>2 DEF Operations
    <2>4. ReportsDiffer(b)'
        <3>1. \A j, k \in 1 .. amount[b] : all[j].operation = all[k].operation => j = k
            BY <1>1, <1>5
        <3>2. reports'[b] = all /\ Len(reports'[b]) = amount[b]
            BY <1>5, <1>6
        <3> QED
            BY <3>1, <3>2 DEF ReportsDiffer
    <2> QED
        BY <2>3, <2>4, <1>1, <1>2, <1>4, <1>6 DEF Numbered
<1>8. WindowOf(b)'
    BY <1>1, <1>2 DEF WindowOf, Limit
<1>9. \A x \in Batches \ {b} : Numbered(x)' /\ WindowOf(x)'
    BY <1>2, <1>6, OtherBatches DEF BatchesInv
<1>10. Wanted("cleanup")' = Wanted("cleanup") \ {t}
    <2>1. \A x \in DropBatches : state'[x] = "Running" <=> state[x] = "Running" /\ x # b
        BY <1>6 DEF Batches
    <2>2. Wanted("cleanup") = {Ticket(x, 0) : x \in {y \in DropBatches : state[y] = "Running"}}
          /\ Wanted("cleanup")' = {Ticket(x, 0) : x \in {y \in DropBatches : state'[y] = "Running"}}
        BY DEF Wanted
    <2>3. \A x, y : Ticket(x, 0) = Ticket(y, 0) <=> x = y
        BY TicketsDiffer
    <2> QED
        BY <2>1, <2>2, <2>3
<1> DEFINE r == Without(q, {t})
<1>11. r \in Seq(Tickets) /\ ToSet(r) = ToSet(q) \ {t} /\ NoRepeats(r)
    BY <1>1, WithoutRemoves
<1> HIDE DEF r
<1>12. PoolAccounted("cleanup")'
    <2> DEFINE h == held["cleanup"]
    <2>1. /\ IsFiniteSet(h) /\ Cardinality(h) <= Size("cleanup")
          /\ ToSet(q) \cap h = {} /\ ToSet(q) \cup h = Wanted("cleanup")
        BY <1>1 DEF PoolAccounted
    <2>2. queue'["cleanup"] = r /\ held'["cleanup"] = h
        BY <1>2, <1>6 DEF r
    <2> HIDE DEF h, q
    <2>3. ToSet(r) \cap h = {} /\ ToSet(r) \cup h = Wanted("cleanup")'
        BY <2>1, <1>3, <1>10, <1>11
    <2> QED
        BY <2>1, <2>2, <2>3, <1>1, <1>11, PoolNext
<1>13. PoolAccounted("creation")'
    <2>1. Wanted("creation")' = Wanted("creation")
        BY <1>2 DEF Wanted
    <2> QED
        BY <2>1, <1>1, <1>2, <1>6, OtherPool
<1>14. DropsWaitOrWork'
    <2>1. ToSet(queue["cleanup"])' = ToSet(r)
        BY <1>6 DEF r
    <2> QED
        BY <2>1, <1>1, <1>2, <1>11 DEF DropsWaitOrWork
<1>15. BatchesTypeOK'
    <2>1. queue' = [queue EXCEPT !["cleanup"] = r]
        BY <1>2 DEF r
    <2>2. queue' \in [Pools -> Seq(Tickets)]
        BY <2>1, <1>1, <1>11 DEF BatchesTypeOK
    <2> QED
        BY <2>2, <1>1, <1>2, <1>5 DEF BatchesTypeOK
<1> QED
    BY <1>7, <1>8, <1>9, <1>12, <1>13, <1>14, <1>15 DEF BatchesInv, Pools

LEMMA CancelKeeps ==
    ASSUME BatchesInv, NEW b \in Batches, Cancel(b)
    PROVE  BatchesInv'
<1> DEFINE r(p) == Without(queue[p], TicketsOf(b))
           h(p) == held[p] \ TicketsOf(b)
<1>1. /\ BatchesTypeOK /\ DropsWaitOrWork /\ Numbered(b) /\ WindowOf(b)
      /\ amount[b] \in Nat /\ started[b] \in Nat
      /\ \A p \in Pools : PoolAccounted(p) /\ queue[p] \in Seq(Tickets) /\ NoRepeats(queue[p])
    BY DEF BatchesInv, BatchesTypeOK, PoolAccounted
<1>2. /\ state[b] = "Running" /\ state' = [state EXCEPT ![b] = "Cancelled"]
      /\ running' = [running EXCEPT ![b] = {}]
      /\ queue' = [p \in Pools |-> r(p)] /\ held' = [p \in Pools |-> h(p)]
      /\ amount' = amount /\ started' = started /\ reports' = reports
    BY DEF Cancel
<1>3. \A p \in Pools : /\ r(p) \in Seq(Tickets) /\ NoRepeats(r(p))
                       /\ ToSet(r(p)) = ToSet(queue[p]) \ TicketsOf(b)
    BY <1>1, WithoutRemoves
<1>4. running[b] \subseteq Operations(b) /\ 0 \in Operations(b)
    BY <1>1, <1>2 DEF Numbered, Operations
<1>5. \A x, j : Ticket(x, j) \in TicketsOf(b) <=> x = b /\ j \in Operations(b)
    BY TicketsDiffer DEF TicketsOf
<1>6. /\ state'[b] = "Cancelled" /\ running'[b] = {}
      /\ \A x \in Batches \ {b} : state'[x] = state[x] /\ running'[x] = running[x]
    BY <1>1, <1>2 DEF BatchesTypeOK
<1>7. \A p \in Pools : queue'[p] = r(p) /\ held'[p] = h(p)
    BY <1>2
<1> HIDE DEF r, h
<1>8. Numbered(b)'
    <2>1. Reported(b)' = Reported(b) /\ ReportsDiffer(b)'
        BY <1>1, <1>2 DEF Reported, ReportsDiffer, Numbered
    <2> QED
        BY <2>1, <1>1, <1>2, <1>6 DEF Numbered
<1>9. WindowOf(b)'
    <2>1. Cardinality({}) = 0 /\ Limit(b) \in Nat /\ Limit(b)' = Limit(b)
        BY FS_EmptySet, BatchAssumption DEF Limit
    <2> QED
        BY <2>1, <1>6 DEF WindowOf
<1>10. \A x \in Batches \ {b} : Numbered(x)' /\ WindowOf(x)'
    BY <1>2, <1>6, OtherBatches DEF BatchesInv
<1>11. Wanted("creation")' = Wanted("creation") \ TicketsOf(b)
    <2>1. ASSUME NEW t \in Wanted("creation")' PROVE t \in Wanted("creation") \ TicketsOf(b)
        <3>1. PICK x \in CreateBatches : \E j \in running'[x] : t = Ticket(x, j)
            BY WhoWantsNext
        <3>2. x # b /\ x \in Batches
            BY <3>1, <1>6 DEF Batches
        <3> QED
            BY <3>1, <3>2, <1>5, <1>6, WhoWants
    <2>2. ASSUME NEW t \in Wanted("creation"), t \notin TicketsOf(b) PROVE t \in Wanted("creation")'
        <3>1. PICK x \in CreateBatches : \E j \in running[x] : t = Ticket(x, j)
            BY WhoWants
        <3>2. x # b /\ x \in Batches
            BY <3>1, <2>2, <1>4, <1>5 DEF Batches
        <3> QED
            BY <3>1, <3>2, <1>6, WhoWantsNext
    <2> QED
        BY <2>1, <2>2
<1>12. Wanted("cleanup")' = Wanted("cleanup") \ TicketsOf(b)
    <2>1. ASSUME NEW t \in Wanted("cleanup")' PROVE t \in Wanted("cleanup") \ TicketsOf(b)
        <3>1. PICK x \in DropBatches : state'[x] = "Running" /\ t = Ticket(x, 0)
            BY WhoWantsNext
        <3>2. x # b /\ x \in Batches
            BY <3>1, <1>6 DEF Batches
        <3> QED
            BY <3>1, <3>2, <1>5, <1>6, WhoWants
    <2>2. ASSUME NEW t \in Wanted("cleanup"), t \notin TicketsOf(b) PROVE t \in Wanted("cleanup")'
        <3>1. PICK x \in DropBatches : state[x] = "Running" /\ t = Ticket(x, 0)
            BY WhoWants
        <3>2. x # b /\ x \in Batches
            BY <3>1, <2>2, <1>4, <1>5 DEF Batches
        <3> QED
            BY <3>1, <3>2, <1>6, WhoWantsNext
    <2> QED
        BY <2>1, <2>2
<1>13. ASSUME NEW p \in Pools PROVE PoolAccounted(p)'
    <2>1. /\ IsFiniteSet(held[p]) /\ Cardinality(held[p]) <= Size(p)
          /\ ToSet(queue[p]) \cap held[p] = {} /\ ToSet(queue[p]) \cup held[p] = Wanted(p)
        BY <1>1 DEF PoolAccounted
    <2>2. h(p) \in SUBSET held[p]
        BY DEF h
    <2>3. IsFiniteSet(h(p)) /\ Cardinality(h(p)) <= Cardinality(held[p])
          /\ Cardinality(h(p)) \in Nat /\ Cardinality(held[p]) \in Nat
        BY <2>1, <2>2, FS_Subset, FS_CardinalityType
    <2>4. Cardinality(h(p)) <= Size(p)
        BY <2>1, <2>3, BatchAssumption DEF Size
    <2>5. Wanted(p)' = Wanted(p) \ TicketsOf(b)
        BY <1>11, <1>12 DEF Pools
    <2>6. ToSet(r(p)) \cap h(p) = {} /\ ToSet(r(p)) \cup h(p) = Wanted(p)'
        BY <2>1, <2>5, <1>3 DEF h
    <2> QED
        BY <2>3, <2>4, <2>6, <1>3, <1>7, PoolNext
<1>14. DropsWaitOrWork'
    <2>1. "cleanup" \in Pools
        BY DEF Pools
    <2>2. ToSet(queue["cleanup"])' = ToSet(queue["cleanup"]) \ TicketsOf(b)
        BY <2>1, <1>3, <1>7 DEF ToSet
    <2>3. held'["cleanup"] = held["cleanup"] \ TicketsOf(b)
        BY <2>1, <1>7 DEF h
    <2>4. ASSUME NEW x \in DropBatches
          PROVE  /\ Ticket(x, 0) \in ToSet(queue["cleanup"])' => running'[x] = {}
                 /\ Ticket(x, 0) \in held'["cleanup"] => running'[x] # {}
        <3>1. CASE x = b
            BY <3>1, <2>2, <2>3, <1>4, <1>5
        <3>2. CASE x # b
            BY <3>2, <2>2, <2>3, <1>1, <1>6 DEF DropsWaitOrWork, Batches
        <3> QED
            BY <3>1, <3>2
    <2> QED
        BY <2>4 DEF DropsWaitOrWork, Ticket
<1>15. BatchesTypeOK'
    <2>1. held' \in [Pools -> SUBSET Tickets]
        BY <1>1, <1>2 DEF h, BatchesTypeOK
    <2>2. queue' \in [Pools -> Seq(Tickets)]
        BY <1>2, <1>3
    <2> QED
        BY <2>1, <2>2, <1>1, <1>2 DEF BatchesTypeOK
<1> QED
    BY <1>8, <1>9, <1>10, <1>13, <1>14, <1>15 DEF BatchesInv

----------------------------------------------------------------------------

LEMMA BatchesStart == Init => BatchesInv
<1> SUFFICES ASSUME Init PROVE BatchesInv
    OBVIOUS
<1>1. BatchesTypeOK
    BY DEF Init, BatchesTypeOK
<1>2. ASSUME NEW b \in Batches PROVE Numbered(b) /\ WindowOf(b)
    <2>1. state[b] = "Idle" /\ amount[b] = 0 /\ started[b] = 0 /\ running[b] = {} /\ reports[b] = <<>>
        BY DEF Init
    <2>2. Reported(b) = {} /\ ReportsDiffer(b)
        BY <2>1 DEF Reported, ReportsDiffer
    <2>3. Cardinality({}) = 0 /\ Limit(b) \in Nat
        BY FS_EmptySet, BatchAssumption DEF Limit
    <2> QED
        BY <2>1, <2>2, <2>3 DEF Numbered, WindowOf
<1>3. ASSUME NEW p \in Pools PROVE PoolAccounted(p)
    <2>1. queue[p] = <<>> /\ held[p] = {}
        BY DEF Init
    <2>2. Wanted(p) = {}
        BY DEF Init, Wanted, Batches
    <2>3. ToSet(queue[p]) = {} /\ NoRepeats(queue[p])
        BY <2>1 DEF ToSet, NoRepeats
    <2>4. IsFiniteSet({}) /\ Cardinality({}) = 0 /\ Size(p) \in Nat
        BY FS_EmptySet, BatchAssumption DEF Size
    <2> QED
        BY <2>1, <2>2, <2>3, <2>4 DEF PoolAccounted
<1>4. DropsWaitOrWork
    <2>1. queue["cleanup"] = <<>> /\ held["cleanup"] = {}
        BY DEF Init, Pools
    <2> QED
        BY <2>1 DEF DropsWaitOrWork, ToSet
<1> QED
    BY <1>1, <1>2, <1>3, <1>4 DEF BatchesInv

LEMMA BatchesStep == BatchesInv /\ [Next]_vars => BatchesInv'
<1> SUFFICES ASSUME BatchesInv, [Next]_vars PROVE BatchesInv'
    OBVIOUS
<1>1. CASE UNCHANGED vars
    <2>1. /\ state' = state /\ amount' = amount /\ started' = started /\ running' = running
          /\ queue' = queue /\ held' = held /\ reports' = reports
        BY <1>1 DEF vars
    <2>2. \A b \in Batches : Numbered(b)' /\ WindowOf(b)'
        BY <2>1, OtherBatches DEF BatchesInv
    <2>3. \A p \in Pools : PoolAccounted(p)'
        <3>1. \A p \in Pools : Wanted(p)' = Wanted(p)
            BY <2>1 DEF Wanted
        <3> QED
            BY <2>1, <3>1, OtherPool DEF BatchesInv
    <2>4. BatchesTypeOK' /\ DropsWaitOrWork'
        BY <2>1 DEF BatchesInv, BatchesTypeOK, DropsWaitOrWork
    <2> QED
        BY <2>2, <2>3, <2>4 DEF BatchesInv
<1>2. CASE \E b \in Batches : SubmitEmpty(b)
    BY <1>2, SubmitEmptyKeeps
<1>3. CASE \E b \in CreateBatches, n \in 1 .. MaxAmount : SubmitCreates(b, n)
    BY <1>3, SubmitCreatesKeeps
<1>4. CASE \E b \in DropBatches : SubmitDrop(b) \/ \E n \in 2 .. MaxAmount : SubmitDrops(b, n)
    <2>1. 1 \in 1 .. MaxAmount /\ 2 .. MaxAmount \subseteq 1 .. MaxAmount
        BY BatchAssumption
    <2>2. PICK b \in DropBatches : \E n \in 1 .. MaxAmount : SubmitDrops(b, n)
        BY <1>4, <2>1 DEF SubmitDrop
    <2> QED
        BY <2>2, SubmitDropsKeeps
<1>5. CASE \E p \in Pools : Connected(p)
    BY <1>5, ConnectedKeeps
<1>6. ASSUME NEW b \in Batches, NEW i \in running[b], OperationEnds(b, i)
      PROVE  BatchesInv'
    <2>1. TRUE \in BOOLEAN /\ FALSE \in BOOLEAN
        OBVIOUS
    <2>2. CASE b \in CreateBatches
        <3>1. CASE CreateExecuted(b, i)
            BY <2>1, <2>2, <3>1, CreateHolderEnds DEF CreateExecuted
        <3>2. CASE CreateFails(b, i)
            BY <2>1, <2>2, <3>2, CreateHolderEnds DEF CreateFails
        <3>3. CASE CreateUnconnected(b, i)
            BY <2>2, <3>3, CreateWaiterEnds
        <3> QED
            BY <2>2, <3>1, <3>2, <3>3, <1>6 DEF OperationEnds
    <2>3. CASE b \notin CreateBatches
        <3>1. b \in DropBatches
            BY <2>3 DEF Batches
        <3>2. CASE DropExecuted(b, i)
            BY <2>1, <3>1, <3>2, DropPlaceHeld DEF DropExecuted
        <3>3. CASE DropFails(b, i)
            BY <2>1, <3>1, <3>3, DropPlaceHeld DEF DropFails
        <3> QED
            BY <2>3, <3>2, <3>3, <1>6 DEF OperationEnds
    <2> QED
        BY <2>2, <2>3
<1>7. CASE \E b \in DropBatches : DropUnconnected(b)
    BY <1>7, DropUnconnectedKeeps
<1>8. CASE \E b \in Batches : Cancel(b)
    BY <1>8, CancelKeeps
<1> QED
    BY <1>1, <1>2, <1>3, <1>4, <1>5, <1>6, <1>7, <1>8 DEF Next

\* The inductive invariant: batches are numbered and windowed, pools accounted
\* for, and a drop batch waits or works.
THEOREM BatchesHold == Spec => []BatchesInv
BY BatchesStart, BatchesStep, PTL DEF Spec

\* Every operation of a create_ddl_databases or drop_ddl_databases batch is
\* reported once, not while it runs, and by the end of the batch.
THEOREM OperationsAreReportedOnce == Spec => []EachReportedOnce
<1>1. BatchesInv => EachReportedOnce
    <2> SUFFICES ASSUME BatchesInv, NEW b \in Batches
                 PROVE  /\ Cardinality(Reported(b)) = Len(reports[b])
                        /\ Reported(b) \cap running[b] = {}
                        /\ state[b] = "Done" => Reported(b) = Operations(b)
        BY DEF EachReportedOnce
    <2> DEFINE n == Len(reports[b])
               f == [k \in 1 .. n |-> reports[b][k].operation]
    <2>1. reports[b] \in Seq(Results) /\ Numbered(b)
        BY DEF BatchesInv, BatchesTypeOK
    <2>2. n \in Nat /\ DOMAIN reports[b] = 1 .. n
        BY <2>1
    <2>3. f \in [1 .. n -> Reported(b)]
        BY <2>2 DEF Reported
    <2>4. \A j, k \in 1 .. n : f[j] = f[k] => j = k
        BY <2>1 DEF Numbered, ReportsDiffer
    <2>5. \A x \in Reported(b) : \E k \in 1 .. n : f[k] = x
        BY <2>2 DEF Reported
    <2>6. Cardinality(Reported(b)) = n
        <3> HIDE DEF n, f
        <3> QED
            BY <2>2, <2>3, <2>4, <2>5, ListedOnce
    <2> QED
        BY <2>1, <2>6 DEF Numbered
<1> QED
    BY <1>1, BatchesHold, PTL

\* run_bounded keeps creation_concurrency operations going, and the pipeline of a
\* drop batch CLEANUP_PIPELINE_DEPTH, no more and, while there is work, no less.
THEOREM WindowsAreKept == Spec => []WindowIsKept
<1>1. BatchesInv => WindowIsKept
    BY DEF BatchesInv, WindowOf, Limit, WindowIsKept
<1> QED
    BY <1>1, BatchesHold, PTL

\* Who has a connection of a pool or waits for one is running, once; none is
\* leaked or exceeded, whatever fails or is cancelled.
THEOREM NoConnectionLeaks == Spec => []ConnectionsAreAccounted
<1>1. BatchesInv => ConnectionsAreAccounted
    <2> SUFFICES ASSUME BatchesInv, NEW p \in Pools
                 PROVE  /\ Cardinality(held[p]) <= Size(p)
                        /\ Cardinality(ToSet(queue[p])) = Len(queue[p])
                        /\ ToSet(queue[p]) \cap held[p] = {}
                        /\ ToSet(queue[p]) \cup held[p] = Wanted(p)
        BY DEF ConnectionsAreAccounted, Wanted
    <2> DEFINE q == queue[p]
               n == Len(q)
    <2>1. q \in Seq(Tickets) /\ PoolAccounted(p)
        BY DEF BatchesInv, BatchesTypeOK
    <2>2. n \in Nat /\ q \in [1 .. n -> ToSet(q)] /\ (\A x \in ToSet(q) : \E k \in 1 .. n : q[k] = x)
          /\ \A j, k \in 1 .. n : q[j] = q[k] => j = k
        BY <2>1 DEF ToSet, PoolAccounted, NoRepeats
    <2>3. Cardinality(ToSet(q)) = n
        <3> HIDE DEF q, n
        <3> QED
            BY <2>2, ListedOnce
    <2> QED
        BY <2>1, <2>3 DEF PoolAccounted
<1> QED
    BY <1>1, BatchesHold, PTL

=============================================================================
