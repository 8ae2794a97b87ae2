------------------------- MODULE StartupSweepProofs -------------------------
(***************************************************************************)
(* The names PgTest generates fit PostgreSQL's limit and are told apart by *)
(* their identifiers, for every template.  With that, whatever sweeps,     *)
(* crashes and abandoned statements do, a process keeps the databases it   *)
(* created, and one that gets past startup has all of them.                *)
(*                                                                         *)
(* What is dropped and what is created never meet: a new name is unlike    *)
(* everything that exists or ever will be dropped, because its identifier  *)
(* is, and a process that sweeps has nothing of its own yet.               *)
(***************************************************************************)
EXTENDS StartupSweep, WellFoundedInduction, SequenceTheorems, FiniteSetTheorems, TLAPS

\* Cut is defined: a set of naturals below a bound that is not empty has a
\* largest element.
LEMMA CutExists ==
    ASSUME NEW S, NEW name \in Seq(S)
    PROVE  Cut(name) \in 0 .. MaxPrefixLen
<1>1. MaxPrefixLen \in Nat
    BY NameAssumption DEF NameAssumption, MaxPrefixLen
<1> DEFINE Gaps == {k \in 0 .. MaxPrefixLen : MaxPrefixLen - k \in Cuts(name)}
<1>2. Gaps \subseteq Nat
    BY <1>1
<1>3. 0 \in Cuts(name)
    BY <1>1 DEF Cuts, IsCharBoundary
<1>4. MaxPrefixLen \in Gaps
    BY <1>1, <1>3
<1> HIDE DEF Gaps
<1>5. \E k \in Gaps : \A j \in Gaps : ~(<<j, k>> \in OpToRel(<, Nat))
    BY <1>2, <1>4, NatLessThanWellFounded, WFMin
<1>6. PICK k \in Gaps : \A j \in Gaps : ~(j < k)
    BY <1>2, <1>5 DEF OpToRel
<1>7. MaxPrefixLen - k \in Cuts(name)
    BY <1>6 DEF Gaps
<1>8. \A other \in Cuts(name) : other <= MaxPrefixLen - k
    <2> SUFFICES ASSUME NEW other \in Cuts(name) PROVE other <= MaxPrefixLen - k
        OBVIOUS
    <2>1. other \in 0 .. MaxPrefixLen
        BY DEF Cuts
    <2>2. MaxPrefixLen - other \in Gaps
        BY <1>1, <2>1 DEF Gaps
    <2>3. ~(MaxPrefixLen - other < k) /\ k \in Nat
        BY <1>2, <1>6, <2>2
    <2> QED BY <1>1, <2>1, <2>3
<1>9. Cut(name) \in Cuts(name)
    BY <1>7, <1>8 DEF Cut
<1> QED BY <1>9 DEF Cuts

\* The prefix of every template is a sequence whose length depends on the
\* template alone, and it leaves room for an underscore and an identifier.
LEMMA PrefixLength ==
    ASSUME NEW S, Underscore \in S, NEW name \in Seq(S),
           NEW d \in Seq(S), Len(d) = DiscriminatorLen
    PROVE  /\ Truncate(name, d) \in Seq(S)
           /\ Len(Truncate(name, d)) = IF Len(name) <= MaxPrefixLen THEN Len(name)
                                       ELSE Cut(name) + 1 + DiscriminatorLen
           /\ Len(Truncate(name, d)) + 1 + GeneratedIdLen <= MaxIdentifier
<1>1. /\ MaxPrefixLen \in Nat
      /\ MaxPrefixLen + 1 + DiscriminatorLen + 1 + GeneratedIdLen = MaxIdentifier
      /\ DiscriminatorLen \in Nat /\ GeneratedIdLen \in Nat
    BY NameAssumption DEF NameAssumption, MaxPrefixLen
<1>2. CASE Len(name) <= MaxPrefixLen
    BY <1>1, <1>2 DEF Truncate
<1>3. CASE ~(Len(name) <= MaxPrefixLen)
    <2>1. Cut(name) \in 0 .. MaxPrefixLen
        BY CutExists
    <2>2. Cut(name) \in 0 .. Len(name)
        BY <1>1, <1>3, <2>1
    <2> DEFINE p == SubSeq(name, 1, Cut(name))
    <2>3. p \in Seq(S) /\ Len(p) = Cut(name)
        BY <2>2
    <2>4. Truncate(name, d) = p \o <<Underscore>> \o d
        BY <1>3 DEF Truncate
    <2> HIDE DEF p
    <2>5. <<Underscore>> \in Seq(S) /\ Len(<<Underscore>>) = 1
        OBVIOUS
    <2>6. p \o <<Underscore>> \o d \in Seq(S) /\ Len(p \o <<Underscore>> \o d) = Cut(name) + 1 + DiscriminatorLen
        BY <2>3, <2>5
    <2> QED BY <1>1, <1>3, <2>1, <2>4, <2>6
<1> QED BY <1>2, <1>3

\* A generated name is as long as its parts and ends in its identifier.
LEMMA GeneratedName ==
    ASSUME NEW S, Underscore \in S, NEW p \in Seq(S), NEW id \in Seq(S)
    PROVE  /\ Len(GenerateDatabaseName(p, id)) = Len(p) + 1 + Len(id)
           /\ \A k \in 1 .. Len(id) : GenerateDatabaseName(p, id)[Len(p) + 1 + k] = id[k]
<1> DEFINE q == p \o <<Underscore>>
<1>1. <<Underscore>> \in Seq(S) /\ Len(<<Underscore>>) = 1
    OBVIOUS
<1>2. q \in Seq(S) /\ Len(q) = Len(p) + 1
    BY <1>1
<1>3. GenerateDatabaseName(p, id) = q \o id
    BY DEF GenerateDatabaseName
<1> HIDE DEF q
<1>4. Len(q \o id) = Len(q) + Len(id) /\ Len(q) \in Nat
    BY <1>2
<1>5. \A k \in 1 .. Len(id) : (q \o id)[Len(q) + k] = id[k]
    BY <1>2
<1> QED BY <1>2, <1>3, <1>4, <1>5

\* PostgreSQL never cuts a generated name: whatever the template, prefix,
\* underscore and identifier stay within the limit, so the name the engine
\* records is the name of the database (truncate, generate_database_name).
THEOREM GeneratedNamesFit ==
    ASSUME NEW S, Underscore \in S, NEW name \in Seq(S),
           NEW d \in Seq(S), Len(d) = DiscriminatorLen,
           NEW id \in Seq(S), Len(id) = GeneratedIdLen
    PROVE  Len(GenerateDatabaseName(Truncate(name, d), id)) <= MaxIdentifier
<1>1. /\ Truncate(name, d) \in Seq(S)
      /\ Len(Truncate(name, d)) + 1 + GeneratedIdLen <= MaxIdentifier
    BY PrefixLength
<1> QED BY <1>1, GeneratedName

\* Two processes, or one process twice, generate the same name only from the
\* same identifier, also when their discriminators differ: truncation maps no
\* two identifiers to one name.
THEOREM GeneratedNamesDiffer ==
    ASSUME NEW S, Underscore \in S, NEW name \in Seq(S),
           NEW d1 \in Seq(S), NEW d2 \in Seq(S),
           Len(d1) = DiscriminatorLen, Len(d2) = DiscriminatorLen,
           NEW i1 \in Seq(S), NEW i2 \in Seq(S),
           Len(i1) = GeneratedIdLen, Len(i2) = GeneratedIdLen,
           GenerateDatabaseName(Truncate(name, d1), i1)
               = GenerateDatabaseName(Truncate(name, d2), i2)
    PROVE  i1 = i2
<1> DEFINE p1 == Truncate(name, d1)
           p2 == Truncate(name, d2)
<1>1. p1 \in Seq(S) /\ p2 \in Seq(S) /\ Len(p1) = Len(p2)
    BY PrefixLength
<1>2. GenerateDatabaseName(p1, i1) = GenerateDatabaseName(p2, i2)
    OBVIOUS
<1> HIDE DEF p1, p2
<1>3. ASSUME NEW k \in 1 .. GeneratedIdLen PROVE i1[k] = i2[k]
    <2>1. GenerateDatabaseName(p1, i1)[Len(p1) + 1 + k] = i1[k]
        <3>1. \A j \in 1 .. Len(i1) : GenerateDatabaseName(p1, i1)[Len(p1) + 1 + j] = i1[j]
            BY <1>1, GeneratedName, ZenonT(30)
        <3> QED BY <3>1
    <2>2. GenerateDatabaseName(p2, i2)[Len(p2) + 1 + k] = i2[k]
        <3>1. \A j \in 1 .. Len(i2) : GenerateDatabaseName(p2, i2)[Len(p2) + 1 + j] = i2[j]
            BY <1>1, GeneratedName, ZenonT(30)
        <3> QED BY <3>1
    <2> QED BY <1>1, <1>2, <2>1, <2>2
<1> QED BY <1>3
----------------------------------------------------------------------------
\* What LIKE matches.

\* Induction up to a bound, for a set instead of a predicate.
LEMMA IntervalInduction ==
    ASSUME NEW n \in Nat, NEW Good,
           \A k \in 0 .. n : (\A j \in 0 .. k - 1 : j \in Good) => k \in Good
    PROVE  \A k \in 0 .. n : k \in Good
<1> DEFINE Bad == {k \in 0 .. n : k \notin Good}
<1> SUFFICES ASSUME Bad # {} PROVE FALSE
    OBVIOUS
<1>1. Bad \subseteq Nat
    OBVIOUS
<1> HIDE DEF Bad
<1>2. \E k \in Bad : \A j \in Bad : ~(<<j, k>> \in OpToRel(<, Nat))
    BY <1>1, NatLessThanWellFounded, WFMin
<1>3. PICK k \in Bad : \A j \in Bad : ~(j < k)
    BY <1>1, <1>2 DEF OpToRel
<1>4. k \in 0 .. n /\ k \notin Good
    BY DEF Bad
<1>5. \A j \in 0 .. k - 1 : j \in Good
    BY <1>3, <1>4 DEF Bad
<1> QED
    BY <1>4, <1>5

\* The bytes with a meaning of their own are three.
LEMMA BytesDiffer == Underscore # Percent /\ Underscore # Escape /\ Percent # Escape
BY DEF Underscore, Percent, Escape

\* One step of LIKE: from where s matches what follows j bytes of the pattern,
\* when rest says so for more bytes.
RestStep(s, pattern, rest, j) ==
    IF j = Len(pattern) THEN {Len(s)}
    ELSE CASE pattern[j + 1] = Percent -> {i \in 0 .. Len(s) : \E k \in rest[j + 1] : i <= k}
           [] pattern[j + 1] = Underscore -> {i \in 0 .. Len(s) - 1 : i + 1 \in rest[j + 1]}
           [] pattern[j + 1] = Escape ->
                {i \in 0 .. Len(s) - 1 : /\ j + 1 < Len(pattern)
                                         /\ s[i + 1] = pattern[j + 2]
                                         /\ i + 1 \in rest[j + 2]}
           [] OTHER ->
                {i \in 0 .. Len(s) - 1 : s[i + 1] = pattern[j + 1] /\ i + 1 \in rest[j + 1]}

\* A step depends on what follows alone.
LEMMA StepLooksAhead ==
    ASSUME NEW s, NEW pattern, NEW g, NEW h, NEW j \in 0 .. Len(pattern), Len(pattern) \in Nat,
           \A x \in j + 1 .. Len(pattern) : g[x] = h[x]
    PROVE  RestStep(s, pattern, g, j) = RestStep(s, pattern, h, j)
<1>1. CASE j = Len(pattern)
    BY <1>1 DEF RestStep
<1>2. CASE j # Len(pattern)
    <2>1. g[j + 1] = h[j + 1]
        BY <1>2
    <2>2. j + 1 < Len(pattern) => g[j + 2] = h[j + 2]
        BY <1>2
    <2>3. {i \in 0 .. Len(s) - 1 : j + 1 < Len(pattern) /\ s[i + 1] = pattern[j + 2] /\ i + 1 \in g[j + 2]}
            = {i \in 0 .. Len(s) - 1 : j + 1 < Len(pattern) /\ s[i + 1] = pattern[j + 2] /\ i + 1 \in h[j + 2]}
        BY <2>2
    <2> QED
        BY <1>2, <2>1, <2>3 DEF RestStep
<1> QED
    BY <1>1, <1>2

\* LIKE is defined, for every name and pattern.
LEMMA LikeDefined ==
    ASSUME NEW s, NEW pattern, Len(pattern) \in Nat
    PROVE  \E rest : /\ Like(s, pattern) <=> 0 \in rest[0]
                     /\ \A j \in 0 .. Len(pattern) : rest[j] = RestStep(s, pattern, rest, j)
<1> DEFINE m == Len(pattern)
           From(g, k) == \A j \in m - k .. m : g[j] = RestStep(s, pattern, g, j)
           Good == {k \in 0 .. m : \E g : DOMAIN g = 0 .. m /\ g = [j \in 0 .. m |-> g[j]] /\ From(g, k)}
<1>1. m \in Nat
    OBVIOUS
<1> HIDE DEF m
<1>2. ASSUME NEW k \in 0 .. m, \A j \in 0 .. k - 1 : j \in Good
      PROVE  k \in Good
    <2>1. CASE k = 0
        <3> DEFINE g == [j \in 0 .. m |-> {Len(s)}]
        <3>1. From(g, k)
            BY <1>1, <2>1 DEF RestStep, m
        <3> QED
            BY <3>1
    <2>2. CASE k # 0
        <3>1. k - 1 \in Good
            BY <1>1, <1>2, <2>2
        <3>2. PICK g : DOMAIN g = 0 .. m /\ g = [j \in 0 .. m |-> g[j]] /\ From(g, k - 1)
            BY <3>1
        <3> DEFINE v == RestStep(s, pattern, g, m - k)
                   h == [j \in 0 .. m |-> IF j = m - k THEN v ELSE g[j]]
        <3>3. \A x \in 0 .. m : x # m - k => h[x] = g[x]
            OBVIOUS
        <3>4. h[m - k] = v
            BY <1>1
        <3> HIDE DEF h
        <3>5. ASSUME NEW j \in m - k .. m PROVE h[j] = RestStep(s, pattern, h, j)
            <4>1. j \in 0 .. m /\ \A x \in j + 1 .. m : x \in 0 .. m /\ x # m - k
                BY <1>1, <3>5
            <4>2. \A x \in j + 1 .. m : h[x] = g[x]
                BY <3>3, <4>1
            <4>3. RestStep(s, pattern, h, j) = RestStep(s, pattern, g, j)
                BY <1>1, <4>1, <4>2, StepLooksAhead DEF m
            <4>4. CASE j = m - k
                BY <3>4, <4>3, <4>4
            <4>5. CASE j # m - k
                <5>1. j \in m - (k - 1) .. m
                    BY <1>1, <4>5
                <5> QED
                    BY <3>2, <3>3, <4>1, <4>3, <4>5, <5>1
            <4> QED
                BY <4>4, <4>5
        <3>6. DOMAIN h = 0 .. m /\ h = [j \in 0 .. m |-> h[j]]
            BY DEF h
        <3> QED
            BY <3>5, <3>6
    <2> QED
        BY <2>1, <2>2
<1>3. m \in Good
    <2> HIDE DEF Good
    <2>1. \A k \in 0 .. m : k \in Good
        BY <1>1, <1>2, IntervalInduction
    <2> QED
        BY <1>1, <2>1
<1>4. PICK g : g = [j \in 0 .. m |-> g[j]] /\ From(g, m)
    BY <1>3
<1>5. \A j \in 0 .. m : g[j] = RestStep(s, pattern, g, j)
    BY <1>1, <1>4
<1>6. g = [j \in 0 .. m |-> RestStep(s, pattern, g, j)]
    BY <1>4, <1>5
<1> DEFINE rest == CHOOSE f : f = [j \in 0 .. m |-> RestStep(s, pattern, f, j)]
<1>7. rest = [j \in 0 .. m |-> RestStep(s, pattern, rest, j)]
    BY <1>6
<1>8. Like(s, pattern) <=> 0 \in rest[0]
    BY DEF Like, RestStep, m
<1> HIDE DEF rest
<1> QED
    BY <1>7, <1>8 DEF m

\* The bytes of the pattern the sweep lists with.
LEMMA PatternBytes ==
    ASSUME NEW S, NEW t \in Seq(S)
    PROVE  /\ Len(t) \in Nat /\ Len(SweepPattern(t)) = Len(t) + 2
           /\ \A k \in 1 .. Len(t) : SweepPattern(t)[k] = t[k]
           /\ SweepPattern(t)[Len(t) + 1] = Underscore /\ SweepPattern(t)[Len(t) + 2] = Percent
<1> DEFINE T == S \cup {Underscore, Percent}
           tail == <<Underscore, Percent>>
<1>1. t \in Seq(T) /\ tail \in Seq(T) /\ Len(tail) = 2 /\ tail[1] = Underscore /\ tail[2] = Percent /\ Len(t) \in Nat
    OBVIOUS
<1>2. SweepPattern(t) = t \o tail
    BY DEF SweepPattern
<1> HIDE DEF T, tail
<1>3. /\ Len(t \o tail) = Len(t) + Len(tail)
      /\ \A i \in 1 .. Len(t) + Len(tail) :
            (t \o tail)[i] = IF i <= Len(t) THEN t[i] ELSE tail[i - Len(t)]
    BY <1>1, ConcatProperties, ZenonT(30)
<1>4. Len(t \o tail) = Len(t) + 2 /\ \A k \in 1 .. Len(t) : (t \o tail)[k] = t[k]
    <2>1. Len(tail) = 2 /\ Len(t) \in Nat
        BY <1>1
    <2> QED
        BY <2>1, <1>3
<1>5. (t \o tail)[Len(t) + 1] = tail[1] /\ (t \o tail)[Len(t) + 2] = tail[2]
    <2>1. /\ Len(t) + 1 \in 1 .. Len(t) + Len(tail) /\ ~(Len(t) + 1 <= Len(t)) /\ Len(t) + 1 - Len(t) = 1
          /\ Len(t) + 2 \in 1 .. Len(t) + Len(tail) /\ ~(Len(t) + 2 <= Len(t)) /\ Len(t) + 2 - Len(t) = 2
        BY <1>1
    <2> QED
        BY <1>3, <2>1
<1> QED
    BY <1>1, <1>2, <1>4, <1>5

\* A generated name begins with its prefix.
LEMMA GeneratedPrefix ==
    ASSUME NEW S, Underscore \in S, NEW p \in Seq(S), NEW id \in Seq(S)
    PROVE  \A k \in 1 .. Len(p) : GenerateDatabaseName(p, id)[k] = p[k]
<1> DEFINE q == p \o <<Underscore>>
<1>1. q \in Seq(S) /\ Len(q) = Len(p) + 1 /\ \A k \in 1 .. Len(p) : q[k] = p[k]
    OBVIOUS
<1>2. GenerateDatabaseName(p, id) = q \o id
    BY DEF GenerateDatabaseName
<1> HIDE DEF q
<1>3. \A k \in 1 .. Len(q) : (q \o id)[k] = q[k]
    BY <1>1
<1> QED
    BY <1>1, <1>2, <1>3

\* A template without backslash finds the databases named after it in full: its
\* own wildcards match themselves.
LEMMA PatternFindsOwn ==
    ASSUME NEW S, Underscore \in S, NEW t \in Seq(S), NEW id \in Seq(S),
           \A k \in 1 .. Len(t) : t[k] # Escape
    PROVE  Like(GenerateDatabaseName(t, id), SweepPattern(t))
<1> DEFINE n == GenerateDatabaseName(t, id)
           p == SweepPattern(t)
           L == Len(t)
<1>1. /\ L \in Nat /\ Len(p) = L + 2 /\ p[L + 1] = Underscore /\ p[L + 2] = Percent
      /\ \A k \in 1 .. L : p[k] = t[k]
    BY PatternBytes
<1>2. Len(n) \in Nat /\ Len(n) >= L + 1 /\ \A k \in 1 .. L : n[k] = t[k]
    BY GeneratedName, GeneratedPrefix
<1>4. \A k \in 1 .. L : p[k] # Escape /\ n[k] = p[k]
    BY <1>1, <1>2
<1> HIDE DEF n, p, L
<1>3. PICK rest : /\ Like(n, p) <=> 0 \in rest[0]
                  /\ \A j \in 0 .. L + 2 : rest[j] = RestStep(n, p, rest, j)
    <2>1. Len(p) \in Nat
        BY <1>1
    <2>2. \E rest : /\ Like(n, p) <=> 0 \in rest[0]
                    /\ \A j \in 0 .. Len(p) : rest[j] = RestStep(n, p, rest, j)
        BY <2>1, LikeDefined
    <2> QED
        BY <1>1, <2>2
<1>5. L + 1 \in rest[L + 1]
    <2>1. rest[L + 2] = {Len(n)}
        <3>1. L + 2 \in 0 .. L + 2
            BY <1>1
        <3> QED
            BY <1>1, <1>3, <3>1 DEF RestStep
    <2>2. rest[L + 1] = {i \in 0 .. Len(n) : \E k \in rest[L + 2] : i <= k}
        <3>1. L + 1 \in 0 .. L + 2 /\ L + 1 # L + 2 /\ (L + 1) + 1 = L + 2
            BY <1>1
        <3> QED
            BY <1>1, <1>3, <3>1, BytesDiffer DEF RestStep
    <2> QED
        BY <1>1, <1>2, <2>1, <2>2
<1> DEFINE Good == {k \in 0 .. L + 1 : L + 1 - k \in rest[L + 1 - k]}
<1>6. ASSUME NEW k \in 0 .. L + 1, \A j \in 0 .. k - 1 : j \in Good
      PROVE  k \in Good
    <2>1. CASE k = 0
        BY <1>1, <1>5, <2>1
    <2>2. CASE k # 0
        <3> DEFINE j == L + 1 - k
        <3>1. j \in 0 .. L /\ j \in 0 .. L + 2 /\ j # L + 2 /\ j + 1 \in 1 .. L + 1
              /\ L + 1 - (k - 1) = j + 1
            BY <1>1, <2>2
        <3>2. j + 1 \in rest[j + 1]
            <4>1. k - 1 \in Good
                BY <1>6, <2>2
            <4> QED
                BY <3>1, <4>1
        <3> HIDE DEF j
        <3>3. j \in 0 .. Len(n) - 1 /\ j \in 0 .. Len(n) /\ j <= j + 1
            BY <1>1, <1>2, <3>1
        <3>4. p[j + 1] # Escape /\ (p[j + 1] = Underscore \/ n[j + 1] = p[j + 1])
            <4>1. CASE j = L
                BY <1>1, <4>1, BytesDiffer
            <4>2. CASE j # L
                <5>1. j + 1 \in 1 .. L
                    BY <1>1, <3>1, <4>2
                <5> QED
                    BY <1>4, <5>1
            <4> QED
                BY <4>1, <4>2
        <3>5. rest[j] = RestStep(n, p, rest, j)
            BY <1>3, <3>1
        <3>6. j \in RestStep(n, p, rest, j)
            BY <1>1, <3>1, <3>2, <3>3, <3>4 DEF RestStep
        <3> QED
            BY <3>5, <3>6 DEF j
    <2> QED
        BY <2>1, <2>2
<1>7. \A k \in 0 .. L + 1 : k \in Good
    <2> HIDE DEF Good
    <2>1. L + 1 \in Nat
        BY <1>1
    <2> QED
        BY <1>6, <2>1, IntervalInduction
<1>8. 0 \in rest[0]
    <2>1. L + 1 \in 0 .. L + 1 /\ L + 1 - (L + 1) = 0
        BY <1>1
    <2>2. L + 1 \in Good
        BY <1>7, <2>1
    <2> QED
        BY <2>1, <2>2
<1> QED
    BY <1>3, <1>8 DEF n, p

\* Without percent sign and backslash each byte of the template takes one byte:
\* what the sweep lists is longer than the template.
LEMMA PatternFindsLonger ==
    ASSUME NEW S, NEW t \in Seq(S), NEW n, Len(n) \in Nat,
           \A k \in 1 .. Len(t) : t[k] \notin {Percent, Escape},
           Like(n, SweepPattern(t))
    PROVE  Len(n) > Len(t)
<1> DEFINE p == SweepPattern(t)
           L == Len(t)
<1>1. /\ L \in Nat /\ Len(p) = L + 2 /\ p[L + 1] = Underscore
      /\ \A k \in 1 .. L : p[k] = t[k]
    BY PatternBytes
<1>2. PICK rest : /\ Like(n, p) <=> 0 \in rest[0]
                  /\ \A j \in 0 .. L + 2 : rest[j] = RestStep(n, p, rest, j)
    <2>1. Len(p) \in Nat
        BY <1>1
    <2> HIDE DEF p, L
    <2>2. \E rest : /\ Like(n, p) <=> 0 \in rest[0]
                    /\ \A j \in 0 .. Len(p) : rest[j] = RestStep(n, p, rest, j)
        BY <2>1, LikeDefined
    <2> QED
        BY <1>1, <2>2
<1>3. \A k \in 1 .. L : p[k] \notin {Percent, Escape}
    BY <1>1
<1> HIDE DEF p, L
<1> DEFINE Good == {k \in 0 .. L + 1 : \A i \in rest[L + 1 - k] : i \in Nat /\ i + k <= Len(n)}
<1>4. ASSUME NEW k \in 0 .. L + 1, \A j \in 0 .. k - 1 : j \in Good
      PROVE  k \in Good
    <2> DEFINE j == L + 1 - k
    <2>1. j \in 0 .. L + 2 /\ j # L + 2
        BY <1>1
    <2>2. rest[j] = RestStep(n, p, rest, j)
        BY <1>2, <2>1
    <2>3. CASE k = 0
        <3>1. j = L + 1
            BY <1>1, <2>3
        <3> HIDE DEF j
        <3>4. \A i \in RestStep(n, p, rest, j) : i \in 0 .. Len(n)
            BY <1>1, <2>1 DEF RestStep
        <3> QED
            BY <2>2, <2>3, <3>1, <3>4 DEF j
    <2>4. CASE k # 0
        <3>1. j \in 0 .. L /\ j + 1 \in 1 .. L + 1 /\ L + 1 - (k - 1) = j + 1
            BY <1>1, <2>4
        <3>2. k - 1 \in 0 .. k - 1 /\ k - 1 \in Nat
            BY <2>4
        <3>3. \A i \in rest[j + 1] : i \in Nat /\ i + (k - 1) <= Len(n)
            <4>1. k - 1 \in Good
                BY <1>4, <3>2
            <4> QED
                BY <3>1, <4>1
        <3>4. p[j + 1] \notin {Percent, Escape}
            <4>1. CASE j = L
                BY <1>1, <4>1, BytesDiffer
            <4>2. CASE j # L
                <5>1. j + 1 \in 1 .. L
                    BY <1>1, <3>1, <4>2
                <5> QED
                    BY <1>3, <5>1
            <4> QED
                BY <4>1, <4>2
        <3> HIDE DEF j
        <3>5. \A i \in RestStep(n, p, rest, j) : i \in 0 .. Len(n) - 1 /\ i + 1 \in rest[j + 1]
            BY <1>1, <2>1, <3>4 DEF RestStep
        <3>6. \A i \in rest[j] : i \in Nat /\ i + k <= Len(n)
            BY <2>2, <3>2, <3>3, <3>5
        <3> QED
            BY <3>6 DEF j
    <2> QED
        BY <2>3, <2>4
<1>5. L + 1 \in Good
    <2> HIDE DEF Good
    <2>1. L + 1 \in Nat /\ L + 1 \in 0 .. L + 1
        BY <1>1
    <2>2. \A k \in 0 .. L + 1 : k \in Good
        BY <1>4, <2>1, IntervalInduction
    <2> QED
        BY <2>1, <2>2
<1>6. L + 1 - (L + 1) = 0 /\ 0 \in rest[0]
    BY <1>1, <1>2 DEF p
<1>7. 0 + (L + 1) <= Len(n)
    BY <1>5, <1>6
<1> QED
    BY <1>1, <1>7 DEF L

----------------------------------------------------------------------------
\* The databases of a process.

\* The names a process may generate from an identifier.
Generated(id) == {GenerateDatabaseName(Truncate(Template, d), id) : d \in Discriminators}

\* What may exist or be named by a statement.
Known == made \cup Others \cup {Template}

\* What a statement, issued or still to be, will drop.
Doomed == names \cup dropping \cup {s.name : s \in {x \in abandoned : x.type = "Drop"}}

SweepTypeOK ==
    /\ phase \in {"Down", "Listing", "Sweeping", "Creating", "Running"}
    /\ failed \in BOOLEAN
    /\ requested \in Nat
    /\ used \subseteq Ids

\* Names are made of identifiers that are used up, and nothing else is around.
NamesAreTraced ==
    /\ \A n \in made : \E id \in used : n \in Generated(id)
    /\ pg \cup Doomed \subseteq Known
    /\ creating \cup owned \cup {s.name : s \in {x \in abandoned : x.type # "Drop"}} \subseteq made
    /\ phase # "Down" => \E d \in Discriminators : prefix = Truncate(Template, d)

\* What a process has or creates nobody drops; one that sweeps has nothing, and
\* one that creates its first databases drops nothing.
ApartFromDoomed ==
    /\ Doomed \cap (owned \cup creating) = {}
    /\ owned \cap creating = {}
    /\ phase \in {"Down", "Listing", "Sweeping"} => owned \cup creating = {}
    /\ phase \in {"Down", "Listing", "Creating"} => dropping = {}

\* A startup without failures has, or is about to have, all it asked for.
StartupIsCounted ==
    phase = "Creating" /\ ~failed =>
        /\ IsFiniteSet(owned \cup creating)
        /\ Cardinality(owned \cup creating) = requested

SweepInv ==
    /\ SweepTypeOK
    /\ NamesAreTraced
    /\ ApartFromDoomed
    /\ StartupIsCounted
    /\ OwnDatabasesExist

\* PostgreSQL stores a generated name as it is.
LEMMA StoredAsGenerated ==
    ASSUME NEW id \in Ids, NEW n \in Generated(id)
    PROVE  Stored(n) = n
<1>1. PICK d \in Discriminators : n = GenerateDatabaseName(Truncate(Template, d), id)
    BY DEF Generated
<1>2. /\ Template \in Seq(Bytes) /\ d \in Seq(Bytes) /\ Len(d) = DiscriminatorLen
      /\ id \in Seq(Bytes) /\ Len(id) = GeneratedIdLen /\ Underscore \in Bytes
    BY SweepAssumption, NameAssumption
<1>3. Len(n) <= MaxIdentifier
    BY <1>1, <1>2, GeneratedNamesFit
<1> QED
    BY <1>3 DEF Stored

LEMMA MadeIsStored ==
    ASSUME SweepInv, NEW n \in made
    PROVE  Stored(n) = n
BY StoredAsGenerated DEF SweepInv, SweepTypeOK, NamesAreTraced

\* A new identifier makes a name nobody knows.
LEMMA NewNameIsNew ==
    ASSUME SweepInv, phase # "Down", NEW id \in Ids, id \notin used
    PROVE  /\ GenerateDatabaseName(prefix, id) \in Generated(id)
           /\ GenerateDatabaseName(prefix, id) \notin Known
<1> DEFINE n == GenerateDatabaseName(prefix, id)
<1>1. PICK d \in Discriminators : prefix = Truncate(Template, d)
    BY DEF SweepInv, NamesAreTraced
<1>2. n \in Generated(id)
    BY <1>1 DEF Generated
<1>3. n \notin Others \cup {Template}
    BY <1>1, SweepAssumption
<1>4. ASSUME n \in made PROVE FALSE
    <2>1. PICK i \in used : n \in Generated(i)
        BY <1>4 DEF SweepInv, NamesAreTraced
    <2>2. PICK e \in Discriminators : n = GenerateDatabaseName(Truncate(Template, e), i)
        BY <2>1 DEF Generated
    <2>3. i \in Ids /\ i # id
        BY <2>1 DEF SweepInv, SweepTypeOK
    <2>4. /\ Template \in Seq(Bytes) /\ Underscore \in Bytes
          /\ d \in Seq(Bytes) /\ Len(d) = DiscriminatorLen
          /\ e \in Seq(Bytes) /\ Len(e) = DiscriminatorLen
          /\ id \in Seq(Bytes) /\ Len(id) = GeneratedIdLen
          /\ i \in Seq(Bytes) /\ Len(i) = GeneratedIdLen
        BY <2>3, SweepAssumption, NameAssumption
    <2>5. GenerateDatabaseName(Truncate(Template, d), id) = GenerateDatabaseName(Truncate(Template, e), i)
        BY <1>1, <2>2
    <2>6. id = i
        BY <2>4, <2>5, GeneratedNamesDiffer
    <2> QED
        BY <2>3, <2>6
<1> QED
    BY <1>2, <1>3, <1>4 DEF Known

LEMMA SweepStart == Init => SweepInv
<1> SUFFICES ASSUME Init PROVE SweepInv
    OBVIOUS
<1>1. /\ abandoned = {} /\ phase = "Down" /\ names = {} /\ dropping = {} /\ creating = {}
      /\ owned = {} /\ failed = FALSE /\ requested = 0 /\ used = {} /\ made = {}
      /\ pg \subseteq Others \cup {Template}
    BY DEF Init
<1>2. Doomed = {} /\ {s.name : s \in {x \in abandoned : x.type # "Drop"}} = {}
    BY <1>1 DEF Doomed
<1>3. NamesAreTraced
    BY <1>1, <1>2 DEF NamesAreTraced, Known
<1> QED
    BY <1>1, <1>2, <1>3 DEF SweepInv, SweepTypeOK, ApartFromDoomed, StartupIsCounted, OwnDatabasesExist

\* A creation is submitted under a name that was never seen.
LEMMA SubmitCreateKeeps ==
    ASSUME SweepInv, phase # "Down", NEW id \in Ids, SubmitCreate(id),
           phase \notin {"Down", "Listing", "Sweeping"},
           UNCHANGED <<pg, abandoned, phase, prefix, names, dropping, failed, owned>>
    PROVE  /\ used' \subseteq Ids /\ NamesAreTraced' /\ ApartFromDoomed' /\ OwnDatabasesExist'
           /\ \E n : creating' = creating \cup {n} /\ n \notin owned \cup creating
<1> DEFINE n == GenerateDatabaseName(prefix, id)
<1>1. n \in Generated(id) /\ n \notin Known
    <2>1. id \notin used
        BY DEF SubmitCreate
    <2> QED
        BY <2>1, NewNameIsNew
<1>2. /\ used' = used \cup {id} /\ creating' = creating \cup {n} /\ made' = made \cup {n}
    BY DEF SubmitCreate
<1> HIDE DEF n
<1>3. /\ SweepTypeOK /\ NamesAreTraced /\ ApartFromDoomed /\ OwnDatabasesExist
      /\ Doomed' = Doomed /\ Known' = Known \cup {n}
    BY <1>2 DEF SweepInv, Doomed, Known
<1>4. used' \subseteq Ids
    BY <1>2, <1>3 DEF SweepTypeOK
<1>5. \A i : Generated(i)' = Generated(i)
    BY DEF Generated
<1>6. NamesAreTraced'
    <2>1. \A m \in made' : \E i \in used' : m \in Generated(i)
        BY <1>1, <1>2, <1>3 DEF NamesAreTraced
    <2> QED
        BY <2>1, <1>2, <1>3, <1>5 DEF NamesAreTraced
<1>7. n \notin owned \cup creating /\ n \notin Doomed
    BY <1>1, <1>3 DEF NamesAreTraced, Known
<1>8. ApartFromDoomed'
    BY <1>2, <1>3, <1>7 DEF ApartFromDoomed
<1> QED
    BY <1>2, <1>3, <1>4, <1>6, <1>7, <1>8 DEF OwnDatabasesExist

\* What a process leaves behind is known, and it has nothing any more.
LEMMA ExitKeeps ==
    ASSUME SweepInv, Exit
    PROVE  SweepInv'
<1> DEFINE left == [type : {"Create"}, name : creating] \cup [type : {"Drop"}, name : dropping]
<1>1. /\ phase' = "Down" /\ names' = {} /\ dropping' = {} /\ creating' = {} /\ owned' = {}
      /\ failed' = FALSE /\ requested' = 0 /\ abandoned' = abandoned \cup left
      /\ pg' = pg /\ used' = used /\ made' = made
    BY DEF Exit, history
<1>2. SweepTypeOK /\ NamesAreTraced
    BY DEF SweepInv
<1>3. \A s \in left : s.type = "Drop" => s.name \in dropping
    OBVIOUS
<1>4. \A s \in left : s.type # "Drop" => s.name \in creating
    OBVIOUS
<1> HIDE DEF left
<1>5. Doomed' \subseteq Doomed
    <2>1. \A s \in abandoned' : s.type = "Drop" => s.name \in Doomed
        BY <1>1, <1>3 DEF Doomed
    <2> QED
        BY <2>1, <1>1 DEF Doomed
<1>6. \A s \in abandoned' : s.type # "Drop" => s.name \in made
    BY <1>1, <1>2, <1>4 DEF NamesAreTraced
<1>7. NamesAreTraced'
    <2>1. Known' = Known /\ \A i : Generated(i)' = Generated(i)
        BY <1>1 DEF Known, Generated
    <2>2. {s.name : s \in {x \in abandoned' : x.type # "Drop"}} \subseteq made'
        BY <1>1, <1>6
    <2> QED
        BY <2>1, <2>2, <1>1, <1>2, <1>5 DEF NamesAreTraced
<1> QED
    BY <1>1, <1>2, <1>7 DEF SweepInv, SweepTypeOK, ApartFromDoomed, StartupIsCounted, OwnDatabasesExist

LEMMA SweepStep == SweepInv /\ [Next]_vars => SweepInv'
<1> SUFFICES ASSUME SweepInv, [Next]_vars PROVE SweepInv'
    OBVIOUS
<1>1. CASE UNCHANGED vars
    BY <1>1 DEF vars, server, process, history, bounds,
        SweepInv, SweepTypeOK, NamesAreTraced, ApartFromDoomed, StartupIsCounted,
        OwnDatabasesExist, Known, Doomed, Generated
<1>2. ASSUME NEW d \in Discriminators, StartProcess(d) PROVE SweepInv'
    BY <1>2 DEF StartProcess, server,
        SweepInv, SweepTypeOK, NamesAreTraced, ApartFromDoomed, StartupIsCounted,
        OwnDatabasesExist, Known, Doomed, Generated
<1>3. CASE StartRejected
    BY <1>3 DEF StartRejected, server, process, history,
        SweepInv, SweepTypeOK, NamesAreTraced, ApartFromDoomed, StartupIsCounted,
        OwnDatabasesExist, Known, Doomed, Generated
<1>4. CASE ListLeftovers
    BY <1>4 DEF ListLeftovers, server,
        SweepInv, SweepTypeOK, NamesAreTraced, ApartFromDoomed, StartupIsCounted,
        OwnDatabasesExist, Known, Doomed, Generated
<1>5. CASE ListingFails
    BY <1>5, FS_EmptySet DEF ListingFails, EndSweep, server,
        SweepInv, SweepTypeOK, NamesAreTraced, ApartFromDoomed, StartupIsCounted,
        OwnDatabasesExist, Known, Doomed, Generated
<1>6. ASSUME NEW b \in Batches, SubmitBatch(b) PROVE SweepInv'
    BY <1>6 DEF SubmitBatch, Batches, server, history,
        SweepInv, SweepTypeOK, NamesAreTraced, ApartFromDoomed, StartupIsCounted,
        OwnDatabasesExist, Known, Doomed, Generated
<1>7. CASE SweepDone
    BY <1>7, FS_EmptySet DEF SweepDone, EndSweep, server,
        SweepInv, SweepTypeOK, NamesAreTraced, ApartFromDoomed, StartupIsCounted,
        OwnDatabasesExist, Known, Doomed, Generated
<1>8. CASE SweepGivesUp
    BY <1>8, FS_EmptySet DEF SweepGivesUp, EndSweep, server,
        SweepInv, SweepTypeOK, NamesAreTraced, ApartFromDoomed, StartupIsCounted,
        OwnDatabasesExist, Known, Doomed, Generated
<1>9. ASSUME NEW id \in Ids, RequestInitial(id) PROVE SweepInv'
    <2>1. /\ phase = "Creating" /\ requested' = requested + 1 /\ SubmitCreate(id)
          /\ UNCHANGED <<pg, abandoned, phase, prefix, names, dropping, failed, owned>>
        BY <1>9 DEF RequestInitial, server
    <2>2. /\ used' \subseteq Ids /\ NamesAreTraced' /\ ApartFromDoomed' /\ OwnDatabasesExist'
          /\ \E n : creating' = creating \cup {n} /\ n \notin owned \cup creating
        BY <2>1, SubmitCreateKeeps
    <2>3. SweepTypeOK'
        BY <2>1, <2>2 DEF SweepInv, SweepTypeOK
    <2>4. StartupIsCounted'
        <3> DEFINE all == owned \cup creating
        <3> SUFFICES ASSUME ~failed
                     PROVE  /\ IsFiniteSet((owned \cup creating)')
                            /\ Cardinality((owned \cup creating)') = requested'
            BY <2>1 DEF StartupIsCounted
        <3>1. PICK n : creating' = creating \cup {n} /\ n \notin owned \cup creating
            BY <2>2
        <3>2. (owned \cup creating)' = all \cup {n} /\ n \notin all
            BY <2>1, <3>1
        <3>3. IsFiniteSet(all) /\ Cardinality(all) = requested
            BY <2>1 DEF SweepInv, StartupIsCounted
        <3> HIDE DEF all
        <3> QED
            BY <2>1, <3>2, <3>3, FS_AddElement
    <2> QED
        BY <2>2, <2>3, <2>4 DEF SweepInv
<1>10. CASE StartupCompletes
    BY <1>10 DEF StartupCompletes, server, history,
        SweepInv, SweepTypeOK, NamesAreTraced, ApartFromDoomed, StartupIsCounted,
        OwnDatabasesExist, Known, Doomed, Generated
<1>11. CASE Exit
    BY <1>11, ExitKeeps
<1>12. ASSUME NEW d \in dropping, DropExecuted(d) PROVE SweepInv'
    BY <1>12 DEF DropExecuted, history,
        SweepInv, SweepTypeOK, NamesAreTraced, ApartFromDoomed, StartupIsCounted,
        OwnDatabasesExist, Known, Doomed, Generated
<1>13. ASSUME NEW d \in dropping, NEW e \in BOOLEAN, DropFails(d, e) PROVE SweepInv'
    <2>1. /\ dropping' = dropping \ {d} /\ pg' \subseteq pg /\ pg \subseteq pg' \cup {d}
          /\ failed' = (phase = "Sweeping") /\ phase # "Creating"
          /\ UNCHANGED <<abandoned, phase, prefix, names, creating, requested, owned, used, made>>
        BY <1>13 DEF DropFails, history, SweepInv, ApartFromDoomed
    <2>2. SweepTypeOK'
        <3>1. failed' \in BOOLEAN
            BY <2>1
        <3> QED
            BY <2>1, <3>1 DEF SweepInv, SweepTypeOK
    <2>3. NamesAreTraced'
        BY <2>1 DEF SweepInv, NamesAreTraced, Known, Doomed, Generated
    <2>4. ApartFromDoomed'
        BY <2>1 DEF SweepInv, ApartFromDoomed, Doomed
    <2>5. OwnDatabasesExist'
        BY <2>1 DEF SweepInv, ApartFromDoomed, Doomed, OwnDatabasesExist
    <2> QED
        BY <2>1, <2>2, <2>3, <2>4, <2>5 DEF SweepInv, StartupIsCounted
<1>14. ASSUME NEW m \in creating, CreateExecuted(m) PROVE SweepInv'
    BY <1>14, MadeIsStored DEF CreateExecuted, history,
        SweepInv, SweepTypeOK, NamesAreTraced, ApartFromDoomed, StartupIsCounted,
        OwnDatabasesExist, Known, Doomed, Generated
<1>15. ASSUME NEW m \in creating, NEW e \in BOOLEAN, CreateFails(m, e) PROVE SweepInv'
    <2>1. Stored(m) = m /\ m \in made
        BY MadeIsStored DEF SweepInv, NamesAreTraced
    <2>2. /\ creating' = creating \ {m} /\ pg \subseteq pg' /\ pg' \subseteq pg \cup {m}
          /\ failed' = (phase = "Creating")
          /\ UNCHANGED <<abandoned, phase, prefix, names, dropping, requested, owned, used, made>>
        BY <1>15, <2>1 DEF CreateFails, history
    <2>3. SweepTypeOK'
        <3>1. failed' \in BOOLEAN
            BY <2>2
        <3> QED
            BY <2>2, <3>1 DEF SweepInv, SweepTypeOK
    <2>4. NamesAreTraced'
        BY <2>1, <2>2 DEF SweepInv, NamesAreTraced, Known, Doomed, Generated
    <2>5. ApartFromDoomed' /\ OwnDatabasesExist'
        BY <2>2 DEF SweepInv, ApartFromDoomed, Doomed, OwnDatabasesExist
    <2>6. StartupIsCounted'
        BY <2>2 DEF StartupIsCounted
    <2> QED
        BY <2>3, <2>4, <2>5, <2>6 DEF SweepInv
<1>16. ASSUME NEW id \in Ids, Grow(id) PROVE SweepInv'
    <2>1. /\ phase = "Running" /\ requested' = requested /\ SubmitCreate(id)
          /\ UNCHANGED <<pg, abandoned, phase, prefix, names, dropping, failed, owned>>
        BY <1>16 DEF Grow, server
    <2>2. used' \subseteq Ids /\ NamesAreTraced' /\ ApartFromDoomed' /\ OwnDatabasesExist'
        BY <2>1, SubmitCreateKeeps
    <2> QED
        BY <2>1, <2>2 DEF SweepInv, SweepTypeOK, StartupIsCounted
<1>17. ASSUME NEW m \in owned, Retire(m) PROVE SweepInv'
    BY <1>17 DEF Retire, server, history,
        SweepInv, SweepTypeOK, NamesAreTraced, ApartFromDoomed, StartupIsCounted,
        OwnDatabasesExist, Known, Doomed, Generated
<1>18. ASSUME NEW s \in abandoned, NEW e \in BOOLEAN, AbandonedEnds(s, e) PROVE SweepInv'
    BY <1>18, MadeIsStored DEF AbandonedEnds, process,
        SweepInv, SweepTypeOK, NamesAreTraced, ApartFromDoomed, StartupIsCounted,
        OwnDatabasesExist, Known, Doomed, Generated
<1> QED
    BY <1>1, <1>2, <1>3, <1>4, <1>5, <1>6, <1>7, <1>8, <1>9, <1>10, <1>11, <1>12, <1>13, <1>14, <1>15, <1>16, <1>17, <1>18 DEF Next, Step, DropEnds, CreateEnds, StartupFails, Crash

\* The inductive invariant: names are traced to identifiers, and what is created
\* stays apart from what is dropped.
THEOREM SweepsHold == Spec => []SweepInv
BY SweepStart, SweepStep, PTL DEF Spec

\* What a process hands out exists, whatever the sweep of drop_ddl_templates_like,
\* crashed processes and their abandoned statements do.
THEOREM OwnDatabasesAreKept == Spec => []OwnDatabasesExist
<1>1. SweepInv => OwnDatabasesExist
    BY DEF SweepInv
<1> QED
    BY <1>1, SweepsHold, PTL

\* try_init completes only with every database it asked for, none counted twice.
THEOREM StartupsAreComplete == Spec => StartupIsComplete
<1>1. ASSUME SweepInv, [Next]_vars, phase = "Creating", phase' = "Running"
      PROVE  Cardinality(owned) = InitialSlots
    <2>1. CASE StartupCompletes
        <3>1. requested = InitialSlots /\ creating = {} /\ ~failed
            BY <2>1 DEF StartupCompletes
        <3>2. Cardinality(owned \cup creating) = requested
            BY <3>1, <1>1 DEF SweepInv, StartupIsCounted
        <3>3. owned \cup creating = owned
            BY <3>1
        <3> QED
            BY <3>1, <3>2, <3>3
    <2>2. CASE ~StartupCompletes
        <3>1. /\ ~(UNCHANGED vars) /\ ~(\E d \in Discriminators : StartProcess(d)) /\ ~StartRejected
              /\ ~ListLeftovers /\ ~ListingFails /\ ~(\E b \in Batches : SubmitBatch(b))
              /\ ~SweepDone /\ ~SweepGivesUp /\ ~StartupFails /\ ~Crash
            BY <1>1 DEF vars, process, StartProcess, StartRejected, ListLeftovers, ListingFails,
                SubmitBatch, SweepDone, SweepGivesUp, StartupFails, Crash, Exit
        <3>2. /\ ~(\E id \in Ids : RequestInitial(id)) /\ ~(\E id \in Ids : Grow(id))
              /\ ~(\E n \in owned : Retire(n))
              /\ ~(\E s \in abandoned, executed \in BOOLEAN : AbandonedEnds(s, executed))
              /\ ~(\E d \in dropping : DropEnds(d)) /\ ~(\E n \in creating : CreateEnds(n))
            BY <1>1 DEF RequestInitial, Grow, Retire, AbandonedEnds, process, DropEnds, DropExecuted,
                DropFails, CreateEnds, CreateExecuted, CreateFails
        <3> QED
            BY <3>1, <3>2, <2>2, <1>1 DEF Next, Step
    <2> QED
        BY <2>1, <2>2
<1>2. SweepInv /\ [Next]_vars =>
        [phase = "Creating" /\ phase' = "Running" => Cardinality(owned) = InitialSlots]_vars
    BY <1>1
<1> QED
    BY <1>2, SweepsHold, PTL DEF Spec, StartupIsComplete

----------------------------------------------------------------------------
\* What the sweep spares.

\* A template none of whose bytes is a percent sign or an escape character.
PlainTemplate == \A k \in 1 .. Len(Template) : Template[k] \notin {Percent, Escape}

TemplateSpared == Template \notin Doomed

LEMMA MadeIsNotTemplate ==
    ASSUME SweepInv
    PROVE  Template \notin made
<1> SUFFICES ASSUME Template \in made PROVE FALSE
    OBVIOUS
<1>1. PICK id \in used : Template \in Generated(id)
    BY DEF SweepInv, NamesAreTraced
<1>2. PICK d \in Discriminators : Template = GenerateDatabaseName(Truncate(Template, d), id)
    BY <1>1 DEF Generated
<1>3. id \in Ids
    BY DEF SweepInv, SweepTypeOK
<1> QED
    BY <1>2, <1>3, SweepAssumption

\* The pattern wants a byte more than the template has.
LEMMA TemplateIsNotListed ==
    ASSUME PlainTemplate
    PROVE  ~Like(Template, SweepPattern(Template))
<1> SUFFICES ASSUME Like(Template, SweepPattern(Template)) PROVE FALSE
    OBVIOUS
<1>1. Template \in Seq(Bytes) /\ Len(Template) \in Nat
    BY SweepAssumption
<1>2. Len(Template) > Len(Template)
    BY <1>1, PatternFindsLonger DEF PlainTemplate
<1> QED
    BY <1>1, <1>2

LEMMA TemplateStaysSpared ==
    ASSUME PlainTemplate
    PROVE  SweepInv /\ TemplateSpared /\ [Next]_vars => TemplateSpared'
<1> SUFFICES ASSUME SweepInv, TemplateSpared, [Next]_vars PROVE TemplateSpared'
    OBVIOUS
<1>1. CASE Doomed' \subseteq Doomed
    BY <1>1 DEF TemplateSpared
<1>2. CASE UNCHANGED vars
    BY <1>2 DEF vars, server, process, TemplateSpared, Doomed
<1>3. ASSUME NEW d \in Discriminators, StartProcess(d) PROVE TemplateSpared'
    BY <1>3 DEF StartProcess, server, TemplateSpared, Doomed
<1>4. CASE StartRejected
    BY <1>4 DEF StartRejected, server, process, TemplateSpared, Doomed
<1>5. CASE ListLeftovers
    BY <1>5, TemplateIsNotListed DEF ListLeftovers, server, TemplateSpared, Doomed
<1>6. CASE ListingFails \/ SweepDone \/ SweepGivesUp
    BY <1>6 DEF ListingFails, SweepDone, SweepGivesUp, EndSweep, server, TemplateSpared, Doomed
<1>7. ASSUME NEW b \in Batches, SubmitBatch(b) PROVE TemplateSpared'
    BY <1>7 DEF SubmitBatch, Batches, server, TemplateSpared, Doomed
<1>8. ASSUME NEW id \in Ids, RequestInitial(id) \/ Grow(id) PROVE TemplateSpared'
    BY <1>8 DEF RequestInitial, Grow, server, TemplateSpared, Doomed
<1>9. CASE StartupCompletes
    BY <1>9 DEF StartupCompletes, server, TemplateSpared, Doomed
<1>10. CASE Exit
    <2> DEFINE left == [type : {"Create"}, name : creating] \cup [type : {"Drop"}, name : dropping]
    <2>1. names' = {} /\ dropping' = {} /\ abandoned' = abandoned \cup left
        BY <1>10 DEF Exit
    <2>2. \A s \in left : s.type = "Drop" => s.name \in dropping
        OBVIOUS
    <2> HIDE DEF left
    <2>3. \A s \in abandoned' : s.type = "Drop" => s.name \in Doomed
        BY <2>1, <2>2 DEF Doomed
    <2>4. Doomed' \subseteq Doomed
        BY <2>1, <2>3 DEF Doomed
    <2> QED
        BY <2>4, <1>1
<1>11. ASSUME NEW d \in dropping, DropEnds(d) PROVE TemplateSpared'
    BY <1>11 DEF DropEnds, DropExecuted, DropFails, TemplateSpared, Doomed
<1>12. ASSUME NEW m \in creating, CreateEnds(m) PROVE TemplateSpared'
    BY <1>12 DEF CreateEnds, CreateExecuted, CreateFails, TemplateSpared, Doomed
<1>13. ASSUME NEW m \in owned, Retire(m) PROVE TemplateSpared'
    <2>1. m # Template
        BY MadeIsNotTemplate DEF SweepInv, NamesAreTraced
    <2> QED
        BY <1>13, <2>1 DEF Retire, server, TemplateSpared, Doomed
<1>14. ASSUME NEW s \in abandoned, NEW e \in BOOLEAN, AbandonedEnds(s, e) PROVE TemplateSpared'
    BY <1>14 DEF AbandonedEnds, process, TemplateSpared, Doomed
<1> QED
    BY <1>2, <1>3, <1>4, <1>5, <1>6, <1>7, <1>8, <1>9, <1>10, <1>11, <1>12, <1>13, <1>14
        DEF Next, Step, StartupFails, Crash

\* A database goes only when it is doomed.
LEMMA OnlyDoomedGo ==
    ASSUME [Next]_vars, NEW d \in pg, d \notin Doomed
    PROVE  d \in pg'
<1>1. CASE pg' = pg
    BY <1>1
<1>2. CASE pg' # pg
    <2>1. /\ ~(UNCHANGED vars) /\ ~(\E x \in Discriminators : StartProcess(x)) /\ ~StartRejected
          /\ ~ListLeftovers /\ ~ListingFails /\ ~(\E b \in Batches : SubmitBatch(b))
          /\ ~SweepDone /\ ~SweepGivesUp /\ ~StartupFails /\ ~Crash
        BY <1>2 DEF vars, server, StartProcess, StartRejected, ListLeftovers, ListingFails,
            SubmitBatch, SweepDone, SweepGivesUp, StartupFails, Crash, Exit
    <2>2. /\ ~(\E id \in Ids : RequestInitial(id)) /\ ~(\E id \in Ids : Grow(id))
          /\ ~(\E n \in owned : Retire(n)) /\ ~StartupCompletes
        BY <1>2 DEF RequestInitial, Grow, Retire, StartupCompletes, server
    <2>3. ASSUME NEW x \in dropping, DropEnds(x) PROVE d \in pg'
        BY <2>3 DEF DropEnds, DropExecuted, DropFails, Doomed
    <2>4. ASSUME NEW m \in creating, CreateEnds(m) PROVE d \in pg'
        BY <2>4 DEF CreateEnds, CreateExecuted, CreateFails
    <2>5. ASSUME NEW s \in abandoned, NEW e \in BOOLEAN, AbandonedEnds(s, e) PROVE d \in pg'
        BY <2>5 DEF AbandonedEnds, Doomed
    <2> QED
        BY <2>1, <2>2, <2>3, <2>4, <2>5 DEF Next, Step
<1> QED
    BY <1>1, <1>2

\* The sweep of drop_ddl_templates_like, the drops of a running process and the
\* statements crashed processes left behind never take the template itself,
\* whatever underscores it holds: the pattern made of it is a byte longer.
THEOREM TemplatesSurvive ==
    ASSUME PlainTemplate
    PROVE  Spec => TemplateSurvives
<1>1. Init => TemplateSpared
    BY DEF Init, TemplateSpared, Doomed
<1>2. SweepInv /\ TemplateSpared /\ [Next]_vars => TemplateSpared'
    BY TemplateStaysSpared
<1>3. TemplateSpared /\ [Next]_vars => [(Template \in pg) => (Template \in pg')]_vars
    BY OnlyDoomedGo DEF TemplateSpared
<1> QED
    BY <1>1, <1>2, <1>3, SweepsHold, PTL DEF Spec, TemplateSurvives

----------------------------------------------------------------------------
\* What the sweep finds.

\* A template that names are made of in full, and that holds no escape character.
NamedInFull ==
    /\ Len(Template) <= MaxPrefixLen
    /\ \A k \in 1 .. Len(Template) : Template[k] # Escape

\* A process that still sweeps has made nothing; whatever exists of those before
\* it is listed, being dropped or late.  What it creates is its own.
SweepCovers ==
    /\ phase \in {"Listing", "Sweeping"} => mine = {}
    /\ creating \cup owned \subseteq mine
    /\ phase = "Sweeping" /\ ~failed => pg \cap made \subseteq late \cup names \cup dropping
    /\ LeftoversAreSwept

LEMMA MadeIsListed ==
    ASSUME SweepInv, NamedInFull, NEW n \in made
    PROVE  Like(n, SweepPattern(Template))
<1>1. PICK id \in used : n \in Generated(id)
    BY DEF SweepInv, NamesAreTraced
<1>2. PICK d \in Discriminators : n = GenerateDatabaseName(Truncate(Template, d), id)
    BY <1>1 DEF Generated
<1>3. id \in Seq(Bytes) /\ Template \in Seq(Bytes) /\ Underscore \in Bytes
    BY SweepAssumption, NameAssumption DEF SweepInv, SweepTypeOK
<1>4. Truncate(Template, d) = Template
    BY DEF NamedInFull, Truncate
<1>5. Like(GenerateDatabaseName(Template, id), SweepPattern(Template))
    BY <1>3, PatternFindsOwn DEF NamedInFull
<1> QED
    BY <1>2, <1>4, <1>5

LEMMA SweepGoesOnCovering ==
    ASSUME NamedInFull
    PROVE  SweepInv /\ SweepCovers /\ [Next]_vars => SweepCovers'
<1> SUFFICES ASSUME SweepInv, SweepCovers, [Next]_vars PROVE SweepCovers'
    OBVIOUS
<1> USE DEF SweepCovers, LeftoversAreSwept
<1>1. CASE UNCHANGED vars
    BY <1>1 DEF vars, server, process, history
<1>2. ASSUME NEW d \in Discriminators, StartProcess(d) PROVE SweepCovers'
    BY <1>2 DEF StartProcess, server, SweepInv, ApartFromDoomed
<1>3. CASE StartRejected
    BY <1>3 DEF StartRejected, server, process, history
<1>4. CASE ListLeftovers
    <2>1. pg \cap made \subseteq names'
        BY <1>4, MadeIsListed DEF ListLeftovers
    <2> QED
        BY <1>4, <2>1 DEF ListLeftovers, server
<1>5. CASE ListingFails
    BY <1>5 DEF ListingFails, EndSweep, server
<1>6. ASSUME NEW b \in Batches, SubmitBatch(b) PROVE SweepCovers'
    BY <1>6 DEF SubmitBatch, Batches, server, history
<1>7. CASE SweepDone
    BY <1>7 DEF SweepDone, EndSweep, server
<1>8. CASE SweepGivesUp
    BY <1>8 DEF SweepGivesUp, EndSweep, server
<1>9. ASSUME NEW id \in Ids, RequestInitial(id) PROVE SweepCovers'
    BY <1>9 DEF RequestInitial, SubmitCreate, server
<1>10. CASE StartupCompletes
    BY <1>10 DEF StartupCompletes, server, history
<1>11. CASE Exit
    BY <1>11 DEF Exit, history
<1>12. ASSUME NEW d \in dropping, DropExecuted(d) PROVE SweepCovers'
    BY <1>12 DEF DropExecuted, history
<1>13. ASSUME NEW d \in dropping, NEW e \in BOOLEAN, DropFails(d, e) PROVE SweepCovers'
    <2>1. /\ pg' \subseteq pg /\ (phase = "Sweeping" => failed')
          /\ UNCHANGED <<phase, creating, owned, swept, made, mine, late>>
        BY <1>13 DEF DropFails, history
    <2> QED
        BY <2>1
<1>14. ASSUME NEW m \in creating, CreateExecuted(m) PROVE SweepCovers'
    <2>1. Stored(m) = m /\ phase # "Sweeping"
        BY MadeIsStored DEF SweepInv, NamesAreTraced, ApartFromDoomed
    <2> QED
        BY <1>14, <2>1 DEF CreateExecuted, history
<1>15. ASSUME NEW m \in creating, NEW e \in BOOLEAN, CreateFails(m, e) PROVE SweepCovers'
    <2>1. Stored(m) = m /\ phase # "Sweeping" /\ phase # "Listing"
        BY MadeIsStored DEF SweepInv, NamesAreTraced, ApartFromDoomed
    <2>2. /\ creating' = creating \ {m} /\ pg' \subseteq pg \cup {m}
          /\ UNCHANGED <<phase, owned, swept, made, mine, late>>
        BY <1>15, <2>1 DEF CreateFails, history
    <2> QED
        BY <2>1, <2>2
<1>16. ASSUME NEW id \in Ids, Grow(id) PROVE SweepCovers'
    BY <1>16 DEF Grow, SubmitCreate, server
<1>17. ASSUME NEW m \in owned, Retire(m) PROVE SweepCovers'
    BY <1>17 DEF Retire, server, history
<1>18. ASSUME NEW s \in abandoned, NEW e \in BOOLEAN, AbandonedEnds(s, e) PROVE SweepCovers'
    <2>1. /\ pg' \subseteq pg \cup late' /\ late \subseteq late'
          /\ UNCHANGED <<phase, names, dropping, creating, failed, owned, swept, made, mine>>
        BY <1>18 DEF AbandonedEnds, process
    <2> QED
        BY <2>1
<1> QED
    BY <1>1, <1>2, <1>3, <1>4, <1>5, <1>6, <1>7, <1>8, <1>9, <1>10, <1>11, <1>12, <1>13, <1>14,
        <1>15, <1>16, <1>17, <1>18 DEF Next, Step, DropEnds, CreateEnds, StartupFails, Crash

\* A sweep that reported success has left nothing of earlier processes, whatever
\* other databases exist, in whichever batches it drops and however the
\* statements of crashed processes end: for every template short enough not to be
\* truncated.  For a longer one it fails, as the run about truncated leftovers
\* shows.
THEOREM LeftoversGo ==
    ASSUME NamedInFull
    PROVE  Spec => []LeftoversAreSwept
<1>1. Init => SweepCovers
    BY DEF Init, SweepCovers, LeftoversAreSwept
<1>2. SweepInv /\ SweepCovers /\ [Next]_vars => SweepCovers'
    BY SweepGoesOnCovering
<1>3. SweepCovers => LeftoversAreSwept
    BY DEF SweepCovers
<1> QED
    BY <1>1, <1>2, <1>3, SweepsHold, PTL DEF Spec

=============================================================================
