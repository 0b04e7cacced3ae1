------------------------------ MODULE Startup_proof ------------------------------
(***************************************************************************)
(* Proofs about the configuration of a process: for any lines, in any      *)
(* order, the table that LoadConfigFile builds says what the nesting of    *)
(* the lines says, and the settings that are built from it can be used.    *)
(***************************************************************************)
EXTENDS Startup, FiniteSetTheorems, SequenceTheorems, TLAPS

-----------------------------------------------------------------------------
(* Sequences *)

\* Induction over the naturals, for a set of them.
LEMMA SetInduction ==
    ASSUME NEW P \in SUBSET Nat, 0 \in P, \A n \in P : n + 1 \in P
    PROVE  P = Nat
<1> DEFINE R == OpToRel(<, Nat)
<1> SUFFICES ASSUME Nat \ P # {} PROVE FALSE
  OBVIOUS
<1>1. PICK x \in Nat \ P : \A y \in Nat \ P : ~(<<y, x>> \in R)
  <2>1. IsWellFoundedOn(R, Nat) /\ Nat \ P \subseteq Nat
    BY NatLessThanWellFounded
  <2> HIDE DEF R
  <2> QED BY <2>1, WFMin
<1>2. x - 1 \in Nat \ P /\ x - 1 < x
  OBVIOUS
<1> QED BY <1>1, <1>2 DEF OpToRel

\* What FlattenSeq does at position i, and its table of partial results.
Step(s, g, i) == IF i = 1 THEN s[i] ELSE g[i - 1] \o s[i]
Partial(s, n, g) == \A i \in 1..n : g[i] = Step(s, g, i)

\* One step stays in the type.
LEMMA StepType ==
    ASSUME NEW S, NEW s \in Seq(Seq(S)), NEW g, NEW i \in 1..Len(s),
           i # 1 => g[i - 1] \in Seq(S)
    PROVE  Step(s, g, i) \in Seq(S)
<1>1. s[i] \in Seq(S)
  OBVIOUS
<1>2. CASE i = 1
  BY <1>1, <1>2 DEF Step
<1>3. CASE i # 1
  <2>1. g[i - 1] \o s[i] \in Seq(S)
    BY <1>1, <1>3, ConcatProperties
  <2> QED BY <2>1, <1>3 DEF Step
<1> QED BY <1>2, <1>3

\* The recursion of FlattenSeq has a solution up to every position.
LEMMA PartialExists ==
    ASSUME NEW S, NEW s \in Seq(Seq(S))
    PROVE  \E g \in [1..Len(s) -> Seq(S)] : Partial(s, Len(s), g)
<1> DEFINE Has(n) == n <= Len(s) => \E g \in [1..n -> Seq(S)] : Partial(s, n, g)
           P == {n \in Nat : Has(n)}
<1>1. Has(0)
  <2>1. [i \in 1..0 |-> <<>>] \in [1..0 -> Seq(S)]
    OBVIOUS
  <2>2. Partial(s, 0, [i \in 1..0 |-> <<>>])
    BY DEF Partial
  <2> QED BY <2>1, <2>2
<1>2. ASSUME NEW n \in Nat, Has(n) PROVE Has(n + 1)
  <2> SUFFICES ASSUME n + 1 <= Len(s)
               PROVE  \E h \in [1..(n + 1) -> Seq(S)] : Partial(s, n + 1, h)
    OBVIOUS
  <2>1. PICK g \in [1..n -> Seq(S)] : Partial(s, n, g)
    BY <1>2
  <2> DEFINE h == [i \in 1..(n + 1) |-> IF i <= n THEN g[i] ELSE Step(s, g, i)]
  <2>2. Step(s, g, n + 1) \in Seq(S)
    <3>1. n + 1 \in 1..Len(s) /\ (n + 1) - 1 = n /\ (n + 1 # 1 => g[n] \in Seq(S))
      OBVIOUS
    <3> QED BY <3>1, StepType
  <2>3. h \in [1..(n + 1) -> Seq(S)]
    BY <2>2
  <2>4. ASSUME NEW i \in 1..(n + 1) PROVE h[i] = Step(s, h, i)
    <3>1. h[i] = Step(s, g, i)
      BY <2>1 DEF Partial
    <3>2. i # 1 => h[i - 1] = g[i - 1]
      OBVIOUS
    <3> HIDE DEF h
    <3> QED BY <3>1, <3>2 DEF Step
  <2>5. Partial(s, n + 1, h)
    BY <2>4 DEF Partial
  <2> QED BY <2>3, <2>5
<1> HIDE DEF Has
<1>3. P = Nat
  <2>1. P \in SUBSET Nat /\ 0 \in P /\ \A n \in P : n + 1 \in P
    BY <1>1, <1>2
  <2> HIDE DEF P
  <2> QED BY <2>1, SetInduction
<1>4. Has(Len(s))
  BY <1>3
<1> QED BY <1>4 DEF Has

\* Any solution of the recursion has sequences as its values.
LEMMA PartialType ==
    ASSUME NEW S, NEW s \in Seq(Seq(S)), NEW g, Partial(s, Len(s), g)
    PROVE  \A i \in 1..Len(s) : g[i] \in Seq(S)
<1> DEFINE P == {n \in Nat : n \in 1..Len(s) => g[n] \in Seq(S)}
<1>1. ASSUME NEW n \in P PROVE n + 1 \in P
  <2> SUFFICES ASSUME n + 1 \in 1..Len(s) PROVE g[n + 1] \in Seq(S)
    OBVIOUS
  <2>1. n + 1 # 1 => g[(n + 1) - 1] \in Seq(S)
    OBVIOUS
  <2>2. Step(s, g, n + 1) \in Seq(S)
    BY <2>1, StepType
  <2> QED BY <2>2 DEF Partial
<1>2. P \in SUBSET Nat /\ 0 \in P
  OBVIOUS
<1>3. P = Nat
  <2> HIDE DEF P
  <2> QED BY <1>1, <1>2, SetInduction
<1> QED BY <1>3

\* FlattenSeq of names is a name.
LEMMA FlattenType ==
    ASSUME NEW S, NEW s \in Seq(Seq(S))
    PROVE  FlattenSeq(s) \in Seq(S)
<1> DEFINE Solves(g) == g = [i \in 1..Len(s) |-> IF i = 1 THEN s[i] ELSE g[i - 1] \o s[i]]
           flatten == CHOOSE g : Solves(g)
<1>1. CASE Len(s) = 0
  BY <1>1 DEF FlattenSeq
<1>2. CASE Len(s) # 0
  <2>1. PICK g \in [1..Len(s) -> Seq(S)] : Partial(s, Len(s), g)
    BY PartialExists
  <2>2. Solves(g)
    BY <2>1 DEF Partial, Step
  <2>3. Solves(flatten)
    <3> HIDE DEF Solves
    <3> QED BY <2>2
  <2>4. Partial(s, Len(s), flatten)
    <3> HIDE DEF flatten
    <3> QED BY <2>3 DEF Partial, Step
  <2>5. flatten[Len(s)] \in Seq(S)
    <3> HIDE DEF flatten
    <3> QED BY <1>2, <2>4, PartialType
  <2>6. FlattenSeq(s) = flatten[Len(s)]
    BY <1>2 DEF FlattenSeq
  <2> HIDE DEF flatten
  <2> QED BY <2>5, <2>6
<1> QED BY <1>1, <1>2
-----------------------------------------------------------------------------
(* Sets of line numbers, in the order of the file *)

\* e lists the m members of S, in increasing order.
Lists(e, m, S) ==
    /\ m \in Nat /\ e \in [1..m -> S]
    /\ \A a, b \in 1..m : a < b => e[a] < e[b]
    /\ \A j \in S : \E a \in 1..m : e[a] = j

\* A set has as many members as its list.
LEMMA ListCardinality ==
    ASSUME NEW S \in SUBSET Nat, NEW m \in Nat, NEW e \in [1..m -> S], Lists(e, m, S)
    PROVE  Cardinality(S) = m
<1>1. \A a \in 1..m : e[a] \in Nat
  OBVIOUS
<1>2. \A a, b \in 1..m : e[a] = e[b] => a = b
  <2> SUFFICES ASSUME NEW a \in 1..m, NEW b \in 1..m, e[a] = e[b], a # b PROVE FALSE
    OBVIOUS
  <2>1. e[a] \in Nat /\ e[b] \in Nat /\ (a < b \/ b < a)
    BY <1>1
  <2> QED BY <2>1 DEF Lists
<1>3. e \in Bijection(1..m, S)
  BY <1>1, <1>2 DEF Lists, Bijection, Injection, Surjection, IsInjective
<1> QED BY <1>1, <1>3, FS_CountingElements DEF ExistsBijection

\* A set that has the members at the first n places, and no other, has them as its list.
LEMMA ListSub ==
    ASSUME NEW S \in SUBSET Nat, NEW m \in Nat, NEW e \in [1..m -> S], Lists(e, m, S),
           NEW n \in 0..m, NEW T \in SUBSET S, \A a \in 1..m : e[a] \in T <=> a <= n
    PROVE  Lists([a \in 1..n |-> e[a]], n, T)
<1> DEFINE f == [a \in 1..n |-> e[a]]
<1>1. n \in Nat /\ f \in [1..n -> T]
  OBVIOUS
<1>2. \A a, b \in 1..n : a < b => f[a] < f[b]
  BY DEF Lists
<1>3. \A j \in T : \E a \in 1..n : f[a] = j
  BY DEF Lists
<1> HIDE DEF f
<1>4. Lists(f, n, T)
  BY <1>1, <1>2, <1>3 DEF Lists
<1> QED BY <1>4 DEF f

\* A later line comes last.
LEMMA ListAppend ==
    ASSUME NEW S \in SUBSET Nat, NEW m \in Nat, NEW e \in [1..m -> S], Lists(e, m, S),
           NEW x \in Nat, \A j \in S : j < x
    PROVE  Lists([a \in 1..(m + 1) |-> IF a <= m THEN e[a] ELSE x], m + 1, S \cup {x})
<1> DEFINE f == [a \in 1..(m + 1) |-> IF a <= m THEN e[a] ELSE x]
<1>1. m + 1 \in Nat /\ f \in [1..(m + 1) -> S \cup {x}]
  OBVIOUS
<1>2. \A a, b \in 1..(m + 1) : a < b => f[a] < f[b]
  <2> SUFFICES ASSUME NEW a \in 1..(m + 1), NEW b \in 1..(m + 1), a < b PROVE f[a] < f[b]
    OBVIOUS
  <2>1. CASE b <= m
    <3>1. a \in 1..m /\ b \in 1..m
      BY <2>1
    <3>2. e[a] < e[b] /\ f[a] = e[a] /\ f[b] = e[b]
      BY <3>1 DEF Lists
    <3> QED BY <3>2
  <2>2. CASE b = m + 1
    <3>1. a \in 1..m /\ f[a] = e[a] /\ f[b] = x
      BY <2>2
    <3>2. e[a] \in S
      BY <3>1
    <3> QED BY <3>1, <3>2
  <2> QED BY <2>1, <2>2
<1>3. \A j \in S \cup {x} : \E a \in 1..(m + 1) : f[a] = j
  <2> SUFFICES ASSUME NEW j \in S \cup {x} PROVE \E a \in 1..(m + 1) : f[a] = j
    OBVIOUS
  <2>1. CASE j \in S
    <3>1. PICK a \in 1..m : e[a] = j
      BY <2>1 DEF Lists
    <3>2. a \in 1..(m + 1) /\ f[a] = j
      BY <3>1
    <3> QED BY <3>2
  <2>2. CASE j = x
    <3>1. m + 1 \in 1..(m + 1) /\ f[m + 1] = x
      OBVIOUS
    <3> QED BY <3>1, <2>2
  <2> QED BY <2>1, <2>2
<1> HIDE DEF f
<1>4. Lists(f, m + 1, S \cup {x})
  BY <1>1, <1>2, <1>3 DEF Lists
<1> QED BY <1>4 DEF f

\* Up to the member at place n there are n members.
LEMMA ListPrefix ==
    ASSUME NEW S \in SUBSET Nat, NEW m \in Nat, NEW e \in [1..m -> S], Lists(e, m, S),
           NEW n \in 1..m
    PROVE  Cardinality({k \in S : k <= e[n]}) = n
<1>1. /\ n \in Nat
      /\ \A a \in 1..m : e[a] \in Nat
  <2>1. \A a \in 1..m : e[a] \in Nat
    OBVIOUS
  <2> QED BY <2>1
<1> DEFINE T == {k \in S : k <= e[n]}
           f == [a \in 1..n |-> e[a]]
<1>2. \A a \in 1..m : e[a] \in T <=> a <= n
  <2> SUFFICES ASSUME NEW a \in 1..m PROVE e[a] \in T <=> a <= n
    OBVIOUS
  <2>1. CASE a < n
    BY <1>1, <2>1 DEF Lists
  <2>2. CASE a = n
    BY <1>1, <2>2
  <2>3. CASE n < a
    BY <1>1, <2>3 DEF Lists
  <2> QED BY <1>1, <2>1, <2>2, <2>3
<1>3. T \in SUBSET Nat /\ T \in SUBSET S
  OBVIOUS
<1>4. n \in 0..m
  BY <1>1
<1>5. f \in [1..n -> T]
  <2> HIDE DEF T
  <2>1. \A a \in 1..n : a \in 1..m /\ e[a] \in T
    BY <1>1, <1>2
  <2> QED BY <2>1
<1> HIDE DEF T
<1>6. Lists(f, n, T)
  BY <1>2, <1>3, <1>4, ListSub
<1> HIDE DEF f
<1>7. Cardinality(T) = n
  BY <1>1, <1>3, <1>5, <1>6, ListCardinality
<1> QED BY <1>7 DEF T

\* Counting finds the member at place n.
LEMMA ListNth ==
    ASSUME NEW S \in SUBSET Nat, NEW m \in Nat, NEW e \in [1..m -> S], Lists(e, m, S),
           NEW n \in 1..m
    PROVE  (CHOOSE j \in S : Cardinality({k \in S : k <= j}) = n) = e[n]
<1>1. e[n] \in S /\ Cardinality({k \in S : k <= e[n]}) = n
  BY ListPrefix DEF Lists
<1>2. ASSUME NEW j \in S, Cardinality({k \in S : k <= j}) = n PROVE j = e[n]
  <2>1. PICK a \in 1..m : e[a] = j
    BY DEF Lists
  <2>2. Cardinality({k \in S : k <= e[a]}) = a
    BY ListPrefix
  <2> QED BY <1>2, <2>1, <2>2
<1> QED BY <1>1, <1>2
\* A set of naturals with a bound has a maximum.
LEMMA MaxExists ==
    ASSUME NEW N \in Nat, NEW S \in SUBSET (0..N), S # {}
    PROVE  Max(S) \in S /\ \A y \in S : y <= Max(S)
<1> DEFINE T == {n \in Nat : N - n \in S}
           R == OpToRel(<, Nat)
<1>1. PICK x \in T : \A y \in T : ~(<<y, x>> \in R)
  <2>1. IsWellFoundedOn(R, Nat) /\ T \subseteq Nat
    BY NatLessThanWellFounded
  <2>2. T # {}
    <3>1. PICK y \in S : TRUE
      OBVIOUS
    <3>2. N - y \in Nat /\ N - (N - y) = y
      OBVIOUS
    <3> QED BY <3>2
  <2> HIDE DEF R, T
  <2> QED BY <2>1, <2>2, WFMin
<1>2. \A y \in S : y <= N - x
  <2> SUFFICES ASSUME NEW y \in S, y > N - x PROVE FALSE
    OBVIOUS
  <2>1. N - y \in T /\ N - y < x
    <3>1. N - y \in Nat /\ N - (N - y) = y
      OBVIOUS
    <3> QED BY <3>1
  <2> QED BY <1>1, <2>1 DEF OpToRel
<1>3. N - x \in S /\ \A y \in S : N - x >= y
  BY <1>2
<1> HIDE DEF T
<1>4. Max(S) \in S /\ \A y \in S : Max(S) >= y
  BY <1>3 DEF Max
<1> QED BY <1>4
-----------------------------------------------------------------------------
(* The lines of a file *)

\* Content, Entries, Enclosing and PathOf for any file, so that a file can be compared with
\* the same file and one line more.
ContentIn(f) == {i \in DOMAIN f : f[i] # Ignored}
EntriesIn(f) == {i \in ContentIn(f) : f[i].value # Empty}
EnclosingIn(f, i) ==
    {j \in ContentIn(f) \ EntriesIn(f) : j < i /\ \A k \in ContentIn(f) :
        k \in (j + 1)..i => f[k].indent > f[j].indent}
Nth(S, n) == CHOOSE j \in S : Cardinality({k \in S : k <= j}) = n
PathIn(f, i) ==
    FlattenSeq([n \in 1..Cardinality(EnclosingIn(f, i)) |-> f[Nth(EnclosingIn(f, i), n)].key])
        \o f[i].key

\* The sections that the end of the file is in.
OpenIn(f) ==
    {j \in ContentIn(f) \ EntriesIn(f) : \A k \in ContentIn(f) : k > j => f[k].indent > f[j].indent}

\* What the stack keeps of a section.
Heading(f, j) == [indent |-> f[j].indent, key |-> f[j].key]

SectionType == [indent : Nat, key : Seq(STRING)]

\* Every variable of the reader stays in its type.
FileTypes ==
    /\ \A l \in page : l \in Lines
    /\ lines \in Seq(Lines) /\ sections \in Seq(SectionType)
    /\ config_map \in [DOMAIN config_map -> Values \ {Empty}]
    /\ \A p \in DOMAIN config_map : p \in Seq(STRING)

\* The stack holds the open sections, in the order of the file.
Stacked ==
    \E e \in [1..Len(sections) -> OpenIn(lines)] :
        /\ Lists(e, Len(sections), OpenIn(lines))
        /\ \A n \in 1..Len(sections) :
             sections[n] = Heading(lines, e[n])

\* The sections around an entry can be listed.
Nested ==
    \A i \in EntriesIn(lines) :
        \E m \in Nat : \E e \in [1..m -> EnclosingIn(lines, i)] : Lists(e, m, EnclosingIn(lines, i))

Table ==
    /\ DOMAIN config_map = {PathIn(lines, i) : i \in EntriesIn(lines)}
    /\ \A i \in EntriesIn(lines) :
         (\A j \in EntriesIn(lines) : j > i => PathIn(lines, j) # PathIn(lines, i)) =>
             config_map[PathIn(lines, i)] = lines[i].value

FileInv == FileTypes /\ Stacked /\ Nested /\ Table
\* Line numbers are naturals, and a line with content has an indent, a key and a value.
LEMMA LineFacts ==
    ASSUME NEW f \in Seq(Lines)
    PROVE  /\ DOMAIN f = 1..Len(f) /\ Len(f) \in Nat
           /\ \A i \in ContentIn(f) :
                /\ i \in 1..Len(f)
                /\ f[i] \in [kind : {"line"}, indent : Nat, key : Seq(STRING), value : Values]
           /\ ContentIn(f) \in SUBSET Nat
<1>1. DOMAIN f = 1..Len(f) /\ Len(f) \in Nat
  OBVIOUS
<1>2. ASSUME NEW i \in ContentIn(f)
      PROVE  /\ i \in 1..Len(f)
             /\ f[i] \in [kind : {"line"}, indent : Nat, key : Seq(STRING), value : Values]
  <2>1. i \in 1..Len(f) /\ f[i] \in Lines /\ f[i] # Ignored
    BY <1>1 DEF ContentIn
  <2> QED BY <2>1 DEF Lines
<1>3. ContentIn(f) \in SUBSET Nat
  BY <1>1 DEF ContentIn
<1> QED BY <1>1, <1>2, <1>3

\* The path of a line, from a list of the sections around it.
LEMMA PathFromList ==
    ASSUME NEW f \in Seq(Lines), NEW i, NEW m \in Nat, NEW e \in [1..m -> EnclosingIn(f, i)],
           Lists(e, m, EnclosingIn(f, i))
    PROVE  PathIn(f, i) = FlattenSeq([n \in 1..m |-> f[e[n]].key]) \o f[i].key
<1> DEFINE S == EnclosingIn(f, i)
<1>1. S \in SUBSET Nat
  BY LineFacts DEF EnclosingIn
<1> HIDE DEF S
<1>2. Cardinality(S) = m
  BY <1>1, ListCardinality DEF S
<1>3. \A n \in 1..m : Nth(S, n) = e[n]
  BY <1>1, ListNth DEF S, Nth
<1>4. [n \in 1..Cardinality(S) |-> f[Nth(S, n)].key] = [n \in 1..m |-> f[e[n]].key]
  BY <1>2, <1>3
<1>5. PathIn(f, i) = FlattenSeq([n \in 1..Cardinality(S) |-> f[Nth(S, n)].key]) \o f[i].key
  BY DEF PathIn, S
<1> QED BY <1>4, <1>5

\* One line more does not change the lines there are.
LEMMA AppendLine ==
    ASSUME NEW f \in Seq(Lines), NEW l \in Lines
    PROVE  /\ Append(f, l) \in Seq(Lines) /\ Len(Append(f, l)) = Len(f) + 1
           /\ Append(f, l)[Len(f) + 1] = l
           /\ \A i \in 1..Len(f) : Append(f, l)[i] = f[i]
OBVIOUS

\* An Ignored line changes nothing that is content.
LEMMA AppendIgnored ==
    ASSUME NEW f \in Seq(Lines)
    PROVE  /\ ContentIn(Append(f, Ignored)) = ContentIn(f)
           /\ EntriesIn(Append(f, Ignored)) = EntriesIn(f)
           /\ OpenIn(Append(f, Ignored)) = OpenIn(f)
           /\ \A i : EnclosingIn(Append(f, Ignored), i) = EnclosingIn(f, i)
           /\ \A i \in ContentIn(f) : Append(f, Ignored)[i] = f[i]
<1> DEFINE g == Append(f, Ignored)
<1>0. Ignored \in Lines
  BY DEF Lines
<1>1. /\ g \in Seq(Lines) /\ Len(g) = Len(f) + 1 /\ g[Len(f) + 1] = Ignored
      /\ \A i \in 1..Len(f) : g[i] = f[i]
  BY <1>0, AppendLine
<1> HIDE DEF g
<1>2. DOMAIN f = 1..Len(f) /\ DOMAIN g = 1..(Len(f) + 1) /\ Len(f) \in Nat
  BY <1>1
<1>3. ContentIn(g) = ContentIn(f)
  BY <1>1, <1>2 DEF ContentIn
<1>4. \A i \in ContentIn(f) : g[i] = f[i]
  BY <1>1, <1>2 DEF ContentIn
<1>5. EntriesIn(g) = EntriesIn(f)
  BY <1>3, <1>4 DEF EntriesIn
<1>6. OpenIn(g) = OpenIn(f)
  BY <1>3, <1>4, <1>5 DEF OpenIn
<1>7. \A i : EnclosingIn(g, i) = EnclosingIn(f, i)
  BY <1>3, <1>4, <1>5 DEF EnclosingIn
<1> QED BY <1>3, <1>4, <1>5, <1>6, <1>7 DEF g

\* The sections that are open and shallower than a line.
Around(f, indent) == {j \in OpenIn(f) : f[j].indent < indent}

\* A line with content is in the open sections that are shallower, and those stay open.
LEMMA AppendContent ==
    ASSUME NEW f \in Seq(Lines), NEW l \in Lines, l # Ignored
    PROVE  LET g == Append(f, l)  N == Len(f) + 1 IN
           /\ ContentIn(g) = ContentIn(f) \cup {N}
           /\ EntriesIn(g) = IF l.value = Empty THEN EntriesIn(f) ELSE EntriesIn(f) \cup {N}
           /\ EnclosingIn(g, N) = Around(f, l.indent)
           /\ OpenIn(g) = IF l.value = Empty THEN Around(f, l.indent) \cup {N}
                          ELSE Around(f, l.indent)
           /\ \A i \in 1..Len(f) : EnclosingIn(g, i) = EnclosingIn(f, i)
<1> DEFINE g == Append(f, l)  N == Len(f) + 1
<1>1. /\ g \in Seq(Lines) /\ Len(g) = N /\ g[N] = l
      /\ \A i \in 1..Len(f) : g[i] = f[i]
  BY AppendLine
<1> HIDE DEF g
<1>2. DOMAIN f = 1..Len(f) /\ DOMAIN g = 1..N /\ Len(f) \in Nat
  BY <1>1
<1>3. ContentIn(g) = ContentIn(f) \cup {N}
  BY <1>1, <1>2 DEF ContentIn
<1>4. \A i \in ContentIn(f) : g[i] = f[i] /\ i \in 1..Len(f) /\ i # N
  BY <1>1, <1>2 DEF ContentIn
<1>5. EntriesIn(g) = IF l.value = Empty THEN EntriesIn(f) ELSE EntriesIn(f) \cup {N}
  BY <1>1, <1>3, <1>4 DEF EntriesIn
<1>6. ContentIn(f) \ EntriesIn(f) = (ContentIn(g) \ EntriesIn(g)) \ {N}
  BY <1>3, <1>4, <1>5 DEF EntriesIn
<1> DEFINE Heads(h) == ContentIn(h) \ EntriesIn(h)
<1>7. /\ N \notin Heads(f)
      /\ N \in Heads(g) <=> l.value = Empty
      /\ \A j : j \in Heads(f) <=> j \in Heads(g) /\ j # N
      /\ \A j \in Heads(f) : g[j] = f[j] /\ j \in 1..Len(f)
  BY <1>1, <1>3, <1>4, <1>5, <1>6 DEF EntriesIn
<1>8. \A h : OpenIn(h) = {j \in Heads(h) : \A k \in ContentIn(h) : k > j => h[k].indent > h[j].indent}
  BY DEF OpenIn
<1>9. \A h, i : EnclosingIn(h, i) = {j \in Heads(h) : j < i /\ \A k \in ContentIn(h) :
                                        k \in (j + 1)..i => h[k].indent > h[j].indent}
  BY DEF EnclosingIn
<1> HIDE DEF Heads
<1>10. l.indent \in Nat /\ \A j \in ContentIn(f) : f[j].indent \in Nat
  BY LineFacts DEF Lines
<1>11. \A j : j \in Around(f, l.indent) <=>
           /\ j \in Heads(f) /\ f[j].indent < l.indent
           /\ \A k \in ContentIn(f) : k > j => f[k].indent > f[j].indent
  BY <1>8 DEF Around
<1>12. EnclosingIn(g, N) = Around(f, l.indent)
  <2>1. ASSUME NEW j PROVE j \in EnclosingIn(g, N) <=> j \in Around(f, l.indent)
    <3>1. CASE j \notin Heads(f)
      BY <3>1, <1>2, <1>7, <1>9, <1>11
    <3>2. CASE j \in Heads(f)
      <4>1. g[j] = f[j] /\ j \in 1..Len(f) /\ j < N /\ N \in (j + 1)..N /\ j \in Heads(g)
        BY <3>2, <1>2, <1>7
      <4>2. f[j].indent \in Nat
        BY <3>2, <1>10 DEF Heads
      <4>3. \A k \in ContentIn(f) : k \in (j + 1)..N <=> k > j
        BY <1>2, <1>4, <4>1
      <4>4. j \in EnclosingIn(g, N) <=>
               /\ l.indent > f[j].indent
               /\ \A k \in ContentIn(f) : k > j => f[k].indent > f[j].indent
        BY <1>1, <1>3, <1>4, <1>9, <4>1, <4>3
      <4> QED BY <1>10, <1>11, <3>2, <4>2, <4>4
    <3> QED BY <3>1, <3>2
  <2> QED BY <2>1
<1>13. OpenIn(g) = IF l.value = Empty THEN Around(f, l.indent) \cup {N} ELSE Around(f, l.indent)
  <2>1. ASSUME NEW j, j # N PROVE j \in OpenIn(g) <=> j \in Around(f, l.indent)
    <3>1. CASE j \notin Heads(f)
      BY <2>1, <3>1, <1>7, <1>8, <1>11
    <3>2. CASE j \in Heads(f)
      <4>1. g[j] = f[j] /\ j \in 1..Len(f) /\ N > j /\ j \in Heads(g)
        BY <3>2, <1>2, <1>7
      <4>2. f[j].indent \in Nat
        BY <3>2, <1>10 DEF Heads
      <4>3. j \in OpenIn(g) <=>
               /\ l.indent > f[j].indent
               /\ \A k \in ContentIn(f) : k > j => f[k].indent > f[j].indent
        BY <1>1, <1>3, <1>4, <1>8, <4>1
      <4> QED BY <1>10, <1>11, <3>2, <4>2, <4>3
    <3> QED BY <3>1, <3>2
  <2>2. N \in OpenIn(g) <=> l.value = Empty
    <3>1. \A k \in ContentIn(g) : ~(k > N)
      BY <1>2, <1>3, <1>4
    <3> QED BY <3>1, <1>7, <1>8
  <2>3. N \notin Around(f, l.indent)
    BY <1>7, <1>11
  <2> HIDE DEF N
  <2>4. CASE l.value = Empty
    <3>1. OpenIn(g) = Around(f, l.indent) \cup {N}
      BY <2>1, <2>2, <2>4
    <3> QED BY <3>1, <2>4
  <2>5. CASE l.value # Empty
    <3>1. OpenIn(g) = Around(f, l.indent)
      BY <2>1, <2>2, <2>3, <2>5
    <3> QED BY <3>1, <2>5
  <2> QED BY <2>4, <2>5
<1>14. ASSUME NEW i \in 1..Len(f) PROVE EnclosingIn(g, i) = EnclosingIn(f, i)
  <2>1. ASSUME NEW j PROVE j \in EnclosingIn(g, i) <=> j \in EnclosingIn(f, i)
    <3>1. CASE j \notin Heads(f)
      BY <3>1, <1>2, <1>7, <1>9
    <3>2. CASE j \in Heads(f)
      <4>1. g[j] = f[j] /\ j \in 1..Len(f) /\ j \in Heads(g) /\ N \notin (j + 1)..i
        BY <3>2, <1>2, <1>7
      <4> QED BY <1>3, <1>4, <1>9, <3>2, <4>1
    <3> QED BY <3>1, <3>2
  <2> QED BY <2>1
<1> QED BY <1>3, <1>5, <1>12, <1>13, <1>14 DEF g
\* The sections around a line of f, and its path, are the same with one line more.
LEMMA PathKept ==
    ASSUME NEW f \in Seq(Lines), NEW l \in Lines, NEW i \in EntriesIn(f), NEW m \in Nat,
           NEW e \in [1..m -> EnclosingIn(f, i)], Lists(e, m, EnclosingIn(f, i))
    PROVE  /\ EnclosingIn(Append(f, l), i) = EnclosingIn(f, i)
           /\ Append(f, l)[i] = f[i]
           /\ PathIn(Append(f, l), i) = PathIn(f, i)
<1> DEFINE g == Append(f, l)
<1>1. g \in Seq(Lines) /\ \A k \in 1..Len(f) : g[k] = f[k]
  BY AppendLine
<1>2. i \in 1..Len(f) /\ EnclosingIn(f, i) \subseteq 1..Len(f)
  BY LineFacts DEF EntriesIn, EnclosingIn
<1>3. EnclosingIn(g, i) = EnclosingIn(f, i)
  <2>1. CASE l = Ignored
    BY <2>1, AppendIgnored
  <2>2. CASE l # Ignored
    BY <1>2, <2>2, AppendContent
  <2> QED BY <2>1, <2>2
<1> HIDE DEF g
<1>4. PathIn(f, i) = FlattenSeq([n \in 1..m |-> f[e[n]].key]) \o f[i].key
  BY PathFromList
<1>5. PathIn(g, i) = FlattenSeq([n \in 1..m |-> g[e[n]].key]) \o g[i].key
  BY <1>1, <1>3, PathFromList
<1>6. \A n \in 1..m : g[e[n]] = f[e[n]]
  BY <1>1, <1>2
<1>7. [n \in 1..m |-> g[e[n]].key] = [n \in 1..m |-> f[e[n]].key]
  BY <1>6
<1>8. g[i] = f[i]
  BY <1>1, <1>2
<1>9. PathIn(g, i) = PathIn(f, i)
  BY <1>4, <1>5, <1>7, <1>8
<1> QED BY <1>3, <1>8, <1>9 DEF g

-----------------------------------------------------------------------------
(* LoadConfigFile *)

\* Popped leaves the open sections that are shallower than the line, in the order of the
\* file: depths grow along the stack.
LEMMA PoppedSections ==
    ASSUME FileTypes, Stacked, NEW d \in Nat
    PROVE  \E m \in Nat : \E e \in [1..m -> Around(lines, d)] :
             /\ Lists(e, m, Around(lines, d))
             /\ Popped(d) \in Seq(SectionType) /\ Len(Popped(d)) = m
             /\ \A n \in 1..m :
                  Popped(d)[n] = Heading(lines, e[n])
<1>1. lines \in Seq(Lines) /\ sections \in Seq(SectionType)
  BY DEF FileTypes
<1> DEFINE L == Len(sections)
<1>2. L \in Nat /\ DOMAIN sections = 1..L /\ \A n \in 1..L : sections[n] \in SectionType
  BY <1>1
<1>3. PICK e \in [1..L -> OpenIn(lines)] :
        /\ Lists(e, L, OpenIn(lines))
        /\ \A n \in 1..L : sections[n] = Heading(lines, e[n])
  BY DEF Stacked
<1> HIDE DEF L
<1>3a. \A n \in 1..L : sections[n].indent = lines[e[n]].indent /\ e[n] \in OpenIn(lines)
  <2> SUFFICES ASSUME NEW n \in 1..L
               PROVE  sections[n].indent = lines[e[n]].indent /\ e[n] \in OpenIn(lines)
    OBVIOUS
  <2>1. sections[n] = Heading(lines, e[n])
    BY <1>3
  <2>2. e[n] \in OpenIn(lines)
    BY <1>3
  <2> QED BY <2>1, <2>2 DEF Heading
<1>4. \A a, b \in 1..L : a < b => sections[a].indent < sections[b].indent
  <2> SUFFICES ASSUME NEW a \in 1..L, NEW b \in 1..L, a < b
               PROVE  sections[a].indent < sections[b].indent
    OBVIOUS
  <2>1. e[a] \in OpenIn(lines) /\ e[b] \in OpenIn(lines) /\ e[a] < e[b]
    BY <1>3 DEF Lists
  <2>2. e[a] \in Nat /\ e[b] \in Nat /\ e[b] \in ContentIn(lines)
    BY <1>1, <2>1, LineFacts DEF OpenIn
  <2>3. lines[e[b]].indent > lines[e[a]].indent
    BY <2>1, <2>2 DEF OpenIn
  <2>4. sections[a].indent = lines[e[a]].indent /\ sections[b].indent = lines[e[b]].indent
    BY <1>3a
  <2>5. sections[a].indent \in Nat /\ sections[b].indent \in Nat
    BY <1>2 DEF SectionType
  <2> QED BY <2>3, <2>4, <2>5
<1> DEFINE shallower == {i \in DOMAIN sections : sections[i].indent < d}
           m == Max(shallower \cup {0})
<1>5. m \in 0..L /\ (m \in shallower \/ m = 0) /\ \A i \in shallower : i <= m
  <2>1. shallower \cup {0} \in SUBSET (0..L) /\ shallower \cup {0} # {}
    BY <1>2
  <2> HIDE DEF shallower, L
  <2>2. m \in shallower \cup {0} /\ \A y \in shallower \cup {0} : y <= m
    BY <1>2, <2>1, MaxExists
  <2> HIDE DEF m
  <2> QED BY <2>1, <2>2
<1>6. \A n \in 1..L : sections[n].indent < d <=> n <= m
  <2> HIDE DEF m, L
  <2> SUFFICES ASSUME NEW n \in 1..L PROVE sections[n].indent < d <=> n <= m
    OBVIOUS
  <2>1. sections[n].indent \in Nat
    BY <1>2 DEF SectionType
  <2>2. sections[n].indent < d => n <= m
    BY <1>2, <1>5
  <2>3. ASSUME n <= m PROVE sections[n].indent < d
    <3>1. m \in 1..L /\ sections[m].indent < d /\ sections[m].indent \in Nat
      BY <1>2, <1>5, <2>3 DEF SectionType
    <3>2. CASE n = m
      BY <3>1, <3>2
    <3>3. CASE n < m
      BY <1>4, <2>1, <3>1, <3>3
    <3> QED BY <1>2, <1>5, <2>3, <3>1, <3>2, <3>3
  <2> QED BY <2>2, <2>3
<1>7. Popped(d) = SubSeq(sections, 1, m)
  BY DEF Popped
<1> HIDE DEF m, L, shallower
<1>8. /\ Popped(d) \in Seq(SectionType) /\ Len(Popped(d)) = m
      /\ \A n \in 1..m : Popped(d)[n] = sections[n]
  <2>1. \A i \in 1..m : sections[i] \in SectionType
    BY <1>2, <1>5
  <2>2. m \in Int /\ m >= 0
    BY <1>2, <1>5
  <2>3. /\ SubSeq(sections, 1, m) \in Seq(SectionType)
        /\ Len(SubSeq(sections, 1, m)) = IF 1 <= m THEN m - 1 + 1 ELSE 0
        /\ \A i \in 1..(m - 1 + 1) : SubSeq(sections, 1, m)[i] = sections[1 + i - 1]
    BY <2>1, <2>2, SubSeqProperties
  <2> QED BY <1>7, <2>2, <2>3
<1>9. \A a \in 1..L : e[a] \in Around(lines, d) <=> a <= m
  BY <1>3a, <1>6 DEF Around
<1> DEFINE e1 == [a \in 1..m |-> e[a]]
<1>10. OpenIn(lines) \in SUBSET Nat /\ Around(lines, d) \in SUBSET OpenIn(lines)
  BY <1>1, LineFacts DEF OpenIn, Around
<1>11. Lists(e1, m, Around(lines, d))
  BY <1>2, <1>3, <1>5, <1>9, <1>10, ListSub
<1>12. m \in Nat /\ e1 \in [1..m -> Around(lines, d)]
  BY <1>2, <1>5, <1>9
<1>13. \A n \in 1..m : Popped(d)[n] = Heading(lines, e1[n])
  BY <1>2, <1>3, <1>5, <1>8
<1> HIDE DEF e1
<1> QED BY <1>8, <1>11, <1>12, <1>13
\* The path under which an entry is stored is the one that the nesting of the lines says.
LEMMA StoredPath ==
    ASSUME FileTypes, Stacked, NEW l \in Lines, l # Ignored
    PROVE  /\ PathIn(Append(lines, l), Len(lines) + 1) = Path(Popped(l.indent)) \o l.key
           /\ Path(Popped(l.indent)) \o l.key \in Seq(STRING)
<1> DEFINE g == Append(lines, l)  N == Len(lines) + 1  P == Popped(l.indent)
<1>1. lines \in Seq(Lines) /\ Len(lines) \in Nat
  BY DEF FileTypes
<1>2. l.indent \in Nat /\ l.key \in Seq(STRING)
  BY DEF Lines
<1>3. PICK m \in Nat : \E e \in [1..m -> Around(lines, l.indent)] :
        /\ Lists(e, m, Around(lines, l.indent))
        /\ P \in Seq(SectionType) /\ Len(P) = m
        /\ \A n \in 1..m : P[n] = Heading(lines, e[n])
  BY <1>2, PoppedSections
<1>4. PICK e \in [1..m -> Around(lines, l.indent)] :
        /\ Lists(e, m, Around(lines, l.indent))
        /\ P \in Seq(SectionType) /\ Len(P) = m
        /\ \A n \in 1..m : P[n] = Heading(lines, e[n])
  BY <1>3
<1>5. g \in Seq(Lines) /\ g[N] = l /\ \A i \in 1..Len(lines) : g[i] = lines[i]
  BY <1>1, AppendLine
<1>6. EnclosingIn(g, N) = Around(lines, l.indent)
  BY <1>1, AppendContent
<1>7. Around(lines, l.indent) \subseteq 1..Len(lines)
  BY <1>1, LineFacts DEF Around, OpenIn
<1> HIDE DEF g, N, P
<1>8. PathIn(g, N) = FlattenSeq([n \in 1..m |-> g[e[n]].key]) \o g[N].key
  <2>1. e \in [1..m -> EnclosingIn(g, N)] /\ Lists(e, m, EnclosingIn(g, N))
    BY <1>4, <1>6
  <2> QED BY <1>5, <2>1, PathFromList
<1>9. \A n \in 1..m : g[e[n]] = lines[e[n]]
  BY <1>4, <1>5, <1>7
<1>10. \A n \in 1..m : P[n].key = lines[e[n]].key
  <2> SUFFICES ASSUME NEW n \in 1..m PROVE P[n].key = lines[e[n]].key
    OBVIOUS
  <2>1. P[n] = Heading(lines, e[n])
    BY <1>4
  <2> QED BY <2>1 DEF Heading
<1>11. DOMAIN P = 1..m
  BY <1>4
<1>12. [n \in 1..m |-> g[e[n]].key] = [i \in DOMAIN P |-> P[i].key]
  BY <1>9, <1>10, <1>11
<1>13. PathIn(g, N) = Path(P) \o l.key
  BY <1>5, <1>8, <1>12 DEF Path
<1>14. [i \in DOMAIN P |-> P[i].key] \in Seq(Seq(STRING))
  <2>1. \A i \in 1..m : P[i] \in SectionType
    BY <1>4, <1>11
  <2>2. \A i \in 1..m : P[i].key \in Seq(STRING)
    BY <2>1 DEF SectionType
  <2> QED BY <1>11, <2>2
<1>15. Path(P) \in Seq(STRING)
  BY <1>14, FlattenType DEF Path
<1>16. Path(P) \o l.key \in Seq(STRING)
  BY <1>2, <1>15, ConcatProperties
<1> QED BY <1>13, <1>16 DEF g, N, P

\* A file of which no line is read.
Unread ==
    page \subseteq Lines /\ lines = <<>> /\ sections = <<>> /\ config_map = NoEntries

\* Before the first line nothing is open and nothing is stored.
LEMMA UnreadInv == Unread => FileInv
<1> SUFFICES ASSUME Unread PROVE FileInv
  OBVIOUS
<1> USE DEF Unread
<1>1. ContentIn(lines) = {} /\ EntriesIn(lines) = {} /\ OpenIn(lines) = {}
  BY DEF ContentIn, EntriesIn, OpenIn
<1>2. FileTypes
  <2>1. lines \in Seq(Lines) /\ sections \in Seq(SectionType)
    OBVIOUS
  <2>2. DOMAIN config_map = {} /\ config_map = [p \in {} |-> Empty]
    BY DEF NoEntries
  <2>3. config_map \in [DOMAIN config_map -> Values \ {Empty}]
    BY <2>2
  <2> QED BY <2>1, <2>2, <2>3 DEF FileTypes
<1>3. Stacked
  <2> DEFINE e == [n \in 1..0 |-> 0]
  <2>1. e \in [1..0 -> {}] /\ Len(sections) = 0 /\ 1..0 = {}
    OBVIOUS
  <2>2. Lists(e, 0, {})
    BY <2>1 DEF Lists
  <2> HIDE DEF e
  <2> QED BY <1>1, <2>1, <2>2 DEF Stacked
<1>4. Nested
  BY <1>1 DEF Nested
<1>5. Table
  BY <1>1 DEF Table, NoEntries
<1> QED BY <1>2, <1>3, <1>4, <1>5 DEF FileInv

\* So it is when the file is closed and its table gone.
LEMMA UnreadNext == Unread' => FileInv'
BY UnreadInv, PTL
\* A line that is read leaves the reader's variables in their types.
LEMMA ReadTypes ==
    ASSUME FileInv, NEW l \in page, ParseYamlLine(l), lines' = Append(lines, l), page' = page
    PROVE  FileTypes'
<1>1. FileTypes /\ Stacked /\ l \in Lines /\ lines \in Seq(Lines) /\ sections \in Seq(SectionType)
  BY DEF FileInv, FileTypes
<1>2. lines' \in Seq(Lines) /\ \A k \in page' : k \in Lines
  BY <1>1, AppendLine DEF FileTypes
<1>3. CASE l = Ignored
  <2>1. sections' = sections /\ config_map' = config_map
    BY <1>3 DEF ParseYamlLine, Ignored
  <2> QED BY <1>1, <1>2, <2>1 DEF FileTypes
<1>4. CASE l # Ignored
  <2>1. l.indent \in Nat /\ l.key \in Seq(STRING) /\ l.value \in Values
    BY <1>1, <1>4 DEF Lines
  <2>2. Popped(l.indent) \in Seq(SectionType)
    BY <1>1, <2>1, PoppedSections
  <2>3. [indent |-> l.indent, key |-> l.key] \in SectionType
    BY <2>1 DEF SectionType
  <2>4. sections' \in Seq(SectionType)
    <3>1. \/ sections' = Append(Popped(l.indent), [indent |-> l.indent, key |-> l.key])
          \/ sections' = Popped(l.indent)
      BY <1>4 DEF ParseYamlLine
    <3> QED BY <2>2, <2>3, <3>1
  <2>5. CASE l.value = Empty
    <3>1. config_map' = config_map
      BY <1>4, <2>5 DEF ParseYamlLine
    <3> QED BY <1>1, <1>2, <2>4, <3>1 DEF FileTypes
  <2>6. CASE l.value # Empty
    <3> DEFINE path == Path(Popped(l.indent)) \o l.key
    <3>1. path \in Seq(STRING)
      BY <1>1, <1>4, StoredPath
    <3>2. config_map' = [p \in DOMAIN config_map \cup {path} |->
                           IF p = path THEN l.value ELSE config_map[p]]
      BY <1>4, <2>6 DEF ParseYamlLine
    <3> HIDE DEF path
    <3>3. \A p \in DOMAIN config_map : p \in Seq(STRING) /\ config_map[p] \in Values \ {Empty}
      BY <1>1 DEF FileTypes
    <3>4. DOMAIN config_map' = DOMAIN config_map \cup {path}
      BY <3>2
    <3>5. config_map' \in [DOMAIN config_map' -> Values \ {Empty}]
      BY <2>1, <2>6, <3>2, <3>3, <3>4
    <3> QED BY <1>2, <2>4, <3>1, <3>3, <3>4, <3>5 DEF FileTypes
  <2> QED BY <2>5, <2>6
<1> QED BY <1>3, <1>4

\* The stack keeps to the open sections: what a line closes is popped, and what it opens is
\* pushed.
LEMMA ReadStacked ==
    ASSUME FileInv, NEW l \in page, ParseYamlLine(l), lines' = Append(lines, l)
    PROVE  Stacked'
<1>1. FileTypes /\ Stacked /\ l \in Lines /\ lines \in Seq(Lines) /\ sections \in Seq(SectionType)
  BY DEF FileInv, FileTypes
<1>2. CASE l = Ignored
  <2>1. sections' = sections /\ OpenIn(lines') = OpenIn(lines)
    BY <1>1, <1>2, AppendIgnored DEF ParseYamlLine, Ignored
  <2>2. \A i \in OpenIn(lines) : lines'[i] = lines[i]
    BY <1>1, <1>2, AppendIgnored DEF OpenIn
  <2>3. PICK e \in [1..Len(sections) -> OpenIn(lines)] :
          /\ Lists(e, Len(sections), OpenIn(lines))
          /\ \A n \in 1..Len(sections) : sections[n] = Heading(lines, e[n])
    BY <1>1 DEF Stacked
  <2>4. \A n \in 1..Len(sections) : Heading(lines', e[n]) = Heading(lines, e[n])
    BY <2>2, <2>3 DEF Heading
  <2> QED BY <2>1, <2>3, <2>4 DEF Stacked
<1>3. CASE l # Ignored
  <2> DEFINE A == Around(lines, l.indent)  N == Len(lines) + 1  P == Popped(l.indent)
  <2>1. l.indent \in Nat /\ N \in Nat
    BY <1>1, <1>3 DEF Lines
  <2>2. PICK m \in Nat : \E e \in [1..m -> A] :
          /\ Lists(e, m, A)
          /\ P \in Seq(SectionType) /\ Len(P) = m
          /\ \A n \in 1..m : P[n] = Heading(lines, e[n])
    BY <1>1, <2>1, PoppedSections
  <2>3. PICK e \in [1..m -> A] :
          /\ Lists(e, m, A)
          /\ P \in Seq(SectionType) /\ Len(P) = m
          /\ \A n \in 1..m : P[n] = Heading(lines, e[n])
    BY <2>2
  <2>4. A \subseteq 1..Len(lines) /\ A \in SUBSET Nat /\ \A j \in A : j < N
    BY <1>1, LineFacts DEF Around, OpenIn
  <2>5. lines'[N] = l /\ \A j \in A : lines'[j] = lines[j]
    BY <1>1, <2>4, AppendLine
  <2>6. CASE l.value # Empty
    <3>1. OpenIn(lines') = A
      BY <1>1, <1>3, <2>6, AppendContent
    <3>2. sections' = P
      BY <1>3, <2>6 DEF ParseYamlLine
    <3> HIDE DEF A, P
    <3>3. Len(sections') = m
      BY <2>3, <3>2
    <3>4. \A n \in 1..m :
            sections'[n] = Heading(lines', e[n])
      <4> SUFFICES ASSUME NEW n \in 1..m
                   PROVE sections'[n] = Heading(lines', e[n])
        OBVIOUS
      <4>1. e[n] \in A /\ lines'[e[n]] = lines[e[n]]
        BY <2>3, <2>5
      <4> QED BY <2>3, <3>2, <4>1 DEF Heading
    <3> QED BY <2>3, <3>1, <3>3, <3>4 DEF Stacked
  <2>7. CASE l.value = Empty
    <3>1. OpenIn(lines') = A \cup {N}
      BY <1>1, <1>3, <2>7, AppendContent
    <3>2. sections' = Append(P, [indent |-> l.indent, key |-> l.key])
      BY <1>3, <2>7 DEF ParseYamlLine
    <3> DEFINE e1 == [a \in 1..(m + 1) |-> IF a <= m THEN e[a] ELSE N]
    <3> HIDE DEF A, P, N
    <3>3. Lists(e1, m + 1, A \cup {N})
      BY <2>1, <2>3, <2>4, ListAppend
    <3>4. e1 \in [1..(m + 1) -> A \cup {N}] /\ e1[m + 1] = N /\ \A n \in 1..m : e1[n] = e[n]
      OBVIOUS
    <3> HIDE DEF e1
    <3>5. Len(sections') = m + 1
      BY <2>3, <3>2
    <3>6. \A n \in 1..(m + 1) :
            sections'[n] = Heading(lines', e1[n])
      <4> SUFFICES ASSUME NEW n \in 1..(m + 1)
                   PROVE sections'[n] = Heading(lines', e1[n])
        OBVIOUS
      <4>1. CASE n \in 1..m
        <5>1. e1[n] \in A /\ lines'[e1[n]] = lines[e[n]] /\ e1[n] = e[n]
          BY <2>3, <2>5, <3>4, <4>1
        <5>2. sections'[n] = P[n]
          BY <2>3, <3>2, <4>1
        <5> QED BY <2>3, <4>1, <5>1, <5>2 DEF Heading
      <4>2. CASE n = m + 1
        <5>1. sections'[n] = [indent |-> l.indent, key |-> l.key]
          BY <2>3, <3>2, <4>2
        <5> QED BY <2>5, <3>4, <4>2, <5>1 DEF Heading
      <4> QED BY <4>1, <4>2
    <3> QED BY <3>1, <3>3, <3>4, <3>5, <3>6 DEF Stacked
  <2> QED BY <2>6, <2>7
<1> QED BY <1>2, <1>3
\* What was around the entries stays around them, and their paths stay the same.
LEMMA ReadKeepsPaths ==
    ASSUME FileInv, NEW l \in page, lines' = Append(lines, l), NEW i \in EntriesIn(lines)
    PROVE  /\ EnclosingIn(lines', i) = EnclosingIn(lines, i)
           /\ PathIn(lines', i) = PathIn(lines, i)
           /\ lines'[i] = lines[i] /\ i \in 1..Len(lines)
<1>1. l \in Lines /\ lines \in Seq(Lines) /\ Nested
  BY DEF FileInv, FileTypes
<1>2. PICK m \in Nat : \E e \in [1..m -> EnclosingIn(lines, i)] : Lists(e, m, EnclosingIn(lines, i))
  BY <1>1 DEF Nested
<1>3. PICK e \in [1..m -> EnclosingIn(lines, i)] : Lists(e, m, EnclosingIn(lines, i))
  BY <1>2
<1>4. i \in 1..Len(lines)
  BY <1>1, LineFacts DEF EntriesIn
<1> QED BY <1>1, <1>3, <1>4, PathKept

\* The entries of a file with one line more.
LEMMA ReadEntries ==
    ASSUME FileInv, NEW l \in page, lines' = Append(lines, l)
    PROVE  /\ l = Ignored \/ l.value = Empty => EntriesIn(lines') = EntriesIn(lines)
           /\ l # Ignored /\ l.value # Empty =>
                EntriesIn(lines') = EntriesIn(lines) \cup {Len(lines) + 1}
<1>1. l \in Lines /\ lines \in Seq(Lines)
  BY DEF FileInv, FileTypes
<1>2. CASE l = Ignored
  BY <1>1, <1>2, AppendIgnored
<1>3. CASE l # Ignored
  <2> DEFINE E == EntriesIn(lines)  N == Len(lines) + 1
  <2>1. EntriesIn(lines') = IF l.value = Empty THEN E ELSE E \cup {N}
    BY <1>1, <1>3, AppendContent
  <2> HIDE DEF E, N
  <2>2. /\ l.value = Empty => EntriesIn(lines') = E
        /\ l.value # Empty => EntriesIn(lines') = E \cup {N}
    BY <2>1
  <2> QED BY <1>3, <2>2 DEF E, N
<1> QED BY <1>2, <1>3

\* The sections around the new entry can be listed: they are on the stack.
LEMMA ReadNested ==
    ASSUME FileInv, NEW l \in page, lines' = Append(lines, l)
    PROVE  Nested'
<1>1. FileTypes /\ Stacked /\ Nested /\ l \in Lines /\ lines \in Seq(Lines)
  BY DEF FileInv, FileTypes
<1>2. ASSUME NEW i \in EntriesIn(lines)
      PROVE  \E m \in Nat : \E e \in [1..m -> EnclosingIn(lines', i)] :
                Lists(e, m, EnclosingIn(lines', i))
  BY <1>1, <1>2, ReadKeepsPaths DEF Nested
<1>3. CASE l = Ignored \/ l.value = Empty
  BY <1>2, <1>3, ReadEntries DEF Nested
<1>4. CASE l # Ignored /\ l.value # Empty
  <2> DEFINE A == Around(lines, l.indent)  N == Len(lines) + 1
  <2>1. EnclosingIn(lines', N) = A
    BY <1>1, <1>4, AppendContent
  <2>2. l.indent \in Nat
    BY <1>1, <1>4 DEF Lines
  <2>3. \E m \in Nat : \E e \in [1..m -> A] : Lists(e, m, A)
    BY <1>1, <2>2, PoppedSections
  <2>4. EntriesIn(lines') = EntriesIn(lines) \cup {N}
    BY <1>4, ReadEntries
  <2> HIDE DEF N, A
  <2> QED BY <1>2, <2>1, <2>3, <2>4 DEF Nested
<1> QED BY <1>3, <1>4

\* The table holds the last value of every path.
LEMMA ReadTable ==
    ASSUME FileInv, NEW l \in page, ParseYamlLine(l), lines' = Append(lines, l)
    PROVE  Table'
<1>1. FileTypes /\ Stacked /\ Table /\ l \in Lines /\ lines \in Seq(Lines) /\ Len(lines) \in Nat
  BY DEF FileInv, FileTypes
<1> DEFINE E == EntriesIn(lines)  N == Len(lines) + 1
<1>2. \A i \in E : PathIn(lines', i) = PathIn(lines, i) /\ lines'[i] = lines[i] /\ i \in 1..Len(lines)
  BY ReadKeepsPaths
<1>3. CASE l = Ignored \/ l.value = Empty
  <2>1. EntriesIn(lines') = E
    BY <1>3, ReadEntries
  <2>2. config_map' = config_map
    <3>1. l = Ignored => l.kind # "line"
      BY DEF Ignored
    <3> QED BY <1>3, <3>1 DEF ParseYamlLine
  <2> QED BY <1>1, <1>2, <2>1, <2>2 DEF Table
<1>4. CASE l # Ignored /\ l.value # Empty
  <2> DEFINE path == Path(Popped(l.indent)) \o l.key
  <2>1. EntriesIn(lines') = E \cup {N}
    BY <1>4, ReadEntries
  <2>2. config_map' = [p \in DOMAIN config_map \cup {path} |->
                         IF p = path THEN l.value ELSE config_map[p]]
    BY <1>4 DEF ParseYamlLine
  <2>3. PathIn(lines', N) = path
    BY <1>1, <1>4, StoredPath
  <2>4. lines'[N] = l
    BY <1>1, AppendLine
  <2>5. \A i \in E : N > i /\ i # N
    BY <1>1, <1>2
  <2>6. /\ DOMAIN config_map = {PathIn(lines, i) : i \in E}
        /\ \A i \in E : (\A j \in E : j > i => PathIn(lines, j) # PathIn(lines, i)) =>
                            config_map[PathIn(lines, i)] = lines[i].value
    BY <1>1 DEF Table
  <2> HIDE DEF E, N, path
  <2>7. DOMAIN config_map' = {PathIn(lines', i) : i \in E \cup {N}}
    BY <1>2, <2>2, <2>3, <2>6
  <2>8. ASSUME NEW i \in E \cup {N},
               \A j \in E \cup {N} : j > i => PathIn(lines', j) # PathIn(lines', i)
        PROVE  config_map'[PathIn(lines', i)] = lines'[i].value
    <3>1. CASE i = N
      BY <3>1, <2>2, <2>3, <2>4
    <3>2. CASE i \in E
      <4>1. PathIn(lines', i) # path /\ PathIn(lines', i) = PathIn(lines, i)
        BY <1>2, <2>3, <2>5, <2>8, <3>2
      <4>2. \A j \in E : j > i => PathIn(lines, j) # PathIn(lines, i)
        BY <1>2, <2>8, <3>2
      <4>3. PathIn(lines, i) \in DOMAIN config_map /\ config_map[PathIn(lines, i)] = lines[i].value
        BY <2>6, <3>2, <4>2
      <4> QED BY <1>2, <2>2, <3>2, <4>1, <4>3
    <3> QED BY <3>1, <3>2
  <2> QED BY <2>1, <2>7, <2>8 DEF Table
<1> QED BY <1>3, <1>4

\* ReadLine keeps the reader's invariant.
LEMMA ReadInv == FileInv /\ ReadLine => FileInv'
<1> SUFFICES ASSUME FileInv, ReadLine PROVE FileInv'
  OBVIOUS
<1>1. PICK l \in page : ParseYamlLine(l) /\ lines' = Append(lines, l)
  BY DEF ReadLine
<1>2. page' = page
  BY DEF ReadLine
<1> QED BY <1>1, <1>2, ReadTypes, ReadStacked, ReadNested, ReadTable DEF FileInv
\* The reader's invariant is about its own variables.
LEMMA FileUnchanged == FileInv /\ UNCHANGED fileVars => FileInv'
BY DEF FileInv, FileTypes, Stacked, Nested, Table, fileVars

\* An opened file is a page of lines, with nothing read.
LEMMA OpenInv ==
    OpenFile /\ lines = <<>> /\ sections = <<>> /\ config_map = NoEntries => FileInv'
<1> SUFFICES ASSUME OpenFile, lines = <<>>, sections = <<>>, config_map = NoEntries PROVE Unread'
  BY UnreadNext
<1> QED BY LinesAssumption DEF OpenFile, Unread

\* The inductive invariant: the file's, and that a file that is not open is not read.
StartupInv ==
    /\ TypeOK /\ FileInv
    /\ phase = "closed" => lines = <<>> /\ sections = <<>> /\ config_map = NoEntries

\* The process starts with the file closed.
LEMMA StartupInit == Init => StartupInv
<1> SUFFICES ASSUME Init PROVE StartupInv
  OBVIOUS
<1>1. Unread
  BY DEF Init, ConfigInit, Unread
<1>2. TypeOK
  BY DEF Init, ConfigInit, TypeOK
<1> QED BY <1>1, <1>2, UnreadInv DEF StartupInv, Unread

\* Every step of the process keeps the variables in their types.
LEMMA TypeStep == TypeOK /\ [Next]_allVars => TypeOK'
<1> SUFFICES ASSUME TypeOK, [Next]_allVars PROVE TypeOK'
  OBVIOUS
<1> USE DEF TypeOK, startVars, zkVars, serverVars
<1>1. CASE LoadConfigFile
  BY <1>1 DEF LoadConfigFile, OpenFile, OpenFails, ReadLine, EndOfFile
<1>2. CASE LoadSettings
  <2>1. CASE ~BuildServerConfig.ok
    BY <1>2, <2>1 DEF LoadSettings
  <2>2. CASE BuildServerConfig.ok
    <3>1. LoadDiscoveryConfig.backend \in {"kStatic", "kZookeeper"}
      BY DEF LoadDiscoveryConfig
    <3>2. BuildServerConfig.discovery = LoadDiscoveryConfig
      BY <2>2 DEF BuildServerConfig, Error
    <3> QED BY <1>2, <2>2, <3>1, <3>2 DEF LoadSettings
  <2> QED BY <2>1, <2>2
<1>3. ASSUME NEW z \in ZkClients, Start(z) PROVE TypeOK'
  BY <1>3 DEF Start, Create, StartReset, StartInit, StartInitFails, StartReturns, Goto
<1>4. ASSUME NEW z \in ZkClients, SessionConnected(z) \/ SessionLost(z) PROVE TypeOK'
  BY <1>4 DEF SessionConnected, SessionLost
<1>5. CASE Run
  BY <1>5 DEF Run, RegisterMethod, RegisterEndpoints, RegisterFails, Listen, ListenFails
<1>6. CASE Ends
  BY <1>6 DEF Ends
<1>7. CASE Withdraw
  BY <1>7 DEF Withdraw
<1>8. CASE UNCHANGED allVars
  BY <1>8 DEF allVars
<1> QED BY <1>1, <1>2, <1>3, <1>4, <1>5, <1>6, <1>7, <1>8 DEF Next, Over

\* Only the reader touches the file, and LoadSettings leaves nothing of it.
LEMMA FileStep == StartupInv /\ [Next]_allVars =>
    FileInv' /\ (phase' = "closed" => lines' = <<>> /\ sections' = <<>> /\ config_map' = NoEntries)
<1> DEFINE Fresh == phase = "closed" => lines = <<>> /\ sections = <<>> /\ config_map = NoEntries
<1> SUFFICES ASSUME StartupInv, [Next]_allVars PROVE FileInv' /\ Fresh'
  OBVIOUS
<1>0. FileInv /\ Fresh
  BY DEF StartupInv
<1>1. CASE OpenFile
  <2>1. FileInv'
    BY <1>0, <1>1, OpenInv DEF OpenFile
  <2> QED BY <1>1, <2>1 DEF OpenFile
<1>2. CASE ReadLine
  BY <1>0, <1>2, ReadInv DEF ReadLine
<1>3. CASE LoadSettings
  <2>1. Unread'
    BY <1>3 DEF LoadSettings, Unread
  <2> QED BY <1>3, <2>1, UnreadNext DEF LoadSettings
<1>4. CASE UNCHANGED fileVars /\ (phase' = phase \/ phase' # "closed")
  <2>1. FileInv'
    BY <1>0, <1>4, FileUnchanged
  <2> QED BY <1>0, <1>4, <2>1 DEF fileVars
<1>5. CASE OpenFails \/ EndOfFile
  BY <1>4, <1>5 DEF OpenFails, EndOfFile
<1>6. ASSUME NEW z \in ZkClients, Start(z) \/ SessionConnected(z) \/ SessionLost(z)
      PROVE  FileInv' /\ Fresh'
  BY <1>4, <1>6 DEF Start, Create, StartReset, StartInit, StartInitFails, StartReturns,
                   SessionConnected, SessionLost
<1>7. CASE Run \/ Ends \/ Withdraw
  BY <1>4, <1>7 DEF Run, RegisterMethod, RegisterEndpoints, RegisterFails, Listen, ListenFails,
                   Ends, Withdraw
<1>8. CASE UNCHANGED allVars
  BY <1>4, <1>8 DEF allVars
<1> QED BY <1>1, <1>2, <1>3, <1>5, <1>6, <1>7, <1>8 DEF Next, LoadConfigFile, Over

\* The inductive invariant holds in every state.
THEOREM Invariance == Spec => []StartupInv
<1>1. StartupInv /\ [Next]_allVars => StartupInv'
  BY TypeStep, FileStep DEF StartupInv
<1> QED BY <1>1, StartupInit, PTL DEF Spec

\* Every variable of the start of the process stays in its type.
THEOREM TypeCorrect == Spec => []TypeOK
<1>1. StartupInv => TypeOK
  BY DEF StartupInv
<1> QED BY <1>1, Invariance, PTL

\* The table that LoadConfigFile builds holds what the nesting of the lines says, for any
\* lines in any order, at any depth.
THEOREM TableSaysTheNesting == Spec => []Flattened
<1>1. StartupInv => Flattened
  <2> SUFFICES ASSUME StartupInv PROVE Flattened
    OBVIOUS
  <2>1. Table
    BY DEF StartupInv, FileInv
  <2>2. Entries = EntriesIn(lines)
    BY DEF Entries, EntriesIn, Content, ContentIn
  <2>3. \A i : PathOf(i) = PathIn(lines, i)
    BY DEF PathOf, PathIn, Enclosing, EnclosingIn, Nth, Entries, EntriesIn, Content, ContentIn
  <2> QED BY <2>1, <2>2, <2>3 DEF Table, Flattened
<1> QED BY <1>1, Invariance, PTL
-----------------------------------------------------------------------------
(* The settings *)

\* Load finds a value of the file, or nothing.
LEMMA LoadType == FileTypes => \A path : Load(path) \in Values
BY DEF FileTypes, Load, Values, Texts

\* A text is known by its kind.
LEMMA TextKinds ==
    ASSUME NEW text \in Texts
    PROVE  text.kind # "list" /\ (text.kind = "number" => text.number \in Int)
<1>1. CASE text = Empty
  BY <1>1 DEF Empty
<1>2. CASE text \in [kind : {"word"}, word : STRING \ {""}]
  <2>1. text.kind = "word"
    BY <1>2
  <2> QED BY <2>1
<1>3. CASE text \in [kind : {"number"}, number : Int]
  <2>1. text.kind = "number" /\ text.number \in Int
    BY <1>3
  <2> QED BY <2>1
<1> QED BY <1>1, <1>2, <1>3 DEF Texts

\* A port in range keeps its value in a std::uint16_t.
LEMMA PortKept == ASSUME NEW n \in Int, n \in Port PROVE n % PortRange = n /\ n # 0
<1>1. n >= 1 /\ n < 65536
  BY DEF Port, PortRange
<1>2. n % 65536 = n
  BY <1>1, Z3
<1>3. n # 0
  BY <1>1
<1> QED BY <1>2, <1>3 DEF PortRange

\* An endpoint that ParseEndpoint accepts is complete; a host with a port in range is
\* accepted as it is.
LEMMA EndpointValid ==
    ASSUME NEW host \in Texts, NEW port \in Texts
    PROVE  /\ ParseEndpoint(host, port).ok \in BOOLEAN
           /\ ParseEndpoint(host, port).ok =>
                Valid(ParseEndpoint(host, port)) /\ ParseEndpoint(host, port).host = host
           /\ host # Empty /\ port.kind = "number" /\ port.number \in Port =>
                ParseEndpoint(host, port).ok /\ ParseEndpoint(host, port).port = port.number
<1>1. CASE port.kind # "number" \/ host = Empty
  BY <1>1 DEF ParseEndpoint, Error
<1>2. CASE ~(port.kind # "number" \/ host = Empty)
  <2>1. port.number \in Int
    BY <1>2, TextKinds
  <2>2. /\ PortRange \in Nat /\ port.number % PortRange \in Nat
        /\ port.number % PortRange < PortRange
    BY <2>1 DEF PortRange
  <2>3. port.number \in Port => port.number % PortRange = port.number /\ port.number # 0
    BY <2>1, PortKept
  <2>4. CASE port.number % PortRange = 0
    BY <1>2, <2>3, <2>4 DEF ParseEndpoint, Error
  <2>5. CASE port.number % PortRange # 0
    <3>1. ParseEndpoint(host, port) = [ok |-> TRUE, host |-> host, port |-> port.number % PortRange]
      BY <1>2, <2>5 DEF ParseEndpoint
    <3>2. port.number % PortRange \in Port
      BY <2>2, <2>5 DEF Port
    <3> QED BY <1>2, <2>3, <3>1, <3>2 DEF Valid
  <2> QED BY <2>4, <2>5
<1> QED BY <1>1, <1>2

\* The items of a list are texts, and there is one.
LEMMA ListItems ==
    ASSUME NEW value \in Values, value.kind = "list"
    PROVE  /\ value.items \in Seq(Items) /\ value.items # <<>>
           /\ DOMAIN value.items = 1..Len(value.items) /\ 1 \in DOMAIN value.items
           /\ \A i \in DOMAIN value.items :
                value.items[i].host \in Texts /\ value.items[i].port \in Texts
<1>1. value.items \in Seq(Items) /\ value.items # <<>>
  <2>1. value \in [kind : {"list"}, items : Seq(Items) \ {<<>>}]
    BY TextKinds DEF Values
  <2> QED BY <2>1
<1>2. DOMAIN value.items = 1..Len(value.items) /\ 1 \in DOMAIN value.items
  BY <1>1
<1>3. \A i \in DOMAIN value.items : value.items[i] \in Items
  BY <1>1, <1>2
<1> QED BY <1>1, <1>2, <1>3 DEF Items

\* A value without a colon is a text.
LEMMA LeadingType ==
    ASSUME NEW value \in Values
    PROVE  Leading(value) \in Texts /\ (value.kind # "list" => value \in Texts)
<1>1. CASE value.kind = "list"
  BY <1>1, ListItems DEF Leading
<1>2. CASE value.kind # "list"
  BY <1>2 DEF Leading, Values
<1> QED BY <1>1, <1>2

\* So is one made of two settings, whatever colons they hold.
LEMMA JoinedValid ==
    ASSUME NEW host \in Values, NEW port \in Values, ParseJoined(host, port).ok
    PROVE  Valid(ParseJoined(host, port))
<1>1. CASE host.kind = "list"
  BY <1>1, ListItems, EndpointValid DEF ParseJoined
<1>2. CASE host.kind # "list"
  BY <1>2, LeadingType, EndpointValid DEF ParseJoined
<1> QED BY <1>1, <1>2

\* A list that ParseEndpointList accepts is used whole: its endpoints are complete and are
\* those that the value names, one for one.
LEMMA ListValid ==
    ASSUME NEW value \in Values, ParseEndpointList(value).ok
    PROVE  LET endpoints == ParseEndpointList(value).endpoints IN
           /\ value.kind = "list" /\ DOMAIN endpoints = DOMAIN value.items
           /\ Range(endpoints) # {}
           /\ \A i \in DOMAIN value.items :
                /\ Valid(endpoints[i]) /\ endpoints[i].host = value.items[i].host
                /\ NamesEndpoint(value.items[i]) => endpoints[i].port = value.items[i].port.number
<1> DEFINE parsed(i) == ParseEndpoint(value.items[i].host, value.items[i].port)
           D == DOMAIN value.items
<1>1. value.kind = "list"
  BY DEF ParseEndpointList, Error
<1>2. \A i \in D : parsed(i).ok
  <2>1. CASE \E i \in D : ~parsed(i).ok
    BY <1>1, <2>1 DEF ParseEndpointList, Error
  <2> QED BY <2>1
<1>3. ParseEndpointList(value).endpoints = [i \in D |-> parsed(i)]
  BY <1>1, <1>2 DEF ParseEndpointList
<1>4. \A i \in D : /\ Valid(parsed(i)) /\ parsed(i).host = value.items[i].host
                   /\ NamesEndpoint(value.items[i]) => parsed(i).port = value.items[i].port.number
  BY <1>1, <1>2, ListItems, EndpointValid DEF NamesEndpoint
<1>5. 1 \in D
  BY <1>1, ListItems
<1> HIDE DEF parsed, D
<1>6. Range(ParseEndpointList(value).endpoints) = {parsed(i) : i \in D}
  BY <1>3 DEF Range
<1> QED BY <1>1, <1>3, <1>4, <1>5, <1>6 DEF D

\* A list of nothing but endpoints is accepted.
LEMMA ListAccepted ==
    ASSUME NEW value \in Values, value.kind = "list",
           \A i \in DOMAIN value.items : NamesEndpoint(value.items[i])
    PROVE  ParseEndpointList(value).ok
<1>1. \A i \in DOMAIN value.items : ParseEndpoint(value.items[i].host, value.items[i].port).ok
  BY ListItems, EndpointValid DEF NamesEndpoint
<1> QED BY <1>1 DEF ParseEndpointList

\* The server's address is complete.
LEMMA ServerUsable ==
    ASSUME FileTypes, BuildServerConfig.ok
    PROVE  Valid(BuildServerConfig.listen_endpoint)
<1> DEFINE endpoint == ParseJoined(Load(<<"server", "host">>), Load(<<"server", "port">>))
<1>1. endpoint.ok
  BY DEF BuildServerConfig, Error
<1>2. BuildServerConfig.listen_endpoint = endpoint
  BY <1>1 DEF BuildServerConfig
<1>3. Valid(endpoint)
  BY <1>1, LoadType, JoinedValid
<1> QED BY <1>2, <1>3

\* The client's timeout is one.
LEMMA ClientUsable ==
    ASSUME BuildClientConfig.ok
    PROVE  BuildClientConfig.timeout_ms > 0
<1> DEFINE raw == Load(<<"client", "rpc_timeout_ms">>)  timeout == Leading(raw)
<1>1. CASE raw = Empty
  <2>1. BuildClientConfig.timeout_ms = DefaultTimeout
    BY <1>1 DEF BuildClientConfig
  <2> QED BY <2>1 DEF DefaultTimeout
<1>2. CASE raw # Empty
  <2>1. timeout.kind = "number" /\ timeout.number \in 1..IntMax
    <3> SUFFICES ASSUME ~(timeout.kind = "number" /\ timeout.number \in 1..IntMax) PROVE FALSE
      OBVIOUS
    <3>1. BuildClientConfig = Error
      BY <1>2 DEF BuildClientConfig
    <3> QED BY <3>1 DEF Error
  <2>2. BuildClientConfig.timeout_ms = timeout.number
    BY <1>2, <2>1 DEF BuildClientConfig
  <2>3. IntMax \in Nat
    BY DEF IntMax
  <2> QED BY <2>1, <2>2, <2>3
<1> QED BY <1>1, <1>2

\* The logger has a place to write to.
LEMMA LoggerUsable ==
    ASSUME BuildLoggerConfig.ok
    PROVE  \/ ToOptions(BuildLoggerConfig).stderr_enabled
           \/ ToOptions(BuildLoggerConfig).file_path # Empty
<1> DEFINE mode == Load(<<"logging", "mode">>)  sink == Load(<<"logging", "sink">>)
           level == Load(<<"logging", "min_level">>)  path == Load(<<"logging", "file_path">>)
           accepted == /\ Is(mode, {"sync", "async"}) /\ Is(level, {"info", "warn", "error"})
                       /\ Is(sink, {"stderr", "file", "stderr_and_file"})
                       /\ Is(sink, {"file", "stderr_and_file"}) <=> path # Empty
           config == [ok |-> TRUE, mode |-> mode.word, sink |-> sink.word, file_path |-> path]
<1>1. BuildLoggerConfig = IF accepted THEN config ELSE Error
  BY DEF BuildLoggerConfig
<1>2. accepted /\ BuildLoggerConfig = config
  <2> HIDE DEF accepted, config
  <2> QED BY <1>1 DEF Error
<1>3. sink.word \in {"stderr", "file", "stderr_and_file"} /\ sink.kind = "word"
  BY <1>2 DEF Is
<1>4. /\ ToOptions(BuildLoggerConfig).stderr_enabled <=> sink.word \in {"stderr", "stderr_and_file"}
      /\ ToOptions(BuildLoggerConfig).file_path = path
  BY <1>2 DEF ToOptions
<1>5. CASE sink.word = "stderr"
  BY <1>4, <1>5
<1>6. CASE sink.word # "stderr"
  BY <1>2, <1>3, <1>4, <1>6 DEF Is
<1> QED BY <1>5, <1>6

\* A sequence is the concatenation of its front and the rest.
LEMMA ConcatParts ==
    ASSUME NEW s \in Seq(STRING), NEW t \in Seq(STRING), NEW p \in Seq(STRING),
           Len(p) = Len(s) + Len(t), \A i \in 1..Len(s) : s[i] = p[i],
           \A i \in 1..Len(t) : t[i] = p[i + Len(s)]
    PROVE  s \o t = p
<1>1. /\ s \o t \in Seq(STRING) /\ Len(s \o t) = Len(s) + Len(t)
      /\ \A i \in 1..(Len(s) + Len(t)) :
           (s \o t)[i] = IF i <= Len(s) THEN s[i] ELSE t[i - Len(s)]
  OBVIOUS
<1>2. ASSUME NEW i \in 1..Len(p) PROVE (s \o t)[i] = p[i]
  <2>1. CASE i <= Len(s)
    BY <1>1, <2>1
  <2>2. CASE i > Len(s)
    <3>1. i - Len(s) \in 1..Len(t) /\ (i - Len(s)) + Len(s) = i
      BY <2>2
    <3>2. t[i - Len(s)] = p[i]
      BY <3>1
    <3> QED BY <1>1, <2>2, <3>2
  <2> QED BY <2>1, <2>2
<1> QED BY <1>1, <1>2, SeqEqual

\* A path under discovery.services is the prefix and the service's key.
LEMMA KeyOfPath ==
    ASSUME FileTypes, NEW p \in ServiceKeys
    PROVE  ServicesPrefix \o ServiceKey(p) = p
<1>1. p \in Seq(STRING) /\ Len(p) \in Nat /\ Len(p) > 2 /\ SubSeq(p, 1, 2) = ServicesPrefix
  BY DEF ServiceKeys, FileTypes
<1>2. /\ ServicesPrefix \in Seq(STRING) /\ Len(ServicesPrefix) = 2
      /\ \A i \in 1..2 : ServicesPrefix[i] = p[i]
  <2>1. /\ SubSeq(p, 1, 2) \in Seq(STRING) /\ Len(SubSeq(p, 1, 2)) = 2
        /\ \A i \in 1..2 : SubSeq(p, 1, 2)[i] = p[i]
    BY <1>1
  <2> QED BY <1>1, <2>1
<1>3. /\ ServiceKey(p) \in Seq(STRING) /\ Len(ServiceKey(p)) = Len(p) - 2
      /\ \A i \in 1..(Len(p) - 2) : ServiceKey(p)[i] = p[i + 2]
  BY <1>1 DEF ServiceKey
<1>4. Len(p) = Len(ServicesPrefix) + Len(ServiceKey(p))
  BY <1>1, <1>2, <1>3
<1>5. \A i \in 1..Len(ServicesPrefix) : ServicesPrefix[i] = p[i]
  BY <1>2
<1>6. \A i \in 1..Len(ServiceKey(p)) : ServiceKey(p)[i] = p[i + Len(ServicesPrefix)]
  BY <1>2, <1>3
<1> QED BY <1>1, <1>2, <1>3, <1>4, <1>5, <1>6, ConcatParts

\* The resolver knows a service by its list if that can be parsed, and a service that it
\* knows has one in the file.
LEMMA ResolverKnows ==
    ASSUME FileTypes
    PROVE  LET services == LoadDiscoveryConfig.static_services IN
           /\ \A key \in DOMAIN services : \E p \in ServiceKeys : key = ServiceKey(p)
           /\ \A p \in ServiceKeys :
                /\ ServiceKey(p) \in DOMAIN services <=> ParseEndpointList(config_map[p]).ok
                /\ ServiceKey(p) \in DOMAIN services =>
                     services[ServiceKey(p)] = ParseEndpointList(config_map[p]).endpoints
<1> DEFINE listed == {p \in ServiceKeys : ParseEndpointList(config_map[p]).ok}
           services == [key \in {ServiceKey(p) : p \in listed} |->
                          ParseEndpointList(config_map[ServicesPrefix \o key]).endpoints]
<1>1. LoadDiscoveryConfig.static_services = services
  BY DEF LoadDiscoveryConfig
<1>2. DOMAIN services = {ServiceKey(p) : p \in listed}
  OBVIOUS
<1>3. ASSUME NEW p \in ServiceKeys, ServiceKey(p) \in DOMAIN services
      PROVE  /\ ParseEndpointList(config_map[p]).ok
             /\ services[ServiceKey(p)] = ParseEndpointList(config_map[p]).endpoints
  <2>1. PICK q \in listed : ServiceKey(p) = ServiceKey(q)
    BY <1>2, <1>3
  <2>2. p = q
    BY <2>1, KeyOfPath
  <2>3. ServicesPrefix \o ServiceKey(p) = p
    BY KeyOfPath
  <2>4. services[ServiceKey(p)] =
          ParseEndpointList(config_map[ServicesPrefix \o ServiceKey(p)]).endpoints
    BY <1>2, <1>3
  <2> QED BY <2>1, <2>2, <2>3, <2>4
<1>4. \A key \in DOMAIN services : \E p \in ServiceKeys : key = ServiceKey(p)
  BY <1>2
<1>5. ASSUME NEW p \in ServiceKeys, ParseEndpointList(config_map[p]).ok
      PROVE  ServiceKey(p) \in DOMAIN services
  BY <1>2, <1>5
<1> HIDE DEF services
<1> QED BY <1>1, <1>3, <1>4, <1>5

\* Settings that were loaded without an error can be used, whatever the file holds, and a
\* static service has the endpoints of its list in the file, all of them and in order; only
\* a port out of range becomes another.
THEOREM SettingsCanBeUsed == Spec => []SettingsUsable
<1>1. StartupInv => SettingsUsable
  <2> SUFFICES ASSUME StartupInv PROVE SettingsUsable
    OBVIOUS
  <2> DEFINE services == LoadDiscoveryConfig.static_services
  <2>1. FileTypes
    BY DEF StartupInv, FileInv
  <2>2. ASSUME NEW p \in ServiceKeys
        PROVE  /\ config_map[p] \in Values
               /\ ServiceKey(p) \in DOMAIN services <=> ParseEndpointList(config_map[p]).ok
               /\ ServiceKey(p) \in DOMAIN services =>
                    services[ServiceKey(p)] = ParseEndpointList(config_map[p]).endpoints
    BY <2>1, ResolverKnows DEF ServiceKeys, FileTypes
  <2>3. ASSUME NEW p \in ServiceKeys
        PROVE  ServedAsListed(config_map[p], services, ServiceKey(p))
    <3> DEFINE value == config_map[p]  key == ServiceKey(p)
    <3>1. ASSUME key \in DOMAIN services
          PROVE  /\ value.kind = "list" /\ DOMAIN services[key] = DOMAIN value.items
                 /\ \A i \in DOMAIN value.items :
                      LET item == value.items[i]  endpoint == services[key][i] IN
                      /\ Valid(endpoint) /\ endpoint.host = item.host
                      /\ NamesEndpoint(item) => endpoint.port = item.port.number
      BY <2>2, <3>1, ListValid
    <3>2. ASSUME value.kind = "list", \A i \in DOMAIN value.items : NamesEndpoint(value.items[i])
          PROVE  key \in DOMAIN services
      BY <2>2, <3>2, ListAccepted
    <3> HIDE DEF value, key, services
    <3>3. ServedAsListed(value, services, key)
      BY <3>1, <3>2 DEF ServedAsListed
    <3> QED BY <3>3 DEF value, key
  <2>4. ASSUME NEW key \in DOMAIN services PROVE Resolve(LoadDiscoveryConfig, key) # {}
    <3>1. PICK p \in ServiceKeys : key = ServiceKey(p)
      BY <2>1, ResolverKnows
    <3>2. Resolve(LoadDiscoveryConfig, key) = Range(ParseEndpointList(config_map[p]).endpoints)
      BY <2>2, <3>1 DEF Resolve
    <3> QED BY <2>2, <3>1, <3>2, ListValid
  <2> QED BY <2>1, <2>3, <2>4, ServerUsable, ClientUsable, LoggerUsable DEF SettingsUsable
<1> QED BY <1>1, Invariance, PTL
=============================================================================
