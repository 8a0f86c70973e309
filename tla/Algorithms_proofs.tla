-------------------------- MODULE Algorithms_proofs --------------------------
(***************************************************************************)
(* What the pure algorithms compute, for every input: the shares of an     *)
(* experiment's variants, the order behind the comparisons of targeting    *)
(* rules, the figures of reports, the tokens of both languages, and the    *)
(* metrics and the rules that the parsers read.                            *)
(* Induction is over sets that are closed under a step, so that            *)
(* first-order provers can use it.                                         *)
(***************************************************************************)
EXTENDS MCAlgorithms, FiniteSetTheorems, TLAPS

-----------------------------------------------------------------------------
\* Induction.

\* A set of naturals has a least element.
LEMMA LeastOf == ASSUME NEW T \in SUBSET Nat, T # {} PROVE \E m \in T : \A n \in T : m <= n
<1>1. \E m \in T : \A n \in T : <<n, m>> \notin OpToRel(<, Nat) BY NatLessThanWellFounded, WFMin
<1>2. PICK m \in T : \A n \in T : <<n, m>> \notin OpToRel(<, Nat) BY <1>1
<1>3. ASSUME NEW n \in T PROVE m <= n
  <2>1. m \in Nat /\ n \in Nat OBVIOUS
  <2>2. ~(n < m) BY <1>2, <2>1 DEF OpToRel
  <2> QED BY <2>1, <2>2
<1> QED BY <1>3

\* What holds of zero and of each successor holds of all naturals.
LEMMA ByNaturals ==
    ASSUME NEW G \in SUBSET Nat, 0 \in G, \A n \in G : n + 1 \in G
    PROVE  G = Nat
<1> SUFFICES ASSUME Nat \ G # {} PROVE FALSE OBVIOUS
<1>1. PICK m \in Nat \ G : \A n \in Nat \ G : m <= n BY LeastOf
<1>2. m # 0 /\ m - 1 \in Nat BY <1>1
<1>3. m - 1 \in G BY <1>1, <1>2
<1> QED BY <1>1, <1>2, <1>3

\* What holds of a finite set if it holds of its proper subsets holds of all finite sets.
LEMMA BySubsets ==
    ASSUME NEW S, IsFiniteSet(S), NEW G \in SUBSET SUBSET S,
           \A s \in SUBSET S : (\A t \in SUBSET s : t # s => t \in G) => s \in G
    PROVE  G = SUBSET S
<1> SUFFICES ASSUME (SUBSET S) \ G # {} PROVE FALSE OBVIOUS
<1> DEFINE bad == (SUBSET S) \ G
           sizes == {Cardinality(s) : s \in bad}
<1>1. \A s \in SUBSET S : IsFiniteSet(s) /\ Cardinality(s) \in Nat BY FS_Subset, FS_CardinalityType
<1>2. PICK m \in sizes : \A n \in sizes : m <= n
  <2>1. sizes \in SUBSET Nat /\ sizes # {} BY <1>1
  <2> HIDE DEF sizes
  <2> QED BY <2>1, LeastOf
<1>3. PICK s \in bad : Cardinality(s) = m BY <1>2
<1>4. ASSUME NEW t \in SUBSET s, t # s PROVE t \in G
  <2>1. Cardinality(t) < Cardinality(s)
    <3>1. IsFiniteSet(s) BY <1>1
    <3>2. Cardinality(t) <= Cardinality(s) /\ (Cardinality(t) = Cardinality(s) => t = s)
      BY <1>4, <3>1, FS_Subset
    <3>3. Cardinality(t) \in Nat /\ Cardinality(s) \in Nat BY <1>1, <1>4
    <3> QED BY <1>4, <3>2, <3>3
  <2>2. Cardinality(t) \notin sizes
    <3>1. m \in Nat /\ Cardinality(t) \in Nat BY <1>1, <1>3, <1>4
    <3>2. ~(m <= Cardinality(t)) BY <1>3, <2>1, <3>1
    <3> HIDE DEF sizes, bad
    <3> QED BY <1>2, <3>2
  <2> QED BY <2>2
<1>5. s \in SUBSET S /\ s \notin G BY <1>3
<1>6. \A t \in SUBSET s : t # s => t \in G BY <1>4
<1> HIDE DEF bad, sizes
<1> QED BY <1>5, <1>6

-----------------------------------------------------------------------------
\* The samples.

SampleTyped ==
    /\ topic = "values" => sample \in Seq(Values)
    /\ topic = "rows" /\ sample # <<>> => sample[1] \in SUBSET Rows

InputTyped ==
    /\ audience \in 0..100
    /\ weights \in Seq(Percentage)
    /\ Valid => ValidWeights(weights) /\ axis = distribute_variants(audience, weights)

SourceTyped == topic \in Languages => sample \in Seq(Chars)
TokensTyped ==
    /\ topic = "rule" => sample \in Seq(TokenTypes)
    /\ topic = "expression" => sample \in Seq(MetricTokens)

LEMMA SamplesAreTyped ==
    AlgorithmsSpec => [](InputTyped /\ SampleTyped /\ SourceTyped /\ TokensTyped)
<1> DEFINE Typed == InputTyped /\ SampleTyped /\ SourceTyped /\ TokensTyped
<1>1. ASSUME AlgorithmsInit PROVE Typed
  <2>1. InputTyped
    BY <1>1, InputsArePercentages DEF AlgorithmsInit, InputInit, InputTyped, Valid, Percentage
  <2>2. sample = <<>> BY <1>1 DEF AlgorithmsInit
  <2> QED BY <2>1, <2>2 DEF SampleTyped, SourceTyped, TokensTyped
<1>2. ASSUME Typed, [AlgorithmsNext]_<<sampled, input>> PROVE Typed'
  <2>1. CASE Distribute
    <3>1. UNCHANGED <<topic, sample>> BY <2>1 DEF Distribute, sampled
    <3>2. SampleTyped' /\ SourceTyped' /\ TokensTyped'
      BY <1>2, <3>1 DEF SampleTyped, SourceTyped, TokensTyped
    <3>3. PICK w \in Weights : AddVariant(w) BY <2>1 DEF Distribute, InputNext
    <3>4. w \in Percentage BY InputsArePercentages
    <3>5. audience' = audience /\ weights' = Append(weights, w) BY <3>3 DEF AddVariant
    <3>6. audience' \in 0..100 /\ weights' \in Seq(Percentage)
      BY <1>2, <3>4, <3>5 DEF InputTyped
    <3>7. axis' = IF ValidWeights(weights') THEN distribute_variants(audience, weights')
                                            ELSE Outside
      BY <3>3 DEF AddVariant
    <3> QED BY <3>2, <3>5, <3>6, <3>7 DEF InputTyped, Valid
  <2>2. CASE UNCHANGED input /\ topic' = topic /\ (AddValue \/ ReportRows)
    <3>1. InputTyped' BY <1>2, <2>2 DEF InputTyped, input, Valid
    <3>2. topic \in {"values", "rows"} BY <2>2 DEF AddValue, ReportRows
    <3>3. CASE AddValue BY <1>2, <3>1, <3>2, <3>3
      DEF SampleTyped, SourceTyped, TokensTyped, AddValue, Grows, Languages
    <3>4. CASE ReportRows BY <1>2, <3>1, <3>2, <3>4
      DEF SampleTyped, SourceTyped, TokensTyped, ReportRows, Grows, Languages
    <3> QED BY <2>2, <3>3, <3>4
  <2>3. CASE UNCHANGED input /\ topic' = topic /\ (AddChar \/ AddToken \/ AddMetricToken)
    <3>1. InputTyped' BY <1>2, <2>3 DEF InputTyped, input, Valid
    <3>2. CASE AddChar BY <1>2, <3>1, <3>2
      DEF SampleTyped, SourceTyped, TokensTyped, AddChar, Grows, Languages
    <3>3. CASE AddToken BY <1>2, <3>1, <3>3
      DEF SampleTyped, SourceTyped, TokensTyped, AddToken, Grows, Languages
    <3>4. CASE AddMetricToken BY <1>2, <3>1, <3>4
      DEF SampleTyped, SourceTyped, TokensTyped, AddMetricToken, Grows, Languages
    <3> QED BY <2>3, <3>2, <3>3, <3>4
  <2>4. CASE Sample
    <3>1. UNCHANGED input /\ topic' = topic
      BY <2>4 DEF Sample, ValuesNext, AddValue, ReportRows, AddChar, AddToken, AddMetricToken, Grows
    <3>2. AddValue \/ ReportRows \/ AddChar \/ AddToken \/ AddMetricToken
      BY <2>4 DEF Sample, ValuesNext
    <3> QED BY <2>2, <2>3, <3>1, <3>2
  <2>5. CASE UNCHANGED <<sampled, input>>
    BY <1>2, <2>5 DEF SampleTyped, SourceTyped, TokensTyped, InputTyped, sampled, input, Valid
  <2> QED BY <1>2, <2>1, <2>4, <2>5 DEF AlgorithmsNext
<1> QED BY <1>1, <1>2, PTL DEF AlgorithmsSpec

-----------------------------------------------------------------------------
\* Sums.

Some(s) == CHOOSE x \in s : TRUE
SumOf(it, fun, s) == IF s = {} THEN 0 ELSE fun[Some(s)] + it[s \ {Some(s)}]

\* A table of the sums of fun over the subsets of S.
IsTable(it, fun, S) == it = [s \in SUBSET S |-> SumOf(it, fun, s)]

LEMMA SomeIsIn == ASSUME NEW s, s # {} PROVE Some(s) \in s
BY DEF Some

LEMMA TableExists == ASSUME NEW fun, NEW S, IsFiniteSet(S) PROVE \E it : IsTable(it, fun, S)
<1> DEFINE Upto(n) == {s \in SUBSET S : Cardinality(s) <= n}
           Good(it, n) == /\ it = [s \in SUBSET S |-> it[s]]
                          /\ \A s \in Upto(n) : it[s] = SumOf(it, fun, s)
           G == {n \in Nat : \E it : Good(it, n)}
<1>1. \A s \in SUBSET S : IsFiniteSet(s) /\ Cardinality(s) \in Nat BY FS_Subset, FS_CardinalityType
<1>2. 0 \in G
  <2>1. PICK it : it = [s \in SUBSET S |-> 0] OBVIOUS
  <2>2. ASSUME NEW s \in Upto(0) PROVE it[s] = SumOf(it, fun, s)
    <3>1. s = {} BY <1>1, FS_EmptySet
    <3> QED BY <2>1, <3>1 DEF SumOf
  <2>3. Good(it, 0) BY <2>1, <2>2
  <2> HIDE DEF Good
  <2> QED BY <2>3
<1>3. ASSUME NEW n \in G PROVE n + 1 \in G
  <2>1. PICK it : Good(it, n) OBVIOUS
  <2>4. PICK next : next = [s \in SUBSET S |-> SumOf(it, fun, s)] OBVIOUS
  <2>2. ASSUME NEW s \in Upto(n + 1) PROVE next[s] = SumOf(next, fun, s)
    <3>1. CASE s = {} BY <2>4, <3>1 DEF SumOf
    <3>2. CASE s # {}
      <4>1. PICK x \in s : x = Some(s) BY <3>2, SomeIsIn
      <4>2. s \ {x} \in Upto(n)
        <5>1. Cardinality(s \ {x}) = Cardinality(s) - 1 BY <1>1, FS_RemoveElement
        <5>2. Cardinality(s) \in Nat /\ Cardinality(s) <= n + 1 BY <1>1
        <5> QED BY <5>1, <5>2
      <4>3. it[s \ {x}] = next[s \ {x}]
        <5>1. s \ {x} \in SUBSET S OBVIOUS
        <5>2. it[s \ {x}] = SumOf(it, fun, s \ {x}) BY <2>1, <4>2
        <5> QED BY <2>4, <5>1, <5>2
      <4>4. next[s] = SumOf(it, fun, s) BY <2>4
      <4> QED BY <3>2, <4>1, <4>3, <4>4 DEF SumOf
    <3> QED BY <3>1, <3>2
  <2>3. Good(next, n + 1) BY <2>2, <2>4
  <2>5. n + 1 \in Nat OBVIOUS
  <2> HIDE DEF Good
  <2> QED BY <2>3, <2>5
<1>4. Cardinality(S) \in G
  <2>1. G \in SUBSET Nat OBVIOUS
  <2> HIDE DEF G
  <2> QED BY <1>1, <1>2, <1>3, <2>1, ByNaturals
<1>5. PICK it : Good(it, Cardinality(S)) BY <1>4
<1>6. \A s \in SUBSET S : Cardinality(s) <= Cardinality(S) BY FS_Subset
<1> QED BY <1>5, <1>6 DEF IsTable

\* The order in which elements are taken does not matter.
LEMMA TableFacts ==
    ASSUME NEW fun, NEW S, IsFiniteSet(S), \A x \in S : fun[x] \in Int,
           NEW it, IsTable(it, fun, S)
    PROVE  /\ it[{}] = 0
           /\ \A s \in SUBSET S : /\ it[s] \in Int
                                  /\ \A x \in s : it[s] = fun[x] + it[s \ {x}]
<1> DEFINE Sums(s) == it[s] \in Int /\ \A x \in s : it[s] = fun[x] + it[s \ {x}]
           G == {s \in SUBSET S : Sums(s)}
<1>1. \A s \in SUBSET S : it[s] = SumOf(it, fun, s) BY DEF IsTable
<1>2. it[{}] = 0 BY <1>1 DEF SumOf
<1>3. ASSUME NEW s \in SUBSET S, \A t \in SUBSET s : t # s => t \in G PROVE s \in G
  <2>1. CASE s = {} BY <1>2, <2>1
  <2>2. CASE s # {}
    <3>1. PICK c \in s : it[s] = fun[c] + it[s \ {c}] BY <1>1, <2>2, SomeIsIn DEF SumOf
    <3>2. \A y \in s : s \ {y} \in G BY <1>3
    <3>3. it[s] \in Int BY <3>1, <3>2
    <3>4. ASSUME NEW x \in s PROVE it[s] = fun[x] + it[s \ {x}]
      <4>1. CASE x = c BY <3>1, <4>1
      <4>2. CASE x # c
        <5>1. (s \ {c}) \ {x} = (s \ {x}) \ {c} OBVIOUS
        <5>2. x \in s \ {c} /\ c \in s \ {x} BY <3>1, <4>2
        <5>3. Sums(s \ {c}) /\ Sums(s \ {x}) BY <3>2
        <5>4. it[s \ {c}] = fun[x] + it[(s \ {c}) \ {x}] BY <5>2, <5>3
        <5>5. it[s \ {x}] = fun[c] + it[(s \ {x}) \ {c}] BY <5>2, <5>3
        <5>6. (s \ {x}) \ {c} \in G BY <1>3, <5>2
        <5>7. it[(s \ {x}) \ {c}] \in Int /\ fun[x] \in Int /\ fun[c] \in Int BY <5>6
        <5>8. PICK n : n = it[(s \ {x}) \ {c}] OBVIOUS
        <5>9. it[s \ {c}] = fun[x] + n BY <5>1, <5>4, <5>8
        <5>10. it[s \ {x}] = fun[c] + n BY <5>5, <5>8
        <5>11. n \in Int BY <5>7, <5>8
        <5>12. PICK p, q : p = fun[x] /\ q = fun[c] OBVIOUS
        <5>13. it[s] = q + (p + n) BY <3>1, <5>9, <5>12
        <5>14. fun[x] + it[s \ {x}] = p + (q + n) BY <5>10, <5>12
        <5>15. p \in Int /\ q \in Int BY <5>7, <5>12
        <5> QED BY <5>11, <5>13, <5>14, <5>15
      <4> QED BY <4>1, <4>2
    <3> QED BY <3>3, <3>4
  <2> QED BY <2>1, <2>2
<1>4. G = SUBSET S
  <2>1. G \in SUBSET SUBSET S OBVIOUS
  <2> HIDE DEF G
  <2> QED BY <1>3, <2>1, BySubsets
<1> QED BY <1>2, <1>4

\* The table of a set agrees with those of its subsets.
LEMMA TablesAgree ==
    ASSUME NEW fun, NEW gun, NEW S, IsFiniteSet(S), NEW T \in SUBSET S,
           \A x \in T : fun[x] = gun[x],
           NEW it, IsTable(it, fun, S), NEW jt, IsTable(jt, gun, T)
    PROVE  it[T] = jt[T]
<1> DEFINE G == {s \in SUBSET T : it[s] = jt[s]}
<1>1. \A s \in SUBSET T : it[s] = SumOf(it, fun, s) /\ jt[s] = SumOf(jt, gun, s) BY DEF IsTable
<1>2. ASSUME NEW s \in SUBSET T, \A t \in SUBSET s : t # s => t \in G PROVE s \in G
  <2>1. CASE s = {} BY <1>1, <2>1 DEF SumOf
  <2>2. CASE s # {}
    <3>1. PICK c \in s : c = Some(s) BY <2>2, SomeIsIn
    <3>2. s \ {c} \in G BY <1>2
    <3>3. it[s] = fun[c] + it[s \ {c}] /\ jt[s] = gun[c] + jt[s \ {c}] BY <1>1, <2>2, <3>1 DEF SumOf
    <3> QED BY <3>2, <3>3
  <2> QED BY <2>1, <2>2
<1>3. G = SUBSET T
  <2>1. G \in SUBSET SUBSET T /\ IsFiniteSet(T) BY FS_Subset
  <2> HIDE DEF G
  <2> QED BY <1>2, <2>1, BySubsets
<1> QED BY <1>3

LEMMA SumIsInTable ==
    ASSUME NEW fun, NEW S, IsFiniteSet(S)
    PROVE  \E it : IsTable(it, fun, S) /\ SumFunctionOnSet(fun, S) = it[S]
<1>1. \E it : IsTable(it, fun, S) BY TableExists
<1> DEFINE it == CHOOSE f : IsTable(f, fun, S)
<1>2. IsTable(it, fun, S) BY <1>1
<1>3. SumFunctionOnSet(fun, S) = it[S]
  BY DEF SumFunctionOnSet, FoldFunctionOnSet, MapThenFoldSet, IsTable, SumOf, Some
<1> QED BY <1>2, <1>3

\* A sum depends on the function's values in the set only.
LEMMA SameSums ==
    ASSUME NEW fun, NEW gun, NEW S, IsFiniteSet(S), \A x \in S : fun[x] = gun[x]
    PROVE  SumFunctionOnSet(fun, S) = SumFunctionOnSet(gun, S)
<1>1. PICK it : IsTable(it, fun, S) /\ SumFunctionOnSet(fun, S) = it[S] BY SumIsInTable
<1>2. PICK jt : IsTable(jt, gun, S) /\ SumFunctionOnSet(gun, S) = jt[S] BY SumIsInTable
<1> QED BY <1>1, <1>2, TablesAgree

\* A sum may be taken apart at any element.
LEMMA SumFacts ==
    ASSUME NEW fun, NEW S, IsFiniteSet(S), \A x \in S : fun[x] \in Int
    PROVE  /\ SumFunctionOnSet(fun, {}) = 0
           /\ SumFunctionOnSet(fun, S) \in Int
           /\ \A x \in S : SumFunctionOnSet(fun, S) = fun[x] + SumFunctionOnSet(fun, S \ {x})
<1>1. PICK it : IsTable(it, fun, S) /\ SumFunctionOnSet(fun, S) = it[S] BY SumIsInTable
<1>2. /\ it[{}] = 0
      /\ \A s \in SUBSET S : /\ it[s] \in Int
                             /\ \A x \in s : it[s] = fun[x] + it[s \ {x}]
  <2>1. IsTable(it, fun, S) BY <1>1
  <2>2. it[{}] = 0 BY <2>1, TableFacts
  <2>3. \A s \in SUBSET S : it[s] \in Int BY <2>1, TableFacts
  <2>4. ASSUME NEW s \in SUBSET S, NEW x \in s PROVE it[s] = fun[x] + it[s \ {x}]
    <3>1. it[s] \in Int /\ fun[x] \in Int /\ it[s \ {x}] \in Int BY <2>3
    <3> QED BY <2>1, <3>1, TableFacts
  <2> QED BY <2>2, <2>3, <2>4
<1>3. ASSUME NEW s \in SUBSET S PROVE SumFunctionOnSet(fun, s) = it[s]
  <2>1. IsFiniteSet(s) BY FS_Subset
  <2>2. PICK jt : IsTable(jt, fun, s) /\ SumFunctionOnSet(fun, s) = jt[s] BY <2>1, SumIsInTable
  <2> QED BY <1>1, <2>2, TablesAgree
<1>4. {} \in SUBSET S /\ S \in SUBSET S OBVIOUS
<1>5. \A x \in S : S \ {x} \in SUBSET S OBVIOUS
<1> QED BY <1>2, <1>3, <1>4, <1>5

\* ... or added to.
LEMMA SumAdds ==
    ASSUME NEW fun, NEW S, IsFiniteSet(S), NEW x, x \notin S, \A y \in S \union {x} : fun[y] \in Int
    PROVE  SumFunctionOnSet(fun, S \union {x}) = fun[x] + SumFunctionOnSet(fun, S)
<1>1. IsFiniteSet(S \union {x}) BY FS_AddElement
<1>2. (S \union {x}) \ {x} = S OBVIOUS
<1>3. PICK T : T = S \union {x} OBVIOUS
<1>4. SumFunctionOnSet(fun, T) = fun[x] + SumFunctionOnSet(fun, T \ {x}) BY <1>1, <1>3, SumFacts
<1> QED BY <1>2, <1>3, <1>4

\* The sum over two disjoint sets is that of their sums.
LEMMA SumOfUnion ==
    ASSUME NEW fun, NEW S, IsFiniteSet(S), NEW T, IsFiniteSet(T), S \intersect T = {},
           \A x \in S \union T : fun[x] \in Int
    PROVE  SumFunctionOnSet(fun, S \union T) = SumFunctionOnSet(fun, S) + SumFunctionOnSet(fun, T)
<1> DEFINE G == {t \in SUBSET T : SumFunctionOnSet(fun, S \union t)
                                    = SumFunctionOnSet(fun, S) + SumFunctionOnSet(fun, t)}
<1>1. ASSUME NEW t \in SUBSET T, \A u \in SUBSET t : u # t => u \in G PROVE t \in G
  <2>1. CASE t = {}
    <3>1. S \union t = S BY <2>1
    <3>2. SumFunctionOnSet(fun, t) = 0 /\ SumFunctionOnSet(fun, S) \in Int BY <2>1, SumFacts
    <3>3. SumFunctionOnSet(fun, S \union t) = SumFunctionOnSet(fun, S) BY <3>1
    <3>4. SumFunctionOnSet(fun, S) = SumFunctionOnSet(fun, S) + SumFunctionOnSet(fun, t) BY <3>2
    <3> QED BY <3>3, <3>4
  <2>2. CASE t # {}
    <3>1. PICK x \in t : TRUE BY <2>2
    <3>2. PICK u \in SUBSET t : u = t \ {x} OBVIOUS
    <3>3. u \in G BY <1>1, <3>1, <3>2
    <3>4. x \notin S \union u /\ x \notin u /\ x \in T BY <3>1, <3>2
    <3>5. IsFiniteSet(u) /\ IsFiniteSet(S \union u) BY FS_Subset, FS_Union
    <3>6. t = u \union {x} /\ S \union t = (S \union u) \union {x} BY <3>1, <3>2
    <3>7. fun[x] \in Int /\ \A y \in S \union u : fun[y] \in Int BY <3>4
    <3>8. SumFunctionOnSet(fun, t) = fun[x] + SumFunctionOnSet(fun, u)
      <4>1. \A y \in u \union {x} : fun[y] \in Int BY <3>7
      <4> QED BY <3>4, <3>5, <3>6, <4>1, SumAdds
    <3>9. SumFunctionOnSet(fun, S \union t) = fun[x] + SumFunctionOnSet(fun, S \union u)
      <4>1. \A y \in (S \union u) \union {x} : fun[y] \in Int BY <3>7
      <4> QED BY <3>4, <3>5, <3>6, <4>1, SumAdds
    <3>10. SumFunctionOnSet(fun, S) \in Int /\ SumFunctionOnSet(fun, u) \in Int
      BY <3>5, SumFacts
    <3>11. SumFunctionOnSet(fun, S \union u) = SumFunctionOnSet(fun, S) + SumFunctionOnSet(fun, u)
      BY <3>3
    <3> QED BY <3>7, <3>8, <3>9, <3>10, <3>11
  <2> QED BY <2>1, <2>2
<1>2. G = SUBSET T
  <2>1. G \in SUBSET SUBSET T OBVIOUS
  <2> HIDE DEF G
  <2> QED BY <1>1, <2>1, BySubsets
<1>3. T \in SUBSET T OBVIOUS
<1> QED BY <1>2, <1>3

\* Sums by a key add up to the overall one.
LEMMA SumOfParts ==
    ASSUME NEW fun, NEW S, IsFiniteSet(S), \A x \in S : fun[x] \in Int,
           NEW K, IsFiniteSet(K), NEW key \in [S -> K],
           NEW part, \A k \in K : part[k] = {x \in S : key[x] = k},
           NEW gun, \A k \in K : gun[k] = SumFunctionOnSet(fun, part[k])
    PROVE  SumFunctionOnSet(gun, K) = SumFunctionOnSet(fun, S)
<1> DEFINE Part(L) == {x \in S : key[x] \in L}
           G == {L \in SUBSET K : SumFunctionOnSet(gun, L) = SumFunctionOnSet(fun, Part(L))}
<1>1. \A L \in SUBSET K : IsFiniteSet(L) /\ IsFiniteSet(Part(L)) BY FS_Subset
<1>2. \A k \in K : gun[k] \in Int
  <2>1. ASSUME NEW k \in K PROVE gun[k] \in Int
    <3>1. PICK P : P = part[k] /\ P = {x \in S : key[x] = k} OBVIOUS
    <3>2. IsFiniteSet(P) /\ \A x \in P : fun[x] \in Int BY <3>1, FS_Subset
    <3>3. SumFunctionOnSet(fun, P) \in Int BY <3>2, SumFacts
    <3> QED BY <3>1, <3>3
  <2> QED BY <2>1
<1>3. ASSUME NEW L \in SUBSET K, \A M \in SUBSET L : M # L => M \in G PROVE L \in G
  <2>1. CASE L = {}
    <3>1. Part(L) = {} BY <2>1
    <3>2. SumFunctionOnSet(gun, {}) = 0
      <4>1. IsFiniteSet({}) BY FS_EmptySet
      <4> QED BY <4>1, SumFacts
    <3>3. SumFunctionOnSet(fun, {}) = 0 BY SumFacts
    <3> QED BY <2>1, <3>1, <3>2, <3>3
  <2>2. CASE L # {}
    <3>1. PICK k \in L : TRUE BY <2>2
    <3>2. PICK M \in SUBSET L : M = L \ {k} OBVIOUS
    <3>3. M \in G BY <1>3, <3>1, <3>2
    <3>4. L = M \union {k} /\ k \notin M /\ k \in K BY <3>1, <3>2
    <3>5. SumFunctionOnSet(gun, L) = gun[k] + SumFunctionOnSet(gun, M)
      <4>1. \A y \in M \union {k} : gun[y] \in Int BY <1>2, <3>4
      <4>2. IsFiniteSet(M) BY <1>1
      <4> QED BY <3>4, <4>1, <4>2, SumAdds
    <3>6. PICK P : P = part[k] /\ P = {x \in S : key[x] = k} BY <3>4
    <3>7. PICK Q : Q = Part(M) OBVIOUS
    <3>8. Part(L) = Q \union P /\ Q \intersect P = {} BY <3>4, <3>6, <3>7
    <3>9. IsFiniteSet(P) /\ IsFiniteSet(Q) /\ \A x \in Q \union P : fun[x] \in Int
      BY <3>6, <3>7, FS_Subset
    <3>10. SumFunctionOnSet(fun, Q \union P) = SumFunctionOnSet(fun, Q) + SumFunctionOnSet(fun, P)
      BY <3>8, <3>9, SumOfUnion
    <3>11. SumFunctionOnSet(fun, Q) \in Int /\ SumFunctionOnSet(fun, P) \in Int
      BY <3>9, SumFacts
    <3>12. gun[k] = SumFunctionOnSet(fun, P) BY <3>4, <3>6
    <3>13. SumFunctionOnSet(gun, M) = SumFunctionOnSet(fun, Q) BY <3>3, <3>7
    <3>14. SumFunctionOnSet(fun, Part(L)) = SumFunctionOnSet(fun, Q) + SumFunctionOnSet(fun, P)
      BY <3>8, <3>10
    <3>15. SumFunctionOnSet(gun, L) = SumFunctionOnSet(fun, P) + SumFunctionOnSet(fun, Q)
      BY <3>5, <3>12, <3>13
    <3> QED BY <3>11, <3>14, <3>15
  <2> QED BY <2>1, <2>2
<1>4. G = SUBSET K
  <2>1. G \in SUBSET SUBSET K OBVIOUS
  <2> HIDE DEF G
  <2> QED BY <1>3, <2>1, BySubsets
<1>5. K \in SUBSET K /\ Part(K) = S OBVIOUS
<1> QED BY <1>4, <1>5

\* A set has as many elements as the ones over it add up to.
LEMMA CardinalityIsSum ==
    ASSUME NEW fun, NEW S, IsFiniteSet(S), \A x \in S : fun[x] = 1
    PROVE  SumFunctionOnSet(fun, S) = Cardinality(S)
<1> DEFINE G == {s \in SUBSET S : SumFunctionOnSet(fun, s) = Cardinality(s)}
<1>1. ASSUME NEW s \in SUBSET S, \A t \in SUBSET s : t # s => t \in G PROVE s \in G
  <2>1. IsFiniteSet(s) BY FS_Subset
  <2>2. CASE s = {}
    <3>1. SumFunctionOnSet(fun, {}) = 0 BY SumFacts
    <3> QED BY <2>2, <3>1, FS_EmptySet
  <2>3. CASE s # {}
    <3>1. PICK x \in s : TRUE BY <2>3
    <3>2. PICK t \in SUBSET s : t = s \ {x} OBVIOUS
    <3>3. SumFunctionOnSet(fun, t) = Cardinality(t) BY <1>1, <3>1, <3>2
    <3>4. s = t \union {x} /\ x \notin t /\ IsFiniteSet(t) BY <2>1, <3>1, <3>2, FS_Subset
    <3>5. \A y \in t \union {x} : fun[y] \in Int BY <3>4
    <3>6. SumFunctionOnSet(fun, t \union {x}) = fun[x] + SumFunctionOnSet(fun, t)
      BY <3>4, <3>5, SumAdds
    <3>7. Cardinality(t \union {x}) = Cardinality(t) + 1 BY <3>4, FS_AddElement
    <3>8. Cardinality(t) \in Nat /\ fun[x] = 1 BY <3>1, <3>4, FS_CardinalityType
    <3> QED BY <3>3, <3>4, <3>6, <3>7, <3>8
  <2> QED BY <2>2, <2>3
<1>2. G = SUBSET S
  <2>1. G \in SUBSET SUBSET S OBVIOUS
  <2> HIDE DEF G
  <2> QED BY <1>1, <2>1, BySubsets
<1>3. S \in SUBSET S OBVIOUS
<1> QED BY <1>2, <1>3

-----------------------------------------------------------------------------
\* Reports.

\* What a row adds to a component.
Worth(c, row) == IF c.aggregation = "count" THEN 1 ELSE row.value
Worths(c) == [row \in Rows |-> Worth(c, row)]

LEMMA RowsAreFinite == ASSUME NEW rows \in SUBSET Rows PROVE IsFiniteSet(rows)
BY RowsAssumption, FS_Subset

LEMMA AggregateIsSum ==
    ASSUME NEW c, c.aggregation \in {"count", "sum"}, NEW rows \in SUBSET Rows
    PROVE  Aggregate(c, rows) = SumFunctionOnSet(Worths(c), rows)
<1>1. IsFiniteSet(rows) BY RowsAreFinite
<1>2. CASE c.aggregation = "count"
  <2>1. \A row \in rows : Worths(c)[row] = 1 BY <1>2 DEF Worths, Worth
  <2>2. PICK fun : fun = Worths(c) OBVIOUS
  <2>3. SumFunctionOnSet(fun, rows) = Cardinality(rows) BY <1>1, <2>1, <2>2, CardinalityIsSum
  <2> QED BY <1>2, <2>2, <2>3 DEF Aggregate
<1>3. CASE c.aggregation # "count"
  <2> DEFINE Table(it) == it = [s \in SUBSET rows |->
                                  IF s = {} THEN 0 ELSE Some(s).value + it[s \ {Some(s)}]]
  <2>1. PICK fun : fun = Worths(c) OBVIOUS
  <2>2. ASSUME NEW it PROVE Table(it) <=> IsTable(it, fun, rows)
    <3>1. ASSUME NEW s \in SUBSET rows, s # {} PROVE Some(s).value = fun[Some(s)]
      BY <1>3, <2>1, <3>1, SomeIsIn DEF Worths, Worth
    <3> QED BY <3>1 DEF IsTable, SumOf
  <2>3. \E it : Table(it) BY <1>1, <2>2, TableExists
  <2>4. PICK it : it = CHOOSE f : Table(f) OBVIOUS
  <2>5. Table(it) BY <2>3, <2>4
  <2>6. Aggregate(c, rows) = it[rows]
    BY <1>3, <2>4 DEF Aggregate, MapThenSumSet, MapThenFoldSet, Some
  <2>7. PICK jt : IsTable(jt, fun, rows) /\ SumFunctionOnSet(fun, rows) = jt[rows]
    BY <1>1, SumIsInTable
  <2>8. it[rows] = jt[rows]
    <3> HIDE DEF Table
    <3>1. IsTable(it, fun, rows) BY <2>2, <2>5
    <3> QED BY <1>1, <2>7, <3>1, TablesAgree
  <2> QED BY <2>1, <2>6, <2>7, <2>8
<1> QED BY <1>2, <1>3

LEMMA OneOverallValue ==
    ASSUME NEW c, NEW rows, NEW lost
    PROVE  FetchedOverall(c, rows, lost) = Fetched(c, rows, lost).overall
BY DEF FetchedOverall, Fetched

\* The values of the variants add up to the overall one with what is of none of them, nothing
\* being missed or counted twice.
LEMMA FetchedAddsUp ==
    ASSUME NEW c, c.aggregation \in {"count", "sum"}, c.source # "discarded",
           NEW rows \in SUBSET Rows, NEW lost, ~QueryFails(c, lost),
           NEW values, \A v \in Variants : values[v] = VariantOf(Fetched(c, rows, lost), v),
           NEW others \in SUBSET Rows,
           others = {row \in rows : Selected(c, row) /\ row.variant \notin Variants}
    PROVE  Fetched(c, rows, lost).overall
             = SumFunctionOnSet(values, Variants) + SumFunctionOnSet(Worths(c), others)
<1> DEFINE mine == {row \in rows : Selected(c, row)}
           named == {row.variant : row \in mine} \ {""}
<1>1. PICK fun : fun = Worths(c) OBVIOUS
<1>2. IsFiniteSet(Variants) /\ "" \notin Variants /\ \A row \in Rows : row.value \in Int
  BY ReportsAreTyped
<1>3. \A row \in Rows : fun[row] \in Int
  <2>1. ASSUME NEW row \in Rows PROVE Worth(c, row) \in Int
    <3>1. row.value \in Int BY <1>2
    <3>2. Worth(c, row) \in {1, row.value} BY DEF Worth
    <3> QED BY <3>1, <3>2
  <2> QED BY <1>1, <2>1 DEF Worths
<1>4. PICK fetched : fetched = Fetched(c, rows, lost) OBVIOUS
<1>15. /\ fetched.overall = Aggregate(c, mine) /\ DOMAIN fetched.variants = named
       /\ \A v \in named : fetched.variants[v] = Aggregate(c, {row \in mine : row.variant = v})
  <2>1. fetched =
          [overall |-> Aggregate(c, mine),
           variants |-> [v \in named |-> Aggregate(c, {row \in mine : row.variant = v})]]
    BY <1>4 DEF Fetched
  <2> HIDE DEF mine, named
  <2> QED BY <2>1
<1>5. PICK M \in SUBSET Rows : M = mine OBVIOUS
<1>6. PICK I \in SUBSET Rows : I = {row \in M : row.variant \in Variants} OBVIOUS
<1>7. IsFiniteSet(I) /\ IsFiniteSet(others) BY RowsAreFinite
<1>8. M = I \union others /\ I \intersect others = {} BY <1>5, <1>6
<1>9. PICK key : key = [row \in I |-> row.variant] OBVIOUS
<1>10. key \in [I -> Variants] BY <1>6, <1>9
<1>11. ASSUME NEW v \in Variants
       PROVE  values[v] = SumFunctionOnSet(fun, {row \in I : key[row] = v})
  <2>1. PICK N \in SUBSET Rows : N = {row \in I : key[row] = v} OBVIOUS
  <2>2. N = {row \in mine : row.variant = v} BY <1>5, <1>6, <1>9, <2>1
  <2>3. CASE v \in named
    <3>1. fetched.variants[v] = Aggregate(c, N) /\ v \in DOMAIN fetched.variants
      BY <1>15, <2>2, <2>3
    <3>2. VariantOf(fetched, v) = Aggregate(c, N) BY <3>1 DEF VariantOf
    <3> QED BY <1>1, <1>4, <2>1, <3>2, AggregateIsSum
  <2>4. CASE v \notin named
    <3>1. VariantOf(Fetched(c, rows, lost), v) = 0
      <4>1. v \notin DOMAIN fetched.variants BY <1>15, <2>4
      <4> QED BY <1>4, <4>1 DEF VariantOf
    <3>2. N = {} BY <1>2, <2>2, <2>4
    <3>3. SumFunctionOnSet(fun, {}) = 0 BY <1>3, <1>7, SumFacts
    <3> QED BY <2>1, <3>1, <3>2, <3>3
  <2> QED BY <2>3, <2>4
<1>12. SumFunctionOnSet(values, Variants) = SumFunctionOnSet(fun, I)
  <2>1. \A row \in I : fun[row] \in Int BY <1>3
  <2>2. PICK part : part = [v \in Variants |-> {row \in I : key[row] = v}] OBVIOUS
  <2>3. \A v \in Variants : part[v] = {row \in I : key[row] = v} BY <2>2
  <2>4. \A v \in Variants : values[v] = SumFunctionOnSet(fun, part[v]) BY <1>11, <2>3
  <2>5. IsFiniteSet(Variants) /\ IsFiniteSet(I) BY <1>2, <1>7
  <2> QED BY ONLY <1>10, <2>1, <2>3, <2>4, <2>5, SumOfParts
<1>13. SumFunctionOnSet(fun, M) = SumFunctionOnSet(fun, I) + SumFunctionOnSet(fun, others)
  <2>1. \A row \in I \union others : fun[row] \in Int BY <1>3
  <2> QED BY <1>7, <1>8, <2>1, SumOfUnion
<1>14. Aggregate(c, M) = SumFunctionOnSet(fun, M) BY <1>1, AggregateIsSum
<1> QED BY <1>1, <1>4, <1>5, <1>12, <1>13, <1>14, <1>15

\* The least and the greatest value of some rows.
LEMMA Extremes ==
    ASSUME NEW rows \in SUBSET Rows, rows # {}
    PROVE  LET values == {row.value : row \in rows}
           IN  /\ Min(values) \in values /\ \A row \in rows : Min(values) <= row.value
               /\ Max(values) \in values /\ \A row \in rows : Max(values) >= row.value
<1> DEFINE Least(s) == \E row \in s : \A other \in s : row.value <= other.value
           Greatest(s) == \E row \in s : \A other \in s : row.value >= other.value
           G == {s \in SUBSET rows : s # {} => Least(s) /\ Greatest(s)}
           values == {row.value : row \in rows}
<1>1. \A row \in rows : row.value \in Int BY ReportsAreTyped
<1>2. ASSUME NEW s \in SUBSET rows, \A t \in SUBSET s : t # s => t \in G PROVE s \in G
  <2>1. SUFFICES ASSUME s # {} PROVE Least(s) /\ Greatest(s) OBVIOUS
  <2>2. PICK x \in s : TRUE BY <2>1
  <2>3. PICK t \in SUBSET s : t = s \ {x} OBVIOUS
  <2>4. t \in G
    <3> HIDE DEF G
    <3> QED BY <1>2, <2>2, <2>3
  <2>5. CASE t = {}
    <3>1. s = {x} BY <2>2, <2>3, <2>5
    <3> QED BY <1>1, <3>1
  <2>6. CASE t # {}
    <3>1. PICK low \in t : \A other \in t : low.value <= other.value BY <2>4, <2>6
    <3>2. PICK high \in t : \A other \in t : high.value >= other.value BY <2>4, <2>6
    <3>3. s = t \union {x} BY <2>2, <2>3
    <3>4. x.value \in Int /\ low.value \in Int /\ high.value \in Int
          /\ \A other \in t : other.value \in Int
      BY <1>1, <2>2
    <3>5. Least(s)
      <4>1. CASE x.value <= low.value
        <5>1. \A other \in s : x.value <= other.value BY <3>1, <3>3, <3>4, <4>1
        <5> QED BY <2>2, <5>1
      <4>2. CASE low.value <= x.value
        <5>1. \A other \in s : low.value <= other.value BY <3>1, <3>3, <3>4, <4>2
        <5> QED BY <5>1
      <4> QED BY <3>4, <4>1, <4>2
    <3>6. Greatest(s)
      <4>1. CASE x.value >= high.value
        <5>1. \A other \in s : x.value >= other.value BY <3>2, <3>3, <3>4, <4>1
        <5> QED BY <2>2, <5>1
      <4>2. CASE high.value >= x.value
        <5>1. \A other \in s : high.value >= other.value BY <3>2, <3>3, <3>4, <4>2
        <5> QED BY <5>1
      <4> QED BY <3>4, <4>1, <4>2
    <3> QED BY <3>5, <3>6
  <2> QED BY <2>5, <2>6
<1>3. G = SUBSET rows
  <2>1. G \in SUBSET SUBSET rows /\ IsFiniteSet(rows) BY RowsAreFinite
  <2> HIDE DEF G
  <2> QED BY <1>2, <2>1, BySubsets
<1>4. Least(rows) /\ Greatest(rows)
  <2>1. rows \in G BY <1>3
  <2> QED BY <2>1
<1>5. \E n \in values : \A m \in values : n <= m BY <1>4
<1>6. \E n \in values : \A m \in values : n >= m BY <1>4
<1> HIDE DEF values
<1>7. Min(values) \in values /\ \A m \in values : Min(values) <= m BY <1>5 DEF Min
<1>8. Max(values) \in values /\ \A m \in values : Max(values) >= m BY <1>6 DEF Max
<1> QED BY <1>7, <1>8 DEF values

\* So are those of the variants, and of what is of none of them.
LEMMA FetchedIsExtreme ==
    ASSUME NEW c, c.aggregation \in {"min", "max"}, c.source # "discarded",
           NEW rows \in SUBSET Rows, NEW lost, ~QueryFails(c, lost),
           NEW fetched, fetched = Fetched(c, rows, lost),
           NEW values, \A v \in Variants : values[v] = VariantOf(fetched, v),
           RowsOf(c, rows) # {},
           NEW parts, parts = Parts(values, RowsOf(c, rows))
    PROVE  /\ fetched.overall \in parts
           /\ c.aggregation = "min" => \A part \in parts : fetched.overall <= part
           /\ c.aggregation = "max" => \A part \in parts : fetched.overall >= part
<1> DEFINE Beats(n, m) == IF c.aggregation = "min" THEN n <= m ELSE n >= m
<1>13. PICK mine \in SUBSET Rows :
         mine = RowsOf(c, rows) /\ mine = {row \in rows : Selected(c, row)}
  BY DEF RowsOf
<1>14. /\ mine # {}
       /\ parts = {values[v] : v \in Variants \intersect {row.variant : row \in mine}}
                    \union {row.value : row \in {row \in mine : row.variant \notin Variants}}
  BY <1>13 DEF Parts, OfNone
<1> DEFINE Of(v) == {row \in mine : row.variant = v}
           named == {row.variant : row \in mine} \ {""}
<1>1. PICK overall : overall = Aggregate(c, mine) OBVIOUS
<1>2. "" \notin Variants /\ \A row \in Rows : row.value \in Int BY ReportsAreTyped
<1>11. /\ fetched.overall = overall /\ DOMAIN fetched.variants = named
       /\ \A v \in named : fetched.variants[v] = Aggregate(c, Of(v))
  <2>1. fetched = [overall |-> overall, variants |-> [v \in named |-> Aggregate(c, Of(v))]]
    BY <1>1, <1>13 DEF Fetched
  <2> HIDE DEF Of, named
  <2> QED BY <2>1
<1>4. ASSUME NEW some \in SUBSET Rows, some # {}
      PROVE  /\ \E row \in some : Aggregate(c, some) = row.value
             /\ \A row \in some : Beats(Aggregate(c, some), row.value)
  <2>1. CASE c.aggregation = "min"
    <3>1. Aggregate(c, some) = Min({row.value : row \in some}) BY <1>4, <2>1 DEF Aggregate
    <3> QED BY <1>4, <2>1, <3>1, Extremes
  <2>2. CASE c.aggregation = "max"
    <3>1. Aggregate(c, some) = Max({row.value : row \in some}) BY <1>4, <2>2 DEF Aggregate
    <3> QED BY <1>4, <2>2, <3>1, Extremes
  <2> QED BY <2>1, <2>2
<1>5. ASSUME NEW v \in Variants \intersect {row.variant : row \in mine}
      PROVE  /\ \E row \in mine : row.variant = v /\ values[v] = row.value
             /\ \A row \in mine : row.variant = v => Beats(values[v], row.value)
  <2>1. Of(v) \in SUBSET Rows /\ Of(v) # {} /\ v \in named BY <1>2, <1>5
  <2>2. v \in DOMAIN fetched.variants /\ fetched.variants[v] = Aggregate(c, Of(v))
    BY <1>11, <2>1
  <2>3. values[v] = Aggregate(c, Of(v)) BY <2>2 DEF VariantOf
  <2> QED BY <1>4, <2>1, <2>3
<1>6. PICK best \in mine : overall = best.value BY <1>1, <1>4, <1>14
<1>7. \A row \in mine : Beats(overall, row.value) BY <1>1, <1>4
<1>8. \A part \in parts : \E row \in mine : part = row.value BY <1>5, <1>14
<1>9. overall \in parts
  <2>1. CASE best.variant \notin Variants BY <1>6, <1>14, <2>1
  <2>2. CASE best.variant \in Variants
    <3>1. PICK v \in Variants \intersect {row.variant : row \in mine} : v = best.variant
      BY <2>2
    <3>2. PICK row \in mine : values[v] = row.value BY <1>5
    <3>3. Beats(values[v], overall) /\ Beats(overall, values[v]) BY <1>5, <1>6, <1>7, <3>1, <3>2
    <3>4. values[v] \in Int /\ overall \in Int BY <1>2, <1>6, <3>2
    <3>5. values[v] = overall BY <3>3, <3>4
    <3> QED BY <1>14, <3>1, <3>5
  <2> QED BY <2>1, <2>2
<1>10. ASSUME NEW part \in parts PROVE Beats(overall, part)
  <2>1. PICK row \in mine : part = row.value BY <1>8
  <2> QED BY <1>7, <2>1
<1>12. /\ c.aggregation = "min" => \A part \in parts : overall <= part
       /\ c.aggregation = "max" => \A part \in parts : overall >= part
  BY <1>10
<1> QED BY <1>9, <1>11, <1>12

LEMMA OneOverallFigure ==
    ASSUME NEW metric \in Metrics, NEW rows, NEW variants, NEW lost
    PROVE  GuardResult(metric, rows, lost) = ReportResult(metric, rows, variants, lost).overall
<1>1. Len(metric) \in 1..2 /\ DOMAIN metric = 1..Len(metric) BY ReportsAreTyped
<1>2. FetchedOverall(metric[1], rows, lost[1]) = Fetched(metric[1], rows, lost[1]).overall
  BY OneOverallValue
<1>3. FetchedOverall(metric[2], rows, lost[2]) = Fetched(metric[2], rows, lost[2]).overall
  BY OneOverallValue
<1>4. CASE DOMAIN metric = {1} BY <1>2, <1>4 DEF GuardResult, ReportResult
<1>5. CASE DOMAIN metric # {1} BY <1>2, <1>3, <1>5 DEF GuardResult, ReportResult, SafeDiv
<1> QED BY <1>4, <1>5

LEMMA FiguresAreMadeOfParts ==
    ASSUME NEW metric \in Metrics, Len(metric) = 1, metric[1].source # "discarded",
           NEW rows \in SUBSET Rows, NEW lost, ~QueryFails(metric[1], lost[1]), NEW point,
           point = ReportResult(metric, rows, Variants, lost)
    PROVE  MadeOfParts(metric[1], rows, point)
<1>1. DOMAIN metric = {1}
      /\ metric[1].aggregation \in {"count", "sum", "min", "max", "quantile"}
  <2>1. DOMAIN metric = 1..Len(metric)
        /\ \A k \in DOMAIN metric :
              metric[k].aggregation \in {"count", "sum", "min", "max", "quantile"}
    BY ReportsAreTyped
  <2> QED BY <2>1
<1>2. PICK c : c = metric[1] OBVIOUS
<1>3. PICK fetched : fetched = Fetched(c, rows, lost[1]) OBVIOUS
<1>4. point = [overall |-> Whole(fetched.overall),
               variants |-> [v \in Variants |-> Whole(VariantOf(fetched, v))]]
  BY <1>1, <1>2, <1>3 DEF ReportResult
<1>5. PICK figures : figures = [v \in Variants |-> point.variants[v].num] OBVIOUS
<1>6. \A v \in Variants : figures[v] = VariantOf(fetched, v) BY <1>4, <1>5 DEF Whole
<1>7. PICK mine \in SUBSET Rows : mine = RowsOf(c, rows) BY DEF RowsOf
<1>8. PICK others \in SUBSET Rows : others = OfNone(mine) BY DEF OfNone
<1>9. PICK parts : parts = Parts(figures, mine) OBVIOUS
<1>10. point.overall.num = fetched.overall BY <1>4 DEF Whole
<1>11. CASE c.aggregation \in {"count", "sum"}
  <2>1. fetched.overall
          = SumFunctionOnSet(figures, Variants) + SumFunctionOnSet(Worths(c), others)
    <3>1. others = {row \in rows : Selected(c, row) /\ row.variant \notin Variants}
      BY <1>7, <1>8 DEF RowsOf, OfNone
    <3> QED BY <1>2, <1>3, <1>6, <1>11, <3>1, FetchedAddsUp
  <2>2. SumFunction(figures) = SumFunctionOnSet(figures, Variants) BY <1>5 DEF SumFunction
  <2>3. PICK fun : fun = Worths(c) OBVIOUS
  <2>4. IsFiniteSet(others) BY RowsAreFinite
  <2>5. CASE c.aggregation = "count"
    <3>1. \A row \in others : fun[row] = 1 BY <2>3, <2>5 DEF Worths, Worth
    <3>2. SumFunctionOnSet(fun, others) = Cardinality(others) BY <2>4, <3>1, CardinalityIsSum
    <3>3. point.overall.num = SumFunction(figures) + Cardinality(others)
      BY <1>10, <2>1, <2>2, <2>3, <3>2
    <3> QED BY <1>2, <1>5, <1>7, <1>8, <2>5, <3>3 DEF MadeOfParts
  <2>6. CASE c.aggregation = "sum"
    <3>1. PICK gun : gun = [row \in others |-> row.value] OBVIOUS
    <3>2. \A row \in others : fun[row] = gun[row] BY <2>3, <2>6, <3>1 DEF Worths, Worth
    <3>3. SumFunctionOnSet(fun, others) = SumFunctionOnSet(gun, others)
      BY <2>4, <3>2, SameSums
    <3>4. SumFunction(gun) = SumFunctionOnSet(gun, others) BY <3>1 DEF SumFunction
    <3>5. point.overall.num = SumFunction(figures) + SumFunction(gun)
      BY <1>10, <2>1, <2>2, <2>3, <3>3, <3>4
    <3> QED BY <1>2, <1>5, <1>7, <1>8, <2>6, <3>1, <3>5 DEF MadeOfParts
  <2> QED BY <1>11, <2>5, <2>6
<1>12. CASE c.aggregation \in {"min", "max"}
  <2>1. ASSUME mine # {}
        PROVE  /\ fetched.overall \in parts
               /\ c.aggregation = "min" => \A part \in parts : fetched.overall <= part
               /\ c.aggregation = "max" => \A part \in parts : fetched.overall >= part
    BY <1>2, <1>3, <1>6, <1>7, <1>9, <1>12, <2>1, FetchedIsExtreme
  <2> QED BY <1>2, <1>5, <1>7, <1>8, <1>9, <1>10, <1>12, <2>1 DEF MadeOfParts
<1>13. CASE c.aggregation = "quantile" BY <1>2, <1>13 DEF MadeOfParts
<1> QED BY <1>1, <1>2, <1>11, <1>12, <1>13

\* The insights divide by nothing just where no row can be attributed.
LEMMA FullnessIsAShare ==
    ASSUME NEW rows \in SUBSET Rows
    PROVE  /\ Fullness(rows).den = 0 <=> rows # {} /\ \A row \in rows : row.table # "events"
           /\ Fullness(rows).den # 0 => Fullness(rows).num \in 0..Fullness(rows).den
<1> DEFINE some == {row \in rows : InsightStatus(row) \in Attributable}
           accepted == {row \in rows : InsightStatus(row) \in {"accepted"}}
<1>1. IsFiniteSet(rows) BY RowsAreFinite
<1>2. /\ IsFiniteSet(some) /\ Cardinality(some) \in Nat
      /\ Cardinality(accepted) \in Nat /\ Cardinality(accepted) <= Cardinality(some)
  <2>1. some \subseteq rows /\ accepted \subseteq some BY DEF Attributable
  <2> HIDE DEF some, accepted
  <2>2. IsFiniteSet(some) BY <1>1, <2>1, FS_Subset
  <2>3. IsFiniteSet(accepted) /\ Cardinality(accepted) <= Cardinality(some)
    BY <2>1, <2>2, FS_Subset
  <2> QED BY <2>2, <2>3, FS_CardinalityType
<1>3. Cardinality(some) = 0 <=> some = {} BY <1>2, FS_EmptySet
<1>4. some = {} <=> \A row \in rows : row.table # "events"
  <2>1. ASSUME NEW row \in rows PROVE InsightStatus(row) \in Attributable <=> row.table = "events"
    <3>1. row.table \in {"events", "discarded", "duplicate"} BY ReportsAreTyped
    <3> QED BY <3>1 DEF InsightStatus, Attributable
  <2> QED BY <2>1
<1>5. Counted(rows, Attributable) = Cardinality(some)
      /\ Counted(rows, {"accepted"}) = Cardinality(accepted)
  BY DEF Counted
<1> HIDE DEF some, accepted
<1>6. CASE rows = {} BY <1>6 DEF Fullness, Whole
<1>7. CASE rows # {} /\ Cardinality(some) = 0 BY <1>3, <1>4, <1>5, <1>7 DEF Fullness
<1>8. CASE rows # {} /\ Cardinality(some) # 0
  <2>1. Fullness(rows) = [num |-> Cardinality(accepted), den |-> Cardinality(some)]
    BY <1>5, <1>8 DEF Fullness
  <2> QED BY <1>2, <1>3, <1>4, <1>8, <2>1
<1> QED BY <1>6, <1>7, <1>8

\* The sample is one of values or of rows.
\* A report shows for each metric what its guardrail reads, over any rows and any metrics, and
\* that is made of the figures of the variants and the rows of none of them; the insights fail
\* where there are rows but none to attribute (_calculate_result,
\* evaluate_only_overall_for_experiment, query_insights).
THEOREM ReportsAgreeWithGuardrails == AlgorithmsSpec => []FiguresAgree
<1>1. ASSUME SampleTyped PROVE FiguresAgree
  <2> SUFFICES ASSUME topic = "rows", sample # <<>>, NEW rows \in SUBSET Rows, rows = sample[1]
               PROVE  FiguresAgree
    BY <1>1 DEF SampleTyped, FiguresAgree
  <2>1. ASSUME NEW metric \in Metrics, NEW lost \in Losses, NEW point,
               point = ReportPoints(<<"m", "n">>, [k \in {"m"} |-> metric], rows,
                                    Variants, lost)[1]
        PROVE  /\ GuardResult(metric, rows, lost) = point.overall
               /\ Len(metric) = 1 /\ metric[1].source # "discarded"
                  /\ ~QueryFails(metric[1], lost[1])
                    => MadeOfParts(metric[1], rows, point)
    <3>1. point = ReportResult(metric, rows, Variants, lost) BY <2>1 DEF ReportPoints
    <3>2. GuardResult(metric, rows, lost) = point.overall BY <3>1, OneOverallFigure
    <3>3. ASSUME Len(metric) = 1, metric[1].source # "discarded",
                 ~QueryFails(metric[1], lost[1])
          PROVE  MadeOfParts(metric[1], rows, point)
      BY <3>1, <3>3, FiguresAreMadeOfParts
    <3> QED BY <3>2, <3>3
  <2>2. /\ Fullness(rows).den = 0 <=> rows # {} /\ \A row \in rows : row.table # "events"
        /\ Fullness(rows).den # 0 => Fullness(rows).num \in 0..Fullness(rows).den
    BY FullnessIsAShare
  <2> QED BY <2>1, <2>2 DEF FiguresAgree
<1> QED BY <1>1, SamplesAreTyped, PTL

-----------------------------------------------------------------------------
\* Comparisons.

LEMMA TypesOfValues ==
    ASSUME NEW a \in Values
    PROVE  \/ a = None
           \/ /\ a.type \in {"bool", "number", "moment", "plain", "date_text", "iso_text",
                             "version_text"}
              /\ a.rank \in Int
              /\ a.type \in {"bool", "number"} => a.moment \in Int
              /\ a # None
BY ValuesAreTyped DEF ValueType, None

\* A number is close to itself, and as close to another as that is to it.
LEMMA CloseFacts ==
    ASSUME NEW x \in Int, NEW y \in Int
    PROVE  /\ IsClose(x, x)
           /\ IsClose(x, y) <=> IsClose(y, x)
<1>1. Precision \in Nat /\ One \in Nat BY NumbersAreMeasured
<1>2. Apart(x, x) = 0 /\ Precision * 0 = 0 BY <1>1 DEF Apart
<1>3. Precision * Apart(x, x) <= One BY <1>1, <1>2
<1>4. Apart(x, y) = Apart(y, x) BY DEF Apart
<1> QED BY <1>3, <1>4 DEF IsClose

\* What is between close numbers is close to both.
LEMMA CloseBetween ==
    ASSUME NEW x \in Int, NEW y \in Int, NEW z \in Int, x > y, y > z, IsClose(x, z)
    PROVE  IsClose(x, y) /\ IsClose(y, z)
<1>1. Precision \in Nat /\ Precision >= 1 /\ One \in Nat BY NumbersAreMeasured
<1> DEFINE far == Precision * (x - z)
           high == Precision * (x - y)
           low == Precision * (y - z)
<1>2. Apart(x, z) = x - z /\ Apart(x, y) = x - y /\ Apart(y, z) = y - z BY DEF Apart
<1>3. far = high + low
  <2>1. \A u, v \in Int : Precision * (u + v) = Precision * u + Precision * v BY <1>1
  <2>2. x - z = (x - y) + (y - z) /\ x - y \in Int /\ y - z \in Int OBVIOUS
  <2> QED BY <2>1, <2>2
<1>4. high >= x - y /\ low >= y - z
  <2>1. \A u \in Nat : Precision * u >= u BY <1>1
  <2>2. x - y \in Nat /\ y - z \in Nat OBVIOUS
  <2> QED BY <2>1, <2>2
<1>5. far \in Int /\ high \in Int /\ low \in Int BY <1>1
<1>6. far <= One \/ far <= Apart(x, 0) \/ far <= Apart(z, 0) BY <1>2 DEF IsClose
<1> HIDE DEF far, high, low
<1>7. high <= One \/ high <= Apart(x, 0) \/ high <= Apart(y, 0)
  BY <1>1, <1>3, <1>4, <1>5, <1>6 DEF Apart
<1>8. low <= One \/ low <= Apart(y, 0) \/ low <= Apart(z, 0)
  BY <1>1, <1>3, <1>4, <1>5, <1>6 DEF Apart
<1> QED BY <1>2, <1>7, <1>8 DEF IsClose, high, low

LEMMA EqualAs ==
    ASSUME NEW a, NEW b, NEW p, NEW q, Coerced(a, b) = <<p, q>>, p # None, q # None
    PROVE  /\ CmpEq(a, b) <=> Equals(p, q)
           /\ CmpNeq(a, b) <=> ~Equals(p, q)
<1>1. Coerced(a, b)[1] = p /\ Coerced(a, b)[2] = q OBVIOUS
<1> QED BY <1>1 DEF CmpEq, CmpNeq

\* Sides that Python orders, of ranks x and y.
Sides(p, q, x, y) ==
    /\ p.rank = x /\ q.rank = y
    /\ p.type \notin {"version", "none"} /\ q.type \notin {"version", "none"}
    /\ p.type \in Dates \/ q.type \in Dates => p.type = q.type
    /\ Comparable(p, q)

\* A value's place beside another one: that of a number beside a moment is its timestamp.
Place(a, b) == IF IsNumber(a) /\ b.type = "moment" THEN a.moment ELSE a.rank

LEMMA ComparedAs ==
    ASSUME NEW a, NEW b, NEW p, NEW q, NEW x, NEW y,
           Coerced(a, b) = <<p, q>>, Sides(p, q, x, y)
    PROVE  /\ CmpGt(a, b) <=> x > y
           /\ CmpGe(a, b) <=> x >= y
           /\ CmpLt(a, b) <=> y > x
           /\ CmpEq(a, b) <=> Equals(p, q)
           /\ CmpNeq(a, b) <=> ~Equals(p, q)
<1>1. /\ p.rank = x /\ q.rank = y /\ p.type # "version" /\ q.type # "version"
      /\ p.type \in Dates \/ q.type \in Dates => p.type = q.type
      /\ Comparable(p, q)
  BY DEF Sides
<1>2. p # None /\ q # None BY DEF Sides, None
<1>3. GreaterOutcome(p, q) = (x > y) BY <1>1, Zenon DEF GreaterOutcome
<1>4. NotLess(p, q) = (x >= y) BY <1>1, Zenon DEF NotLess
<1>5. LessOutcome(p, q) = (y > x) BY <1>1, Zenon DEF LessOutcome, GreaterOutcome
<1>6. Coerced(a, b)[1] = p /\ Coerced(a, b)[2] = q OBVIOUS
<1>7. CmpGt(a, b) = GreaterOutcome(p, q) BY <1>1, <1>6, Zenon DEF CmpGt, AsCompared
<1>8. CmpGe(a, b) = NotLess(p, q) BY <1>1, <1>6 DEF CmpGe, AsCompared
<1>9. CmpLt(a, b) = LessOutcome(p, q) BY <1>1, <1>6 DEF CmpLt, AsCompared
<1>10. (CmpEq(a, b) <=> Equals(p, q)) /\ (CmpNeq(a, b) <=> ~Equals(p, q))
  BY <1>2, EqualAs
<1>11. CmpGt(a, b) <=> x > y BY <1>3, <1>7, Zenon
<1>12. CmpGe(a, b) <=> x >= y BY <1>4, <1>8, Zenon
<1>13. CmpLt(a, b) <=> y > x BY <1>5, <1>9, Zenon
<1> QED BY <1>1, <1>10, <1>11, <1>12, <1>13

LEMMA MomentsAreTyped ==
    ASSUME NEW a \in Values, a.type = "moment"
    PROVE  a = [type |-> "moment", rank |-> a.rank]
BY ValuesAreTyped DEF ValueType, None

LEMMA OrderedSides ==
    ASSUME NEW a \in Values, NEW b \in Values, Ordered(a, b)
    PROVE  \E p, q : /\ Coerced(a, b) = <<p, q>>
                     /\ IF Swapped(a, b) THEN Sides(p, q, Place(b, a), Place(a, b))
                                         ELSE Sides(p, q, Place(a, b), Place(b, a))
                     /\ Equals(p, q) <=> Place(a, b) = Place(b, a) \/ Near(a, b)
<1>1. CASE {a.type, b.type} \subseteq {"bool", "number"}
  <2>1. IsNumber(a) /\ IsNumber(b) BY <1>1 DEF IsNumber
  <2>2. Coerced(a, b) = <<a, b>> BY <1>1 DEF Coerced, Dates, IsText, Texts
  <2>3. ~Swapped(a, b) BY <1>1 DEF Swapped
  <2>4. Place(a, b) = a.rank /\ Place(b, a) = b.rank BY <1>1 DEF Place
  <2>5. Equals(a, b) <=> a.rank = b.rank \/ Near(a, b)
    <3>1. CASE a.type = "number" /\ b.type = "number"
      <4>1. a.rank \in Int /\ b.rank \in Int BY <1>1, TypesOfValues DEF None
      <4>2. IsClose(a.rank, a.rank) BY <4>1, CloseFacts
      <4> QED BY <3>1, <4>2 DEF Equals, Near
    <3>2. CASE ~(a.type = "number" /\ b.type = "number")
      <4>1. EqualOutcome(a, b) <=> a.rank = b.rank BY <1>1, <2>1 DEF EqualOutcome
      <4> QED BY <3>2, <4>1 DEF Equals, Near
    <3> QED BY <3>1, <3>2
  <2>6. Sides(a, b, a.rank, b.rank) BY <1>1, <2>1 DEF Sides, Comparable, Dates
  <2> QED BY <2>2, <2>3, <2>4, <2>5, <2>6
<1>2. CASE {a.type, b.type} \subseteq Texts /\ ~Versions(a, b)
  <2>1. IsText(a) /\ IsText(b) BY <1>2 DEF IsText
  <2>2. Coerced(a, b) = <<a, b>>
    BY <1>2 DEF Coerced, Dates, IsText, Texts, IsNumber, Versions, IsVersion
  <2>3. ~Swapped(a, b) BY <1>2 DEF Swapped, Texts
  <2>4. Place(a, b) = a.rank /\ Place(b, a) = b.rank BY <1>2 DEF Place, Texts
  <2>5. Equals(a, b) <=> a.rank = b.rank \/ Near(a, b)
    <3>1. Equals(a, b) <=> a = b BY <1>2 DEF Equals, EqualOutcome, IsNumber, Texts
    <3>2. ~Near(a, b) BY <1>2 DEF Near, Texts
    <3> QED BY <2>1, <3>1, <3>2, ValuesAreTyped
  <2>6. Sides(a, b, a.rank, b.rank) BY <1>2, <2>1 DEF Sides, Comparable, Dates, Texts
  <2> QED BY <2>2, <2>3, <2>4, <2>5, <2>6
<1>3. CASE a.type = "moment" /\ b.type = "moment"
  <2>1. Coerced(a, b) = <<a, b>>
    BY <1>3 DEF Coerced, Dates, IsText, Texts, IsNumber
  <2>2. ~Swapped(a, b) BY <1>3 DEF Swapped, IsText, Texts
  <2>3. Place(a, b) = a.rank /\ Place(b, a) = b.rank BY <1>3 DEF Place, IsNumber
  <2>4. Equals(a, b) <=> a.rank = b.rank \/ Near(a, b)
    <3>1. Equals(a, b) <=> a = b BY <1>3 DEF Equals, EqualOutcome, IsNumber
    <3> QED BY <1>3, <3>1, MomentsAreTyped DEF Near
  <2>5. Sides(a, b, a.rank, b.rank) BY <1>3 DEF Sides, Comparable, Dates
  <2> QED BY <2>1, <2>2, <2>3, <2>4, <2>5
<1>4. CASE a.type = "iso_text" /\ b.type = "moment"
  <2>1. PICK p : p = [type |-> "moment", rank |-> a.rank] OBVIOUS
  <2>2. ParsedText(a) = p BY <1>4, <2>1 DEF ParsedText, Read
  <2>3. Coerced(a, b) = <<p, b>> BY <1>4, <2>2 DEF Coerced, Dates, IsText, Texts
  <2>4. ~Swapped(a, b) BY <1>4 DEF Swapped
  <2>5. Place(a, b) = a.rank /\ Place(b, a) = b.rank BY <1>4 DEF Place, IsNumber
  <2>6. Equals(p, b) <=> a.rank = b.rank \/ Near(a, b)
    <3>1. Equals(p, b) <=> p = b BY <1>4, <2>1 DEF Equals, EqualOutcome, IsNumber
    <3> QED BY <1>4, <2>1, <3>1, MomentsAreTyped DEF Near
  <2>7. Sides(p, b, a.rank, b.rank) BY <1>4, <2>1 DEF Sides, Comparable, Dates
  <2> QED BY <2>3, <2>4, <2>5, <2>6, <2>7
<1>5. CASE a.type = "moment" /\ b.type = "iso_text"
  <2>1. PICK p : p = [type |-> "moment", rank |-> b.rank] OBVIOUS
  <2>2. ParsedText(b) = p BY <1>5, <2>1 DEF ParsedText, Read
  <2>3. Coerced(a, b) = <<p, a>> BY <1>5, <2>2 DEF Coerced, Dates, IsText, Texts
  <2>4. Swapped(a, b) BY <1>5 DEF Swapped, IsText, Texts
  <2>5. Place(a, b) = a.rank /\ Place(b, a) = b.rank BY <1>5 DEF Place, IsNumber
  <2>6. Equals(p, a) <=> a.rank = b.rank \/ Near(a, b)
    <3>1. Equals(p, a) <=> p = a BY <1>5, <2>1 DEF Equals, EqualOutcome, IsNumber
    <3> QED BY <1>5, <2>1, <3>1, MomentsAreTyped DEF Near
  <2>7. Sides(p, a, b.rank, a.rank) BY <1>5, <2>1 DEF Sides, Comparable, Dates
  <2> QED BY <2>3, <2>4, <2>5, <2>6, <2>7
<1>6. CASE a.type \in {"bool", "number"} /\ b.type = "moment"
  <2>1. PICK p : p = [type |-> "moment", rank |-> a.moment] OBVIOUS
  <2>2. Coerced(a, b) = <<p, b>>
    BY <1>6, <2>1 DEF Coerced, Dates, IsText, Texts, IsNumber, Timestamp
  <2>3. ~Swapped(a, b) BY <1>6 DEF Swapped
  <2>4. Place(a, b) = a.moment /\ Place(b, a) = b.rank BY <1>6 DEF Place, IsNumber
  <2>5. Equals(p, b) <=> a.moment = b.rank \/ Near(a, b)
    <3>1. Equals(p, b) <=> p = b BY <1>6, <2>1 DEF Equals, EqualOutcome, IsNumber
    <3> QED BY <1>6, <2>1, <3>1, MomentsAreTyped DEF Near
  <2>6. Sides(p, b, a.moment, b.rank) BY <1>6, <2>1 DEF Sides, Comparable, Dates
  <2> QED BY <2>2, <2>3, <2>4, <2>5, <2>6
<1>7. CASE a.type = "moment" /\ b.type \in {"bool", "number"}
  <2>1. PICK q : q = [type |-> "moment", rank |-> b.moment] OBVIOUS
  <2>2. Coerced(a, b) = <<a, q>>
    BY <1>7, <2>1 DEF Coerced, Dates, IsText, Texts, IsNumber, Timestamp
  <2>3. ~Swapped(a, b) BY <1>7 DEF Swapped, IsText, Texts
  <2>4. Place(a, b) = a.rank /\ Place(b, a) = b.moment BY <1>7 DEF Place, IsNumber
  <2>5. Equals(a, q) <=> a.rank = b.moment \/ Near(a, b)
    <3>1. Equals(a, q) <=> a = q BY <1>7, <2>1 DEF Equals, EqualOutcome, IsNumber
    <3> QED BY <1>7, <2>1, <3>1, MomentsAreTyped DEF Near
  <2>6. Sides(a, q, a.rank, b.moment) BY <1>7, <2>1 DEF Sides, Comparable, Dates
  <2> QED BY <2>2, <2>3, <2>4, <2>5, <2>6
<1> QED
  <2>1. \/ {a.type, b.type} \subseteq {"bool", "number"}
        \/ {a.type, b.type} \subseteq Texts /\ ~Versions(a, b)
        \/ /\ "moment" \in {a.type, b.type}
           /\ {a.type, b.type} \subseteq {"moment", "iso_text", "bool", "number"}
    BY DEF Ordered
  <2> QED BY <1>1, <1>2, <1>3, <1>4, <1>5, <1>6, <1>7, <2>1

\* Of values that have an order, the verdicts are those of their places.
LEMMA OrderedOutcomes ==
    ASSUME NEW a \in Values, NEW b \in Values, Ordered(a, b)
    PROVE  \E x, y \in Int :
              /\ IF Swapped(a, b) THEN x = Place(b, a) /\ y = Place(a, b)
                                  ELSE x = Place(a, b) /\ y = Place(b, a)
              /\ CmpGt(a, b) <=> x > y
              /\ CmpGe(a, b) <=> x >= y
              /\ CmpLt(a, b) <=> y > x
              /\ CmpEq(a, b) <=> x = y \/ Near(a, b)
              /\ CmpNeq(a, b) <=> ~CmpEq(a, b)
              /\ Near(a, b) => x # y
<1>1. PICK x, y : IF Swapped(a, b) THEN x = Place(b, a) /\ y = Place(a, b)
                                   ELSE x = Place(a, b) /\ y = Place(b, a)
  OBVIOUS
<1>2. PICK p, q : /\ Coerced(a, b) = <<p, q>> /\ Sides(p, q, x, y)
                  /\ Equals(p, q) <=> x = y \/ Near(a, b)
  BY <1>1, OrderedSides
<1>3. Place(a, b) \in Int /\ Place(b, a) \in Int
  <2>1. a.type # "none" /\ b.type # "none" BY DEF Ordered, Texts
  <2> QED BY <2>1, TypesOfValues DEF None, Place, IsNumber
<1>4. x \in Int /\ y \in Int BY <1>1, <1>3
<1>5. /\ CmpGt(a, b) <=> x > y
      /\ CmpGe(a, b) <=> x >= y
      /\ CmpLt(a, b) <=> y > x
      /\ CmpEq(a, b) <=> Equals(p, q)
      /\ CmpNeq(a, b) <=> ~Equals(p, q)
  BY <1>2, ComparedAs
<1>6. Near(a, b) => x # y BY <1>1 DEF Near, Place
<1> QED BY <1>1, <1>2, <1>4, <1>5, <1>6

\* What has no order satisfies nothing; != holds unless a side is undefined.
LEMMA UnorderedOutcomes ==
    ASSUME NEW a \in Values, NEW b \in Values, ~Ordered(a, b), ~Raises(a, b), ~Versions(a, b)
    PROVE  /\ ~CmpGt(a, b) /\ ~CmpLt(a, b) /\ ~CmpEq(a, b)
           /\ CmpNeq(a, b) <=> None \notin {a, b}
<1>1. \E p, q : /\ Coerced(a, b) = <<p, q>> /\ ~Comparable(p, q)
                /\ p.type # q.type \/ p = None
                /\ ~(p.type = "version" /\ q.type = "version")
                /\ ~(IsNumber(p) /\ IsNumber(q))
                /\ None \in {p, q} <=> None \in {a, b}
  <2> DEFINE Good(p, q) == /\ ~Comparable(p, q)
                           /\ p.type # q.type \/ p = None
                           /\ ~(p.type = "version" /\ q.type = "version")
                           /\ ~(IsNumber(p) /\ IsNumber(q))
                           /\ None \in {p, q} <=> None \in {a, b}
  <2>1. CASE a = None \/ b = None
    <3>1. a.type = "none" \/ b.type = "none" BY <2>1 DEF None
    <3>2. Coerced(a, b) = <<a, b>>
      BY <3>1 DEF Coerced, Dates, IsText, Texts, IsNumber
    <3>3. ~Comparable(a, b) BY <3>1 DEF Comparable, IsNumber, IsText, Texts, Dates
    <3>4. a = None \/ a.type # b.type
      BY <2>1, TypesOfValues DEF None
    <3>5. Good(a, b) BY <3>1, <3>3, <3>4 DEF IsNumber
    <3> QED BY <3>2, <3>5
  <2>2. CASE a # None /\ b # None
    <3> DEFINE types == {"bool", "number", "moment", "plain", "date_text", "iso_text",
                         "version_text"}
    <3>1. a.type \in types /\ b.type \in types BY <2>2, TypesOfValues
    <3>2. CASE a.type \in {"bool", "number"}
      <4>1. b.type \in Texts BY <3>1, <3>2 DEF Ordered, Texts
      <4>2. Coerced(a, b) = <<a, b>> BY <3>2, <4>1 DEF Coerced, Dates, IsText, Texts
      <4>3. ~Comparable(a, b) BY <3>2, <4>1 DEF Comparable, IsNumber, IsText, Texts, Dates
      <4>4. Good(a, b) BY <3>2, <4>1, <4>3 DEF IsNumber, Texts
      <4> QED BY <4>2, <4>4
    <3>3. CASE b.type \in {"bool", "number"}
      <4>1. a.type \in Texts BY <3>1, <3>3 DEF Ordered, Texts
      <4>2. Coerced(a, b) = <<a, b>> BY <3>3, <4>1 DEF Coerced, Dates, IsText, Texts
      <4>3. ~Comparable(a, b) BY <3>3, <4>1 DEF Comparable, IsNumber, IsText, Texts, Dates
      <4>4. Good(a, b) BY <3>3, <4>1, <4>3 DEF IsNumber, Texts
      <4> QED BY <4>2, <4>4
    <3>4. CASE a.type = "moment" /\ b.type \notin {"bool", "number"}
      <4>1. b.type \in {"plain", "version_text"} BY <3>1, <3>4 DEF Ordered, Raises
      <4>2. ParsedText(b) = b BY <4>1 DEF ParsedText
      <4>3. Coerced(a, b) = <<b, a>> BY <3>4, <4>1, <4>2 DEF Coerced, Dates, IsText, Texts
      <4>4. ~Comparable(b, a) BY <3>4, <4>1 DEF Comparable, IsNumber, IsText, Texts, Dates
      <4>5. Good(b, a) BY <3>4, <4>1, <4>4 DEF IsNumber
      <4> QED BY <4>3, <4>5
    <3>5. CASE b.type = "moment" /\ a.type \notin {"bool", "number"}
      <4>1. a.type \in {"plain", "version_text"} BY <3>1, <3>5 DEF Ordered, Raises
      <4>2. ParsedText(a) = a BY <4>1 DEF ParsedText
      <4>3. Coerced(a, b) = <<a, b>> BY <3>5, <4>1, <4>2 DEF Coerced, Dates, IsText, Texts
      <4>4. ~Comparable(a, b) BY <3>5, <4>1 DEF Comparable, IsNumber, IsText, Texts, Dates
      <4>5. Good(a, b) BY <3>5, <4>1, <4>4 DEF IsNumber
      <4> QED BY <4>3, <4>5
    <3>6. {a.type, b.type} \subseteq Texts => Ordered(a, b) \/ Versions(a, b)
      BY DEF Ordered, Texts
    <3> QED BY <3>1, <3>2, <3>3, <3>4, <3>5, <3>6 DEF Texts
  <2> QED BY <2>1, <2>2
<1>2. PICK p, q : /\ Coerced(a, b) = <<p, q>> /\ ~Comparable(p, q)
                  /\ p.type # q.type \/ p = None
                  /\ ~(p.type = "version" /\ q.type = "version")
                  /\ ~(IsNumber(p) /\ IsNumber(q))
                  /\ None \in {p, q} <=> None \in {a, b}
  BY <1>1
<1>3. Coerced(a, b)[1] = p /\ Coerced(a, b)[2] = q BY <1>2
<1>4. \A op : AsCompared(a, op, b) = FALSE BY <1>2, <1>3, Zenon DEF AsCompared
<1>5. ~CmpGt(a, b) /\ ~CmpLt(a, b) BY <1>4, Zenon DEF CmpGt, CmpLt
<1>6. None \notin {p, q} => ~Equals(p, q) BY <1>2 DEF Equals, EqualOutcome, IsNumber
<1>7. ~CmpEq(a, b) /\ (CmpNeq(a, b) <=> None \notin {p, q}) BY <1>3, <1>6 DEF CmpEq, CmpNeq
<1> QED BY <1>2, <1>5, <1>7

LEMMA OneVerdict ==
    ASSUME NEW a \in Values, NEW b \in Values, Ordered(a, b)
    PROVE  Verdicts(a, b) \in IF Near(a, b) THEN {{"gt", "eq"}, {"lt", "eq"}}
                                            ELSE {{"gt"}, {"lt"}, {"eq"}}
<1>1. PICK x, y \in Int : /\ CmpGt(a, b) <=> x > y
                          /\ CmpLt(a, b) <=> y > x
                          /\ CmpEq(a, b) <=> x = y \/ Near(a, b)
                          /\ Near(a, b) => x # y
  BY OrderedOutcomes
<1>2. CASE x > y
  <2>1. Verdicts(a, b) = IF Near(a, b) THEN {"gt", "eq"} ELSE {"gt"} BY <1>1, <1>2 DEF Verdicts
  <2> QED BY <2>1
<1>3. CASE y > x
  <2>1. Verdicts(a, b) = IF Near(a, b) THEN {"lt", "eq"} ELSE {"lt"} BY <1>1, <1>3 DEF Verdicts
  <2> QED BY <2>1
<1>4. CASE x = y
  <2>1. Verdicts(a, b) = {"eq"} /\ ~Near(a, b) BY <1>1, <1>4 DEF Verdicts
  <2> QED BY <2>1
<1> QED BY <1>2, <1>3, <1>4

\* The order is transitive: timestamps follow their numbers.
LEMMA OrderIsTransitive ==
    ASSUME NEW a \in Values, NEW b \in Values, NEW c \in Values,
           \A p \in {<<a, b>>, <<b, c>>, <<a, c>>} : Ordered(p[1], p[2]) /\ ~Swapped(p[1], p[2]),
           CmpGt(a, b), CmpGt(b, c)
    PROVE  /\ CmpGt(a, c)
           /\ Near(a, c) /\ b.type = "number" => CmpEq(a, b) /\ CmpEq(b, c)
<1>1. /\ Ordered(a, b) /\ ~Swapped(a, b)
      /\ Ordered(b, c) /\ ~Swapped(b, c)
      /\ Ordered(a, c) /\ ~Swapped(a, c)
  OBVIOUS
<1>2. /\ Place(a, b) \in Int /\ Place(b, a) \in Int /\ Place(a, b) > Place(b, a)
      /\ Near(a, b) => CmpEq(a, b)
  BY <1>1, OrderedOutcomes
<1>3. /\ Place(b, c) \in Int /\ Place(c, b) \in Int /\ Place(b, c) > Place(c, b)
      /\ Near(b, c) => CmpEq(b, c)
  BY <1>1, OrderedOutcomes
<1>4. /\ Place(a, c) \in Int /\ Place(c, a) \in Int
      /\ CmpGt(a, c) <=> Place(a, c) > Place(c, a)
  BY <1>1, OrderedOutcomes
<1>5. a.type # "none" /\ b.type # "none" /\ c.type # "none" BY <1>1 DEF Ordered, Texts
<1>6. /\ a.rank \in Int /\ b.rank \in Int /\ c.rank \in Int
      /\ \A v \in {a, b, c} : IsNumber(v) => v.moment \in Int
  BY <1>5, TypesOfValues DEF None, IsNumber
<1>7. \A v, w \in {a, b, c} : IsNumber(v) /\ IsNumber(w) /\ v.rank <= w.rank => v.moment <= w.moment
  BY ValuesAreTyped
<1>8. Place(a, c) > Place(c, a)
  <2>1. CASE "moment" \notin {a.type, b.type, c.type}
    BY <1>2, <1>3, <1>6, <2>1 DEF Place
  <2>2. CASE ~IsNumber(a) /\ ~IsNumber(b) /\ ~IsNumber(c)
    BY <1>2, <1>3, <1>6, <2>2 DEF Place
  <2>3. CASE /\ "moment" \in {a.type, b.type, c.type}
             /\ IsNumber(a) \/ IsNumber(b) \/ IsNumber(c)
    <3>1. \A v \in {a, b, c} : IsNumber(v) \/ (v.type = "moment" /\ ~IsNumber(v))
      BY <1>1, <2>3 DEF Ordered, IsNumber, Texts
    <3>2. IsNumber(a) \/ (a.type = "moment" /\ ~IsNumber(a)) BY <3>1
    <3>3. IsNumber(b) \/ (b.type = "moment" /\ ~IsNumber(b)) BY <3>1
    <3>4. IsNumber(c) \/ (c.type = "moment" /\ ~IsNumber(c)) BY <3>1
    <3>5. \A v \in {a, b, c} : IsNumber(v) => v.type # "moment" BY DEF IsNumber
    <3> QED BY <1>2, <1>3, <1>6, <1>7, <3>2, <3>3, <3>4, <3>5 DEF Place
  <2> QED BY <2>1, <2>2, <2>3
<1>9. ASSUME Near(a, c), b.type = "number" PROVE CmpEq(a, b) /\ CmpEq(b, c)
  <2>1. a.type = "number" /\ c.type = "number" /\ IsClose(a.rank, c.rank) BY <1>9 DEF Near
  <2>2. a.rank > b.rank /\ b.rank > c.rank BY <1>2, <1>3, <1>9, <2>1 DEF Place
  <2>3. IsClose(a.rank, b.rank) /\ IsClose(b.rank, c.rank)
    BY <1>6, <2>1, <2>2, CloseBetween
  <2>4. Near(a, b) /\ Near(b, c) BY <1>6, <1>9, <2>1, <2>2, <2>3 DEF Near
  <2> QED BY <1>2, <1>3, <2>4
<1> QED BY <1>4, <1>8, <1>9

\* Without a date, two versions and near numbers, IN compares as == does.
LEMMA InIsEquality ==
    ASSUME NEW a \in Values, NEW b \in Values, "moment" \notin {a.type, b.type}, ~Versions(a, b),
           ~Near(a, b)
    PROVE  CmpEq(a, b) <=> a # None /\ EqualOutcome(a, b)
<1>1. a.type \notin Dates /\ b.type \notin Dates
  <2>1. \A v \in Values : v.type # "date" BY TypesOfValues DEF None
  <2> QED BY <2>1 DEF Dates
<1>2. Coerced(a, b) = <<a, b>> BY <1>1 DEF Coerced, Versions, IsVersion
<1>3. Coerced(a, b)[1] = a /\ Coerced(a, b)[2] = b BY <1>2
<1>4. a # None /\ b = None => ~EqualOutcome(a, b) BY DEF EqualOutcome, None, IsNumber
<1>5. Equals(a, b) <=> EqualOutcome(a, b)
  <2>1. CASE a.type = "number" /\ b.type = "number"
    <3>1. a.rank \in Int /\ b.rank \in Int BY <2>1, TypesOfValues DEF None
    <3>2. IsClose(a.rank, a.rank) BY <3>1, CloseFacts
    <3>3. Equals(a, b) <=> a.rank = b.rank BY <2>1, <3>2 DEF Equals, Near
    <3> QED BY <2>1, <3>3 DEF EqualOutcome, IsNumber
  <2> QED BY <2>1 DEF Equals
<1> QED BY <1>3, <1>4, <1>5 DEF CmpEq

\* The operators of rules but <= agree on one order of any values, which == and IN share but
\* for the tolerance, and what cannot be compared satisfies nothing (_coerce, _is_comparable,
\* the operators over them).
THEOREM OperatorsShareAnOrder == AlgorithmsSpec => []OrderIsConsistent
<1>1. ASSUME SampleTyped PROVE OrderIsConsistent
  <2> SUFFICES ASSUME topic = "values", Len(sample) = 3,
                      NEW a \in Values, NEW b \in Values, NEW c \in Values,
                      a = sample[1], b = sample[2], c = sample[3]
               PROVE  OrderIsConsistent
    <3>1. CASE topic = "values" /\ Len(sample) = 3
      <4>1. sample[1] \in Values /\ sample[2] \in Values /\ sample[3] \in Values
        <5>1. sample \in Seq(Values) /\ Len(sample) = 3 BY <1>1, <3>1 DEF SampleTyped
        <5>2. \A k \in 1..Len(sample) : sample[k] \in Values BY <5>1, SMTT(60)
        <5>3. 1 \in 1..Len(sample) /\ 2 \in 1..Len(sample) /\ 3 \in 1..Len(sample) BY <5>1
        <5> QED BY <5>2, <5>3
      <4> QED BY <3>1, <4>1
    <3>2. CASE ~(topic = "values" /\ Len(sample) = 3) BY <3>2 DEF OrderIsConsistent
    <3> QED BY <3>1, <3>2
  <2>1. ASSUME Ordered(a, b)
        PROVE  /\ Verdicts(a, b) \in IF Near(a, b) THEN {{"gt", "eq"}, {"lt", "eq"}}
                                                   ELSE {{"gt"}, {"lt"}, {"eq"}}
               /\ CmpGe(a, b) <=> ~CmpLt(a, b)
               /\ CmpNeq(a, b) <=> ~CmpEq(a, b)
               /\ ~Swapped(a, b) /\ ~Swapped(b, a) =>
                     (CmpGt(a, b) <=> CmpLt(b, a)) /\ (CmpEq(a, b) <=> CmpEq(b, a))
    <3>1. PICK x, y \in Int : /\ ~Swapped(a, b) => x = Place(a, b) /\ y = Place(b, a)
                              /\ CmpGt(a, b) <=> x > y
                              /\ CmpGe(a, b) <=> x >= y
                              /\ CmpLt(a, b) <=> y > x
                              /\ CmpEq(a, b) <=> x = y \/ Near(a, b)
                              /\ CmpNeq(a, b) <=> ~CmpEq(a, b)
      BY <2>1, OrderedOutcomes
    <3>2. Ordered(b, a) BY <2>1 DEF Ordered, Versions
    <3>3. PICK u, v \in Int : /\ ~Swapped(b, a) => u = Place(b, a) /\ v = Place(a, b)
                              /\ CmpLt(b, a) <=> v > u
                              /\ CmpEq(b, a) <=> u = v \/ Near(b, a)
      BY <3>2, OrderedOutcomes
    <3>4. Near(a, b) <=> Near(b, a)
      <4>1. ASSUME a.type = "number", b.type = "number"
            PROVE  IsClose(a.rank, b.rank) <=> IsClose(b.rank, a.rank)
        <5>1. a.rank \in Int /\ b.rank \in Int BY <4>1, TypesOfValues DEF None
        <5> QED BY <5>1, CloseFacts
      <4> QED BY <4>1 DEF Near
    <3>5. Verdicts(a, b) \in IF Near(a, b) THEN {{"gt", "eq"}, {"lt", "eq"}}
                                           ELSE {{"gt"}, {"lt"}, {"eq"}}
      BY <2>1, OneVerdict
    <3>6. CmpGe(a, b) <=> ~CmpLt(a, b) BY <3>1
    <3>7. ASSUME ~Swapped(a, b), ~Swapped(b, a)
          PROVE  (CmpGt(a, b) <=> CmpLt(b, a)) /\ (CmpEq(a, b) <=> CmpEq(b, a))
      BY <3>1, <3>3, <3>4, <3>7
    <3> QED BY <3>1, <3>5, <3>6, <3>7
  <2>2. ASSUME ~Ordered(a, b), ~Raises(a, b), ~Versions(a, b)
        PROVE  /\ Verdicts(a, b) = {}
               /\ CmpNeq(a, b) <=> None \notin {a, b}
    BY <2>2, UnorderedOutcomes DEF Verdicts
  <2>3. ASSUME \A p \in {<<a, b>>, <<b, c>>, <<a, c>>} :
                  Ordered(p[1], p[2]) /\ ~Swapped(p[1], p[2])
        PROVE  CmpGt(a, b) /\ CmpGt(b, c) =>
                  /\ CmpGt(a, c)
                  /\ Near(a, c) /\ b.type = "number" => CmpEq(a, b) /\ CmpEq(b, c)
    BY <2>3, OrderIsTransitive
  <2> DEFINE list == ListOf(<<b, c>>)
  <2>4. /\ IsIn(a, list) <=> a # None /\ (EqualOutcome(a, b) \/ EqualOutcome(a, c))
        /\ IsNotIn(a, list) <=> a # None /\ ~IsIn(a, list)
    <3>1. list.type = "list" /\ list.items = <<b, c>> BY DEF ListOf
    <3>2. Contains(list, a) <=> EqualOutcome(a, b) \/ EqualOutcome(a, c)
      <4>1. DOMAIN <<b, c>> = {1, 2} /\ <<b, c>>[1] = b /\ <<b, c>>[2] = c OBVIOUS
      <4> QED BY <3>1, <4>1 DEF Contains
    <3> QED BY <3>1, <3>2 DEF IsIn, IsNotIn
  <2>5. ASSUME "moment" \notin {a.type, b.type, c.type},
               \A other \in {b, c} : ~Versions(a, other) /\ ~Near(a, other)
        PROVE  IsIn(a, list) <=> CmpEq(a, b) \/ CmpEq(a, c)
    <3>1. CmpEq(a, b) <=> a # None /\ EqualOutcome(a, b) BY <2>5, InIsEquality
    <3>2. CmpEq(a, c) <=> a # None /\ EqualOutcome(a, c) BY <2>5, InIsEquality
    <3> QED BY <2>4, <3>1, <3>2
  <2>6. Or(None, a) = a /\ And(None, a) = None BY DEF Or, And, Truthy
  <2> QED BY <2>1, <2>2, <2>3, <2>4, <2>5, <2>6 DEF OrderIsConsistent
<1> QED BY <1>1, SamplesAreTyped, PTL

-----------------------------------------------------------------------------
\* The axis.

\* The weight before the k-th variant.
Prefix(weighing, k) == SumFunctionOnSet(weighing, 1..(k - 1))

\* Where the k-th variant starts, if the ones before it start where f says.
Step(asked, weighing, f, k) ==
    IF k = 1 THEN 0 ELSE f[k - 1] + CountRounded(asked, weighing, k - 1, f[k - 1])

LEMMA StartsRecur ==
    ASSUME NEW asked, NEW weighing, NEW n \in Nat, Len(weighing) = n,
           NEW at, at = Starts(asked, weighing)
    PROVE  at[1] = 0 /\ \A k \in 1..n : at[k + 1] = at[k] + CountRounded(asked, weighing, k, at[k])
<1> DEFINE Good(f, m) == /\ f = [k \in 1..n + 1 |-> f[k]]
                         /\ \A k \in 1..n + 1 : k <= m => f[k] = Step(asked, weighing, f, k)
           G == {m \in Nat : \E f : Good(f, m)}
<1>1. 0 \in G
  <2>1. PICK f : f = [k \in 1..n + 1 |-> 0] OBVIOUS
  <2>2. Good(f, 0) BY <2>1
  <2> HIDE DEF Good
  <2> QED BY <2>2
<1>2. ASSUME NEW m \in G PROVE m + 1 \in G
  <2>1. PICK f : Good(f, m) OBVIOUS
  <2>2. PICK g : g = [k \in 1..n + 1 |-> Step(asked, weighing, f, k)] OBVIOUS
  <2>3. \A k \in 1..n + 1 : k <= m => g[k] = f[k] BY <2>1, <2>2
  <2>4. ASSUME NEW k \in 1..n + 1, k <= m + 1 PROVE g[k] = Step(asked, weighing, g, k)
    <3>1. g[k] = Step(asked, weighing, f, k) BY <2>2
    <3>2. CASE k = 1 BY <3>1, <3>2 DEF Step
    <3>3. CASE k # 1
      <4>1. k - 1 \in 1..n + 1 /\ k - 1 <= m BY <2>4, <3>3
      <4>2. g[k - 1] = f[k - 1] BY <2>3, <4>1
      <4> QED BY <3>1, <3>3, <4>2 DEF Step
    <3> QED BY <3>2, <3>3
  <2>5. Good(g, m + 1) BY <2>2, <2>4
  <2>6. m + 1 \in Nat OBVIOUS
  <2> HIDE DEF Good
  <2> QED BY <2>5, <2>6
<1>3. n + 1 \in G
  <2>1. G \in SUBSET Nat OBVIOUS
  <2> HIDE DEF G
  <2> QED BY <1>1, <1>2, <2>1, ByNaturals
<1>4. PICK f : Good(f, n + 1) BY <1>3
<1>5. f = [k \in 1..Len(weighing) + 1 |->
             IF k = 1 THEN 0
             ELSE f[k - 1] + CountRounded(asked, weighing, k - 1, f[k - 1])]
  <2>1. \A k \in 1..n + 1 : f[k] = Step(asked, weighing, f, k) BY <1>4
  <2>2. f = [k \in 1..n + 1 |-> f[k]] BY <1>4
  <2> HIDE DEF Good, G
  <2>3. f = [k \in 1..n + 1 |-> Step(asked, weighing, f, k)] BY ONLY <2>1, <2>2
  <2> QED BY <2>3 DEF Step
<1>6. at = [k \in 1..Len(weighing) + 1 |->
              IF k = 1 THEN 0
              ELSE at[k - 1] + CountRounded(asked, weighing, k - 1, at[k - 1])]
  BY <1>5 DEF Starts
<1>7. at = [k \in 1..n + 1 |-> Step(asked, weighing, at, k)] BY <1>6 DEF Step
<1>8. at[1] = 0 BY <1>7 DEF Step
<1>9. ASSUME NEW k \in 1..n PROVE at[k + 1] = at[k] + CountRounded(asked, weighing, k, at[k])
  <2>1. k + 1 \in 1..n + 1 /\ k + 1 # 1 /\ (k + 1) - 1 = k OBVIOUS
  <2>2. at[k + 1] = Step(asked, weighing, at, k + 1) BY <1>7, <2>1
  <2> QED BY <2>1, <2>2 DEF Step
<1> QED BY <1>8, <1>9

\* The weights before each variant, which are all at the end.
LEMMA PrefixFacts ==
    ASSUME NEW weighing, ValidWeights(weighing), NEW n \in Nat, n = Len(weighing)
    PROVE  /\ n >= 1
           /\ Prefix(weighing, 1) = 0 /\ Prefix(weighing, n + 1) = 100
           /\ \A k \in 1..n : weighing[k] \in Nat /\ weighing[k] <= 100
           /\ \A k \in 1..n + 1 : Prefix(weighing, k) \in Nat
           /\ \A k \in 1..n : Prefix(weighing, k + 1) = weighing[k] + Prefix(weighing, k)
<1>1. weighing \in Seq(0..100) BY DEF ValidWeights, Percentage
<1>2. DOMAIN weighing = 1..n BY <1>1
<1>3. \A k \in 1..n : weighing[k] \in Nat /\ weighing[k] <= 100
  <2>1. \A k \in 1..n : weighing[k] \in 0..100 BY <1>1
  <2>2. ASSUME NEW k \in 1..n PROVE weighing[k] \in Nat /\ weighing[k] <= 100
    <3>1. PICK w : w = weighing[k] OBVIOUS
    <3>2. w \in 0..100 BY <2>1, <3>1
    <3>3. w \in Nat /\ w <= 100 BY <3>2
    <3> QED BY <3>1, <3>3
  <2> QED BY <2>2
<1>4. SumFunctionOnSet(weighing, 1..n) = 100 BY <1>2 DEF ValidWeights, SumFunction
<1>5. Prefix(weighing, 1) = 0
  <2>1. IsFiniteSet({}) /\ 1..(1 - 1) = {} BY FS_EmptySet
  <2> QED BY <2>1, SumFacts DEF Prefix
<1>6. Prefix(weighing, n + 1) = 100
  <2>1. 1..((n + 1) - 1) = 1..n OBVIOUS
  <2> QED BY <1>4, <2>1 DEF Prefix
<1>7. ASSUME NEW k \in 1..n PROVE Prefix(weighing, k + 1) = weighing[k] + Prefix(weighing, k)
  <2>1. PICK S : S = 1..(k - 1) OBVIOUS
  <2>2. IsFiniteSet(S) BY <2>1, FS_Interval
  <2>3. k \notin S /\ S \union {k} = 1..((k + 1) - 1) BY <2>1
  <2>4. \A y \in S \union {k} : weighing[y] \in Int BY <1>3, <2>1
  <2>5. SumFunctionOnSet(weighing, S \union {k}) = weighing[k] + SumFunctionOnSet(weighing, S)
    BY <2>2, <2>3, <2>4, SumAdds
  <2> QED BY <2>1, <2>3, <2>5 DEF Prefix
<1>8. \A k \in 1..n + 1 : Prefix(weighing, k) \in Nat
  <2> DEFINE G == {m \in Nat : m <= n => Prefix(weighing, m + 1) \in Nat}
  <2>1. 0 \in G BY <1>5
  <2>2. ASSUME NEW m \in G PROVE m + 1 \in G
    <3>1. CASE m + 1 <= n
      <4>1. m + 1 \in 1..n /\ Prefix(weighing, m + 1) \in Nat BY <3>1
      <4>2. weighing[m + 1] \in Nat BY <1>3, <4>1
      <4>3. Prefix(weighing, (m + 1) + 1) = weighing[m + 1] + Prefix(weighing, m + 1)
        BY <1>7, <4>1
      <4> QED BY <4>1, <4>2, <4>3
    <3>2. CASE ~(m + 1 <= n) BY <3>2
    <3> QED BY <3>1, <3>2
  <2>3. G = Nat
    <3>1. G \in SUBSET Nat OBVIOUS
    <3> HIDE DEF G
    <3> QED BY <2>1, <2>2, <3>1, ByNaturals
  <2>4. ASSUME NEW k \in 1..n + 1 PROVE Prefix(weighing, k) \in Nat
    <3>1. k - 1 \in Nat /\ k - 1 <= n /\ (k - 1) + 1 = k OBVIOUS
    <3>2. k - 1 \in G BY <2>3, <3>1
    <3> QED BY <3>1, <3>2
  <2> QED BY <2>4
<1>9. n >= 1
  <2>1. n # 0 BY <1>5, <1>6
  <2> QED BY <2>1
<1> QED BY <1>3, <1>5, <1>6, <1>7, <1>8, <1>9

LEMMA PartOfHundred ==
    ASSUME NEW m \in Nat
    PROVE  m \div 100 \in Nat /\ 100 * (m \div 100) <= m /\ m <= 100 * (m \div 100) + 100
OBVIOUS

LEMMA StartsStep ==
    ASSUME NEW asked, NEW weighing, NEW n \in Nat, Len(weighing) = n,
           NEW at, at = Starts(asked, weighing), NEW k \in 1..n, k < n
    PROVE  at[k + 1] = at[k] + (asked * weighing[k]) \div 100
<1>1. at[k + 1] = at[k] + CountRounded(asked, weighing, k, at[k]) BY StartsRecur
<1>2. k # Len(weighing) OBVIOUS
<1> QED BY <1>1, <1>2 DEF CountRounded

\* What rounding down costs the variants before the last, and where the last one ends.
LEMMA StartsFacts ==
    ASSUME NEW asked \in 0..100, NEW weighing, ValidWeights(weighing),
           NEW n \in Nat, n = Len(weighing), NEW at, at = Starts(asked, weighing)
    PROVE  \A k \in 1..n : /\ at[k] \in Nat
                           /\ 100 * at[k] <= asked * Prefix(weighing, k)
                           /\ asked * Prefix(weighing, k) <= 100 * at[k] + 100 * (k - 1)
<1>1. n >= 1 /\ Prefix(weighing, 1) = 0
      /\ \A k \in 1..n : weighing[k] \in Nat /\ weighing[k] <= 100
  BY PrefixFacts
<1>2. \A k \in 1..n + 1 : Prefix(weighing, k) \in Nat BY PrefixFacts
<1>3. ASSUME NEW k \in 1..n PROVE Prefix(weighing, k + 1) = weighing[k] + Prefix(weighing, k)
  BY PrefixFacts
<1>4. at[1] = 0 /\ \A k \in 1..n : at[k + 1] = at[k] + CountRounded(asked, weighing, k, at[k])
  BY StartsRecur
<1>5. ASSUME NEW k \in 1..n, k < n PROVE at[k + 1] = at[k] + (asked * weighing[k]) \div 100
  BY <1>5, StartsStep
<1> DEFINE Facts(k) == /\ at[k] \in Nat
                       /\ 100 * at[k] <= asked * Prefix(weighing, k)
                       /\ asked * Prefix(weighing, k) <= 100 * at[k] + 100 * (k - 1)
           G == {m \in Nat : m + 1 <= n => Facts(m + 1)}
<1>6. 0 \in G
  <2>1. Facts(1) BY <1>1, <1>4
  <2> HIDE DEF Facts
  <2> QED BY <2>1
<1>7. ASSUME NEW m \in G PROVE m + 1 \in G
  <2>1. PICK k \in Nat : k = m + 1 OBVIOUS
  <2>2. ASSUME k + 1 <= n PROVE Facts(k + 1)
    <3>1. k \in 1..n /\ k < n BY <2>1, <2>2
    <3>2. Facts(k) BY <2>1, <3>1
    <3>3. PICK a, p, w : a = at[k] /\ p = Prefix(weighing, k) /\ w = weighing[k] OBVIOUS
    <3>4. a \in Nat BY <3>2, <3>3
    <3>5. p \in Nat BY <1>2, <3>1, <3>3
    <3>6. w \in Nat BY <1>1, <3>1, <3>3
    <3>7. PICK d : d = (asked * w) \div 100 OBVIOUS
    <3>8. asked * w \in Nat BY <3>6
    <3>9. d \in Nat /\ 100 * d <= asked * w /\ asked * w <= 100 * d + 100
      BY <3>7, <3>8, PartOfHundred
    <3>10. at[k + 1] = a + d BY <1>5, <3>1, <3>3, <3>7
    <3>11. Prefix(weighing, k + 1) = w + p BY <1>3, <3>1, <3>3
    <3>12. 100 * a <= asked * p /\ asked * p <= 100 * a + 100 * (k - 1) BY <3>2, <3>3
    <3>13. asked * (w + p) = asked * w + asked * p /\ asked * p \in Nat BY <3>5, <3>6
    <3>14. a + d \in Nat BY <3>4, <3>9
    <3>15. 100 * (a + d) <= asked * (w + p) BY <3>4, <3>8, <3>9, <3>12, <3>13
    <3>16. asked * (w + p) <= 100 * (a + d) + 100 * ((k + 1) - 1)
      BY <3>4, <3>8, <3>9, <3>12, <3>13
    <3> QED BY <3>10, <3>11, <3>14, <3>15, <3>16
  <2>3. m + 1 \in Nat OBVIOUS
  <2> HIDE DEF Facts
  <2> QED BY <2>1, <2>2, <2>3
<1>8. ASSUME NEW k \in 1..n PROVE Facts(k)
  <2>1. G = Nat
    <3>1. G \in SUBSET Nat OBVIOUS
    <3> HIDE DEF G
    <3> QED BY <1>6, <1>7, <3>1, ByNaturals
  <2>2. k - 1 \in Nat /\ (k - 1) + 1 = k /\ k <= n OBVIOUS
  <2>3. k - 1 \in G BY <2>1, <2>2
  <2> HIDE DEF Facts
  <2> QED BY <2>2, <2>3
<1> QED BY <1>8

LEMMA StartsEnd ==
    ASSUME NEW asked \in 0..100, NEW weighing, ValidWeights(weighing),
           NEW n \in Nat, n = Len(weighing), NEW at, at = Starts(asked, weighing)
    PROVE  at[n + 1] = asked
<1>1. n \in 1..n
  <2>1. n >= 1 BY PrefixFacts
  <2> QED BY <2>1
<1>2. at[n] \in Nat BY <1>1, StartsFacts
<1>3. at[n + 1] = at[n] + CountRounded(asked, weighing, n, at[n]) BY <1>1, StartsRecur
<1>4. at[n + 1] = at[n] + (asked - at[n]) BY <1>3 DEF CountRounded
<1> QED BY <1>2, <1>4

\* The starts rise from zero to the audience.
LEMMA StartsRise ==
    ASSUME NEW asked \in 0..100, NEW weighing, ValidWeights(weighing),
           NEW n \in Nat, n = Len(weighing), NEW at, at = Starts(asked, weighing)
    PROVE  /\ \A k \in 1..n + 1 : at[k] \in Nat
           /\ \A i, j \in 1..n + 1 : i <= j => at[i] <= at[j]
<1>1. /\ at[1] = 0 /\ at[n + 1] = asked
      /\ \A k \in 1..n : at[k] \in Nat /\ 100 * at[k] <= asked * Prefix(weighing, k)
      /\ \A k \in 1..n : k < n => at[k + 1] = at[k] + (asked * weighing[k]) \div 100
  <2>1. at[1] = 0 /\ at[n + 1] = asked
    <3>1. at[1] = 0 BY StartsRecur
    <3>2. at[n + 1] = asked BY StartsEnd, Zenon
    <3> QED BY <3>1, <3>2
  <2>2. ASSUME NEW k \in 1..n
        PROVE  at[k] \in Nat /\ 100 * at[k] <= asked * Prefix(weighing, k)
    BY StartsFacts
  <2>3. ASSUME NEW k \in 1..n, k < n
        PROVE  at[k + 1] = at[k] + (asked * weighing[k]) \div 100
    BY <2>3, StartsStep
  <2> QED BY <2>1, <2>2, <2>3
<1>2. /\ n >= 1 /\ Prefix(weighing, n + 1) = 100
      /\ \A k \in 1..n : weighing[k] \in Nat
      /\ \A k \in 1..n + 1 : Prefix(weighing, k) \in Nat
  BY PrefixFacts
<1>3. \A k \in 1..n : Prefix(weighing, k + 1) = weighing[k] + Prefix(weighing, k) BY PrefixFacts
<1>4. ASSUME NEW k \in 1..n + 1 PROVE at[k] \in Nat BY <1>1
<1>5. ASSUME NEW k \in 1..n PROVE at[k] <= at[k + 1]
  <2>1. PICK a : a = at[k] /\ a \in Nat BY <1>4
  <2>2. CASE k < n
    <3>1. asked * weighing[k] \in Nat BY <1>2, SMTT(30)
    <3>2. PICK d \in Nat : d = (asked * weighing[k]) \div 100 BY <3>1, PartOfHundred
    <3>3. at[k + 1] = a + d BY <1>1, <2>1, <2>2, <3>2
    <3> QED BY <2>1, <3>3
  <2>3. CASE k = n
    <3>1. PICK p, w : p = Prefix(weighing, n) /\ w = weighing[n] OBVIOUS
    <3>2. p \in Nat /\ w \in Nat /\ w + p = 100 BY <1>2, <1>3, <2>3, <3>1
    <3>3. 100 * a <= asked * p BY <1>1, <2>1, <2>3, <3>1
    <3>4. asked * p <= asked * 100 BY <3>2
    <3>5. a <= asked BY <2>1, <3>2, <3>3, <3>4, SMTT(30)
    <3> QED BY <1>1, <2>1, <2>3, <3>5
  <2> QED BY <2>2, <2>3
<1>6. ASSUME NEW i \in 1..n + 1, NEW j \in 1..n + 1, i <= j PROVE at[i] <= at[j]
  <2> DEFINE G == {m \in Nat : i + m <= n + 1 => at[i] <= at[i + m]}
  <2>1. 0 \in G
    <3>1. at[i + 0] = at[i] OBVIOUS
    <3> QED BY <1>4, <3>1
  <2>2. ASSUME NEW m \in G PROVE m + 1 \in G
    <3>1. CASE i + (m + 1) <= n + 1
      <4>1. PICK k \in 1..n : k = i + m BY <3>1
      <4>2. at[i] <= at[k] BY <3>1, <4>1
      <4>3. at[k] <= at[k + 1] BY <1>5
      <4>4. at[i] \in Nat /\ at[k] \in Nat /\ at[k + 1] \in Nat BY <1>4
      <4>5. i + (m + 1) = k + 1 BY <4>1
      <4>6. at[i] <= at[k + 1] BY <4>2, <4>3, <4>4
      <4> QED BY <4>5, <4>6
    <3>2. CASE ~(i + (m + 1) <= n + 1) BY <3>2
    <3> QED BY <3>1, <3>2
  <2>3. G = Nat
    <3>1. G \in SUBSET Nat OBVIOUS
    <3> HIDE DEF G
    <3> QED BY <2>1, <2>2, <3>1, ByNaturals
  <2>4. j - i \in Nat /\ i + (j - i) = j BY <1>6
  <2>5. j - i \in G BY <2>3, <2>4
  <2> QED BY <2>4, <2>5
<1> QED BY <1>4, <1>6

\* The buckets of a variant, and the ones of none.
VariantLaid(laid, at, b, k) == laid[b] = k <=> at[k] <= b /\ b < at[k + 1]
OutsideLaid(laid, asked, b) == laid[b] = Outside <=> asked <= b

\* Each bucket of the audience belongs to the one variant that it lies with.
LEMMA AxisFacts ==
    ASSUME NEW asked \in 0..100, NEW weighing, ValidWeights(weighing),
           NEW n \in Nat, n = Len(weighing), NEW at, at = Starts(asked, weighing),
           NEW laid, laid = distribute_variants(asked, weighing), NEW b \in 0..99
    PROVE  /\ \A k \in 1..n : VariantLaid(laid, at, b, k)
           /\ OutsideLaid(laid, asked, b)
<1> DEFINE Holds(k) == at[k] <= b /\ b < at[k + 1]
<1>1. /\ at[1] = 0 /\ at[n + 1] = asked
      /\ \A k \in 1..n + 1 : at[k] \in Nat
      /\ \A i, j \in 1..n + 1 : i <= j => at[i] <= at[j]
  <2>1. at[1] = 0 /\ at[n + 1] = asked
    <3>1. at[1] = 0 BY StartsRecur
    <3>2. at[n + 1] = asked BY StartsEnd, Zenon
    <3> QED BY <3>1, <3>2
  <2>2. ASSUME NEW k \in 1..n + 1 PROVE at[k] \in Nat BY StartsRise
  <2>3. ASSUME NEW i \in 1..n + 1, NEW j \in 1..n + 1, i <= j PROVE at[i] <= at[j]
    BY <2>3, StartsRise
  <2> QED BY <2>1, <2>2, <2>3
<1>2. DOMAIN weighing = 1..n BY DEF ValidWeights
<1>3. laid[b] = IF \E k \in 1..n : Holds(k) THEN CHOOSE k \in 1..n : Holds(k) ELSE Outside
  <2>1. b \in Buckets BY DEF Buckets, TotalBuckets
  <2>2. laid[b] = IF \E k \in DOMAIN weighing : Holds(k)
                  THEN CHOOSE k \in DOMAIN weighing : Holds(k) ELSE Outside
    BY <2>1 DEF distribute_variants
  <2> QED BY <1>2, <2>2
<1>4. ASSUME NEW k \in 1..n, NEW l \in 1..n, Holds(k), Holds(l) PROVE k = l
  <2>1. ~(k + 1 <= l)
    <3>1. k + 1 <= l => at[k + 1] <= at[l] BY <1>1
    <3> QED BY <1>1, <1>4, <3>1
  <2>2. ~(l + 1 <= k)
    <3>1. l + 1 <= k => at[l + 1] <= at[k] BY <1>1
    <3> QED BY <1>1, <1>4, <3>1
  <2> QED BY <2>1, <2>2
<1>5. ASSUME b < asked PROVE \E k \in 1..n : Holds(k)
  <2> DEFINE T == {k \in 1..n + 1 : b < at[k]}
  <2>1. T \in SUBSET Nat /\ T # {}
    <3>1. n + 1 \in T BY <1>1, <1>5
    <3> QED BY <3>1
  <2>2. PICK m \in T : \A k \in T : m <= k
    <3> HIDE DEF T
    <3> QED BY <2>1, LeastOf
  <2>3. m # 1 BY <1>1, <2>2
  <2>4. PICK k \in 1..n : m = k + 1
    <3>1. m - 1 \in 1..n /\ m = (m - 1) + 1 BY <2>2, <2>3
    <3> QED BY <3>1
  <2>5. ~(b < at[k]) BY <2>2, <2>4
  <2>6. at[k] <= b BY <1>1, <2>5
  <2> QED BY <2>2, <2>4, <2>6
<1>6. ASSUME NEW k \in 1..n, Holds(k) PROVE b < asked
  <2>1. at[k + 1] <= at[n + 1] BY <1>1
  <2> QED BY <1>1, <1>6, <2>1
<1> HIDE DEF Holds
<1>7. ASSUME NEW k \in 1..n PROVE laid[b] = k <=> Holds(k)
  <2>1. CASE \E l \in 1..n : Holds(l)
    <3>1. PICK l \in 1..n : l = laid[b] /\ Holds(l) BY <1>3, <2>1
    <3> QED BY <1>4, <3>1
  <2>2. CASE ~\E l \in 1..n : Holds(l)
    <3>1. laid[b] = Outside BY <1>3, <2>2
    <3>2. Outside # k BY OutsideIsNoVariant
    <3> QED BY <2>2, <3>1, <3>2
  <2> QED BY <2>1, <2>2
<1>8. laid[b] = Outside <=> ~\E k \in 1..n : Holds(k)
  <2>1. CASE \E l \in 1..n : Holds(l)
    <3>1. laid[b] \in 1..n BY <1>3, <2>1
    <3>2. Outside \notin 1..n BY OutsideIsNoVariant
    <3> QED BY <2>1, <3>1, <3>2
  <2>2. CASE ~\E l \in 1..n : Holds(l) BY <1>3, <2>2
  <2> QED BY <2>1, <2>2
<1>9. laid[b] = Outside <=> ~(b < asked) BY <1>5, <1>6, <1>8
<1>10. OutsideLaid(laid, asked, b) BY <1>9 DEF OutsideLaid
<1>11. \A k \in 1..n : VariantLaid(laid, at, b, k) BY <1>7 DEF Holds, VariantLaid
<1> QED BY <1>10, <1>11

-----------------------------------------------------------------------------
\* Hashes.

\* Hashes below this one fall into buckets below c, those above it into others.
Edge(c) == IF c = 0 THEN 0 ELSE IF c = 100 THEN HashSize ELSE ((2 * c - 1) * HashSize) \div 200

LEMMA PartOfTwoHundred ==
    ASSUME NEW m \in Nat
    PROVE  m \div 200 \in Nat /\ 200 * (m \div 200) <= m /\ m <= 200 * (m \div 200) + 199
OBVIOUS

LEMMA EdgeFacts ==
    ASSUME NEW c \in 0..100
    PROVE  /\ Edge(c) \in Nat /\ Edge(c) <= HashSize
           /\ 200 * Edge(c) <= 2 * (c * HashSize)
           /\ 2 * (c * HashSize) <= 200 * Edge(c) + HashSize + 199
<1>1. HashSize \in Nat /\ HashSize > 0 BY HashSizeIsPositive
<1>2. CASE c = 0 BY <1>1, <1>2 DEF Edge
<1>3. CASE c = 100 BY <1>1, <1>3 DEF Edge
<1>4. CASE c # 0 /\ c # 100
  <2>1. PICK p : p = c * HashSize OBVIOUS
  <2>2. p \in Nat /\ HashSize <= p /\ p <= 100 * HashSize BY <1>1, <1>4, <2>1
  <2>3. PICK m : m = 2 * p - HashSize OBVIOUS
  <2>4. m \in Nat BY <1>1, <2>2, <2>3
  <2>5. (2 * c - 1) * HashSize = m BY <1>1, <2>1, <2>3
  <2>6. PICK t : t = m \div 200 OBVIOUS
  <2>7. t \in Nat /\ 200 * t <= m /\ m <= 200 * t + 199 BY <2>4, <2>6, PartOfTwoHundred
  <2>8. Edge(c) = t BY <1>4, <2>5, <2>6 DEF Edge
  <2> QED BY <1>1, <2>1, <2>2, <2>3, <2>7, <2>8
<1> QED BY <1>2, <1>3, <1>4

LEMMA Division ==
    ASSUME NEW m \in Nat, NEW d \in Nat \ {0}
    PROVE  /\ m \div d \in Nat /\ m % d \in Nat /\ m % d < d
           /\ m = ((m \div d) * d) + (m % d)
OBVIOUS

LEMMA BucketsSplit ==
    ASSUME NEW c \in 0..100, NEW h \in Hashes
    PROVE  /\ Bucket(h) \in 0..99
           /\ h < Edge(c) => Bucket(h) < c
           /\ h > Edge(c) => c <= Bucket(h)
<1>1. HashSize \in Nat /\ HashSize > 0 /\ h \in Nat /\ h < HashSize
  BY HashSizeIsPositive DEF Hashes
<1>2. PICK q, r : q = (100 * h) \div HashSize /\ r = (100 * h) % HashSize OBVIOUS
<1>3. q \in Nat /\ r \in Nat /\ r < HashSize /\ 100 * h = (q * HashSize) + r
  <2>1. 100 * h \in Nat /\ HashSize \in Nat \ {0} BY <1>1
  <2>2. /\ (100 * h) \div HashSize \in Nat
        /\ (100 * h) % HashSize \in Nat /\ (100 * h) % HashSize < HashSize
        /\ 100 * h = (((100 * h) \div HashSize) * HashSize) + ((100 * h) % HashSize)
    BY <2>1, Division
  <2> QED BY <1>2, <2>2
<1>4. PICK m : m = RoundHalfEven(100 * h, HashSize) OBVIOUS
<1>5. /\ m = q \/ m = q + 1
      /\ 2 * r < HashSize => m = q
      /\ 2 * r > HashSize => m = q + 1
  <2>1. m = IF 2 * r > HashSize \/ (2 * r = HashSize /\ q % 2 = 1) THEN q + 1 ELSE q
    BY <1>2, <1>4 DEF RoundHalfEven
  <2> QED BY <1>1, <1>3, <2>1
<1>6. m \in Nat BY <1>3, <1>5
<1>7. Bucket(h) = IF m >= 100 THEN 99 ELSE m BY <1>4 DEF Bucket, TotalBuckets
<1>8. PICK e : e = Edge(c) OBVIOUS
<1>9. Bucket(h) \in 0..99 BY <1>6, <1>7
<1>10. CASE c = 0 BY <1>1, <1>9, <1>10 DEF Edge
<1>11. CASE c = 100 BY <1>1, <1>9, <1>11 DEF Edge
<1>12. CASE c # 0 /\ c # 100
  <2>1. PICK p : p = c * HashSize OBVIOUS
  <2>2. p \in Nat /\ HashSize <= p BY <1>1, <1>12, <2>1
  <2>3. (2 * c - 1) * HashSize = 2 * p - HashSize BY <1>1, <2>1
  <2>4. e = (2 * p - HashSize) \div 200 BY <1>8, <1>12, <2>3 DEF Edge
  <2>5. 2 * p - HashSize \in Nat BY <1>1, <2>2
  <2>6. e \in Nat /\ 200 * e <= 2 * p - HashSize /\ 2 * p - HashSize <= 200 * e + 199
    BY <2>4, <2>5, PartOfTwoHundred
  <2>7. PICK w : w = q * HashSize OBVIOUS
  <2>8. w \in Nat /\ 100 * h = w + r BY <1>1, <1>3, <2>7
  <2>9. q >= c => w >= p BY <1>1, <1>3, <2>1, <2>7
  <2>10. q <= c - 2 => w <= p - 2 * HashSize
    <3>1. ASSUME q <= c - 2 PROVE w <= p - 2 * HashSize
      <4>1. q + 2 <= c BY <1>3, <3>1
      <4>2. (q + 2) * HashSize <= c * HashSize BY <1>1, <1>3, <4>1
      <4>3. (q + 2) * HashSize = w + 2 * HashSize BY <1>1, <1>3, <2>7
      <4> QED BY <1>1, <2>1, <2>2, <2>8, <4>2, <4>3
    <3> QED BY <3>1
  <2>11. q = c - 1 => w = p - HashSize
    <3>1. ASSUME q = c - 1 PROVE w = p - HashSize BY <1>1, <2>1, <2>7, <3>1
    <3> QED BY <3>1
  <2>12. ASSUME h < e PROVE m < c
    <3>1. 200 * h < 2 * p - HashSize BY <1>1, <2>2, <2>6, <2>12
    <3>2. 2 * w + 2 * r < 2 * p - HashSize BY <1>1, <1>3, <2>2, <2>8, <3>1
    <3>3. q < c BY <1>1, <1>3, <2>2, <2>8, <2>9, <3>2
    <3>4. CASE q = c - 1
      <4>1. 2 * r < HashSize BY <1>1, <1>3, <2>2, <2>11, <3>2, <3>4
      <4> QED BY <1>5, <3>4, <4>1
    <3>5. CASE q <= c - 2 BY <1>3, <1>5, <3>5
    <3> QED BY <1>3, <3>3, <3>4, <3>5
  <2>13. ASSUME h > e PROVE m >= c
    <3>1. 200 * h > 2 * p - HashSize BY <1>1, <2>2, <2>6, <2>13
    <3>2. 2 * w + 2 * r > 2 * p - HashSize BY <1>1, <1>3, <2>2, <2>8, <3>1
    <3>3. ~(q <= c - 2) BY <1>1, <1>3, <2>2, <2>8, <2>10, <3>2
    <3>4. CASE q = c - 1
      <4>1. 2 * r > HashSize BY <1>1, <1>3, <2>2, <2>11, <3>2, <3>4
      <4> QED BY <1>5, <3>4, <4>1
    <3>5. CASE q >= c BY <1>3, <1>5, <3>5
    <3> QED BY <1>3, <3>3, <3>4, <3>5
  <2>14. c <= 99 BY <1>12
  <2> QED BY <1>6, <1>7, <1>8, <1>9, <2>12, <2>13, <2>14
<1> QED BY <1>9, <1>10, <1>11, <1>12

\* The hashes of adjacent buckets are those between two edges, which one by one may lie on
\* either side.
LEMMA HashesOfRange ==
    ASSUME NEW c \in 0..100, NEW d \in 0..100, c <= d,
           NEW S, S = {h \in Hashes : c <= Bucket(h) /\ Bucket(h) < d}
    PROVE  Distance(200 * Cardinality(S), 2 * HashSize * (d - c)) <= HashSize + 400
<1>1. HashSize \in Nat /\ HashSize > 0 BY HashSizeIsPositive
<1>2. PICK s, t : s = Edge(c) /\ t = Edge(d) OBVIOUS
<1>3. PICK p, q : p = c * HashSize /\ q = d * HashSize OBVIOUS
<1>4. p \in Nat /\ q \in Nat /\ p <= q BY <1>1, <1>3
<1>5. /\ s \in Nat /\ s <= HashSize
      /\ 200 * s <= 2 * p /\ 2 * p <= 200 * s + HashSize + 199
  BY <1>2, <1>3, EdgeFacts
<1>6. /\ t \in Nat /\ t <= HashSize
      /\ 200 * t <= 2 * q /\ 2 * q <= 200 * t + HashSize + 199
  BY <1>2, <1>3, EdgeFacts
<1>7. \A h \in Hashes : /\ h \in Nat /\ h < HashSize /\ Bucket(h) \in Int
                        /\ h < s => Bucket(h) < c
                        /\ h > s => c <= Bucket(h)
                        /\ h < t => Bucket(h) < d
                        /\ h > t => d <= Bucket(h)
  <2>1. ASSUME NEW h \in Hashes
        PROVE  /\ Bucket(h) \in 0..99
               /\ h < s => Bucket(h) < c
               /\ h > s => c <= Bucket(h)
    BY <1>2, BucketsSplit
  <2>2. ASSUME NEW h \in Hashes
        PROVE  /\ h < t => Bucket(h) < d
               /\ h > t => d <= Bucket(h)
    BY <1>2, BucketsSplit
  <2>3. \A h \in Hashes : h \in Nat /\ h < HashSize BY <1>1 DEF Hashes
  <2> QED BY <2>1, <2>2, <2>3
<1>8. S \subseteq s..t
  <2>1. ASSUME NEW h \in S PROVE h \in s..t
    <3>1. h \in Hashes /\ c <= Bucket(h) /\ Bucket(h) < d OBVIOUS
    <3>2. ~(h < s) /\ ~(h > t) BY <1>7, <3>1
    <3>3. h \in Nat BY <1>7, <3>1
    <3> QED BY <1>5, <1>6, <3>2, <3>3
  <2> QED BY <2>1
<1>9. s + 1..t - 1 \subseteq S
  <2>1. ASSUME NEW h \in s + 1..t - 1 PROVE h \in S
    <3>1. h \in Int /\ s + 1 <= h /\ h <= t - 1 BY <2>1
    <3>2. s \in Nat /\ t \in Nat /\ t <= HashSize BY <1>5, <1>6
    <3>3. h \in Nat /\ h > s /\ h < t /\ h < HashSize BY <1>1, <3>1, <3>2
    <3>4. h \in Hashes BY <1>1, <3>3 DEF Hashes
    <3>5. c <= Bucket(h) /\ Bucket(h) < d BY <1>7, <3>3, <3>4
    <3> QED BY <3>4, <3>5
  <2> QED BY <2>1
<1>10. PICK m : m = Cardinality(S) OBVIOUS
<1>11. IsFiniteSet(s..t) /\ Cardinality(s..t) = IF s > t THEN 0 ELSE t - s + 1
  BY <1>5, <1>6, FS_Interval
<1>12. IsFiniteSet(S) /\ m <= Cardinality(s..t) BY <1>8, <1>10, <1>11, FS_Subset
<1>13. Cardinality(s + 1..t - 1) <= m BY <1>9, <1>10, <1>12, FS_Subset
<1>14. Cardinality(s + 1..t - 1) = IF s + 1 > t - 1 THEN 0 ELSE (t - 1) - (s + 1) + 1
  <2>1. s + 1 \in Int /\ t - 1 \in Int BY <1>5, <1>6
  <2> QED BY <2>1, FS_Interval
<1>15. m \in Nat BY <1>10, <1>12, FS_CardinalityType
<1>16. m <= IF s > t THEN 0 ELSE t - s + 1 BY <1>11, <1>12
<1>17. (IF s + 1 > t - 1 THEN 0 ELSE t - s - 1) <= m BY <1>5, <1>6, <1>13, <1>14
<1>18. 2 * HashSize * (d - c) = 2 * q - 2 * p BY <1>1, <1>3
<1>19. 200 * m <= 2 * q - 2 * p + HashSize + 400
  BY <1>1, <1>4, <1>5, <1>6, <1>15, <1>16
<1>20. 2 * q - 2 * p <= 200 * m + HashSize + 400
  BY <1>1, <1>4, <1>5, <1>6, <1>15, <1>17
<1> QED BY <1>1, <1>4, <1>10, <1>15, <1>18, <1>19, <1>20 DEF Distance

-----------------------------------------------------------------------------
\* The shares.

\* The inputs are percentages, and the axis is that of a valid experiment.
\* The buckets of a variant are the ones between its start and the next one's.
LEMMA BucketsOfVariants ==
    ASSUME InputTyped, Valid, NEW n \in Nat, n = Len(weights),
           NEW at, at = Starts(audience, weights), NEW k \in 1..n
    PROVE  /\ at[k] \in Nat /\ at[k + 1] \in Nat /\ at[k] <= at[k + 1] /\ at[k + 1] <= 100
           /\ Cardinality(BucketsOf(k)) = at[k + 1] - at[k]
           /\ HashesOf(k) = {h \in Hashes : at[k] <= Bucket(h) /\ Bucket(h) < at[k + 1]}
<1>1. audience \in 0..100 /\ ValidWeights(weights) /\ axis = distribute_variants(audience, weights)
  BY DEF InputTyped
<1>2. k \in 1..n + 1 /\ k + 1 \in 1..n + 1 /\ n + 1 \in 1..n + 1 /\ k <= k + 1 /\ k + 1 <= n + 1
  OBVIOUS
<1>3. at[k] \in Nat /\ at[k + 1] \in Nat BY <1>1, <1>2, StartsRise
<1>4. at[k] <= at[k + 1] BY <1>1, <1>2, StartsRise
<1>5. at[k + 1] <= 100
  <2>1. at[k + 1] <= at[n + 1] BY <1>1, <1>2, StartsRise
  <2>2. at[n + 1] = audience BY <1>1, StartsEnd, Zenon
  <2> QED BY <1>1, <1>3, <2>1, <2>2
<1>6. ASSUME NEW b \in 0..99 PROVE axis[b] = k <=> at[k] <= b /\ b < at[k + 1]
  <2>1. PICK laid : laid = axis OBVIOUS
  <2>2. PICK asked \in 0..100 : asked = audience BY <1>1
  <2>3. PICK weighing : weighing = weights OBVIOUS
  <2>4. laid = distribute_variants(asked, weighing) /\ ValidWeights(weighing)
        /\ n = Len(weighing) /\ at = Starts(asked, weighing)
    BY <1>1, <2>1, <2>2, <2>3
  <2>5. VariantLaid(laid, at, b, k) BY <2>4, AxisFacts
  <2> QED BY <2>1, <2>5 DEF VariantLaid
<1>7. PICK s, t : s = at[k] /\ t = at[k + 1] OBVIOUS
<1>8. s \in Nat /\ t \in Nat /\ s <= t /\ t <= 100 BY <1>3, <1>4, <1>5, <1>7
<1>9. Cardinality(BucketsOf(k)) = t - s
  <2>1. ASSUME NEW b PROVE b \in BucketsOf(k) <=> b \in s..(t - 1)
    <3>1. b \in BucketsOf(k) <=> b \in 0..99 /\ axis[b] = k
      BY DEF BucketsOf, Buckets, TotalBuckets
    <3>2. CASE b \in 0..99
      <4>1. b \in BucketsOf(k) <=> s <= b /\ b < t BY <1>6, <1>7, <3>1, <3>2
      <4> QED BY <1>8, <3>2, <4>1
    <3>3. CASE b \notin 0..99
      <4>1. s..(t - 1) \subseteq 0..99 BY <1>8
      <4> QED BY <3>1, <3>3, <4>1
    <3> QED BY <3>2, <3>3
  <2>2. BucketsOf(k) = s..(t - 1)
    <3>1. BucketsOf(k) \subseteq s..(t - 1) /\ s..(t - 1) \subseteq BucketsOf(k) BY <2>1
    <3> QED BY <3>1
  <2>3. PICK m : m = Cardinality(s..(t - 1)) OBVIOUS
  <2>4. m = IF s > t - 1 THEN 0 ELSE (t - 1) - s + 1
    <3>1. s \in Int /\ t - 1 \in Int BY <1>8
    <3> QED BY <2>3, <3>1, FS_Interval
  <2>5. m = t - s BY <1>8, <2>4
  <2> QED BY <2>2, <2>3, <2>5
<1>10. HashesOf(k) = {h \in Hashes : s <= Bucket(h) /\ Bucket(h) < t}
  <2>1. ASSUME NEW h \in Hashes
        PROVE  axis[Bucket(h)] = k <=> s <= Bucket(h) /\ Bucket(h) < t
    <3>1. PICK b \in 0..99 : b = Bucket(h)
      <4>1. 0 \in 0..100 OBVIOUS
      <4> QED BY <4>1, BucketsSplit
    <3> QED BY <1>6, <1>7, <3>1
  <2> QED BY <2>1 DEF HashesOf
<1> QED BY <1>3, <1>4, <1>5, <1>7, <1>9, <1>10

LEMMA BucketsOutside ==
    ASSUME InputTyped, Valid
    PROVE  /\ \A b \in Buckets : axis[b] # Outside <=> b < audience
           /\ Cardinality(BucketsOf(Outside)) = 100 - audience
           /\ HashesOf(Outside) = {h \in Hashes : audience <= Bucket(h) /\ Bucket(h) < 100}
<1>1. audience \in 0..100 /\ ValidWeights(weights) /\ axis = distribute_variants(audience, weights)
  BY DEF InputTyped
<1>2. PICK n \in Nat : n = Len(weights) BY <1>1 DEF ValidWeights
<1>3. PICK at : at = Starts(audience, weights) OBVIOUS
<1>4. ASSUME NEW b \in 0..99 PROVE axis[b] = Outside <=> audience <= b
  <2>1. PICK laid : laid = axis OBVIOUS
  <2>2. PICK asked \in 0..100 : asked = audience BY <1>1
  <2>3. PICK weighing : weighing = weights OBVIOUS
  <2>4. laid = distribute_variants(asked, weighing) /\ ValidWeights(weighing)
        /\ n = Len(weighing) /\ at = Starts(asked, weighing)
    BY <1>1, <1>2, <1>3, <2>1, <2>2, <2>3, SMTT(30)
  <2>5. OutsideLaid(laid, asked, b) BY <2>4, AxisFacts
  <2> QED BY <2>1, <2>2, <2>5 DEF OutsideLaid
<1>5. \A b \in Buckets : axis[b] # Outside <=> b < audience
  <2>1. ASSUME NEW b \in Buckets PROVE axis[b] # Outside <=> b < audience
    <3>1. b \in 0..99 BY DEF Buckets, TotalBuckets
    <3> QED BY <1>1, <1>4, <3>1
  <2> QED BY <2>1
<1>6. Cardinality(BucketsOf(Outside)) = 100 - audience
  <2>1. BucketsOf(Outside) = {b \in 0..99 : audience <= b}
    BY <1>4 DEF BucketsOf, Buckets, TotalBuckets
  <2>2. {b \in 0..99 : audience <= b} = audience..99 BY <1>1
  <2>3. PICK m : m = Cardinality(audience..99) OBVIOUS
  <2>4. m = IF audience > 99 THEN 0 ELSE 99 - audience + 1
    <3>1. audience \in Int /\ 99 \in Int BY <1>1
    <3> QED BY <2>3, <3>1, FS_Interval
  <2>5. m = 100 - audience BY <1>1, <2>4
  <2> QED BY <2>1, <2>2, <2>3, <2>5
<1>7. HashesOf(Outside) = {h \in Hashes : audience <= Bucket(h) /\ Bucket(h) < 100}
  <2>1. ASSUME NEW h \in Hashes
        PROVE  axis[Bucket(h)] = Outside <=> audience <= Bucket(h) /\ Bucket(h) < 100
    <3>1. PICK b \in 0..99 : b = Bucket(h)
      <4>1. 0 \in 0..100 OBVIOUS
      <4> QED BY <4>1, BucketsSplit
    <3> QED BY <1>4, <3>1
  <2> QED BY <2>1 DEF HashesOf
<1> QED BY <1>5, <1>6, <1>7

\* Whatever the size of the hash, the audience and the weights: the audience is a prefix of
\* the axis, each variant's share is that of its weight rounded down, with the rest for the
\* last one, and no share of the hashes is off by more than half a bucket and two ties
\* (distribute_variants, make_decision).
THEOREM SharesFollowWeights == AlgorithmsSpec => []SharesAreAsked
<1>1. ASSUME InputTyped, Valid PROVE SharesAreAsked
  <2>1. audience \in 0..100 /\ ValidWeights(weights) BY <1>1 DEF InputTyped
  <2>2. PICK n \in Nat : n = Len(weights) /\ DOMAIN weights = 1..n BY <2>1 DEF ValidWeights
  <2>3. PICK at : at = Starts(audience, weights) OBVIOUS
  <2>4. AudienceIsExactPrefix BY <1>1, BucketsOutside DEF AudienceIsExactPrefix
  <2>5. ASSUME NEW k \in 1..n
        PROVE  LET got == 100 * Cardinality(BucketsOf(k))
                   due == audience * weights[k]
               IN  IF k < Len(weights)
                   THEN got <= due /\ due < got + 100
                   ELSE due <= got /\ got <= due + 100 * (Len(weights) - 1)
    <3>1. /\ at[k] \in Nat /\ at[k + 1] \in Nat
          /\ Cardinality(BucketsOf(k)) = at[k + 1] - at[k]
      BY <1>1, <2>2, <2>3, BucketsOfVariants
    <3>2. PICK w, p : w = weights[k] /\ p = Prefix(weights, k) OBVIOUS
    <3>3. w \in Nat BY <2>1, <2>2, <3>2, PrefixFacts
    <3>4. p \in Nat BY <2>1, <2>2, <3>2, PrefixFacts
    <3>5. PICK s, t : s = at[k] /\ t = at[k + 1] /\ s \in Nat /\ t \in Nat BY <3>1
    <3>6. CASE k < n
      <4>1. audience * w \in Nat BY <2>1, <3>3
      <4>2. PICK d : d = (audience * w) \div 100 OBVIOUS
      <4>3. d \in Nat /\ 100 * d <= audience * w /\ audience * w < 100 * d + 100
        BY <4>1, <4>2
      <4>4. t = s + d BY <2>2, <2>3, <3>2, <3>5, <3>6, <4>2, StartsStep
      <4>5. Cardinality(BucketsOf(k)) = d BY <3>1, <3>5, <4>3, <4>4
      <4> QED BY <2>2, <3>2, <3>6, <4>3, <4>5
    <3>7. CASE k = n
      <4>1. t = audience
        <5>1. at[n + 1] = audience BY <2>1, <2>2, <2>3, StartsEnd, Zenon
        <5> QED BY <3>5, <3>7, <5>1
      <4>2. 100 * s <= audience * p /\ audience * p <= 100 * s + 100 * (n - 1)
        <5>1. /\ 100 * at[k] <= audience * Prefix(weights, k)
              /\ audience * Prefix(weights, k) <= 100 * at[k] + 100 * (k - 1)
          BY <2>1, <2>2, <2>3, StartsFacts, ZenonT(40)
        <5> QED BY ONLY <3>2, <3>5, <3>7, <5>1
      <4>3. w + p = 100
        <5>1. Prefix(weights, n + 1) = w + p BY <2>1, <2>2, <3>2, <3>7, PrefixFacts
        <5>2. Prefix(weights, n + 1) = 100 BY <2>1, <2>2, PrefixFacts
        <5> QED BY <5>1, <5>2
      <4>4. audience * w + audience * p = audience * 100
        <5>1. audience * (w + p) = audience * w + audience * p BY <2>1, <3>3, <3>4
        <5> QED BY <4>3, <5>1
      <4>5. audience * w \in Nat /\ audience * p \in Nat BY <2>1, <3>3, <3>4
      <4>6. audience * w <= 100 * (audience - s) BY <2>1, <3>5, <4>2, <4>4, <4>5
      <4>7. 100 * (audience - s) <= audience * w + 100 * (n - 1)
        BY <2>1, <3>5, <4>2, <4>4, <4>5
      <4>8. Cardinality(BucketsOf(k)) = audience - s BY <3>1, <3>5, <4>1
      <4> QED BY <2>2, <3>2, <3>7, <4>6, <4>7, <4>8
    <3> QED BY <3>6, <3>7
  <2>6. SharesAreRoundedDown BY <2>2, <2>5 DEF SharesAreRoundedDown
  <2>7. ASSUME NEW k \in DOMAIN weights \union {Outside}
        PROVE  Distance(200 * Cardinality(HashesOf(k)),
                        2 * HashSize * Cardinality(BucketsOf(k))) <= HashSize + 200 * 2
    <3>1. HashSize \in Nat BY HashSizeIsPositive
    <3>2. CASE k \in 1..n
      <4>1. /\ at[k] \in Nat /\ at[k + 1] \in Nat /\ at[k] <= at[k + 1] /\ at[k + 1] <= 100
            /\ Cardinality(BucketsOf(k)) = at[k + 1] - at[k]
        BY <1>1, <2>2, <2>3, <3>2, BucketsOfVariants
      <4>2. HashesOf(k) = {h \in Hashes : at[k] <= Bucket(h) /\ Bucket(h) < at[k + 1]}
        BY <1>1, <2>2, <2>3, <3>2, BucketsOfVariants
      <4>3. PICK s, t \in 0..100 : s = at[k] /\ t = at[k + 1]
        <5>1. PICK s, t : s = at[k] /\ t = at[k + 1] OBVIOUS
        <5>2. s \in 0..100 /\ t \in 0..100 BY <4>1, <5>1, SMTT(30)
        <5> QED BY <5>1, <5>2
      <4>4. Distance(200 * Cardinality(HashesOf(k)), 2 * HashSize * (t - s)) <= HashSize + 400
        BY <4>1, <4>2, <4>3, HashesOfRange
      <4> QED BY <4>1, <4>3, <4>4
    <3>3. CASE k = Outside
      <4>1. Distance(200 * Cardinality(HashesOf(Outside)), 2 * HashSize * (100 - audience))
              <= HashSize + 400
        <5>1. 100 \in 0..100 /\ audience <= 100 BY <2>1
        <5>2. HashesOf(Outside) = {h \in Hashes : audience <= Bucket(h) /\ Bucket(h) < 100}
          BY <1>1, BucketsOutside
        <5> QED BY <2>1, <5>1, <5>2, HashesOfRange
      <4>2. Cardinality(BucketsOf(Outside)) = 100 - audience BY <1>1, BucketsOutside
      <4> QED BY <3>3, <4>1, <4>2
    <3> QED BY <2>2, <3>2, <3>3
  <2>8. HashesFollowBuckets BY <2>7 DEF HashesFollowBuckets
  <2> QED BY <2>4, <2>6, <2>8 DEF SharesAreAsked
<1>2. ASSUME ~Valid PROVE SharesAreAsked
  BY <1>2 DEF SharesAreAsked, AudienceIsExactPrefix, SharesAreRoundedDown, HashesFollowBuckets
<1>3. InputTyped => SharesAreAsked BY <1>1, <1>2
<1> QED BY <1>3, SamplesAreTyped, PTL

-----------------------------------------------------------------------------
\* Scanners.

\* A character is one of the source, or there is none.
LEMMA CharFacts ==
    ASSUME NEW src \in Seq(Chars), NEW i \in Int
    PROVE  /\ i \in 1..Len(src) => CharAt(src, i) = src[i] /\ src[i] \in Chars
           /\ i \notin 1..Len(src) => CharAt(src, i) = "end"
           /\ "end" \notin Chars
<1>1. DOMAIN src = 1..Len(src) OBVIOUS
<1>2. i \in 1..Len(src) => src[i] \in Chars OBVIOUS
<1>3. "end" \notin Chars BY DEF Chars, Letters, Digits, Numeric, Brackets, Marks
<1> QED BY <1>1, <1>2, <1>3 DEF CharAt

\* A run goes on up to the first character that is not one of its own.
LEMMA SkipFacts ==
    ASSUME NEW src \in Seq(Chars), NEW i \in 1..Len(src) + 1, NEW chars, "end" \notin chars,
           NEW r, r = SkipRun(src, i, chars)
    PROVE  /\ r \in i..Len(src) + 1
           /\ CharAt(src, r) \notin chars
           /\ \A j \in i..r - 1 : src[j] \in chars
<1> DEFINE T == {j \in i..Len(src) + 1 : CharAt(src, j) \notin chars}
<1>1. Len(src) \in Nat OBVIOUS
<1>2. Len(src) + 1 \in T BY <1>1, CharFacts
<1>3. T \in SUBSET Nat BY <1>1
<1>4. PICK m \in T : \A n \in T : m <= n BY <1>2, <1>3, LeastOf
<1>5. r = CHOOSE x \in T : \A y \in T : x <= y BY DEF SkipRun, Min
<1>6. r \in T /\ \A y \in T : r <= y BY <1>4, <1>5
<1>7. ASSUME NEW j \in i..r - 1 PROVE src[j] \in chars
  <2>1. j \in i..Len(src) + 1 /\ j \notin T BY <1>1, <1>3, <1>6
  <2>2. CharAt(src, j) \in chars BY <2>1
  <2>3. j \in 1..Len(src) BY <1>1, <1>6
  <2> QED BY <2>2, <2>3, CharFacts
<1> QED BY <1>6, <1>7

\* What follows a position of a string.
StringStep(src, f, i) ==
    IF CharAt(src, i) = "quote" THEN Token("string", i + 1)
    ELSE IF CharAt(src, i) \in {"end", "newline"} THEN Token("error", i)
    ELSE IF CharAt(src, i) # "back" THEN f[i + 1]
    ELSE IF CharAt(src, i + 1) \in Escapes THEN f[i + 2]
    ELSE Token("error", i + 1)

LEMMA StringRecurs ==
    ASSUME NEW src \in Seq(Chars), NEW scan, scan = StringFrom(src), NEW i \in 1..Len(src) + 1
    PROVE  scan[i] = StringStep(src, scan, i)
<1> DEFINE n == Len(src)
           Good(f, m) == /\ f = [k \in 1..n + 1 |-> f[k]]
                         /\ \A k \in 1..n + 1 : n + 1 - k < m => f[k] = StringStep(src, f, k)
           G == {m \in Nat : \E f : Good(f, m)}
<1>0. n \in Nat OBVIOUS
<1>1. 0 \in G
  <2>1. PICK f : f = [k \in 1..n + 1 |-> 0] OBVIOUS
  <2>2. Good(f, 0) BY <1>0, <2>1
  <2> HIDE DEF Good
  <2> QED BY <2>2
<1>2. ASSUME NEW m \in G PROVE m + 1 \in G
  <2>1. PICK f : Good(f, m) OBVIOUS
  <2>2. PICK g : g = [k \in 1..n + 1 |-> StringStep(src, f, k)] OBVIOUS
  <2>3. \A k \in 1..n + 1 : n + 1 - k < m => g[k] = f[k] BY <2>1, <2>2
  <2>4. ASSUME NEW k \in 1..n + 1, n + 1 - k < m + 1 PROVE g[k] = StringStep(src, g, k)
    <3>1. g[k] = StringStep(src, f, k) BY <2>2
    <3>2. CharAt(src, k) # "end" => f[k + 1] = g[k + 1]
      <4>1. SUFFICES ASSUME k \in 1..n PROVE f[k + 1] = g[k + 1] BY CharFacts
      <4>2. k + 1 \in 1..n + 1 /\ n + 1 - (k + 1) < m BY <1>0, <2>4, <4>1
      <4> QED BY <2>3, <4>2
    <3>3. CharAt(src, k + 1) \in Escapes => f[k + 2] = g[k + 2]
      <4>1. SUFFICES ASSUME k + 1 \in 1..n PROVE f[k + 2] = g[k + 2] BY CharFacts DEF Escapes
      <4>2. k + 2 \in 1..n + 1 /\ n + 1 - (k + 2) < m BY <1>0, <2>4, <4>1
      <4> QED BY <2>3, <4>2
    <3> QED BY <3>1, <3>2, <3>3 DEF StringStep
  <2>5. g = [k \in 1..n + 1 |-> g[k]] BY <2>2
  <2>6. Good(g, m + 1) BY <2>4, <2>5
  <2>7. m + 1 \in Nat OBVIOUS
  <2> HIDE DEF Good
  <2> QED BY <2>6, <2>7
<1>3. n + 1 \in G
  <2>1. G \in SUBSET Nat OBVIOUS
  <2> HIDE DEF G
  <2> QED BY <1>0, <1>1, <1>2, <2>1, ByNaturals
<1>4. PICK f : Good(f, n + 1) BY <1>3
<1>5. f = [k \in 1..n + 1 |-> StringStep(src, f, k)]
  <2>1. \A k \in 1..n + 1 : f[k] = StringStep(src, f, k) BY <1>0, <1>4
  <2>2. f = [k \in 1..n + 1 |-> f[k]] BY <1>4
  <2> HIDE DEF Good, G, n
  <2> QED BY ONLY <2>1, <2>2
<1>6. scan = [k \in 1..n + 1 |-> StringStep(src, scan, k)]
  <2>1. scan = CHOOSE h : h = [k \in 1..n + 1 |-> StringStep(src, h, k)]
    BY DEF StringFrom, StringStep
  <2> HIDE DEF Good, G, n
  <2> QED BY <1>5, <2>1
<1> QED BY <1>6

\* Of the characters after a backslash, every second one is escaped.
LEMMA EscapeFacts ==
    ASSUME NEW src, NEW i \in Nat, src[i] # "back", NEW k \in Nat, i < k
    PROVE  /\ ~IsEscaped(src, i, i + 1)
           /\ IsEscaped(src, i, k + 1) <=> src[k] = "back" /\ ~IsEscaped(src, i, k)
<1> DEFINE Last(m, j) == m \in i..j - 1 /\ src[m] # "back" /\ \A n \in m + 1..j - 1 : src[n] = "back"
<1>1. \A j : IsEscaped(src, i, j) <=> \E m : Last(m, j) /\ (j - m) % 2 = 0 BY DEF IsEscaped
<1>2. PICK m : Last(m, k)
  <2> DEFINE T == {d \in Nat : k - 1 - d \in i..k - 1 /\ src[k - 1 - d] # "back"}
  <2>1. k - 1 - i \in T OBVIOUS
  <2>2. PICK d \in T : \A e \in T : d <= e BY <2>1, LeastOf
  <2>3. \A n \in k - d..k - 1 : src[n] = "back"
    <3>1. SUFFICES ASSUME NEW n \in k - d..k - 1, src[n] # "back" PROVE FALSE OBVIOUS
    <3>2. PICK e : e = k - 1 - n OBVIOUS
    <3>3. e \in Nat /\ k - 1 - e = n /\ e < d BY <2>2, <3>2
    <3>4. n \in i..k - 1 BY <2>2, <3>3
    <3>5. e \in T BY <3>1, <3>3, <3>4
    <3> QED BY <2>2, <3>3, <3>5
  <2>4. Last(k - 1 - d, k) BY <2>2, <2>3
  <2> QED BY <2>4
<1>3. m \in Int BY <1>2
<1>4. \A j : Last(j, k) => j = m BY <1>2
<1>5. ~IsEscaped(src, i, i + 1)
  <2>1. \A j : Last(j, i + 1) => j = i OBVIOUS
  <2>2. (i + 1 - i) % 2 = 1 OBVIOUS
  <2> QED BY <1>1, <2>1, <2>2
<1>6. CASE src[k] = "back"
  <2>1. \A j : Last(j, k + 1) <=> j = m BY <1>2, <1>4, <1>6
  <2>2. (k + 1 - m) % 2 = 0 <=> (k - m) % 2 # 0 BY <1>3
  <2>3. IsEscaped(src, i, k) <=> (k - m) % 2 = 0 BY <1>1, <1>2, <1>4
  <2>4. IsEscaped(src, i, k + 1) <=> (k + 1 - m) % 2 = 0
    <3>1. IsEscaped(src, i, k + 1) <=> \E j : Last(j, k + 1) /\ (k + 1 - j) % 2 = 0 BY <1>1
    <3>2. Last(m, k + 1) BY <2>1
    <3> HIDE DEF Last
    <3>3. ASSUME NEW j, Last(j, k + 1), (k + 1 - j) % 2 = 0 PROVE (k + 1 - m) % 2 = 0
      <4>1. j = m BY <2>1, <3>3
      <4> QED BY <3>3, <4>1
    <3> QED BY <3>1, <3>2, <3>3
  <2> QED BY <1>5, <1>6, <2>2, <2>3, <2>4
<1>7. CASE src[k] # "back"
  <2>1. \A j : Last(j, k + 1) => j = k BY <1>7
  <2>2. (k + 1 - k) % 2 = 1 OBVIOUS
  <2>3. ~IsEscaped(src, i, k + 1) BY <1>1, <2>1, <2>2
  <2> QED BY <1>5, <1>7, <2>3
<1> QED BY <1>6, <1>7

\* A position within a string that starts at i.
Inside(src, i, k) ==
    /\ src[k] # "newline"
    /\ src[k] = "quote" => IsEscaped(src, i, k)
    /\ IsEscaped(src, i, k) => src[k] \in Escapes

\* A token of a string that goes on from p, which is not escaped.
StringEnds(src, i, p, t) ==
    /\ t.kind \in {"string", "error"}
    /\ t.kind = "string" =>
          /\ t.next \in p + 1..Len(src) + 1
          /\ src[t.next - 1] = "quote" /\ ~IsEscaped(src, i, t.next - 1)
          /\ \A k \in p..t.next - 2 : Inside(src, i, k)

LEMMA StringFacts ==
    ASSUME NEW src \in Seq(Chars), NEW i \in 1..Len(src), src[i] = "quote",
           NEW scan, scan = StringFrom(src)
    PROVE  \A p \in i + 1..Len(src) + 1 :
              ~IsEscaped(src, i, p) => StringEnds(src, i, p, scan[p])
<1> DEFINE n == Len(src)
           OK(p) == ~IsEscaped(src, i, p) => StringEnds(src, i, p, scan[p])
           G == {m \in Nat : \A p \in i + 1..n + 1 : n + 1 - p < m => OK(p)}
<1>0. n \in Nat /\ i \in Nat OBVIOUS
<1>1. 0 \in G BY <1>0
<1>2. ASSUME NEW m \in G PROVE m + 1 \in G
  <2>1. SUFFICES ASSUME NEW p \in i + 1..n + 1, n + 1 - p < m + 1, ~IsEscaped(src, i, p)
                 PROVE  StringEnds(src, i, p, scan[p])
    BY DEF G
  <2>2. \A q \in i + 1..n + 1 : q > p => OK(q) BY <1>0, <2>1
  <2> HIDE DEF OK, G
  <2>3. scan[p] = StringStep(src, scan, p) BY <1>0, StringRecurs
  <2>4. p \in Nat /\ i < p /\ src[i] # "back" BY <1>0
  <2>5. CharAt(src, p) = "end" \/ (p \in 1..n /\ CharAt(src, p) = src[p]) BY <1>0, CharFacts
  <2>6. CASE CharAt(src, p) = "quote"
    <3>1. scan[p] = Token("string", p + 1) BY <2>3, <2>6 DEF StringStep
    <3>2. p \in 1..n /\ src[p] = "quote" BY <2>5, <2>6
    <3> QED BY <1>0, <2>1, <3>1, <3>2 DEF StringEnds, Token
  <2>7. CASE CharAt(src, p) \in {"end", "newline"}
    <3>1. scan[p] = Token("error", p) BY <2>3, <2>7 DEF StringStep
    <3> QED BY <3>1 DEF StringEnds, Token
  <2>8. CASE CharAt(src, p) \notin {"quote", "end", "newline", "back"}
    <3>1. scan[p] = scan[p + 1] BY <2>3, <2>8 DEF StringStep
    <3>2. p \in 1..n /\ src[p] \notin {"quote", "newline", "back"} BY <2>5, <2>8
    <3>3. ~IsEscaped(src, i, p + 1) BY <1>0, <2>4, <3>2, EscapeFacts
    <3>4. StringEnds(src, i, p + 1, scan[p + 1])
      <4>1. p + 1 \in i + 1..n + 1 /\ p + 1 > p BY <1>0, <3>2
      <4> QED BY <2>2, <3>3, <4>1 DEF OK
    <3>5. Inside(src, i, p) BY <2>1, <3>2 DEF Inside
    <3> QED BY <1>0, <2>4, <3>1, <3>2, <3>4, <3>5 DEF StringEnds
  <2>9. CASE CharAt(src, p) = "back"
    <3>1. p \in 1..n /\ src[p] = "back" BY <2>5, <2>9
    <3>2. IsEscaped(src, i, p + 1) BY <2>1, <2>4, <3>1, EscapeFacts
    <3>3. CASE CharAt(src, p + 1) \in Escapes
      <4>1. scan[p] = scan[p + 2] BY <2>3, <2>9, <3>3 DEF StringStep
      <4>2. p + 1 \in 1..n /\ src[p + 1] \in Escapes
        BY <1>0, <3>1, <3>3, CharFacts DEF Escapes
      <4>3. ~IsEscaped(src, i, p + 2)
        <5>1. p + 1 \in Nat /\ i < p + 1 /\ (p + 1) + 1 = p + 2 BY <2>4
        <5> QED BY <1>0, <2>4, <3>2, <5>1, EscapeFacts
      <4>4. StringEnds(src, i, p + 2, scan[p + 2])
        <5>1. p + 2 \in i + 1..n + 1 /\ p + 2 > p BY <1>0, <4>2
        <5> QED BY <2>2, <4>3, <5>1 DEF OK
      <4>5. Inside(src, i, p) BY <2>1, <3>1 DEF Inside
      <4>6. Inside(src, i, p + 1) BY <3>2, <4>2 DEF Inside, Escapes
      <4> QED BY <1>0, <2>4, <4>1, <4>2, <4>4, <4>5, <4>6 DEF StringEnds
    <3>4. CASE CharAt(src, p + 1) \notin Escapes
      <4>1. scan[p] = Token("error", p + 1) BY <2>3, <2>9, <3>4 DEF StringStep
      <4> QED BY <4>1 DEF StringEnds, Token
    <3> QED BY <3>3, <3>4
  <2> QED BY <2>6, <2>7, <2>8, <2>9
<1>3. G = Nat
  <2>1. G \in SUBSET Nat OBVIOUS
  <2> HIDE DEF G
  <2> QED BY <1>1, <1>2, <2>1, ByNaturals
<1>4. ASSUME NEW p \in i + 1..n + 1 PROVE OK(p)
  <2>1. n + 1 - p + 1 \in G BY <1>0, <1>3
  <2>2. n + 1 - p < n + 1 - p + 1 BY <1>0
  <2> HIDE DEF OK
  <2> QED BY <2>1, <2>2
<1> QED BY <1>4

\* No longer lexeme begins at the same place.
Longest(lang, src, i, t) ==
    \A j \in t.next..Len(src), kind \in Longer(t.kind) : ~IsLexeme(lang, src, kind, i, j)

\* What a scanner gives at i is a lexeme, the longest one, but for a dot before "half".
TokenOK(lang, src, i, t) ==
    ~Raised(t.kind) =>
        /\ t.next \in i + 1..Len(src) + 1
        /\ \/ IsLexeme(lang, src, t.kind, i, t.next - 1)
           \/ t.next <= Len(src) /\ src[t.next] = "half"
        /\ t.kind \in {"number", "name", "sign"} => Longest(lang, src, i, t)

StartsName(ch) == ch \in Letters \union {"_"}

LEMMA NamesAreLexemes ==
    ASSUME NEW src \in Seq(Chars), NEW i \in 1..Len(src), NEW lang \in Languages,
           StartsName(src[i]),
           NEW t, t = scan_name_or_keyword(lang, src, i)
    PROVE  TokenOK(lang, src, i, t)
<1>0. i \in Nat /\ Len(src) \in Nat OBVIOUS
<1>1. PICK r : r = SkipRun(src, i + 1, NameChars(lang)) OBVIOUS
<1>2. "end" \notin NameChars(lang) BY DEF NameChars, Letters, Numeric, Digits
<1>3. i + 1 \in 1..Len(src) + 1 BY <1>0
<1>4. /\ r \in i + 1..Len(src) + 1 /\ CharAt(src, r) \notin NameChars(lang)
      /\ \A j \in i + 1..r - 1 : src[j] \in NameChars(lang)
  BY <1>1, <1>2, <1>3, SkipFacts
<1> DEFINE NotIn == /\ lang = "target" /\ src[i] = "NOT" /\ r = i + 1
                    /\ CharAt(src, i + 1) = "space" /\ CharAt(src, i + 2) = "IN"
<1>5. t = IF NotIn THEN Token("not_in", i + 3) ELSE Token("name", r)
  BY <1>1 DEF scan_name_or_keyword
<1>6. \A j : IsLexeme(lang, src, "name", i, j) <=> Within(src, i + 1, j, NameChars(lang))
  BY DEF IsLexeme, IsIdentifier, NameChars, DigitsOf, Within, StartsName
<1>7. IsLexeme(lang, src, "name", i, r - 1) BY <1>4, <1>6 DEF Within
<1>8. ASSUME NEW j \in r..Len(src), IsLexeme(lang, src, "name", i, j) PROVE FALSE
  <2>1. src[r] \in NameChars(lang) BY <1>0, <1>4, <1>6, <1>8 DEF Within
  <2>2. r \in 1..Len(src) BY <1>0, <1>4, <1>8
  <2>3. CharAt(src, r) = src[r] BY <2>2, CharFacts
  <2> QED BY <1>4, <2>1, <2>3
<1>9. CASE NotIn
  <2>1. t.kind = "not_in" /\ t.next = i + 3 BY <1>5, <1>9 DEF Token
  <2>2. /\ i + 1 \in 1..Len(src) /\ src[i + 1] = "space"
        /\ i + 2 \in 1..Len(src) /\ src[i + 2] = "IN"
    BY <1>0, <1>9, CharFacts
  <2>3. IsLexeme(lang, src, "not_in", i, i + 2) BY <1>9, <2>2 DEF IsLexeme
  <2> QED BY <1>0, <2>1, <2>2, <2>3 DEF TokenOK
<1>10. CASE ~NotIn
  <2>1. t.kind = "name" /\ t.next = r BY <1>5, <1>10 DEF Token
  <2>2. ASSUME NEW j \in r..Len(src), IsLexeme(lang, src, "not_in", i, j) PROVE FALSE
    <3>1. /\ lang = "target" /\ j = i + 2
          /\ src[i] = "NOT" /\ src[i + 1] = "space" /\ src[i + 2] = "IN"
      BY <2>2 DEF IsLexeme
    <3>2. i + 1 \in 1..Len(src) /\ i + 2 \in 1..Len(src) BY <1>0, <2>2, <3>1
    <3>3. CharAt(src, i + 1) = "space" /\ CharAt(src, i + 2) = "IN" BY <3>1, <3>2, CharFacts
    <3>4. "space" \notin NameChars(lang) BY <3>1 DEF NameChars, Letters
    <3>5. r = i + 1 BY <1>0, <1>4, <3>1, <3>4
    <3> QED BY <1>10, <3>1, <3>3, <3>5
  <2> HIDE DEF NotIn
  <2>3. Longest(lang, src, i, t) BY <1>8, <2>1, <2>2 DEF Longest, Longer
  <2> QED BY <1>4, <1>7, <2>1, <2>3 DEF TokenOK
<1> QED BY <1>9, <1>10

LEMMA StringsAreLexemes ==
    ASSUME NEW src \in Seq(Chars), NEW i \in 1..Len(src), NEW lang \in Languages,
           src[i] = "quote", NEW t, t = scan_string(src, i)
    PROVE  TokenOK(lang, src, i, t)
<1>1. i \in Nat /\ Len(src) \in Nat OBVIOUS
<1>2. ~IsEscaped(src, i, i + 1) BY <1>1, EscapeFacts
<1>3. StringEnds(src, i, i + 1, t)
  <2>1. i + 1 \in i + 1..Len(src) + 1 BY <1>1
  <2> QED BY <1>2, <2>1, StringFacts DEF scan_string
<1>4. CASE t.kind = "error" BY <1>4 DEF TokenOK, Raised
<1>5. CASE t.kind = "string"
  <2>1. t.next \in (i + 1) + 1..Len(src) + 1 BY <1>3, <1>5 DEF StringEnds
  <2>2. IsQuoted(src, i, t.next - 1)
    BY <1>1, <1>3, <1>5, <2>1 DEF StringEnds, IsQuoted, Inside
  <2>3. IsLexeme(lang, src, t.kind, i, t.next - 1) BY <1>1, <1>5, <2>1, <2>2 DEF IsLexeme
  <2> QED BY <1>1, <1>5, <2>1, <2>3 DEF TokenOK
<1> QED BY <1>3, <1>4, <1>5 DEF StringEnds

LEMMA SignsAreLexemes ==
    ASSUME NEW src \in Seq(Chars), NEW i \in 1..Len(src), NEW lang \in Languages, NEW t,
           \/ src[i] \in {"=", "!"} /\ t = WithEqual(src, i, "error")
           \/ src[i] = "<" /\ lang = "target" /\ t = WithEqual(src, i, "sign")
           \/ /\ src[i] \in IF lang = "target" THEN Brackets ELSE Marks
              /\ t = Token("sign", i + 1)
    PROVE  TokenOK(lang, src, i, t)
<1>1. i \in Nat /\ Len(src) \in Nat OBVIOUS
<1>2. \A j : IsLexeme(lang, src, "sign", i, j) <=> IsSign(lang, src, i, j) BY DEF IsLexeme
<1>3. CASE t = Token("error", i + 1) BY <1>3 DEF TokenOK, Token, Raised
<1>4. CASE t = Token("sign", i + 2) /\ CharAt(src, i + 1) = "="
  <2>1. i + 1 \in 1..Len(src) /\ src[i + 1] = "=" BY <1>4, CharFacts
  <2>2. src[i] \in {"=", "!"} \/ (src[i] = "<" /\ lang = "target") BY <1>4 DEF WithEqual, Token
  <2>3. IsSign(lang, src, i, i + 1) BY <1>1, <2>1, <2>2 DEF IsSign
  <2>4. \A j \in i + 2..Len(src) : ~IsSign(lang, src, i, j) BY <1>1 DEF IsSign
  <2> QED BY <1>1, <1>2, <1>4, <2>1, <2>3, <2>4 DEF TokenOK, Token, Longest, Longer
<1>5. CASE t = Token("sign", i + 1)
  <2>1. src[i] \in IF lang = "target" THEN Brackets \union {"<"} ELSE Marks
    BY <1>5 DEF WithEqual, Token, Languages
  <2>2. IsSign(lang, src, i, i) BY <2>1 DEF IsSign
  <2>3. ASSUME NEW j \in i + 1..Len(src), IsSign(lang, src, i, j) PROVE FALSE
    <3>1. j = i + 1 /\ src[j] = "=" /\ src[i] = "<" /\ lang = "target"
      BY <1>1, <2>1, <2>3 DEF IsSign, Brackets, Marks
    <3>2. t = WithEqual(src, i, "sign") BY <3>1 DEF Brackets
    <3>3. CharAt(src, i + 1) = "=" BY <3>1, CharFacts
    <3> QED BY <1>1, <1>5, <3>2, <3>3 DEF WithEqual, Token
  <2> QED BY <1>1, <1>2, <1>5, <2>2, <2>3 DEF TokenOK, Token, Longest, Longer
<1> QED BY <1>3, <1>4, <1>5 DEF WithEqual

StartsNumber(ch) == ch \in Numeric \union {"-"}

\* A number from w on, whose whole part ends before s, and which ends before r.
NumberRuns(src, i, w, s, r) ==
    /\ w = IF src[i] = "-" THEN i + 1 ELSE i
    /\ w \in 1..Len(src) + 1 /\ s \in w..Len(src) + 1 /\ r \in s..Len(src) + 1
    /\ \A j \in w..s - 1 : src[j] \in Digits
    /\ CharAt(src, s) \notin Digits
    /\ \/ r = s /\ ~(CharAt(src, s) = "." /\ CharAt(src, s + 1) \in Numeric)
       \/ /\ r > s /\ CharAt(src, s) = "." /\ CharAt(src, s + 1) \in Numeric
          /\ CharAt(src, r) \notin Digits /\ \A j \in s + 1..r - 1 : src[j] \in Digits

LEMMA RunsOfNumbers ==
    ASSUME NEW src \in Seq(Chars), NEW i \in 1..Len(src), StartsNumber(src[i]),
           NEW w, w = (IF src[i] = "-" THEN i + 1 ELSE i),
           NEW s, s = SkipRun(src, w, Digits), NEW r, r = AfterFraction(src, s)
    PROVE  NumberRuns(src, i, w, s, r)
<1>1. i \in Nat /\ Len(src) \in Nat OBVIOUS
<1>2. w \in 1..Len(src) + 1 BY <1>1
<1>3. /\ s \in w..Len(src) + 1 /\ CharAt(src, s) \notin Digits
      /\ \A j \in w..s - 1 : src[j] \in Digits
  <2>1. "end" \notin Digits BY DEF Digits
  <2>2. /\ s \in w..Len(src) + 1 /\ CharAt(src, s) \notin Digits
        /\ \A j \in w..s - 1 : src[j] \in Digits
    BY <1>2, <2>1, SkipFacts
  <2> QED BY <2>2
<1>4. CASE ~(CharAt(src, s) = "." /\ CharAt(src, s + 1) \in Numeric)
  <2>1. r = s BY <1>4 DEF AfterFraction
  <2> QED BY <1>1, <1>2, <1>3, <1>4, <2>1 DEF NumberRuns
<1>5. CASE CharAt(src, s) = "." /\ CharAt(src, s + 1) \in Numeric
  <2>1. r = SkipRun(src, s + 1, Digits) BY <1>5 DEF AfterFraction
  <2>2. s + 1 \in 1..Len(src) + 1 BY <1>1, <1>2, <1>3, <1>5, CharFacts
  <2>3. "end" \notin Digits BY DEF Digits
  <2>4. /\ r \in s + 1..Len(src) + 1 /\ CharAt(src, r) \notin Digits
        /\ \A j \in s + 1..r - 1 : src[j] \in Digits
    BY <2>1, <2>2, <2>3, SkipFacts
  <2> QED BY <1>1, <1>2, <1>3, <1>5, <2>2, <2>4 DEF NumberRuns
<1> QED BY <1>4, <1>5

\* No numeral goes on after such a number.
LEMMA NumbersAreLongest ==
    ASSUME NEW src \in Seq(Chars), NEW i \in 1..Len(src), NEW w, NEW s, NEW r,
           NumberRuns(src, i, w, s, r), NEW j \in r..Len(src)
    PROVE  ~IsNumeral(src, i, j)
<1>1. i \in Nat /\ Len(src) \in Nat OBVIOUS
<1>2. w \in Nat /\ s \in Nat /\ r \in Nat /\ w >= 1 /\ w <= s /\ s <= r /\ r <= j /\ j <= Len(src)
  BY <1>1 DEF NumberRuns
<1>3. s \in 1..Len(src) /\ r \in 1..Len(src) BY <1>1, <1>2
<1>4. src[s] \notin Digits BY <1>3, CharFacts DEF NumberRuns
<1>5. ~Within(src, w, j, Digits) BY <1>2, <1>4 DEF Within
<1>6. ASSUME NEW dot \in w..j - 1, src[dot] = ".", Within(src, w, dot - 1, Digits),
             Within(src, dot + 1, j, Digits)
      PROVE  FALSE
  <2>1. dot = s
    <3>1. ~(dot < s)
      <4>1. src[dot] \notin Digits BY <1>6 DEF Digits
      <4>2. \A k \in w..s - 1 : src[k] \in Digits BY DEF NumberRuns
      <4> QED BY <1>2, <1>6, <4>1, <4>2
    <3>2. ~(s < dot) BY <1>2, <1>4, <1>6 DEF Within
    <3> QED BY <1>2, <3>1, <3>2
  <2>2. src[s + 1] \in Digits /\ s + 1 \in 1..Len(src) BY <1>2, <1>6, <2>1 DEF Within
  <2>3. CharAt(src, s) = "." /\ CharAt(src, s + 1) \in Digits BY <1>3, <1>6, <2>1, <2>2, CharFacts
  <2>4. r > s /\ CharAt(src, r) \notin Digits BY <2>3 DEF NumberRuns, Numeric
  <2>5. src[r] \in Digits BY <1>2, <1>6, <2>1, <2>4 DEF Within
  <2> QED BY <1>3, <2>4, <2>5, CharFacts
<1>7. w = IF src[i] = "-" THEN i + 1 ELSE i BY DEF NumberRuns
<1> QED BY <1>5, <1>6, <1>7 DEF IsNumeral

LEMMA NumbersAreLexemes ==
    ASSUME NEW src \in Seq(Chars), NEW i \in 1..Len(src), NEW lang \in Languages,
           StartsNumber(src[i]), NEW t, t = scan_number(lang, src, i)
    PROVE  TokenOK(lang, src, i, t)
<1>1. i \in Nat /\ Len(src) \in Nat OBVIOUS
<1>2. PICK w : w = IF src[i] = "-" THEN i + 1 ELSE i OBVIOUS
<1>3. PICK s : s = SkipRun(src, w, Digits) OBVIOUS
<1>4. PICK r : r = AfterFraction(src, s) OBVIOUS
<1>5. NumberRuns(src, i, w, s, r) BY <1>2, <1>3, <1>4, RunsOfNumbers
<1>6. w \in Nat /\ s \in Nat /\ r \in Nat /\ i <= w /\ w <= i + 1 /\ w <= s /\ s <= r /\ r <= Len(src) + 1
  BY <1>1, <1>5 DEF NumberRuns
<1>7. t = IF lang = "target" /\ w = i /\ s - w = 4 /\ CharAt(src, s) = "-"
          THEN IF IsDateTail(src, s) /\ IsPossible(src, s) THEN Token("date", s + 6)
               ELSE Token("error", s)
          ELSE IF \E j \in w..r - 1 : src[j] \in Digits THEN Token("number", r)
          ELSE Token("crash", r)
  BY <1>2, <1>3, <1>4 DEF scan_number
<1>8. CASE t.kind \in {"error", "crash"} BY <1>8 DEF TokenOK, Raised
<1>9. CASE /\ t = Token("date", s + 6) /\ lang = "target" /\ s = i + 4 /\ w = i
           /\ IsDateTail(src, s) /\ IsPossible(src, s)
  <2>1. \A k \in 0..5 : s + k \in 1..Len(src) /\ CharAt(src, s + k) = src[s + k]
    <3>1. SUFFICES ASSUME NEW k \in 0..5
                   PROVE  s + k \in 1..Len(src) /\ CharAt(src, s + k) = src[s + k]
      OBVIOUS
    <3>2. CharAt(src, s + k) # "end" BY <1>9 DEF IsDateTail, Digits
    <3> QED BY <1>6, <3>2, CharFacts
  <2>2. s + 5 <= Len(src) BY <2>1
  <2>3. src[i] \in Digits /\ src[i + 1] \in Digits /\ src[i + 2] \in Digits /\ src[i + 3] \in Digits
    BY <1>1, <1>5, <1>9 DEF NumberRuns
  <2>4. \A k \in 0..5 : src[s + k] \in IF k \in {0, 3} THEN {"-"} ELSE Digits
    BY <1>9, <2>1 DEF IsDateTail
  <2>5. /\ src[i + 4] = "-" /\ src[i + 5] \in Digits /\ src[i + 6] \in Digits /\ src[i + 7] = "-"
        /\ src[i + 8] \in Digits /\ src[i + 9] \in Digits
    <3>1. src[s + 0] = "-" /\ src[s + 1] \in Digits /\ src[s + 2] \in Digits BY <2>4
    <3>2. src[s + 3] = "-" /\ src[s + 4] \in Digits /\ src[s + 5] \in Digits BY <2>4
    <3> QED BY <1>1, <1>9, <3>1, <3>2
  <2>6. DOMAIN DateSource = 1..10 /\ Len(DateSource) = 10 BY DEF DateSource
  <2>7. ASSUME NEW k \in 1..10 PROVE AsInDate(src, i, k)
    <3>1. CASE k \in {5, 8}
      <4>1. DateSource[k] = "-" BY <3>1 DEF DateSource
      <4>2. i + k - 1 \in {i + 4, i + 7} BY <1>1, <3>1
      <4> QED BY <2>5, <4>1, <4>2 DEF AsInDate
    <3>2. CASE k \notin {5, 8}
      <4>1. DateSource[k] # "-" BY <3>2 DEF DateSource
      <4>2. i + k - 1 \in {i, i + 1, i + 2, i + 3, i + 5, i + 6, i + 8, i + 9} BY <1>1, <3>2
      <4> QED BY <2>3, <2>5, <4>1, <4>2 DEF AsInDate
    <3> QED BY <3>1, <3>2
  <2>8. src[i + 5] = "0" /\ src[i + 6] = "5" /\ src[i + 8] = "0" /\ src[i + 9] = "5"
    <3>1. \A k \in {s + 1, s + 4} : CharAt(src, k) = "0" /\ CharAt(src, k + 1) = "5"
      BY <1>9 DEF IsPossible
    <3>2. /\ CharAt(src, s + 1) = "0" /\ CharAt(src, s + 1 + 1) = "5"
          /\ CharAt(src, s + 4) = "0" /\ CharAt(src, s + 4 + 1) = "5"
      BY <3>1
    <3>3. s + 1 + 1 = s + 2 /\ s + 4 + 1 = s + 5 BY <1>6
    <3>4. src[s + 1] = "0" /\ src[s + 2] = "5" /\ src[s + 4] = "0" /\ src[s + 5] = "5"
      BY <2>1, <3>2, <3>3
    <3> QED BY <1>1, <1>9, <3>4
  <2>9. ~Within(src, i, i + 3, {"0"})
    <3>1. PICK k \in s - 4..s - 1 : CharAt(src, k) # "0" BY <1>9 DEF IsPossible
    <3>2. k \in i..i + 3 /\ k \in 1..Len(src) BY <1>1, <1>9, <2>2, <3>1
    <3>3. src[k] # "0" BY <3>1, <3>2, CharFacts
    <3> QED BY <3>2, <3>3 DEF Within
  <2>10. IsDate(src, i, s + 5) BY <1>1, <1>9, <2>6, <2>7, <2>8, <2>9 DEF IsDate
  <2>11. IsLexeme(lang, src, "date", i, s + 5) BY <1>9, <2>10 DEF IsLexeme
  <2> QED BY <1>1, <1>9, <2>2, <2>11 DEF TokenOK, Token
<1>10. CASE t = Token("number", r) /\ \E j \in w..r - 1 : src[j] \in Digits
  <2>1. \A j : IsLexeme(lang, src, "number", i, j) <=> IsNumeral(src, i, j) BY DEF IsLexeme
  <2>2. r > w BY <1>6, <1>10
  <2>3. IsNumeral(src, i, r - 1) \/ (r <= Len(src) /\ src[r] = "half")
    <3>1. CASE r = s
      <4>1. Within(src, w, r - 1, Digits) BY <1>5, <3>1 DEF NumberRuns, Within
      <4> QED BY <1>2, <1>6, <2>2, <4>1 DEF IsNumeral
    <3>2. CASE r = s + 1
      <4>1. CharAt(src, r) \in Numeric /\ CharAt(src, r) \notin Digits BY <1>5, <1>6, <3>2 DEF NumberRuns
      <4>2. CharAt(src, r) = "half" BY <4>1 DEF Numeric
      <4>3. r \in 1..Len(src) /\ src[r] = "half" BY <1>6, <4>2, CharFacts
      <4> QED BY <4>3
    <3>3. CASE r > s + 1
      <4>1. s \in w..(r - 1) - 1 BY <1>6, <3>3
      <4>2. src[s] = "."
        <5>1. CharAt(src, s) = "." BY <1>5, <1>6, <3>3 DEF NumberRuns
        <5> QED BY <1>6, <5>1, CharFacts
      <4>3. Within(src, w, s - 1, Digits) BY <1>5 DEF NumberRuns, Within
      <4>4. Within(src, s + 1, r - 1, Digits) BY <1>5, <1>6, <3>3 DEF NumberRuns, Within
      <4> QED BY <1>2, <4>1, <4>2, <4>3, <4>4 DEF IsNumeral
    <3> QED BY <1>6, <3>1, <3>2, <3>3
  <2>4. \A j \in r..Len(src) : ~IsNumeral(src, i, j) BY <1>5, NumbersAreLongest
  <2>5. r \in i + 1..Len(src) + 1 BY <1>1, <1>6, <2>2
  <2>6. t.kind = "number" /\ t.next = r BY <1>10 DEF Token
  <2> QED BY <2>1, <2>3, <2>4, <2>5, <2>6 DEF TokenOK, Longest, Longer
<1> QED BY <1>6, <1>7, <1>8, <1>9, <1>10 DEF Token

\* What is numeric and no digit starts no number.
LEMMA HalfCrashes ==
    ASSUME NEW src \in Seq(Chars), NEW i \in 1..Len(src), NEW lang \in Languages,
           src[i] = "half"
    PROVE  scan_number(lang, src, i).kind = "crash"
<1>1. i \in Nat /\ Len(src) \in Nat OBVIOUS
<1>2. PICK s : s = SkipRun(src, i, Digits) OBVIOUS
<1>3. PICK r : r = AfterFraction(src, s) OBVIOUS
<1>4. StartsNumber(src[i]) BY DEF StartsNumber, Numeric
<1>5. NumberRuns(src, i, i, s, r) BY <1>2, <1>3, <1>4, RunsOfNumbers
<1>6. s = i
  <2>1. src[i] \notin Digits BY DEF Digits
  <2>2. s \in i..Len(src) + 1 /\ \A j \in i..s - 1 : src[j] \in Digits BY <1>5 DEF NumberRuns
  <2> QED BY <1>1, <2>1, <2>2
<1>7. CharAt(src, s) = "half" BY <1>6, CharFacts
<1>8. r = i BY <1>5, <1>6, <1>7 DEF NumberRuns
<1>9. scan_number(lang, src, i) = Token("crash", r)
  <2>1. /\ src[i] # "-" /\ ~(s - i = 4)
        /\ ~\E j \in i..r - 1 : src[j] \in Digits
    BY <1>1, <1>6, <1>8
  <2> QED BY <1>2, <1>3, <2>1 DEF scan_number
<1> QED BY <1>9 DEF Token

LEMMA TokensAreLexemes ==
    ASSUME NEW src \in Seq(Chars), NEW i \in 1..Len(src), NEW lang \in Languages
    PROVE  /\ TokenOK(lang, src, i, scan_char(lang, src, i))
           /\ src[i] = "half" => Raised(scan_char(lang, src, i).kind)
<1>0. i \in Nat /\ Len(src) \in Nat OBVIOUS
<1>1. PICK t : t = scan_char(lang, src, i) OBVIOUS
<1>2. PICK ch : ch = src[i] OBVIOUS
<1>3. TokenOK(lang, src, i, t)
  <2>1. CASE ch = "quote"
    <3>1. t = scan_string(src, i) BY <1>1, <1>2, <2>1 DEF scan_char
    <3> QED BY <1>2, <2>1, <3>1, StringsAreLexemes
  <2>2. CASE ch \in Numeric \union {"-"}
    <3>1. t = scan_number(lang, src, i) BY <1>1, <1>2, <2>2 DEF scan_char, Numeric, Digits
    <3> QED BY <1>2, <2>2, <3>1, NumbersAreLexemes DEF StartsNumber
  <2>3. CASE ch \in Letters \union {"_"}
    <3>1. t = scan_name_or_keyword(lang, src, i)
      BY <1>1, <1>2, <2>3 DEF scan_char, Numeric, Digits, Letters
    <3>2. StartsName(src[i]) BY <1>2, <2>3 DEF StartsName
    <3> QED BY <3>1, <3>2, NamesAreLexemes
  <2>4. CASE ch \in {"space", "tab", "newline"}
    <3>1. t = Token("blank", i + 1) BY <1>1, <1>2, <2>4 DEF scan_char, Numeric, Digits, Letters
    <3>2. IsLexeme(lang, src, "blank", i, i) BY <1>2, <2>4 DEF IsLexeme
    <3> QED BY <1>0, <3>1, <3>2 DEF TokenOK, Token
  <2>5. CASE ch \in {"=", "!"}
    <3>1. t = WithEqual(src, i, "error") BY <1>1, <1>2, <2>5 DEF scan_char, Numeric, Digits, Letters
    <3> QED BY <1>2, <2>5, <3>1, SignsAreLexemes
  <2>6. CASE ch = "<" /\ lang = "target"
    <3>1. t = WithEqual(src, i, "sign") BY <1>1, <1>2, <2>6 DEF scan_char, Numeric, Digits, Letters
    <3> QED BY <1>2, <2>6, <3>1, SignsAreLexemes
  <2>7. CASE ch \in IF lang = "target" THEN Brackets ELSE Marks
    <3>1. t = Token("sign", i + 1)
      BY <1>1, <1>2, <2>7 DEF scan_char, Numeric, Digits, Letters, Brackets, Marks
    <3> QED BY <1>2, <2>7, <3>1, SignsAreLexemes
  <2>8. CASE t = Token("error", i + 1) BY <2>8 DEF TokenOK, Token, Raised
  <2> QED BY <1>1, <1>2, <2>1, <2>2, <2>3, <2>4, <2>5, <2>6, <2>7, <2>8 DEF scan_char
<1>4. ASSUME src[i] = "half" PROVE Raised(scan_char(lang, src, i).kind)
  <2>1. scan_char(lang, src, i) = scan_number(lang, src, i) BY <1>4 DEF scan_char, Numeric, Digits
  <2> QED BY <1>4, <2>1, HalfCrashes DEF Raised
<1> QED BY <1>1, <1>3, <1>4

LEMMA LexemesMoveOn ==
    ASSUME NEW src \in Seq(Chars), NEW i \in 1..Len(src), NEW lang \in Languages,
           NEW x, x = LexemeAt(lang, src, i), ~Raised(x.kind)
    PROVE  x.first = i /\ x.last \in i..Len(src) /\ x.last + 1 \in i + 1..Len(src) + 1
<1>0. i \in Nat /\ Len(src) \in Nat OBVIOUS
<1>1. PICK t : t = scan_char(lang, src, i) OBVIOUS
<1>2. x.kind = t.kind /\ x.first = i /\ x.last = t.next - 1 BY <1>1 DEF LexemeAt
<1>3. TokenOK(lang, src, i, t) BY <1>1, TokensAreLexemes
<1>4. t.next \in i + 1..Len(src) + 1 BY <1>2, <1>3 DEF TokenOK
<1> QED BY <1>0, <1>2, <1>4

\* What the tokens from a position on are.
ScanStep(lang, src, f, i) ==
    IF i > Len(src) THEN <<>>
    ELSE IF Raised(LexemeAt(lang, src, i).kind) THEN <<LexemeAt(lang, src, i)>>
    ELSE <<LexemeAt(lang, src, i)>> \o f[LexemeAt(lang, src, i).last + 1]

LEMMA ScanRecurs ==
    ASSUME NEW src \in Seq(Chars), NEW lang \in Languages, NEW from, from = ScanFrom(lang, src),
           NEW i \in 1..Len(src) + 1
    PROVE  from[i] = ScanStep(lang, src, from, i)
<1> DEFINE n == Len(src)
           Good(f, m) == /\ f = [k \in 1..n + 1 |-> f[k]]
                         /\ \A k \in 1..n + 1 : n + 1 - k < m => f[k] = ScanStep(lang, src, f, k)
           G == {m \in Nat : \E f : Good(f, m)}
<1>0. n \in Nat OBVIOUS
<1>1. 0 \in G
  <2>1. PICK f : f = [k \in 1..n + 1 |-> 0] OBVIOUS
  <2>2. Good(f, 0) BY <1>0, <2>1
  <2> HIDE DEF Good
  <2> QED BY <2>2
<1>2. ASSUME NEW m \in G PROVE m + 1 \in G
  <2>1. PICK f : Good(f, m) OBVIOUS
  <2>2. PICK g : g = [k \in 1..n + 1 |-> ScanStep(lang, src, f, k)] OBVIOUS
  <2>3. \A k \in 1..n + 1 : n + 1 - k < m => g[k] = f[k] BY <2>1, <2>2
  <2>4. ASSUME NEW k \in 1..n + 1, n + 1 - k < m + 1 PROVE g[k] = ScanStep(lang, src, g, k)
    <3>1. g[k] = ScanStep(lang, src, f, k) BY <2>2
    <3>2. PICK x : x = LexemeAt(lang, src, k) OBVIOUS
    <3>3. k \in 1..n /\ ~Raised(x.kind) => f[x.last + 1] = g[x.last + 1]
      <4>1. SUFFICES ASSUME k \in 1..n, ~Raised(x.kind) PROVE f[x.last + 1] = g[x.last + 1]
        OBVIOUS
      <4>2. x.last + 1 \in k + 1..n + 1 BY <3>2, <4>1, LexemesMoveOn
      <4>3. x.last + 1 \in 1..n + 1 /\ n + 1 - (x.last + 1) < m BY <1>0, <2>4, <4>1, <4>2
      <4> QED BY <2>3, <4>3
    <3>4. k > n \/ k \in 1..n BY <1>0
    <3> QED BY <3>1, <3>2, <3>3, <3>4 DEF ScanStep
  <2>5. g = [k \in 1..n + 1 |-> g[k]] BY <2>2
  <2>6. Good(g, m + 1) BY <2>4, <2>5
  <2>7. m + 1 \in Nat OBVIOUS
  <2> HIDE DEF Good
  <2> QED BY <2>6, <2>7
<1>3. n + 1 \in G
  <2>1. G \in SUBSET Nat OBVIOUS
  <2> HIDE DEF G
  <2> QED BY <1>0, <1>1, <1>2, <2>1, ByNaturals
<1>4. PICK f : Good(f, n + 1) BY <1>3
<1>5. f = [k \in 1..n + 1 |-> ScanStep(lang, src, f, k)]
  <2>1. \A k \in 1..n + 1 : f[k] = ScanStep(lang, src, f, k) BY <1>0, <1>4
  <2>2. f = [k \in 1..n + 1 |-> f[k]] BY <1>4
  <2> HIDE DEF Good, G, n
  <2> QED BY ONLY <2>1, <2>2
<1>6. from = [k \in 1..n + 1 |-> ScanStep(lang, src, from, k)]
  <2>1. from = CHOOSE h : h = [k \in 1..n + 1 |-> ScanStep(lang, src, h, k)]
    BY DEF ScanFrom, ScanStep
  <2> HIDE DEF Good, G, n
  <2> QED BY <1>5, <2>1
<1> QED BY <1>6

LEMMA PrependFacts ==
    ASSUME NEW S, NEW x \in S, NEW rest \in Seq(S), NEW s, s = <<x>> \o rest
    PROVE  /\ s \in Seq(S) /\ Len(rest) \in Nat /\ Len(s) = Len(rest) + 1 /\ s # <<>>
           /\ s[1] = x /\ \A k \in 1..Len(rest) : s[k + 1] = rest[k]
OBVIOUS

Lexemes(lang, src) == {LexemeAt(lang, src, i) : i \in 1..Len(src)}

\* After a token that does not raise comes the next one, up to the end.
GoesOn(src, tokens, k) ==
    ~Raised(tokens[k].kind) =>
        IF tokens[k].last = Len(src) THEN k = Len(tokens)
        ELSE k < Len(tokens) /\ tokens[k + 1].first = tokens[k].last + 1

IsToken(lang, src, token) ==
    token.first \in 1..Len(src) /\ token = LexemeAt(lang, src, token.first)

\* The tokens of a source from i on.
Tokens(lang, src, i, tokens) ==
    /\ tokens \in Seq(Lexemes(lang, src))
    /\ IF i = Len(src) + 1 THEN tokens = <<>>
       ELSE tokens # <<>> /\ tokens[1] = LexemeAt(lang, src, i)
    /\ \A k \in 1..Len(tokens) : IsToken(lang, src, tokens[k]) /\ GoesOn(src, tokens, k)

LEMMA TokensFrom ==
    ASSUME NEW src \in Seq(Chars), NEW lang \in Languages, NEW from, from = ScanFrom(lang, src)
    PROVE  \A i \in 1..Len(src) + 1 : Tokens(lang, src, i, from[i])
<1> DEFINE n == Len(src)
           G == {m \in Nat : \A i \in 1..n + 1 : n + 1 - i < m => Tokens(lang, src, i, from[i])}
<1>0. n \in Nat OBVIOUS
<1>1. 0 \in G BY <1>0
<1>2. ASSUME NEW m \in G PROVE m + 1 \in G
  <2>1. SUFFICES ASSUME NEW i \in 1..n + 1, n + 1 - i < m + 1 PROVE Tokens(lang, src, i, from[i])
    BY DEF G
  <2>2. \A j \in 1..n + 1 : j > i => Tokens(lang, src, j, from[j]) BY <1>0, <2>1
  <2> HIDE DEF G
  <2>3. from[i] = ScanStep(lang, src, from, i) BY ScanRecurs
  <2>4. CASE i = n + 1
    <3>1. from[i] = <<>> BY <1>0, <2>3, <2>4 DEF ScanStep
    <3> QED BY <2>4, <3>1 DEF Tokens
  <2>5. CASE i \in 1..n
    <3>0. ~(i > n) /\ i # n + 1 BY <1>0, <2>5
    <3>1. PICK x : x = LexemeAt(lang, src, i) OBVIOUS
    <3>2. x \in Lexemes(lang, src) BY <2>5, <3>1 DEF Lexemes
    <3>3. x.first = i BY <3>1 DEF LexemeAt
    <3>4. IsToken(lang, src, x) BY <2>5, <3>1, <3>3 DEF IsToken
    <3>5. CASE Raised(x.kind)
      <4>1. from[i] = <<x>> BY <2>3, <3>0, <3>1, <3>5 DEF ScanStep
      <4>2. <<x>> \in Seq(Lexemes(lang, src)) /\ <<x>> # <<>> /\ <<x>>[1] = x /\ Len(<<x>>) = 1
        BY <3>2
      <4>3. GoesOn(src, <<x>>, 1) BY <3>5, <4>2 DEF GoesOn
      <4> QED BY <3>0, <3>1, <3>4, <4>1, <4>2, <4>3 DEF Tokens
    <3>6. CASE ~Raised(x.kind)
      <4>1. PICK j : j = x.last + 1 OBVIOUS
      <4>2. x.last \in i..n /\ j \in i + 1..n + 1 BY <2>5, <3>1, <3>6, <4>1, LexemesMoveOn
      <4>3. j \in 1..n + 1 /\ j > i BY <1>0, <2>5, <4>2
      <4>4. Tokens(lang, src, j, from[j]) BY <2>2, <4>3
      <4>5. PICK rest : rest = from[j] OBVIOUS
      <4>6. rest \in Seq(Lexemes(lang, src)) BY <4>4, <4>5 DEF Tokens
      <4>7. PICK s : s = <<x>> \o rest OBVIOUS
      <4>8. from[i] = s BY <2>3, <3>0, <3>1, <3>6, <4>1, <4>5, <4>7 DEF ScanStep
      <4>9. /\ s \in Seq(Lexemes(lang, src)) /\ Len(rest) \in Nat /\ Len(s) = Len(rest) + 1 /\ s # <<>>
            /\ s[1] = x /\ \A k \in 1..Len(rest) : s[k + 1] = rest[k]
        BY <3>2, <4>6, <4>7, PrependFacts
      <4>10. IF j = n + 1 THEN rest = <<>> ELSE rest # <<>> /\ rest[1] = LexemeAt(lang, src, j)
        BY <4>4, <4>5 DEF Tokens
      <4>11. IsToken(lang, src, s[1]) /\ GoesOn(src, s, 1)
        <5>1. CASE j = n + 1
          <6>1. Len(rest) = 0 BY <4>10, <5>1
          <6>2. x.last = n BY <1>0, <4>1, <4>2, <5>1
          <6> QED BY <3>4, <4>9, <6>1, <6>2 DEF GoesOn
        <5>2. CASE j # n + 1
          <6>1. Len(rest) >= 1 BY <4>6, <4>10, <5>2
          <6>2. s[1 + 1] = rest[1] BY <4>9, <6>1
          <6>3. rest[1].first = x.last + 1 BY <4>1, <4>10, <5>2 DEF LexemeAt
          <6>4. x.last # n BY <1>0, <4>1, <4>2, <5>2
          <6> QED BY <3>4, <4>9, <6>1, <6>2, <6>3, <6>4 DEF GoesOn
        <5> QED BY <5>1, <5>2
      <4>12. ASSUME NEW k \in 1..Len(s), k # 1 PROVE IsToken(lang, src, s[k]) /\ GoesOn(src, s, k)
        <5>1. PICK p : p = k - 1 OBVIOUS
        <5>2. p \in 1..Len(rest) /\ p + 1 = k BY <4>9, <4>12, <5>1
        <5>3. s[k] = rest[p] BY <4>9, <5>2
        <5>4. IsToken(lang, src, rest[p]) /\ GoesOn(src, rest, p) BY <4>4, <4>5, <5>2 DEF Tokens
        <5>5. p < Len(rest) => s[k + 1] = rest[p + 1]
          <6>1. SUFFICES ASSUME p < Len(rest) PROVE s[k + 1] = rest[p + 1] OBVIOUS
          <6>2. k \in 1..Len(rest) BY <4>9, <5>2, <6>1
          <6> QED BY <4>9, <5>2, <6>2
        <5>6. (k = Len(s) <=> p = Len(rest)) /\ (k < Len(s) <=> p < Len(rest)) BY <4>9, <5>2
        <5>7. GoesOn(src, s, k) BY <5>3, <5>4, <5>5, <5>6 DEF GoesOn
        <5> QED BY <5>3, <5>4, <5>7
      <4> QED BY <3>0, <3>1, <4>8, <4>9, <4>11, <4>12 DEF Tokens
    <3> QED BY <3>5, <3>6
  <2> QED BY <1>0, <2>4, <2>5
<1>3. G = Nat
  <2>1. G \in SUBSET Nat OBVIOUS
  <2> HIDE DEF G
  <2> QED BY <1>1, <1>2, <2>1, ByNaturals
<1>4. ASSUME NEW i \in 1..n + 1 PROVE Tokens(lang, src, i, from[i])
  <2>1. n + 1 - i + 1 \in G
    <3>1. n + 1 - i + 1 \in Nat BY <1>0
    <3> HIDE DEF G
    <3> QED BY <1>3, <3>1
  <2>2. n + 1 - i < n + 1 - i + 1 BY <1>0
  <2> QED BY <2>1, <2>2
<1> QED BY <1>4

\* The source is one of characters.
\* A source of any length that a scanner accepts is cut without gaps into lexemes. No number,
\* name or sign could have been longer, nor a name NOT been a NOT IN, which alone may end
\* within a word (scan_char, scan_number, scan_string, scan_name_or_keyword).
THEOREM ScannersFollowGrammars == AlgorithmsSpec => []LexemesAreOfTheGrammar
<1>1. ASSUME SourceTyped PROVE LexemesAreOfTheGrammar
  <2> DEFINE n == Len(sample)
  <2> SUFFICES ASSUME topic \in Languages PROVE LexemesAreOfTheGrammar
    BY DEF LexemesAreOfTheGrammar
  <2>1. sample \in Seq(Chars) /\ topic \in Languages /\ n \in Nat BY <1>1 DEF SourceTyped
  <2>2. PICK tokens : tokens = Scan(topic, sample) OBVIOUS
  <2>3. Tokens(topic, sample, 1, tokens)
    <3>1. 1 \in 1..n + 1 BY <2>1
    <3> QED BY <2>1, <2>2, <3>1, TokensFrom DEF Scan
  <2>4. SUFFICES
           ASSUME Accepted(tokens)
           PROVE  /\ sample # <<>> => tokens # <<>>
                  /\ \A k \in DOMAIN tokens :
                      LET token == tokens[k] IN
                      /\ token.first = IF k = 1 THEN 1 ELSE tokens[k - 1].last + 1
                      /\ token.first <= token.last /\ token.last <= Len(sample)
                      /\ k = Len(tokens) => token.last = Len(sample)
                      /\ IsLexeme(topic, sample, token.kind, token.first, token.last)
                      /\ token.kind \in {"number", "name", "sign"} =>
                           \A j \in token.last + 1..Len(sample), kind \in Longer(token.kind) :
                              ~IsLexeme(topic, sample, kind, token.first, j)
    BY <2>2 DEF LexemesAreOfTheGrammar
  <2>5. sample # <<>> => tokens # <<>>
    <3>1. sample # <<>> => 1 # n + 1 BY <2>1
    <3> QED BY <2>3, <3>1 DEF Tokens
  <2>6. tokens \in Seq(Lexemes(topic, sample)) BY <2>3 DEF Tokens
  <2>7. DOMAIN tokens = 1..Len(tokens) /\ Len(tokens) \in Nat BY <2>6
  <2>8. \A k \in 1..Len(tokens) : /\ IsToken(topic, sample, tokens[k])
                                  /\ GoesOn(sample, tokens, k)
                                  /\ ~Raised(tokens[k].kind)
    BY <2>3, <2>4, <2>7 DEF Tokens, Accepted
  <2>9. tokens # <<>> => tokens[1].first = 1
    BY <2>3 DEF Tokens, LexemeAt
  <2> HIDE DEF n
  <2>10. ASSUME NEW k \in DOMAIN tokens, NEW token, token = tokens[k]
         PROVE  /\ token.first = IF k = 1 THEN 1 ELSE tokens[k - 1].last + 1
                /\ token.first <= token.last /\ token.last <= n
                /\ k = Len(tokens) => token.last = n
                /\ IsLexeme(topic, sample, token.kind, token.first, token.last)
                /\ token.kind \in {"number", "name", "sign"} =>
                     \A j \in token.last + 1..n, kind \in Longer(token.kind) :
                        ~IsLexeme(topic, sample, kind, token.first, j)
    <3>1. k \in 1..Len(tokens) BY <2>7
    <3>2. PICK i : i = token.first OBVIOUS
    <3>3. i \in 1..n /\ token = LexemeAt(topic, sample, i)
      BY <2>8, <2>10, <3>1, <3>2 DEF IsToken, n
    <3>4. ~Raised(token.kind) BY <2>8, <2>10, <3>1
    <3>5. token.last \in i..n BY <2>1, <3>3, <3>4, LexemesMoveOn DEF n
    <3>6. token.first = IF k = 1 THEN 1 ELSE tokens[k - 1].last + 1
      <4>1. CASE k = 1 BY <2>7, <2>9, <2>10, <4>1
      <4>2. CASE k # 1
        <5>1. PICK p : p = k - 1 OBVIOUS
        <5>2. p \in 1..Len(tokens) /\ p + 1 = k /\ p # Len(tokens) BY <2>7, <3>1, <4>2, <5>1
        <5>3. GoesOn(sample, tokens, p) /\ ~Raised(tokens[p].kind) BY <2>8, <5>2
        <5>4. tokens[p + 1].first = tokens[p].last + 1 BY <5>2, <5>3 DEF GoesOn
        <5> QED BY <2>10, <4>2, <5>1, <5>2, <5>4
      <4> QED BY <4>1, <4>2
    <3>7. GoesOn(sample, tokens, k) BY <2>8, <3>1
    <3>8. k = Len(tokens) => token.last = n
      BY <2>7, <2>10, <3>4, <3>7 DEF GoesOn, n
    <3>9. PICK t : t = scan_char(topic, sample, i) OBVIOUS
    <3>10. TokenOK(topic, sample, i, t) BY <2>1, <3>3, <3>9, TokensAreLexemes DEF n
    <3>11. token.kind = t.kind /\ token.last = t.next - 1 BY <3>3, <3>9 DEF LexemeAt
    <3>12. t.next \in i + 1..n + 1 /\ token.last + 1 = t.next
      BY <2>1, <3>3, <3>4, <3>10, <3>11 DEF TokenOK, n
    <3>13. IsLexeme(topic, sample, token.kind, token.first, token.last)
      <4>1. SUFFICES ASSUME t.next <= n, sample[t.next] = "half" PROVE FALSE
        BY <3>2, <3>4, <3>10, <3>11 DEF TokenOK, n
      <4>2. token.last # n BY <2>1, <3>3, <3>12, <4>1
      <4>3. k < Len(tokens) /\ tokens[k + 1].first = t.next
        BY <2>10, <3>4, <3>7, <3>12, <4>2 DEF GoesOn, n
      <4>4. k + 1 \in 1..Len(tokens) BY <2>7, <3>1, <4>3
      <4>5. IsToken(topic, sample, tokens[k + 1]) /\ ~Raised(tokens[k + 1].kind) BY <2>8, <4>4
      <4>6. tokens[k + 1].kind = scan_char(topic, sample, t.next).kind
        BY <4>3, <4>5 DEF IsToken, LexemeAt
      <4>7. t.next \in 1..n BY <2>1, <3>3, <3>12, <4>1
      <4> QED BY <2>1, <4>1, <4>5, <4>6, <4>7, TokensAreLexemes DEF n
    <3>14. ASSUME token.kind \in {"number", "name", "sign"}, NEW j \in token.last + 1..n,
                  NEW kind \in Longer(token.kind)
           PROVE  ~IsLexeme(topic, sample, kind, token.first, j)
      BY <3>2, <3>4, <3>10, <3>11, <3>12, <3>14 DEF TokenOK, Longest, n
    <3> QED BY <2>1, <3>2, <3>3, <3>5, <3>6, <3>8, <3>13, <3>14
  <2> QED BY <2>5, <2>10 DEF n
<1> QED BY <1>1, SamplesAreTyped, PTL
-----------------------------------------------------------------------------
\* Phrases of metrics.

LEMMA TokFacts ==
    ASSUME NEW w \in Seq(MetricTokens), NEW n, n = Len(w)
    PROVE  /\ n \in Nat
           /\ \A i \in 1..n : MetricTok(w, i) = w[i] /\ w[i] \in MetricTokens
           /\ \A i \in Nat : MetricTok(w, i) # "EOF" => i \in 1..n
           /\ MetricTok(w, n + 1) = "EOF" /\ "EOF" \notin MetricTokens
BY DEF MetricTok, MetricTokens, Aggregations, Sources, Attributions

PathStep(w, f, i) ==
    IF MetricTok(w, i) # "name" THEN ParseError(i)
    ELSE IF MetricTok(w, i + 1) = "." THEN f[i + 2] ELSE Past(i + 1)

LEMMA PathRecurs ==
    ASSUME NEW w \in Seq(MetricTokens), NEW i \in 1..Len(w) + 1
    PROVE  ParsePath(w, i) = PathStep(w, PathFrom(w), i)
<1> DEFINE n == Len(w)
           Good(f, m) == /\ f = [k \in 1..n + 1 |-> f[k]]
                         /\ \A k \in 1..n + 1 : n + 1 - k < m => f[k] = PathStep(w, f, k)
           G == {m \in Nat : \E f : Good(f, m)}
<1>0. n \in Nat /\ \A k \in Nat : MetricTok(w, k) # "EOF" => k \in 1..n BY TokFacts
<1>1. 0 \in G
  <2>1. PICK f : f = [k \in 1..n + 1 |-> 0] OBVIOUS
  <2>2. Good(f, 0) BY <1>0, <2>1
  <2> HIDE DEF Good
  <2> QED BY <2>2
<1>2. ASSUME NEW m \in G PROVE m + 1 \in G
  <2>1. PICK f : Good(f, m) OBVIOUS
  <2>2. PICK g : g = [k \in 1..n + 1 |-> PathStep(w, f, k)] OBVIOUS
  <2>3. \A k \in 1..n + 1 : n + 1 - k < m => g[k] = f[k] BY <2>1, <2>2
  <2>4. ASSUME NEW k \in 1..n + 1, n + 1 - k < m + 1 PROVE g[k] = PathStep(w, g, k)
    <3>1. g[k] = PathStep(w, f, k) BY <2>2
    <3>2. MetricTok(w, k + 1) = "." => f[k + 2] = g[k + 2]
      <4>1. SUFFICES ASSUME MetricTok(w, k + 1) = "." PROVE f[k + 2] = g[k + 2] OBVIOUS
      <4>2. k + 1 \in Nat /\ MetricTok(w, k + 1) # "EOF" BY <4>1
      <4>3. k + 1 \in 1..n BY <1>0, <4>2
      <4>4. k + 2 \in 1..n + 1 /\ n + 1 - (k + 2) < m BY <1>0, <2>4, <4>3
      <4> QED BY <2>3, <4>4
    <3> QED BY <3>1, <3>2 DEF PathStep
  <2>5. g = [k \in 1..n + 1 |-> g[k]] BY <2>2
  <2>6. Good(g, m + 1) BY <2>4, <2>5
  <2>7. m + 1 \in Nat OBVIOUS
  <2> HIDE DEF Good
  <2> QED BY <2>6, <2>7
<1>3. n + 1 \in G
  <2>1. G \in SUBSET Nat OBVIOUS
  <2> HIDE DEF G
  <2> QED BY <1>0, <1>1, <1>2, <2>1, ByNaturals
<1>4. PICK f : Good(f, n + 1) BY <1>3
<1>5. f = [k \in 1..n + 1 |-> PathStep(w, f, k)]
  <2>1. \A k \in 1..n + 1 : f[k] = PathStep(w, f, k) BY <1>0, <1>4
  <2>2. f = [k \in 1..n + 1 |-> f[k]] BY <1>4
  <2> HIDE DEF Good, G, n
  <2> QED BY ONLY <2>1, <2>2
<1>6. PathFrom(w) = [k \in 1..n + 1 |-> PathStep(w, PathFrom(w), k)]
  <2>1. PathFrom(w) = CHOOSE h : h = [k \in 1..n + 1 |-> PathStep(w, h, k)]
    BY DEF PathFrom, PathStep
  <2> HIDE DEF Good, G, n
  <2> QED BY <1>5, <2>1
<1> QED BY <1>6 DEF ParsePath

LEMMA PathGrows ==
    ASSUME NEW w, NEW i \in Nat, w[i] = "name", w[i + 1] = ".", NEW j \in Nat, j >= i + 2
    PROVE  IsPath(w, i, j) <=> IsPath(w, i + 2, j)
<1>1. (j - i) % 2 = 0 <=> (j - (i + 2)) % 2 = 0 OBVIOUS
<1>2. ASSUME NEW k \in i + 2..j PROVE (k - i) % 2 = 0 <=> (k - (i + 2)) % 2 = 0 OBVIOUS
<1>3. ASSUME NEW k \in i..j, k \notin i + 2..j PROVE w[k] = IF (k - i) % 2 = 0 THEN "name" ELSE "."
  <2>1. k = i \/ k = i + 1 BY <1>3
  <2>2. (i - i) % 2 = 0 /\ (i + 1 - i) % 2 = 1 OBVIOUS
  <2> QED BY <2>1, <2>2
<1>4. \A k \in i + 2..j : k \in i..j OBVIOUS
<1> QED BY <1>1, <1>2, <1>3, <1>4 DEF IsPath

\* What is read of a path from i on: the longest one there is, unless a name is missing.
PathRead(w, i, r) ==
    /\ r.ok \in BOOLEAN /\ r.next \in i..Len(w) + 1
    /\ r.ok => r.next > i /\ IsPath(w, i, r.next - 1) /\ MetricTok(w, r.next) # "."
    /\ \A j \in i..Len(w) : IsPath(w, i, j) =>
         r.next >= j + 1 /\ (MetricTok(w, j + 1) # "." => r.ok /\ r.next = j + 1)

LEMMA PathFacts ==
    ASSUME NEW w \in Seq(MetricTokens)
    PROVE  \A i \in 1..Len(w) + 1 : PathRead(w, i, ParsePath(w, i))
<1> DEFINE n == Len(w)
           G == {m \in Nat : \A i \in 1..n + 1 : n + 1 - i < m => PathRead(w, i, ParsePath(w, i))}
<1>0. /\ n \in Nat /\ \A k \in Nat : MetricTok(w, k) # "EOF" => k \in 1..n
      /\ \A k \in 1..n : MetricTok(w, k) = w[k]
  BY TokFacts
<1>1. 0 \in G BY <1>0
<1>2. ASSUME NEW m \in G PROVE m + 1 \in G
  <2>1. SUFFICES ASSUME NEW i \in 1..n + 1, n + 1 - i < m + 1 PROVE PathRead(w, i, ParsePath(w, i))
    BY DEF G
  <2>2. \A j \in 1..n + 1 : j > i => PathRead(w, j, ParsePath(w, j)) BY <1>0, <2>1
  <2> HIDE DEF G
  <2>3. PICK r : r = ParsePath(w, i) OBVIOUS
  <2>4. r = PathStep(w, PathFrom(w), i) BY <2>3, PathRecurs
  <2>5. ASSUME NEW j \in i..n, IsPath(w, i, j)
        PROVE  i \in 1..n /\ w[i] = "name" /\ (j # i => j >= i + 2 /\ w[i + 1] = "." /\ i + 1 \in 1..n)
    <3>1. i <= j /\ j <= n /\ i \in 1..n BY <1>0, <2>5
    <3>2. w[i] = IF (i - i) % 2 = 0 THEN "name" ELSE "." BY <2>5, <3>1 DEF IsPath
    <3>3. (i - i) % 2 = 0 /\ (i + 1 - i) % 2 = 1 OBVIOUS
    <3>4. j # i => j >= i + 2 BY <2>5, <3>1 DEF IsPath
    <3>5. j # i => w[i + 1] = IF (i + 1 - i) % 2 = 0 THEN "name" ELSE "."
      BY <2>5, <3>1, <3>4 DEF IsPath
    <3> QED BY <1>0, <3>1, <3>2, <3>3, <3>4, <3>5
  <2>6. CASE MetricTok(w, i) # "name"
    <3>1. r = [ok |-> FALSE, next |-> i] BY <2>4, <2>6 DEF PathStep, ParseError
    <3>2. \A j \in i..n : ~IsPath(w, i, j) BY <1>0, <2>5, <2>6
    <3> QED BY <1>0, <2>3, <3>1, <3>2 DEF PathRead
  <2>7. CASE MetricTok(w, i) = "name" /\ MetricTok(w, i + 1) = "."
    <3>1. r = ParsePath(w, i + 2) BY <2>4, <2>7 DEF PathStep, ParsePath
    <3>2. i + 1 \in Nat /\ MetricTok(w, i + 1) # "EOF" /\ MetricTok(w, i) # "EOF" /\ i \in Nat BY <2>7
    <3>3. i + 1 \in 1..n /\ i \in 1..n BY <1>0, <3>2
    <3>4. w[i] = "name" /\ w[i + 1] = "." BY <1>0, <2>7, <3>3
    <3>5. i + 2 \in 1..n + 1 /\ i + 2 > i BY <1>0, <3>3
    <3>6. PathRead(w, i + 2, r) BY <2>2, <3>1, <3>5
    <3>7. r.ok => IsPath(w, i, r.next - 1)
      <4>1. SUFFICES ASSUME r.ok PROVE IsPath(w, i, r.next - 1) OBVIOUS
      <4>2. r.next \in i + 2..n + 1 /\ r.next > i + 2 /\ IsPath(w, i + 2, r.next - 1)
        BY <3>6, <4>1 DEF PathRead
      <4>3. r.next - 1 \in Nat /\ r.next - 1 >= i + 2 /\ i \in Nat BY <1>0, <4>2
      <4> QED BY <3>4, <4>2, <4>3, PathGrows
    <3>8. ASSUME NEW j \in i..n, IsPath(w, i, j)
          PROVE  r.next >= j + 1 /\ (MetricTok(w, j + 1) # "." => r.ok /\ r.next = j + 1)
      <4>1. CASE j = i BY <1>0, <2>7, <3>6, <4>1 DEF PathRead
      <4>2. CASE j # i
        <5>1. j >= i + 2 BY <2>5, <3>8, <4>2
        <5>2. j \in i + 2..n /\ j \in Nat /\ i \in Nat BY <1>0, <5>1
        <5>3. IsPath(w, i + 2, j) BY <3>4, <3>8, <5>1, <5>2, PathGrows
        <5> QED BY <3>6, <5>2, <5>3 DEF PathRead
      <4> QED BY <4>1, <4>2
    <3> QED BY <1>0, <2>3, <3>3, <3>6, <3>7, <3>8 DEF PathRead
  <2>8. CASE MetricTok(w, i) = "name" /\ MetricTok(w, i + 1) # "."
    <3>1. r = [ok |-> TRUE, next |-> i + 1] BY <2>4, <2>8 DEF PathStep, Past
    <3>2. i \in 1..n BY <1>0, <2>8
    <3>3. IsPath(w, i, i)
      <4>1. w[i] = "name" /\ (i - i) % 2 = 0 BY <1>0, <2>8, <3>2
      <4>2. \A k \in i..i : k = i OBVIOUS
      <4> QED BY <4>1, <4>2 DEF IsPath
    <3>4. \A j \in i..n : IsPath(w, i, j) => j = i BY <1>0, <2>5, <2>8
    <3>5. i + 1 - 1 = i OBVIOUS
    <3> QED BY <1>0, <2>3, <2>8, <3>1, <3>2, <3>3, <3>4, <3>5 DEF PathRead
  <2> QED BY <2>6, <2>7, <2>8
<1>3. G = Nat
  <2>1. G \in SUBSET Nat OBVIOUS
  <2> HIDE DEF G
  <2> QED BY <1>1, <1>2, <2>1, ByNaturals
<1>4. ASSUME NEW i \in 1..n + 1 PROVE PathRead(w, i, ParsePath(w, i))
  <2>1. n + 1 - i + 1 \in G
    <3>1. n + 1 - i + 1 \in Nat BY <1>0
    <3> HIDE DEF G
    <3> QED BY <1>3, <3>1
  <2>2. n + 1 - i < n + 1 - i + 1 BY <1>0
  <2> QED BY <2>1, <2>2
<1> QED BY <1>4

\* The tokens that tests are made of.
TestTokens == {"name", ".", "eq", "lit"}
Connectives == {"and", "or"}

TestRead(w, i, t) ==
    /\ t.ok \in BOOLEAN /\ t.next \in i..Len(w) + 1
    /\ t.ok => /\ t.next > i + 2 /\ IsTest(w, i, t.next - 1)
               /\ \A k \in i..t.next - 1 : w[k] \in TestTokens
               /\ w[t.next - 1] = "lit"
    /\ \A j \in i..Len(w) : IsTest(w, i, j) => t.ok /\ t.next = j + 1

LEMMA TestFacts ==
    ASSUME NEW w \in Seq(MetricTokens), NEW i \in 1..Len(w) + 1
    PROVE  TestRead(w, i, ParseTest(w, i))
<1> DEFINE n == Len(w)
<1>0. /\ n \in Nat /\ \A k \in Nat : MetricTok(w, k) # "EOF" => k \in 1..n
      /\ \A k \in 1..n : MetricTok(w, k) = w[k]
  BY TokFacts
<1>1. PICK r : r = ParsePath(w, i) OBVIOUS
<1>2. PICK t : t = ParseTest(w, i) OBVIOUS
<1>3. PathRead(w, i, r) BY <1>1, PathFacts
<1>4. r.ok \in BOOLEAN /\ r.next \in i..n + 1 /\ i \in Nat /\ r.next \in Nat BY <1>0, <1>3 DEF PathRead
<1>5. \A j \in i..n : IsTest(w, i, j) =>
         /\ j >= i + 2 /\ r.ok /\ r.next = j - 1
         /\ MetricTok(w, j - 1) = "eq" /\ MetricTok(w, j) = "lit"
  <2>1. SUFFICES ASSUME NEW j \in i..n, IsTest(w, i, j)
                 PROVE  /\ j >= i + 2 /\ r.ok /\ r.next = j - 1
                        /\ MetricTok(w, j - 1) = "eq" /\ MetricTok(w, j) = "lit"
    OBVIOUS
  <2>2. IsPath(w, i, j - 2) /\ w[j - 1] = "eq" /\ w[j] = "lit" BY <2>1 DEF IsTest
  <2>3. j >= i + 2 BY <1>0, <2>2 DEF IsPath
  <2>4. j - 2 \in i..n /\ j - 2 + 1 = j - 1 /\ j - 1 \in 1..n /\ j \in 1..n BY <1>0, <2>3
  <2>5. MetricTok(w, j - 1) = "eq" /\ MetricTok(w, j) = "lit" BY <1>0, <2>2, <2>4
  <2>6. r.ok /\ r.next = j - 1 BY <1>3, <2>2, <2>4, <2>5 DEF PathRead
  <2> QED BY <2>3, <2>5, <2>6
<1>6. CASE ~r.ok
  <2>1. t = r BY <1>1, <1>2, <1>6 DEF ParseTest
  <2> QED BY <1>2, <1>4, <1>5, <1>6, <2>1 DEF TestRead
<1>7. CASE r.ok /\ MetricTok(w, r.next) # "eq"
  <2>1. t = [ok |-> FALSE, next |-> r.next] BY <1>1, <1>2, <1>7 DEF ParseTest, ParseError
  <2>2. \A j \in i..n : ~IsTest(w, i, j) BY <1>5, <1>7
  <2> QED BY <1>2, <1>4, <2>1, <2>2 DEF TestRead
<1>8. CASE r.ok /\ MetricTok(w, r.next) = "eq" /\ MetricTok(w, r.next + 1) # "lit"
  <2>1. t = [ok |-> FALSE, next |-> r.next + 1] BY <1>1, <1>2, <1>8 DEF ParseTest, ParseError
  <2>2. \A j \in i..n : ~IsTest(w, i, j)
    <3>1. SUFFICES ASSUME NEW j \in i..n, IsTest(w, i, j) PROVE FALSE OBVIOUS
    <3>2. r.next + 1 = j /\ MetricTok(w, j) = "lit" BY <1>0, <1>4, <1>5, <3>1
    <3> QED BY <1>8, <3>2
  <2>3. r.next \in 1..n BY <1>0, <1>4, <1>8
  <2> QED BY <1>0, <1>2, <1>4, <2>1, <2>2, <2>3 DEF TestRead
<1>9. CASE r.ok /\ MetricTok(w, r.next) = "eq" /\ MetricTok(w, r.next + 1) = "lit"
  <2>1. t = [ok |-> TRUE, next |-> r.next + 2] BY <1>1, <1>2, <1>9 DEF ParseTest, Past
  <2>2. MetricTok(w, r.next + 1) # "EOF" /\ r.next + 1 \in Nat /\ MetricTok(w, r.next) # "EOF" BY <1>4, <1>9
  <2>3. r.next + 1 \in 1..n /\ r.next \in 1..n BY <1>0, <1>4, <2>2
  <2>4. w[r.next] = "eq" /\ w[r.next + 1] = "lit" BY <1>0, <1>9, <2>3
  <2>5. r.next > i /\ IsPath(w, i, r.next - 1) BY <1>3, <1>9 DEF PathRead
  <2>6. PICK j : j = r.next + 1 OBVIOUS
  <2>7. j \in Nat /\ j - 2 = r.next - 1 /\ j - 1 = r.next /\ t.next - 1 = j /\ t.next = j + 1
    BY <1>4, <2>1, <2>6
  <2>8. IsTest(w, i, j) BY <2>4, <2>5, <2>6, <2>7 DEF IsTest
  <2>9. ASSUME NEW k \in i..j PROVE w[k] \in TestTokens
    <3>1. CASE k \in i..r.next - 1 BY <2>5, <3>1 DEF IsPath, TestTokens
    <3>2. CASE k = r.next \/ k = r.next + 1 BY <2>4, <3>2 DEF TestTokens
    <3>3. k \in i..r.next - 1 \/ k = r.next \/ k = r.next + 1 BY <1>4, <2>6
    <3> QED BY <3>1, <3>2, <3>3
  <2>10. t.next > i + 2 /\ t.next \in i..n + 1 BY <1>0, <1>4, <2>1, <2>3, <2>5
  <2>11. \A x \in i..n : IsTest(w, i, x) => t.ok /\ t.next = x + 1
    <3>1. SUFFICES ASSUME NEW x \in i..n, IsTest(w, i, x) PROVE t.next = x + 1 BY <2>1
    <3>2. r.next = x - 1 BY <1>5, <3>1
    <3> QED BY <1>0, <1>4, <2>1, <3>2
  <2>12. t.ok \in BOOLEAN BY <2>1
  <2> QED BY <1>2, <2>4, <2>6, <2>7, <2>8, <2>9, <2>10, <2>11, <2>12 DEF TestRead
<1> QED BY <1>4, <1>6, <1>7, <1>8, <1>9

LEMMA TestIsFilters ==
    ASSUME NEW w, NEW i \in Nat, NEW j \in Nat, IsTest(w, i, j), i <= j,
           \A k \in i..j : w[k] \notin Connectives
    PROVE  IsFilters(w, i, j)
<1>1. Cuts(w, i, j) = {i - 1, j + 1} BY DEF Cuts, Connectives
<1>2. ASSUME NEW a \in {i - 1, j + 1}, NEW b \in {i - 1, j + 1}, a < b PROVE IsTest(w, a + 1, b - 1)
  <2>1. a = i - 1 /\ b = j + 1 BY <1>2
  <2>2. a + 1 = i /\ b - 1 = j BY <2>1
  <2> QED BY <2>2
<1> QED BY <1>1, <1>2 DEF IsFilters

LEMMA FiltersJoin ==
    ASSUME NEW w, NEW i \in Nat, NEW j \in Nat, NEW m \in Nat, i <= m, m <= j,
           IsFilters(w, i, m - 1), w[m] \in Connectives, IsFilters(w, m + 1, j)
    PROVE  IsFilters(w, i, j)
<1> DEFINE low == Cuts(w, i, m - 1)
           high == Cuts(w, m + 1, j)
           all == Cuts(w, i, j)
<1>1. \A c \in all : c \in Int /\ (c <= m => c \in low) /\ (c >= m => c \in high)
  BY DEF Cuts, Connectives
<1>2. (\A c \in low : c \in all /\ c <= m) /\ (\A c \in high : c \in all /\ c >= m) /\ m \in all
  BY DEF Cuts, Connectives
<1>3. ASSUME NEW a \in all, NEW b \in all, a < b, \A c \in all : ~(a < c /\ c < b)
      PROVE  IsTest(w, a + 1, b - 1)
  <2>1. b <= m \/ a >= m BY <1>1, <1>2, <1>3
  <2>2. CASE b <= m
    <3>1. a \in low /\ b \in low BY <1>1, <1>3, <2>2
    <3>2. \A c \in low : ~(a < c /\ c < b) BY <1>2, <1>3
    <3> HIDE DEF low, all, high
    <3>3. low = Cuts(w, i, m - 1) BY DEF low
    <3> QED BY <1>3, <3>1, <3>2, <3>3 DEF IsFilters
  <2>3. CASE a >= m
    <3>1. a \in high /\ b \in high BY <1>1, <1>3, <2>3
    <3>2. \A c \in high : ~(a < c /\ c < b) BY <1>2, <1>3
    <3> HIDE DEF low, all, high
    <3>3. high = Cuts(w, m + 1, j) BY DEF high
    <3> QED BY <1>3, <3>1, <3>2, <3>3 DEF IsFilters
  <2> QED BY <2>1, <2>2, <2>3
<1> QED BY <1>3 DEF IsFilters

LEMMA FiltersSplit ==
    ASSUME NEW w, NEW i \in Nat, NEW j \in Nat, i <= j + 1, i > 0, IsFilters(w, i, j)
    PROVE  \E b \in i..j + 1 : /\ IsTest(w, i, b - 1)
                               /\ b = j + 1 \/ (w[b] \in Connectives /\ IsFilters(w, b + 1, j))
<1> DEFINE all == Cuts(w, i, j)
           T == {c \in all : c >= i}
<1>1. all \in SUBSET Nat /\ i - 1 \in all /\ j + 1 \in all /\ \A c \in all : c = i - 1 \/ c \in i..j + 1
  BY DEF Cuts
<1>2. PICK b \in T : \A c \in T : b <= c
  <2>1. T \in SUBSET Nat /\ T # {} BY <1>1
  <2> HIDE DEF T
  <2> QED BY <2>1, LeastOf
<1>3. b \in all /\ b \in i..j + 1 /\ b \in Nat BY <1>1, <1>2
<1>4. i - 1 < b /\ \A c \in all : ~(i - 1 < c /\ c < b)
  <2>1. \A c \in all : i - 1 < c => c \in T BY <1>1
  <2>2. \A c \in all : c \in Nat BY <1>1
  <2> HIDE DEF T
  <2> QED BY <1>2, <1>3, <2>1, <2>2
<1>5. IsTest(w, i, b - 1)
  <2>1. IsTest(w, i - 1 + 1, b - 1)
    <3>1. all = Cuts(w, i, j) OBVIOUS
    <3> HIDE DEF all, T
    <3> QED BY <1>1, <1>3, <1>4, <3>1 DEF IsFilters
  <2>2. i - 1 + 1 = i OBVIOUS
  <2> QED BY <2>1, <2>2
<1>6. ASSUME b # j + 1 PROVE w[b] \in Connectives /\ IsFilters(w, b + 1, j)
  <2>1. b \in i..j /\ w[b] \in Connectives BY <1>3, <1>6 DEF Cuts, Connectives
  <2>2. \A c \in all : c > b => c \in Cuts(w, b + 1, j) BY <1>3, <2>1 DEF Cuts
  <2>3. \A c \in Cuts(w, b + 1, j) : c \in all /\ c >= b BY <1>3, <2>1 DEF Cuts, Connectives
  <2>4. ASSUME NEW a \in Cuts(w, b + 1, j), NEW d \in Cuts(w, b + 1, j), a < d,
               \A c \in Cuts(w, b + 1, j) : ~(a < c /\ c < d)
        PROVE  IsTest(w, a + 1, d - 1)
    <3>1. a \in all /\ d \in all /\ a >= b BY <2>3
    <3>2. \A c \in all : ~(a < c /\ c < d)
      <4>1. SUFFICES ASSUME NEW c \in all, a < c, c < d PROVE FALSE OBVIOUS
      <4>2. c > b /\ c \in Nat
        <5>1. c \in Nat /\ a \in Nat /\ b \in Nat BY <1>1, <1>3, <3>1
        <5> QED BY <3>1, <4>1, <5>1
      <4> QED BY <2>2, <2>4, <4>1, <4>2
    <3>3. all = Cuts(w, i, j) OBVIOUS
    <3> HIDE DEF all, T
    <3> QED BY <2>4, <3>1, <3>2, <3>3 DEF IsFilters
  <2> QED BY <2>1, <2>4 DEF IsFilters
<1> QED BY <1>3, <1>5, <1>6

LEMMA FiltersNotEmpty ==
    ASSUME NEW w, NEW i \in Nat, NEW j \in Nat, i <= j + 1, i > 0, IsFilters(w, i, j)
    PROVE  i <= j
<1>1. PICK b \in i..j + 1 : IsTest(w, i, b - 1) BY FiltersSplit
<1>2. i <= b - 1 - 2 BY <1>1 DEF IsTest, IsPath
<1> QED BY <1>2

\* A test may begin here.
Follows(w, i) == i > 1 /\ w[i - 1] \in {"where", "and", "or"}

LEMMA FollowsNext ==
    ASSUME NEW w, NEW m \in Nat \ {0}, w[m] \in {"where", "and", "or"}
    PROVE  Follows(w, m + 1)
<1>1. m + 1 - 1 = m /\ m + 1 > 1 OBVIOUS
<1>2. PICK x : x = m + 1 OBVIOUS
<1>3. x - 1 = m /\ x > 1 BY <1>1, <1>2
<1>4. w[x - 1] \in {"where", "and", "or"} BY <1>3
<1>5. Follows(w, x) BY <1>3, <1>4 DEF Follows
<1> QED BY <1>2, <1>5

LEMMA OneTest ==
    ASSUME NEW w, NEW i \in Nat, NEW j \in Nat, Follows(w, i), i <= j,
           \A k \in i..j : w[k] \in TestTokens
    PROVE  Tests(w, i, j) = {i}
<1>1. i \in Tests(w, i, j) BY DEF Tests, Follows
<1>2. ASSUME NEW k \in Tests(w, i, j), k # i PROVE FALSE
  <2>1. k \in i..j /\ w[k - 1] \in {"where", "and", "or"} BY <1>2 DEF Tests
  <2>2. k - 1 \in i..j BY <1>2, <2>1
  <2>3. w[k - 1] \in TestTokens BY <2>2
  <2> QED BY <2>1, <2>3 DEF TestTokens
<1> QED BY <1>1, <1>2

LEMMA MoreTests ==
    ASSUME NEW w, NEW i \in Nat, NEW j \in Nat, NEW m \in Nat, i < m, m <= j,
           w[m - 1] = "lit", w[m] \in Connectives
    PROVE  Tests(w, i, j) = Tests(w, i, m - 1) \union Tests(w, m + 1, j)
<1>1. m \notin Tests(w, i, j) BY DEF Tests
<1>2. \A k \in i..j : k \in i..m - 1 \/ k = m \/ k \in m + 1..j OBVIOUS
<1>3. \A k : k \in i..m - 1 \/ k \in m + 1..j => k \in i..j OBVIOUS
<1> QED BY <1>1, <1>2, <1>3 DEF Tests

ConjunctionStep(w, f, i) ==
    LET test == ParseTest(w, i)
        rest == f[test.next + 1]
    IN  IF ~test.ok THEN test
        ELSE IF MetricTok(w, test.next) # "and" THEN Made({i}, test.next)
        ELSE IF ~rest.ok THEN rest
        ELSE Made({i} \union rest.node, rest.next)

LEMMA ConjunctionRecurs ==
    ASSUME NEW w \in Seq(MetricTokens), NEW i \in 1..Len(w) + 1
    PROVE  ParseConjunction(w, i) = ConjunctionStep(w, ConjunctionFrom(w), i)
<1> DEFINE n == Len(w)
           Good(f, m) == /\ f = [k \in 1..n + 1 |-> f[k]]
                         /\ \A k \in 1..n + 1 : n + 1 - k < m => f[k] = ConjunctionStep(w, f, k)
           G == {m \in Nat : \E f : Good(f, m)}
<1>0. n \in Nat /\ \A k \in Nat : MetricTok(w, k) # "EOF" => k \in 1..n BY TokFacts
<1>1. 0 \in G
  <2>1. PICK f : f = [k \in 1..n + 1 |-> 0] OBVIOUS
  <2>2. Good(f, 0) BY <1>0, <2>1
  <2> HIDE DEF Good
  <2> QED BY <2>2
<1>2. ASSUME NEW m \in G PROVE m + 1 \in G
  <2>1. PICK f : Good(f, m) OBVIOUS
  <2>2. PICK g : g = [k \in 1..n + 1 |-> ConjunctionStep(w, f, k)] OBVIOUS
  <2>3. \A k \in 1..n + 1 : n + 1 - k < m => g[k] = f[k] BY <2>1, <2>2
  <2>4. ASSUME NEW k \in 1..n + 1, n + 1 - k < m + 1 PROVE g[k] = ConjunctionStep(w, g, k)
    <3>1. g[k] = ConjunctionStep(w, f, k) BY <2>2
    <3>2. PICK t : t = ParseTest(w, k) OBVIOUS
    <3>3. t.ok /\ MetricTok(w, t.next) = "and" => f[t.next + 1] = g[t.next + 1]
      <4>1. SUFFICES ASSUME t.ok, MetricTok(w, t.next) = "and" PROVE f[t.next + 1] = g[t.next + 1]
        OBVIOUS
      <4>2. TestRead(w, k, t) BY <3>2, TestFacts
      <4>3. t.next > k + 2 /\ t.next \in k..n + 1 /\ t.next \in Nat BY <1>0, <4>1, <4>2 DEF TestRead
      <4>4. MetricTok(w, t.next) # "EOF" BY <4>1
      <4>5. t.next \in 1..n BY <1>0, <4>3, <4>4
      <4>6. t.next + 1 \in 1..n + 1 /\ n + 1 - (t.next + 1) < m BY <1>0, <2>4, <4>3, <4>5, SMTT(30)
      <4> QED BY <2>3, <4>6
    <3> QED BY <3>1, <3>2, <3>3 DEF ConjunctionStep
  <2>5. g = [k \in 1..n + 1 |-> g[k]] BY <2>2
  <2>6. Good(g, m + 1) BY <2>4, <2>5
  <2>7. m + 1 \in Nat OBVIOUS
  <2> HIDE DEF Good
  <2> QED BY <2>6, <2>7
<1>3. n + 1 \in G
  <2>1. G \in SUBSET Nat OBVIOUS
  <2> HIDE DEF G
  <2> QED BY <1>0, <1>1, <1>2, <2>1, ByNaturals
<1>4. PICK f : Good(f, n + 1) BY <1>3
<1>5. f = [k \in 1..n + 1 |-> ConjunctionStep(w, f, k)]
  <2>1. \A k \in 1..n + 1 : f[k] = ConjunctionStep(w, f, k) BY <1>0, <1>4
  <2>2. f = [k \in 1..n + 1 |-> f[k]] BY <1>4
  <2> HIDE DEF Good, G, n
  <2> QED BY ONLY <2>1, <2>2
<1>6. ConjunctionFrom(w) = [k \in 1..n + 1 |-> ConjunctionStep(w, ConjunctionFrom(w), k)]
  <2>1. ConjunctionFrom(w) = CHOOSE h : h = [k \in 1..n + 1 |-> ConjunctionStep(w, h, k)]
    BY DEF ConjunctionFrom, ConjunctionStep, Listed
  <2> HIDE DEF Good, G, n
  <2> QED BY <1>5, <2>1
<1> QED BY <1>6 DEF ParseConjunction

\* Of a filter a conjunction reads all there is, or comes to an OR in it.
ConjunctionReaches(w, c, j) ==
    \/ c.ok /\ c.next <= j /\ w[c.next] = "or" /\ IsFilters(w, c.next + 1, j)
    \/ c.next >= j + 1 /\ (MetricTok(w, j + 1) # "and" => c.ok /\ c.next = j + 1)

ConjunctionRead(w, i, c) ==
    /\ c.ok \in BOOLEAN /\ c.next \in i..Len(w) + 1
    /\ c.ok => /\ c.next > i + 2 /\ IsFilters(w, i, c.next - 1)
               /\ \A k \in i..c.next - 1 : w[k] \in TestTokens \union {"and"}
               /\ w[c.next - 1] = "lit" /\ MetricTok(w, c.next) # "and"
               /\ Follows(w, i) => c.node = Tests(w, i, c.next - 1)
    /\ \A j \in i..Len(w) : IsFilters(w, i, j) => ConjunctionReaches(w, c, j)

LEMMA ConjunctionFacts ==
    ASSUME NEW w \in Seq(MetricTokens)
    PROVE  \A i \in 1..Len(w) + 1 : ConjunctionRead(w, i, ParseConjunction(w, i))
<1> DEFINE n == Len(w)
           G == {m \in Nat : \A i \in 1..n + 1 :
                    n + 1 - i < m => ConjunctionRead(w, i, ParseConjunction(w, i))}
<1>0. /\ n \in Nat /\ \A k \in Nat : MetricTok(w, k) # "EOF" => k \in 1..n
      /\ \A k \in 1..n : MetricTok(w, k) = w[k]
  BY TokFacts
<1>1. 0 \in G BY <1>0
<1>2. ASSUME NEW m \in G PROVE m + 1 \in G
  <2>1. SUFFICES ASSUME NEW i \in 1..n + 1, n + 1 - i < m + 1
                 PROVE  ConjunctionRead(w, i, ParseConjunction(w, i))
    BY DEF G
  <2>2. \A j \in 1..n + 1 : j > i => ConjunctionRead(w, j, ParseConjunction(w, j)) BY <1>0, <2>1
  <2> HIDE DEF G
  <2>3. PICK c : c = ParseConjunction(w, i) OBVIOUS
  <2>4. PICK t : t = ParseTest(w, i) OBVIOUS
  <2>5. PICK rest : rest = ParseConjunction(w, t.next + 1) OBVIOUS
  <2>6. c = IF ~t.ok THEN t ELSE IF MetricTok(w, t.next) # "and" THEN Made({i}, t.next)
            ELSE IF ~rest.ok THEN rest ELSE Made({i} \union rest.node, rest.next)
    BY <2>3, <2>4, <2>5, ConjunctionRecurs DEF ConjunctionStep, ParseConjunction
  <2>7. TestRead(w, i, t) BY <2>4, TestFacts
  <2>8. t.ok \in BOOLEAN /\ t.next \in i..n + 1 /\ t.next \in Nat /\ i \in Nat BY <1>0, <2>7 DEF TestRead
  \* A filter begins with a test.
  <2>9. ASSUME NEW j \in i..n, IsFilters(w, i, j)
        PROVE  /\ t.ok /\ t.next \in i..j + 1
               /\ t.next = j + 1 \/ (w[t.next] \in Connectives /\ IsFilters(w, t.next + 1, j))
    <3>1. j \in Nat /\ i <= j + 1 /\ i > 0 BY <1>0, <2>9
    <3>2. PICK b \in i..j + 1 : /\ IsTest(w, i, b - 1)
                                /\ b = j + 1 \/ (w[b] \in Connectives /\ IsFilters(w, b + 1, j))
      BY <2>8, <2>9, <3>1, FiltersSplit
    <3>3. b - 1 \in i..n
      <4>1. i <= b - 1 - 2 BY <3>2 DEF IsTest, IsPath
      <4> QED BY <1>0, <2>9, <3>2, <4>1
    <3>4. t.ok /\ t.next = b - 1 + 1 BY <2>7, <3>2, <3>3 DEF TestRead
    <3>5. t.next = b BY <3>3, <3>4
    <3> QED BY <3>2, <3>4, <3>5
  <2>10. t.ok => /\ t.next > i + 2 /\ IsTest(w, i, t.next - 1) /\ t.next - 1 \in Nat /\ i <= t.next - 1
                 /\ (\A k \in i..t.next - 1 : w[k] \in TestTokens)
                 /\ w[t.next - 1] = "lit"
    BY <2>7, <2>8 DEF TestRead
  <2>11. t.ok => IsFilters(w, i, t.next - 1)
    <3>1. t.ok => \A k \in i..t.next - 1 : w[k] \notin Connectives BY <2>10 DEF TestTokens, Connectives
    <3> QED BY <2>8, <2>10, <3>1, TestIsFilters
  <2>12. CASE ~t.ok
    <3>1. c = t BY <2>6, <2>12
    <3>2. \A j \in i..n : ~IsFilters(w, i, j) BY <2>9, <2>12
    <3> QED BY <2>3, <2>8, <2>12, <3>1, <3>2 DEF ConjunctionRead
  <2>13. CASE t.ok /\ MetricTok(w, t.next) # "and"
    <3>1. c = [ok |-> TRUE, node |-> {i}, next |-> t.next] BY <2>6, <2>13 DEF Made
    <3>2. Follows(w, i) => Tests(w, i, t.next - 1) = {i} BY <2>8, <2>10, <2>13, OneTest
    <3>3. ASSUME NEW j \in i..n, IsFilters(w, i, j) PROVE ConjunctionReaches(w, c, j)
      <4>1. CASE t.next = j + 1 BY <1>0, <3>1, <4>1 DEF ConjunctionReaches
      <4>2. CASE t.next # j + 1
        <5>1. t.next \in i..j /\ w[t.next] \in Connectives /\ IsFilters(w, t.next + 1, j)
          <6>1. t.next \in i..j + 1 /\ w[t.next] \in Connectives /\ IsFilters(w, t.next + 1, j)
            BY <2>9, <3>3, <4>2
          <6> QED BY <1>0, <3>3, <4>2, <6>1
        <5>2. t.next \in 1..n /\ t.next <= j BY <1>0, <5>1
        <5>3. w[t.next] = "or" BY <1>0, <2>13, <5>1, <5>2 DEF Connectives
        <5> QED BY <3>1, <5>1, <5>2, <5>3 DEF ConjunctionReaches
      <4> QED BY <4>1, <4>2
    <3>4. \A k \in i..t.next - 1 : w[k] \in TestTokens \union {"and"} BY <2>10, <2>13
    <3>5. c.ok \in BOOLEAN /\ c.node = {i} /\ c.next = t.next BY <3>1
    <3>6. t.next > i + 2 /\ w[t.next - 1] = "lit" BY <2>10, <2>13
    <3> QED BY <2>3, <2>8, <2>11, <2>13, <3>2, <3>3, <3>4, <3>5, <3>6 DEF ConjunctionRead
  <2>14. CASE t.ok /\ MetricTok(w, t.next) = "and"
    <3>1. t.next \in 1..n
      <4>1. MetricTok(w, t.next) # "EOF" BY <2>14
      <4> QED BY <1>0, <2>8, <4>1
    <3>2. w[t.next] = "and" BY <1>0, <2>14, <3>1
    <3>3. t.next + 1 \in 1..n + 1 /\ t.next + 1 > i BY <1>0, <2>8, <3>1
    <3>4. ConjunctionRead(w, t.next + 1, rest) BY <2>2, <2>5, <3>3
    <3>5. rest.ok \in BOOLEAN /\ rest.next \in t.next + 1..n + 1 /\ rest.next \in Nat
      BY <1>0, <2>8, <3>4 DEF ConjunctionRead
    <3>6. c.ok = rest.ok /\ c.next = rest.next /\ (rest.ok => c.node = {i} \union rest.node)
      BY <2>6, <2>14, <3>5 DEF Made
    <3>7. ASSUME NEW j \in i..n, IsFilters(w, i, j) PROVE ConjunctionReaches(w, c, j)
      <4>1. CASE t.next = j + 1
        <5>1. MetricTok(w, j + 1) = "and" /\ c.next >= j + 1 BY <1>0, <2>14, <3>5, <3>6, <4>1
        <5> QED BY <5>1 DEF ConjunctionReaches
      <4>2. CASE t.next # j + 1
        <5>1. t.next \in i..j /\ IsFilters(w, t.next + 1, j) BY <1>0, <2>9, <3>7, <4>2, SMTT(30)
        <5>2. j \in t.next + 1..n
          <6>1. t.next + 1 <= j + 1 /\ j \in Nat /\ t.next + 1 \in Nat /\ t.next + 1 > 0 BY <1>0, <2>8, <5>1
          <6>2. t.next + 1 <= j BY <5>1, <6>1, FiltersNotEmpty
          <6> QED BY <1>0, <3>7, <6>1, <6>2
        <5>3. ConjunctionReaches(w, rest, j) BY <3>4, <5>1, <5>2 DEF ConjunctionRead
        <5> QED BY <3>6, <5>3 DEF ConjunctionReaches
      <4> QED BY <4>1, <4>2
    <3>8. CASE ~rest.ok BY <1>0, <2>3, <2>8, <3>1, <3>5, <3>6, <3>7, <3>8 DEF ConjunctionRead
    <3>9. CASE rest.ok
      <4>1. PICK e : e = rest.next - 1 OBVIOUS
      <4>2. /\ rest.next > t.next + 1 + 2 /\ IsFilters(w, t.next + 1, e)
            /\ (\A k \in t.next + 1..e : w[k] \in TestTokens \union {"and"})
            /\ w[e] = "lit" /\ MetricTok(w, rest.next) # "and"
            /\ (Follows(w, t.next + 1) => rest.node = Tests(w, t.next + 1, e))
        BY <3>4, <3>9, <4>1 DEF ConjunctionRead
      <4>3. e \in Nat /\ t.next <= e /\ i < t.next
        <5>1. t.next > i + 2 BY <2>10, <2>14
        <5>2. rest.next > t.next + 1 + 2 BY <4>2
        <5> QED BY <2>8, <3>5, <4>1, <5>1, <5>2, SMTT(30)
      <4>4. IsFilters(w, i, e)
        <5>1. w[t.next] \in Connectives BY <3>2 DEF Connectives
        <5> QED BY <2>8, <2>11, <2>14, <4>2, <4>3, <5>1, FiltersJoin
      <4>5. ASSUME NEW k \in i..e PROVE w[k] \in TestTokens \union {"and"}
        <5>1. k \in i..t.next - 1 \/ k = t.next \/ k \in t.next + 1..e BY <2>8, <4>3
        <5> QED BY <2>10, <2>14, <3>2, <4>2, <5>1
      <4>6. Follows(w, i) => c.node = Tests(w, i, e)
        <5>1. SUFFICES ASSUME Follows(w, i) PROVE c.node = Tests(w, i, e) OBVIOUS
        <5>2. Tests(w, i, t.next - 1) = {i} BY <2>8, <2>10, <2>14, <5>1, OneTest
        <5>3. Follows(w, t.next + 1) BY <3>1, <3>2, FollowsNext
        <5>4. w[t.next] \in Connectives /\ w[t.next - 1] = "lit" BY <2>10, <2>14, <3>2 DEF Connectives
        <5>5. Tests(w, i, e) = Tests(w, i, t.next - 1) \union Tests(w, t.next + 1, e)
          BY <2>8, <4>3, <5>4, MoreTests
        <5> QED BY <3>6, <3>9, <4>2, <5>2, <5>3, <5>5
      <4>7. c.next > i + 2 /\ c.next \in i..n + 1 BY <1>0, <2>8, <3>1, <3>5, <3>6, <4>2, <4>3
      <4> QED BY <2>3, <3>6, <3>7, <3>9, <4>1, <4>2, <4>4, <4>5, <4>6, <4>7 DEF ConjunctionRead
    <3> QED BY <3>5, <3>8, <3>9
  <2> QED BY <2>8, <2>12, <2>13, <2>14
<1>3. G = Nat
  <2>1. G \in SUBSET Nat OBVIOUS
  <2> HIDE DEF G
  <2> QED BY <1>1, <1>2, <2>1, ByNaturals
<1>4. ASSUME NEW i \in 1..n + 1 PROVE ConjunctionRead(w, i, ParseConjunction(w, i))
  <2>1. n + 1 - i + 1 \in G
    <3>1. n + 1 - i + 1 \in Nat BY <1>0
    <3> HIDE DEF G
    <3> QED BY <1>3, <3>1
  <2>2. n + 1 - i < n + 1 - i + 1 BY <1>0
  <2> QED BY <2>1, <2>2
<1> QED BY <1>4

LEMMA OneConjunction ==
    ASSUME NEW w, NEW i \in Nat, NEW j \in Nat, Follows(w, i), i <= j,
           \A k \in i..j : w[k] # "or"
    PROVE  Conjunctions(w, i, j) = {Tests(w, i, j)}
<1>1. i \in Tests(w, i, j) BY DEF Tests, Follows
<1>2. \A k, m : SameConjunction(w, i, j, k, m) BY DEF SameConjunction
<1>3. \A k : {m \in Tests(w, i, j) : SameConjunction(w, i, j, k, m)} = Tests(w, i, j) BY <1>2
<1> QED BY <1>1, <1>3 DEF Conjunctions

LEMMA MoreConjunctions ==
    ASSUME NEW w, NEW i \in Nat, NEW j \in Nat, NEW m \in Nat, Follows(w, i), i < m, m <= j,
           w[m - 1] = "lit", w[m] = "or", \A k \in i..m - 1 : w[k] # "or"
    PROVE  Conjunctions(w, i, j) = {Tests(w, i, m - 1)} \union Conjunctions(w, m + 1, j)
<1> DEFINE all == Tests(w, i, j)
           low == Tests(w, i, m - 1)
           high == Tests(w, m + 1, j)
           same(k) == {x \in all : SameConjunction(w, i, j, k, x)}
           sameHigh(k) == {x \in high : SameConjunction(w, m + 1, j, k, x)}
<1>1. all = low \union high BY MoreTests DEF Connectives
<1>2. low \subseteq i..m - 1 /\ high \subseteq m + 1..j /\ i \in low BY DEF Tests, Follows
<1>3. \A c \in i..j : w[c] = "or" => c = m \/ c \in m + 1..j
  <2>1. \A c \in i..j : c \in i..m - 1 \/ c = m \/ c \in m + 1..j OBVIOUS
  <2> QED BY <2>1
<1>4. ASSUME NEW k \in low, NEW x \in low PROVE SameConjunction(w, i, j, k, x)
  <2>1. k \in i..m - 1 /\ x \in i..m - 1 BY <1>2
  <2>2. ASSUME NEW c \in i..j, w[c] = "or" PROVE c < k <=> c < x
    <3>1. c >= m /\ c \in Nat BY <1>3, <2>2
    <3> QED BY <2>1, <3>1
  <2> QED BY <2>2 DEF SameConjunction
<1>5. ASSUME NEW k \in low, NEW x \in high
      PROVE  ~SameConjunction(w, i, j, k, x) /\ ~SameConjunction(w, i, j, x, k)
  <2>1. k \in i..m - 1 /\ x \in m + 1..j BY <1>2
  <2>2. m \in i..j /\ ~(m < k) /\ m < x BY <2>1
  <2> QED BY <2>2 DEF SameConjunction
<1>6. ASSUME NEW k \in high, NEW x \in high
      PROVE  SameConjunction(w, i, j, k, x) <=> SameConjunction(w, m + 1, j, k, x)
  <2>1. k \in m + 1..j /\ x \in m + 1..j BY <1>2
  <2>2. m < k /\ m < x BY <2>1
  <2>3. \A c \in m + 1..j : c \in i..j OBVIOUS
  <2> QED BY <1>3, <2>2, <2>3 DEF SameConjunction
<1>7. \A k \in low : same(k) = low BY <1>1, <1>4, <1>5
<1>8. \A k \in high : same(k) = sameHigh(k) BY <1>1, <1>5, <1>6
<1>9. Conjunctions(w, i, j) = {same(k) : k \in all}
      /\ Conjunctions(w, m + 1, j) = {sameHigh(k) : k \in high}
  BY DEF Conjunctions
<1> HIDE DEF same, sameHigh, all, low, high
<1>10. {same(k) : k \in all} = {low} \union {sameHigh(k) : k \in high} BY <1>1, <1>2, <1>7, <1>8
<1> QED BY <1>9, <1>10 DEF low

DisjunctionStep(w, f, i) ==
    LET first == ParseConjunction(w, i)
        rest == f[first.next + 1]
    IN  IF ~first.ok THEN first
        ELSE IF MetricTok(w, first.next) # "or" THEN Made({first.node}, first.next)
        ELSE IF ~rest.ok THEN rest
        ELSE Made({first.node} \union rest.node, rest.next)

LEMMA DisjunctionRecurs ==
    ASSUME NEW w \in Seq(MetricTokens), NEW i \in 1..Len(w) + 1
    PROVE  ParseDisjunction(w, i) = DisjunctionStep(w, DisjunctionFrom(w), i)
<1> DEFINE n == Len(w)
           Good(f, m) == /\ f = [k \in 1..n + 1 |-> f[k]]
                         /\ \A k \in 1..n + 1 : n + 1 - k < m => f[k] = DisjunctionStep(w, f, k)
           G == {m \in Nat : \E f : Good(f, m)}
<1>0. n \in Nat /\ \A k \in Nat : MetricTok(w, k) # "EOF" => k \in 1..n BY TokFacts
<1>1. 0 \in G
  <2>1. PICK f : f = [k \in 1..n + 1 |-> 0] OBVIOUS
  <2>2. Good(f, 0) BY <1>0, <2>1
  <2> HIDE DEF Good
  <2> QED BY <2>2
<1>2. ASSUME NEW m \in G PROVE m + 1 \in G
  <2>1. PICK f : Good(f, m) OBVIOUS
  <2>2. PICK g : g = [k \in 1..n + 1 |-> DisjunctionStep(w, f, k)] OBVIOUS
  <2>3. \A k \in 1..n + 1 : n + 1 - k < m => g[k] = f[k] BY <2>1, <2>2
  <2>4. ASSUME NEW k \in 1..n + 1, n + 1 - k < m + 1 PROVE g[k] = DisjunctionStep(w, g, k)
    <3>1. g[k] = DisjunctionStep(w, f, k) BY <2>2
    <3>2. PICK c : c = ParseConjunction(w, k) OBVIOUS
    <3>3. c.ok /\ MetricTok(w, c.next) = "or" => f[c.next + 1] = g[c.next + 1]
      <4>1. SUFFICES ASSUME c.ok, MetricTok(w, c.next) = "or" PROVE f[c.next + 1] = g[c.next + 1]
        OBVIOUS
      <4>2. ConjunctionRead(w, k, c) BY <3>2, ConjunctionFacts
      <4>3. c.next > k + 2 /\ c.next \in k..n + 1 /\ c.next \in Nat
        BY <1>0, <4>1, <4>2 DEF ConjunctionRead
      <4>4. MetricTok(w, c.next) # "EOF" BY <4>1
      <4>5. c.next \in 1..n BY <1>0, <4>3, <4>4
      <4>6. c.next + 1 \in 1..n + 1 /\ n + 1 - (c.next + 1) < m BY <1>0, <2>4, <4>3, <4>5
      <4> QED BY <2>3, <4>6
    <3> QED BY <3>1, <3>2, <3>3 DEF DisjunctionStep
  <2>5. g = [k \in 1..n + 1 |-> g[k]] BY <2>2
  <2>6. Good(g, m + 1) BY <2>4, <2>5
  <2>7. m + 1 \in Nat OBVIOUS
  <2> HIDE DEF Good
  <2> QED BY <2>6, <2>7
<1>3. n + 1 \in G
  <2>1. G \in SUBSET Nat OBVIOUS
  <2> HIDE DEF G
  <2> QED BY <1>0, <1>1, <1>2, <2>1, ByNaturals
<1>4. PICK f : Good(f, n + 1) BY <1>3
<1>5. f = [k \in 1..n + 1 |-> DisjunctionStep(w, f, k)]
  <2>1. \A k \in 1..n + 1 : f[k] = DisjunctionStep(w, f, k) BY <1>0, <1>4
  <2>2. f = [k \in 1..n + 1 |-> f[k]] BY <1>4
  <2> HIDE DEF Good, G, n
  <2> QED BY ONLY <2>1, <2>2
<1>6. DisjunctionFrom(w) = [k \in 1..n + 1 |-> DisjunctionStep(w, DisjunctionFrom(w), k)]
  <2>1. DisjunctionFrom(w) = CHOOSE h : h = [k \in 1..n + 1 |-> DisjunctionStep(w, h, k)]
    BY DEF DisjunctionFrom, DisjunctionStep, Listed
  <2> HIDE DEF Good, G, n
  <2> QED BY <1>5, <2>1
<1> QED BY <1>6 DEF ParseDisjunction

\* A disjunction reads all there is.
DisjunctionRead(w, i, r) ==
    /\ r.ok \in BOOLEAN /\ r.next \in i..Len(w) + 1
    /\ r.ok => /\ r.next > i + 2 /\ IsFilters(w, i, r.next - 1)
               /\ \A k \in i..r.next - 1 : w[k] \in TestTokens \union Connectives
               /\ MetricTok(w, r.next) \notin Connectives
               /\ Follows(w, i) => r.node = Conjunctions(w, i, r.next - 1)
    /\ \A j \in i..Len(w) : IsFilters(w, i, j) =>
         r.next >= j + 1 /\ (MetricTok(w, j + 1) \notin Connectives => r.ok /\ r.next = j + 1)

LEMMA DisjunctionFacts ==
    ASSUME NEW w \in Seq(MetricTokens)
    PROVE  \A i \in 1..Len(w) + 1 : DisjunctionRead(w, i, ParseDisjunction(w, i))
<1> DEFINE n == Len(w)
           G == {m \in Nat : \A i \in 1..n + 1 :
                    n + 1 - i < m => DisjunctionRead(w, i, ParseDisjunction(w, i))}
<1>0. /\ n \in Nat /\ \A k \in Nat : MetricTok(w, k) # "EOF" => k \in 1..n
      /\ \A k \in 1..n : MetricTok(w, k) = w[k]
  BY TokFacts
<1>1. 0 \in G BY <1>0
<1>2. ASSUME NEW m \in G PROVE m + 1 \in G
  <2>1. SUFFICES ASSUME NEW i \in 1..n + 1, n + 1 - i < m + 1
                 PROVE  DisjunctionRead(w, i, ParseDisjunction(w, i))
    BY DEF G
  <2>2. \A j \in 1..n + 1 : j > i => DisjunctionRead(w, j, ParseDisjunction(w, j)) BY <1>0, <2>1
  <2> HIDE DEF G
  <2>3. PICK r : r = ParseDisjunction(w, i) OBVIOUS
  <2>4. PICK c : c = ParseConjunction(w, i) OBVIOUS
  <2>5. PICK rest : rest = ParseDisjunction(w, c.next + 1) OBVIOUS
  <2>6. r = IF ~c.ok THEN c ELSE IF MetricTok(w, c.next) # "or" THEN Made({c.node}, c.next)
            ELSE IF ~rest.ok THEN rest ELSE Made({c.node} \union rest.node, rest.next)
    BY <2>3, <2>4, <2>5, DisjunctionRecurs DEF DisjunctionStep, ParseDisjunction
  <2>7. ConjunctionRead(w, i, c) BY <2>4, ConjunctionFacts
  <2>8. c.ok \in BOOLEAN /\ c.next \in i..n + 1 /\ c.next \in Nat /\ i \in Nat
    BY <1>0, <2>7 DEF ConjunctionRead
  <2>9. \A j \in i..n : IsFilters(w, i, j) => ConjunctionReaches(w, c, j)
    BY <2>7 DEF ConjunctionRead
  <2>10. c.ok => /\ c.next > i + 2 /\ IsFilters(w, i, c.next - 1)
                 /\ \A k \in i..c.next - 1 : w[k] \in TestTokens \union {"and"}
                 /\ w[c.next - 1] = "lit" /\ MetricTok(w, c.next) # "and"
                 /\ Follows(w, i) => c.node = Tests(w, i, c.next - 1)
    BY <2>7 DEF ConjunctionRead
  <2>11. c.ok => \A k \in i..c.next - 1 : w[k] # "or" /\ w[k] \in TestTokens \union Connectives
    BY <2>10 DEF TestTokens, Connectives
  <2>12. CASE ~c.ok
    <3>1. r = c BY <2>6, <2>12
    <3>2. ASSUME NEW j \in i..n, IsFilters(w, i, j)
          PROVE  r.next >= j + 1 /\ MetricTok(w, j + 1) \in Connectives
      <4>1. ConjunctionReaches(w, c, j) BY <2>9, <3>2
      <4> QED BY <2>12, <3>1, <4>1 DEF ConjunctionReaches, Connectives
    <3> QED BY <2>3, <2>8, <2>12, <3>1, <3>2 DEF DisjunctionRead
  <2>13. CASE c.ok /\ MetricTok(w, c.next) # "or"
    <3>1. r = [ok |-> TRUE, node |-> {c.node}, next |-> c.next] BY <2>6, <2>13 DEF Made
    <3>2. c.next - 1 \in Nat /\ i <= c.next - 1 BY <2>8, <2>10, <2>13
    <3>3. Follows(w, i) => Conjunctions(w, i, c.next - 1) = {c.node}
      <4>1. Follows(w, i) => Conjunctions(w, i, c.next - 1) = {Tests(w, i, c.next - 1)}
        BY <2>8, <2>11, <2>13, <3>2, OneConjunction
      <4> QED BY <2>10, <2>13, <4>1
    <3>4. ASSUME NEW j \in i..n, IsFilters(w, i, j)
          PROVE  r.next >= j + 1 /\ (MetricTok(w, j + 1) \notin Connectives => r.next = j + 1)
      <4>1. ConjunctionReaches(w, c, j) BY <2>9, <3>4
      <4>2. ~(c.next <= j /\ w[c.next] = "or")
        <5>1. SUFFICES ASSUME c.next <= j, w[c.next] = "or" PROVE FALSE OBVIOUS
        <5>2. c.next \in 1..n BY <1>0, <2>8, <3>4, <5>1
        <5> QED BY <1>0, <2>13, <5>1, <5>2
      <4> QED BY <3>1, <4>1, <4>2 DEF ConjunctionReaches, Connectives
    <3>5. MetricTok(w, c.next) \notin Connectives BY <2>10, <2>13 DEF Connectives
    <3>6. r.ok \in BOOLEAN /\ r.ok /\ r.node = {c.node} /\ r.next = c.next BY <3>1
    <3>7. c.next > i + 2 /\ IsFilters(w, i, c.next - 1) BY <2>10, <2>13
    <3> QED BY <2>3, <2>8, <2>11, <2>13, <3>3, <3>4, <3>5, <3>6, <3>7 DEF DisjunctionRead
  <2>14. CASE c.ok /\ MetricTok(w, c.next) = "or"
    <3>1. c.next \in 1..n
      <4>1. MetricTok(w, c.next) # "EOF" BY <2>14
      <4> QED BY <1>0, <2>8, <4>1
    <3>2. w[c.next] = "or" BY <1>0, <2>14, <3>1
    <3>3. c.next + 1 \in 1..n + 1 /\ c.next + 1 > i BY <1>0, <2>8, <3>1
    <3>4. DisjunctionRead(w, c.next + 1, rest) BY <2>2, <2>5, <3>3
    <3>5. rest.ok \in BOOLEAN /\ rest.next \in c.next + 1..n + 1 /\ rest.next \in Nat
      BY <1>0, <2>8, <3>4 DEF DisjunctionRead
    <3>6. r.ok = rest.ok /\ r.next = rest.next /\ (rest.ok => r.node = {c.node} \union rest.node)
      BY <2>6, <2>14, <3>5 DEF Made
    <3>7. ASSUME NEW j \in i..n, IsFilters(w, i, j)
          PROVE  r.next >= j + 1
                 /\ (MetricTok(w, j + 1) \notin Connectives => r.ok /\ r.next = j + 1)
      <4>1. ConjunctionReaches(w, c, j) BY <2>9, <3>7
      <4>2. CASE c.next <= j /\ IsFilters(w, c.next + 1, j)
        <5>1. j \in c.next + 1..n
          <6>1. c.next + 1 <= j + 1 /\ j \in Nat /\ c.next + 1 \in Nat /\ c.next + 1 > 0
            BY <1>0, <2>8, <3>7, <4>2
          <6>2. c.next + 1 <= j BY <4>2, <6>1, FiltersNotEmpty
          <6> QED BY <1>0, <3>7, <6>1, <6>2
        <5> QED BY <3>4, <3>6, <4>2, <5>1 DEF DisjunctionRead
      <4>3. CASE c.next >= j + 1 /\ (MetricTok(w, j + 1) # "and" => c.next = j + 1)
        <5>1. r.next >= j + 1 BY <1>0, <2>8, <3>5, <3>6, <3>7, <4>3
        <5>2. MetricTok(w, j + 1) \in Connectives BY <2>14, <4>3 DEF Connectives
        <5> QED BY <5>1, <5>2
      <4> QED BY <4>1, <4>2, <4>3 DEF ConjunctionReaches
    <3>8. CASE ~rest.ok BY <1>0, <2>3, <2>8, <3>1, <3>5, <3>6, <3>7, <3>8 DEF DisjunctionRead
    <3>9. CASE rest.ok
      <4>1. PICK e : e = rest.next - 1 OBVIOUS
      <4>2. /\ rest.next > c.next + 1 + 2 /\ IsFilters(w, c.next + 1, e)
            /\ (\A k \in c.next + 1..e : w[k] \in TestTokens \union Connectives)
            /\ MetricTok(w, rest.next) \notin Connectives
            /\ (Follows(w, c.next + 1) => rest.node = Conjunctions(w, c.next + 1, e))
        BY <3>4, <3>9, <4>1 DEF DisjunctionRead
      <4>3. e \in Nat /\ c.next <= e /\ i < c.next
        <5>1. c.next > i + 2 BY <2>10, <2>14
        <5>2. rest.next > c.next + 1 + 2 BY <4>2
        <5> QED BY <2>8, <3>5, <4>1, <5>1, <5>2
      <4>4. IsFilters(w, i, e)
        <5>1. w[c.next] \in Connectives BY <3>2 DEF Connectives
        <5>2. IsFilters(w, i, c.next - 1) BY <2>10, <2>14
        <5> QED BY <2>8, <4>2, <4>3, <5>1, <5>2, FiltersJoin
      <4>5. ASSUME NEW k \in i..e PROVE w[k] \in TestTokens \union Connectives
        <5>1. k \in i..c.next - 1 \/ k = c.next \/ k \in c.next + 1..e BY <2>8, <4>3
        <5> QED BY <2>11, <2>14, <3>2, <4>2, <5>1 DEF Connectives
      <4>6. Follows(w, i) => r.node = Conjunctions(w, i, e)
        <5>1. SUFFICES ASSUME Follows(w, i) PROVE r.node = Conjunctions(w, i, e) OBVIOUS
        <5>2. c.node = Tests(w, i, c.next - 1) BY <2>10, <2>14, <5>1
        <5>3. Follows(w, c.next + 1) BY <3>1, <3>2, FollowsNext
        <5>4. w[c.next - 1] = "lit" /\ \A k \in i..c.next - 1 : w[k] # "or" BY <2>10, <2>11, <2>14
        <5>5. Conjunctions(w, i, e) = {Tests(w, i, c.next - 1)} \union Conjunctions(w, c.next + 1, e)
          BY <2>8, <3>2, <4>3, <5>1, <5>4, MoreConjunctions
        <5> QED BY <3>6, <3>9, <4>2, <5>2, <5>3, <5>5
      <4>7. r.next > i + 2 /\ r.next \in i..n + 1 BY <1>0, <2>8, <3>1, <3>5, <3>6, <4>2, <4>3
      <4> QED BY <2>3, <3>6, <3>7, <3>9, <4>1, <4>2, <4>4, <4>5, <4>6, <4>7 DEF DisjunctionRead
    <3> QED BY <3>5, <3>8, <3>9
  <2> QED BY <2>8, <2>12, <2>13, <2>14
<1>3. G = Nat
  <2>1. G \in SUBSET Nat OBVIOUS
  <2> HIDE DEF G
  <2> QED BY <1>1, <1>2, <2>1, ByNaturals
<1>4. ASSUME NEW i \in 1..n + 1 PROVE DisjunctionRead(w, i, ParseDisjunction(w, i))
  <2>1. n + 1 - i + 1 \in G
    <3>1. n + 1 - i + 1 \in Nat BY <1>0
    <3> HIDE DEF G
    <3> QED BY <1>3, <3>1
  <2>2. n + 1 - i < n + 1 - i + 1 BY <1>0
  <2> QED BY <2>1, <2>2
<1> QED BY <1>4

LEMMA HeadFacts ==
    ASSUME NEW w \in Seq(MetricTokens), NEW i \in 1..Len(w), w[i] \in Aggregations,
           NEW j, j = Optional(w, i + 1, Sources), NEW k, k = Optional(w, j, Attributions)
    PROVE  /\ k \in i + 1..Len(w) + 1
           /\ MetricTok(w, k) \in {"name", "*"} => k \in i + 1..Len(w) /\ IsHead(w, i, k)
           /\ \A p \in i + 1..Len(w) : IsHead(w, i, p) => p = k
           /\ \A x \in i + 1..k - 1 : w[x] \in Sources \union Attributions
           /\ OneOf(w, i + 1, Sources, "events") = Chosen(w, i, k - 1, "discarded", "duplicate", "events")
           /\ OneOf(w, j, Attributions, "all")
                = Chosen(w, i, k - 1, "attributed", "unattributed", "all")
<1> DEFINE n == Len(w)
<1>0. /\ n \in Nat /\ \A x \in Nat : MetricTok(w, x) # "EOF" => x \in 1..n
      /\ \A x \in 1..n : MetricTok(w, x) = w[x]
  BY TokFacts
<1>1. w[i] \notin Sources \union Attributions BY DEF Aggregations, Sources, Attributions
<1>2. j = i + 1 \/ (j = i + 2 /\ i + 1 \in 1..n /\ w[i + 1] \in Sources)
  <2>1. CASE MetricTok(w, i + 1) \in Sources
    <3>1. MetricTok(w, i + 1) # "EOF" /\ i + 1 \in Nat BY <2>1 DEF Sources
    <3> QED BY <1>0, <2>1, <3>1 DEF Optional
  <2>2. CASE MetricTok(w, i + 1) \notin Sources BY <2>2 DEF Optional
  <2> QED BY <2>1, <2>2
<1>3. j = i + 1 <=> MetricTok(w, i + 1) \notin Sources BY DEF Optional
<1>4. j \in Nat /\ j >= i + 1 /\ j <= n + 1 BY <1>0, <1>2
<1>5. k = j \/ (k = j + 1 /\ j \in 1..n /\ w[j] \in Attributions)
  <2>1. CASE MetricTok(w, j) \in Attributions
    <3>1. MetricTok(w, j) # "EOF" BY <2>1 DEF Attributions
    <3> QED BY <1>0, <1>4, <2>1, <3>1 DEF Optional
  <2>2. CASE MetricTok(w, j) \notin Attributions BY <2>2 DEF Optional
  <2> QED BY <2>1, <2>2
<1>6. k = j <=> MetricTok(w, j) \notin Attributions BY <1>4 DEF Optional
<1>7. k \in i + 1..n + 1 /\ k \in Nat BY <1>0, <1>4, <1>5
<1>8. MetricTok(w, k) \in {"name", "*"} => k \in i + 1..n /\ IsHead(w, i, k)
  <2>1. SUFFICES ASSUME MetricTok(w, k) \in {"name", "*"} PROVE k \in i + 1..n /\ IsHead(w, i, k)
    OBVIOUS
  <2>2. MetricTok(w, k) # "EOF" BY <2>1
  <2>3. k \in 1..n /\ w[k] \in {"name", "*"} BY <1>0, <1>7, <2>1, <2>2
  <2>4. \/ k = i + 1
        \/ k = i + 2 /\ w[i + 1] \in Sources \union Attributions
        \/ k = i + 3 /\ w[i + 1] \in Sources /\ w[i + 2] \in Attributions
    <3>1. CASE j = i + 1 BY <1>5, <3>1
    <3>2. CASE j = i + 2 /\ w[i + 1] \in Sources
      <4>1. k = j \/ (k = i + 3 /\ w[i + 2] \in Attributions)
        <5>1. k = j + 1 /\ w[j] \in Attributions => k = i + 3 /\ w[i + 2] \in Attributions BY <3>2
        <5> QED BY <1>5, <5>1
      <4> QED BY <3>2, <4>1
    <3> QED BY <1>2, <3>1, <3>2
  <2> QED BY <1>7, <2>3, <2>4 DEF IsHead
<1>9. ASSUME NEW p \in i + 1..n, IsHead(w, i, p) PROVE p = k
  <2>1. w[p] \notin Sources \union Attributions /\ p \in 1..n
    BY <1>9 DEF IsHead, Sources, Attributions
  <2>2. CASE p = i + 1
    <3>1. MetricTok(w, i + 1) \notin Sources \union Attributions BY <1>0, <2>1, <2>2
    <3>2. j = i + 1 BY <1>3, <3>1
    <3> QED BY <1>6, <2>2, <3>1, <3>2
  <2>3. CASE p = i + 2 /\ w[i + 1] \in Sources \union Attributions
    <3>1. i + 1 \in 1..n BY <1>0, <1>9, <2>3
    <3>2. MetricTok(w, i + 1) = w[i + 1] BY <1>0, <3>1
    <3>3. CASE w[i + 1] \in Sources
      <4>1. j = i + 2 BY <1>2, <1>3, <3>2, <3>3
      <4>2. MetricTok(w, j) \notin Attributions BY <1>0, <2>1, <2>3, <4>1
      <4> QED BY <1>6, <2>3, <4>1, <4>2
    <3>4. CASE w[i + 1] \in Attributions
      <4>1. w[i + 1] \notin Sources BY <3>4 DEF Sources, Attributions
      <4>2. j = i + 1 BY <1>3, <3>2, <4>1
      <4>3. k = j + 1 BY <1>5, <1>6, <3>2, <3>4, <4>2
      <4> QED BY <2>3, <4>2, <4>3
    <3> QED BY <2>3, <3>3, <3>4
  <2>4. CASE p = i + 3 /\ w[i + 1] \in Sources /\ w[i + 2] \in Attributions
    <3>1. i + 1 \in 1..n /\ i + 2 \in 1..n BY <1>0, <1>9, <2>4
    <3>2. j = i + 2 BY <1>0, <1>2, <1>3, <2>4, <3>1
    <3>3. k = j + 1 BY <1>0, <1>5, <1>6, <2>4, <3>1, <3>2
    <3> QED BY <2>4, <3>2, <3>3
  <2> QED BY <1>9, <2>2, <2>3, <2>4 DEF IsHead
<1>10. ASSUME NEW x \in i + 1..k - 1
       PROVE  (x = i + 1 /\ j = i + 2 /\ w[x] \in Sources)
                \/ (x = j /\ k = j + 1 /\ w[x] \in Attributions)
  <2>1. CASE x = j BY <1>4, <1>5, <1>10, <2>1
  <2>2. CASE x # j BY <1>2, <1>4, <1>5, <1>10, <2>2
  <2> QED BY <2>1, <2>2
<1>11. OneOf(w, i + 1, Sources, "events") = Chosen(w, i, k - 1, "discarded", "duplicate", "events")
  <2>1. CASE j = i + 1
    <3>1. \A x \in i..k - 1 : w[x] \notin Sources
      <4>1. \A x \in i..k - 1 : x = i \/ x \in i + 1..k - 1 OBVIOUS
      <4>2. \A x \in i + 1..k - 1 : w[x] \in Attributions BY <1>10, <2>1
      <4> QED BY <1>1, <4>1, <4>2 DEF Sources, Attributions
    <3>2. MetricTok(w, i + 1) \notin Sources BY <1>3, <2>1
    <3> QED BY <3>1, <3>2 DEF OneOf, Chosen, Occurs, Sources
  <2>2. CASE j = i + 2 /\ i + 1 \in 1..n /\ w[i + 1] \in Sources
    <3>1. i + 1 \in i..k - 1 BY <1>4, <1>5, <2>2
    <3>2. \A x \in i..k - 1 : w[x] \in Sources => x = i + 1
      <4>1. \A x \in i..k - 1 : x = i \/ x \in i + 1..k - 1 OBVIOUS
      <4>2. \A x \in i + 1..k - 1 : x = i + 1 \/ w[x] \in Attributions BY <1>10
      <4> QED BY <1>1, <4>1, <4>2 DEF Sources, Attributions
    <3>3. MetricTok(w, i + 1) = w[i + 1] BY <1>0, <2>2
    <3> QED BY <2>2, <3>1, <3>2, <3>3 DEF OneOf, Chosen, Occurs, Sources
  <2> QED BY <1>2, <2>1, <2>2
<1>12. OneOf(w, j, Attributions, "all") = Chosen(w, i, k - 1, "attributed", "unattributed", "all")
  <2>1. CASE k = j
    <3>1. \A x \in i..k - 1 : w[x] \notin Attributions
      <4>1. \A x \in i..k - 1 : x = i \/ x \in i + 1..k - 1 OBVIOUS
      <4>2. \A x \in i + 1..k - 1 : w[x] \in Sources BY <1>4, <1>10, <2>1
      <4> QED BY <1>1, <4>1, <4>2 DEF Sources, Attributions
    <3>2. MetricTok(w, j) \notin Attributions BY <1>6, <2>1
    <3> QED BY <3>1, <3>2 DEF OneOf, Chosen, Occurs, Attributions
  <2>2. CASE k = j + 1 /\ j \in 1..n /\ w[j] \in Attributions
    <3>1. j \in i..k - 1 BY <1>4, <2>2
    <3>2. \A x \in i..k - 1 : w[x] \in Attributions => x = j
      <4>1. \A x \in i..k - 1 : x = i \/ x \in i + 1..k - 1 OBVIOUS
      <4>2. \A x \in i + 1..k - 1 : x = j \/ w[x] \in Sources BY <1>10
      <4> QED BY <1>1, <4>1, <4>2 DEF Sources, Attributions
    <3>3. MetricTok(w, j) = w[j] BY <1>0, <2>2
    <3> QED BY <2>2, <3>1, <3>2, <3>3 DEF OneOf, Chosen, Occurs, Attributions
  <2> QED BY <1>5, <2>1, <2>2
<1> QED BY <1>7, <1>8, <1>9, <1>10, <1>11, <1>12

ValueTokens == {"name", ".", ":latency"}

\* What is read of a value after the type of events at k.
ValueRead(w, i, k, v) ==
    /\ v.ok \in BOOLEAN /\ v.next \in k + 1..Len(w) + 1
    /\ v.ok => /\ IsValue(w, i, k, v.next - 1)
               /\ \A x \in k + 1..v.next - 1 : w[x] \in ValueTokens
    /\ \A q \in k..Len(w) : IsValue(w, i, k, q) =>
         v.next >= q + 1 /\ (MetricTok(w, q + 1) # "." => v.ok /\ v.next = q + 1)

LEMMA ValueFacts ==
    ASSUME NEW w \in Seq(MetricTokens), NEW i \in 1..Len(w), NEW k \in i + 1..Len(w)
    PROVE  ValueRead(w, i, k, ParseValue(w, k + 1, MetricTok(w, i) = "count"))
<1> DEFINE n == Len(w)
<1>0. /\ n \in Nat /\ \A x \in Nat : MetricTok(w, x) # "EOF" => x \in 1..n
      /\ \A x \in 1..n : MetricTok(w, x) = w[x]
  BY TokFacts
<1>1. MetricTok(w, i) = w[i] /\ k \in Nat /\ k + 1 \in 1..n + 1 BY <1>0
<1>2. PICK v : v = ParseValue(w, k + 1, MetricTok(w, i) = "count") OBVIOUS
<1>3. CASE w[i] = "count"
  <2>1. v = [ok |-> TRUE, next |-> k + 1] BY <1>1, <1>2, <1>3 DEF ParseValue, Past
  <2>2. \A q : IsValue(w, i, k, q) <=> q = k BY <1>3 DEF IsValue
  <2>3. v.next - 1 = k BY <1>1, <2>1
  <2>4. v.ok /\ v.ok \in BOOLEAN /\ v.next = k + 1 BY <2>1
  <2> QED BY <1>0, <1>1, <1>2, <2>2, <2>3, <2>4 DEF ValueRead
<1>4. CASE w[i] # "count" /\ MetricTok(w, k + 1) = ":latency"
  <2>1. v = [ok |-> TRUE, next |-> k + 2] BY <1>1, <1>2, <1>4 DEF ParseValue, Past
  <2>2. k + 1 \in 1..n
    <3>1. MetricTok(w, k + 1) # "EOF" BY <1>4
    <3> QED BY <1>0, <1>1, <3>1
  <2>3. w[k + 1] = ":latency" BY <1>0, <1>4, <2>2
  <2>4. ASSUME NEW q \in k..n PROVE IsValue(w, i, k, q) <=> q = k + 1
    <3>1. ASSUME IsPath(w, k + 1, q) PROVE FALSE
      <4>1. w[k + 1] = IF (k + 1 - (k + 1)) % 2 = 0 THEN "name" ELSE "."
        BY <1>1, <3>1 DEF IsPath
      <4> QED BY <2>3, <4>1
    <3> QED BY <1>1, <1>4, <2>3, <3>1 DEF IsValue
  <2>5. v.next - 1 = k + 1 /\ k + 1 \in k..n BY <1>0, <1>1, <2>1, <2>2
  <2>6. v.ok /\ v.ok \in BOOLEAN /\ v.next = k + 2 BY <2>1
  <2>7. \A x \in k + 1..v.next - 1 : w[x] \in ValueTokens BY <1>1, <2>3, <2>5 DEF ValueTokens
  <2>8. IsValue(w, i, k, v.next - 1) BY <2>4, <2>5
  <2>9. \A q \in k..n : IsValue(w, i, k, q) => v.next = q + 1 BY <1>1, <2>4, <2>6
  <2>10. v.next \in k + 1..n + 1 BY <1>0, <1>1, <2>2, <2>6
  <2> QED BY <1>0, <1>1, <1>2, <2>6, <2>7, <2>8, <2>9, <2>10 DEF ValueRead
<1>5. CASE w[i] # "count" /\ MetricTok(w, k + 1) # ":latency"
  <2>1. v = ParsePath(w, k + 1) BY <1>1, <1>2, <1>5 DEF ParseValue
  <2>2. PathRead(w, k + 1, v) BY <1>1, <2>1, PathFacts
  <2>3. v.ok \in BOOLEAN /\ v.next \in k + 1..n + 1 /\ v.next \in Nat BY <1>0, <1>1, <2>2 DEF PathRead
  <2>4. ASSUME v.ok
        PROVE  IsValue(w, i, k, v.next - 1) /\ \A x \in k + 1..v.next - 1 : w[x] \in ValueTokens
    <3>1. v.next > k + 1 /\ IsPath(w, k + 1, v.next - 1) BY <2>2, <2>4 DEF PathRead
    <3>2. k < v.next - 1 BY <1>1, <2>3, <3>1
    <3> QED BY <1>5, <3>1, <3>2 DEF IsValue, IsPath, ValueTokens
  <2>5. ASSUME NEW q \in k..n, IsValue(w, i, k, q)
        PROVE  v.next >= q + 1 /\ (MetricTok(w, q + 1) # "." => v.ok /\ v.next = q + 1)
    <3>1. k < q /\ (IsPath(w, k + 1, q) \/ (q = k + 1 /\ w[q] = ":latency"))
      BY <1>5, <2>5 DEF IsValue
    <3>2. q \in k + 1..n /\ q \in 1..n BY <1>0, <1>1, <2>5, <3>1
    <3>3. IsPath(w, k + 1, q) BY <1>0, <1>5, <3>1, <3>2
    <3> QED BY <2>2, <3>2, <3>3 DEF PathRead
  <2> QED BY <1>2, <2>3, <2>4, <2>5 DEF ValueRead
<1> QED BY <1>3, <1>4, <1>5

FiltersRead(w, v, f) ==
    /\ f.ok \in BOOLEAN /\ f.next \in v..Len(w) + 1
    /\ f.ok => IF MetricTok(w, v) = "where"
               THEN /\ f.next > v + 3 /\ IsFilters(w, v + 1, f.next - 1)
                    /\ f.node = Conjunctions(w, v + 1, f.next - 1)
                    /\ \A x \in v + 1..f.next - 1 : w[x] \in TestTokens \union Connectives
               ELSE f.next = v /\ f.node = {}
    /\ \A j \in v..Len(w) : w[v] = "where" /\ IsFilters(w, v + 1, j) =>
         f.next >= j + 1 /\ (MetricTok(w, j + 1) \notin Connectives => f.ok /\ f.next = j + 1)

LEMMA FiltersFacts ==
    ASSUME NEW w \in Seq(MetricTokens), NEW v \in 1..Len(w) + 1
    PROVE  FiltersRead(w, v, ParseFilters(w, v))
<1> DEFINE n == Len(w)
<1>0. /\ n \in Nat /\ \A x \in Nat : MetricTok(w, x) # "EOF" => x \in 1..n
      /\ \A x \in 1..n : MetricTok(w, x) = w[x]
  BY TokFacts
<1>1. PICK f : f = ParseFilters(w, v) OBVIOUS
<1>2. CASE MetricTok(w, v) # "where"
  <2>1. f = [ok |-> TRUE, node |-> {}, next |-> v] BY <1>1, <1>2 DEF ParseFilters, Made
  <2>2. f.ok /\ f.ok \in BOOLEAN /\ f.next = v /\ f.node = {} BY <2>1
  <2>3. \A j \in v..n : w[v] # "where" BY <1>0, <1>2
  <2> QED BY <1>0, <1>1, <1>2, <2>2, <2>3 DEF FiltersRead
<1>3. CASE MetricTok(w, v) = "where"
  <2>1. v \in 1..n /\ v + 1 \in 1..n + 1 /\ v \in Nat
    <3>1. MetricTok(w, v) # "EOF" BY <1>3
    <3> QED BY <1>0, <3>1
  <2>2. w[v] = "where" /\ Follows(w, v + 1)
    <3>1. w[v] = "where" BY <1>0, <1>3, <2>1
    <3> QED BY <2>1, <3>1, FollowsNext
  <2>3. f = ParseDisjunction(w, v + 1) BY <1>1, <1>3 DEF ParseFilters
  <2>4. DisjunctionRead(w, v + 1, f) BY <2>1, <2>3, DisjunctionFacts
  <2>5. f.ok \in BOOLEAN /\ f.next \in v + 1..n + 1 BY <2>4 DEF DisjunctionRead
  <2>6. f.ok => /\ f.next > v + 1 + 2 /\ IsFilters(w, v + 1, f.next - 1)
                /\ f.node = Conjunctions(w, v + 1, f.next - 1)
                /\ \A x \in v + 1..f.next - 1 : w[x] \in TestTokens \union Connectives
    BY <2>2, <2>4 DEF DisjunctionRead
  <2>7. ASSUME NEW j \in v..n, IsFilters(w, v + 1, j)
        PROVE  f.next >= j + 1 /\ (MetricTok(w, j + 1) \notin Connectives => f.ok /\ f.next = j + 1)
    <3>1. v + 1 <= j
      <4>1. v + 1 <= j + 1 /\ j \in Nat /\ v + 1 \in Nat /\ v + 1 > 0 BY <1>0, <2>1, <2>7
      <4> QED BY <2>7, <4>1, FiltersNotEmpty
    <3>2. j \in v + 1..n BY <1>0, <2>1, <2>7, <3>1
    <3> QED BY <2>4, <2>7, <3>2 DEF DisjunctionRead
  <2>8. f.ok => f.next > v + 3 BY <1>0, <2>1, <2>5, <2>6
  <2>9. f.next \in v..n + 1 BY <1>0, <2>1, <2>5
  <2> QED BY <1>1, <1>3, <2>5, <2>6, <2>7, <2>8, <2>9 DEF FiltersRead
<1> QED BY <1>2, <1>3

\* With these a phrase may go on where another one has ended.
Continuations == {".", "where"} \union Connectives

ComponentRead(w, i, r) ==
    /\ r.ok \in BOOLEAN /\ r.next \in i..Len(w) + 1
    /\ r.ok => /\ r.next > i /\ IsComponent(w, i, r.next - 1)
               /\ r.node = Meaning(w, i, r.next - 1)
               /\ ~Occurs(w, i, r.next - 1, "/")
    /\ \A j \in i..Len(w) : IsComponent(w, i, j) =>
         r.next >= j + 1 /\ (MetricTok(w, j + 1) \notin Continuations => r.ok /\ r.next = j + 1)

\* What the filters of a component mean is what its tokens mean.
LEMMA FiltersOfComponent ==
    ASSUME NEW w, NEW i \in Nat, NEW v \in Nat, NEW e \in Nat, i < v, v <= e,
           \A x \in i..v - 1 : w[x] \notin {"where", "and", "or"}, w[v] = "where"
    PROVE  Conjunctions(w, i + 1, e) = Conjunctions(w, v + 1, e)
<1>1. Tests(w, i + 1, e) = Tests(w, v + 1, e)
  <2>1. ASSUME NEW x \in Tests(w, i + 1, e) PROVE x \in v + 1..e
    <3>1. x \in i + 1..e /\ w[x - 1] \in {"where", "and", "or"} BY <2>1 DEF Tests
    <3>2. x - 1 \notin i..v - 1 BY <3>1
    <3> QED BY <3>1, <3>2
  <2>2. \A x \in v + 1..e : x \in i + 1..e OBVIOUS
  <2> QED BY <2>1, <2>2 DEF Tests
<1>2. ASSUME NEW x \in Tests(w, v + 1, e), NEW y \in Tests(w, v + 1, e)
      PROVE  SameConjunction(w, i + 1, e, x, y) <=> SameConjunction(w, v + 1, e, x, y)
  <2>1. \A c \in i + 1..e : w[c] = "or" => c \in v + 1..e
    <3>1. \A c \in i + 1..e : c \in i..v - 1 \/ c = v \/ c \in v + 1..e OBVIOUS
    <3> QED BY <3>1
  <2>2. \A c \in v + 1..e : c \in i + 1..e OBVIOUS
  <2> QED BY <2>1, <2>2 DEF SameConjunction
<1> QED BY <1>1, <1>2 DEF Conjunctions

LEMMA NoFilters ==
    ASSUME NEW w, NEW i \in Nat, NEW e \in Nat, i <= e,
           \A x \in i..e : w[x] \notin {"where", "and", "or"}
    PROVE  Conjunctions(w, i + 1, e) = {}
<1>1. ASSUME NEW x \in Tests(w, i + 1, e) PROVE FALSE
  <2>1. x \in i + 1..e /\ w[x - 1] \in {"where", "and", "or"} BY <1>1 DEF Tests
  <2>2. x - 1 \in i..e BY <2>1
  <2> QED BY <2>1, <2>2
<1> QED BY <1>1 DEF Conjunctions

LEMMA ComponentFacts ==
    ASSUME NEW w \in Seq(MetricTokens), NEW i \in 1..Len(w) + 1
    PROVE  ComponentRead(w, i, ParseComponent(w, i))
<1> DEFINE n == Len(w)
<1>0. /\ n \in Nat /\ \A x \in Nat : MetricTok(w, x) # "EOF" => x \in 1..n
      /\ \A x \in 1..n : MetricTok(w, x) = w[x]
  BY TokFacts
<1>1. PICK r : r = ParseComponent(w, i) OBVIOUS
<1>2. CASE MetricTok(w, i) \notin Aggregations
  <2>1. r = [ok |-> FALSE, next |-> i] BY <1>1, <1>2 DEF ParseComponent, ParseError
  <2>2. ~r.ok /\ r.ok \in BOOLEAN /\ r.next = i BY <2>1
  <2>3. \A j \in i..n : ~IsComponent(w, i, j)
    <3>1. SUFFICES ASSUME NEW j \in i..n, IsComponent(w, i, j) PROVE FALSE OBVIOUS
    <3>2. w[i] \in Aggregations BY <3>1 DEF IsComponent, IsHead
    <3>3. i \in 1..n BY <1>0, <3>1
    <3> QED BY <1>0, <1>2, <3>2, <3>3
  <2> QED BY <1>0, <1>1, <2>2, <2>3 DEF ComponentRead
<1>3. CASE MetricTok(w, i) \in Aggregations
  <2>1. i \in 1..n /\ w[i] \in Aggregations
    <3>1. MetricTok(w, i) # "EOF" BY <1>3 DEF Aggregations
    <3>2. i \in 1..n BY <1>0, <3>1
    <3> QED BY <1>0, <1>3, <3>2
  <2>2. PICK s, k : s = Optional(w, i + 1, Sources) /\ k = Optional(w, s, Attributions) OBVIOUS
  <2>3. /\ k \in i + 1..n + 1
        /\ MetricTok(w, k) \in {"name", "*"} => k \in i + 1..n /\ IsHead(w, i, k)
        /\ \A p \in i + 1..n : IsHead(w, i, p) => p = k
        /\ \A x \in i + 1..k - 1 : w[x] \in Sources \union Attributions
        /\ OneOf(w, i + 1, Sources, "events") = Chosen(w, i, k - 1, "discarded", "duplicate", "events")
        /\ OneOf(w, s, Attributions, "all")
             = Chosen(w, i, k - 1, "attributed", "unattributed", "all")
    BY <2>1, <2>2, HeadFacts
  <2>4. ASSUME NEW j \in i..n, IsComponent(w, i, j)
        PROVE  /\ k \in i + 1..j /\ w[k] \in {"name", "*"}
               /\ \E q \in i + 1..j : /\ IsValue(w, i, k, q)
                                      /\ q = j \/ (w[q + 1] = "where" /\ IsFilters(w, q + 2, j))
    <3>1. PICK p \in i + 1..j, q \in i + 1..j :
             /\ IsHead(w, i, p) /\ IsValue(w, i, p, q)
             /\ q = j \/ (w[q + 1] = "where" /\ IsFilters(w, q + 2, j))
      BY <2>4 DEF IsComponent
    <3>2. p \in i + 1..n BY <1>0, <2>4
    <3>3. p = k BY <2>3, <3>1, <3>2
    <3> QED BY <3>1, <3>3 DEF IsHead
  <2>5. CASE MetricTok(w, k) \notin {"name", "*"}
    <3>1. r = [ok |-> FALSE, next |-> k]
      BY <1>1, <1>3, <2>2, <2>5 DEF ParseComponent, ParseError
    <3>2. ~r.ok /\ r.ok \in BOOLEAN /\ r.next = k BY <3>1
    <3>3. \A j \in i..n : ~IsComponent(w, i, j)
      <4>1. SUFFICES ASSUME NEW j \in i..n, IsComponent(w, i, j) PROVE FALSE OBVIOUS
      <4>2. k \in i + 1..j /\ w[k] \in {"name", "*"} BY <2>4, <4>1
      <4>3. k \in 1..n BY <1>0, <4>1, <4>2
      <4> QED BY <1>0, <2>5, <4>2, <4>3
    <3>4. r.next \in i..n + 1 BY <1>0, <2>3, <3>2
    <3> QED BY <1>1, <3>2, <3>3, <3>4 DEF ComponentRead
  <2>6. CASE MetricTok(w, k) \in {"name", "*"}
    <3>1. k \in i + 1..n /\ IsHead(w, i, k) /\ k \in Nat /\ i \in Nat BY <1>0, <2>3, <2>6
    <3>2. PICK v : v = ParseValue(w, k + 1, MetricTok(w, i) = "count") OBVIOUS
    <3>3. ValueRead(w, i, k, v) BY <2>1, <3>1, <3>2, ValueFacts
    <3>4. v.ok \in BOOLEAN /\ v.next \in k + 1..n + 1 /\ v.next \in Nat BY <1>0, <3>1, <3>3 DEF ValueRead
    <3>5. PICK f : f = ParseFilters(w, v.next) OBVIOUS
    <3>6. FiltersRead(w, v.next, f)
      <4>1. v.next \in 1..n + 1 BY <1>0, <3>1, <3>4
      <4> QED BY <3>5, <4>1, FiltersFacts
    <3>7. f.ok \in BOOLEAN /\ f.next \in v.next..n + 1 /\ f.next \in Nat
      BY <1>0, <3>4, <3>6 DEF FiltersRead
    <3>8. PICK node : node = [aggregation |-> MetricTok(w, i),
                              source |-> OneOf(w, i + 1, Sources, "events"),
                              attribution |-> OneOf(w, s, Attributions, "all"),
                              filters |-> f.node]
      OBVIOUS
    <3>9. r = IF ~v.ok THEN v ELSE IF ~f.ok THEN f ELSE Made(node, f.next)
      BY <1>1, <1>3, <2>2, <2>6, <3>2, <3>5, <3>8 DEF ParseComponent
    <3>10. r.ok = (v.ok /\ f.ok) /\ r.next = IF v.ok THEN f.next ELSE v.next
      BY <3>4, <3>7, <3>9 DEF Made
    <3>11. ASSUME NEW j \in i..n, IsComponent(w, i, j)
           PROVE  r.next >= j + 1
                  /\ (MetricTok(w, j + 1) \notin Continuations => r.ok /\ r.next = j + 1)
      <4>1. PICK q \in i + 1..j : /\ IsValue(w, i, k, q)
                                  /\ q = j \/ (w[q + 1] = "where" /\ IsFilters(w, q + 2, j))
        BY <2>4, <3>11
      <4>2. q \in k..n
        <5>1. q >= k BY <3>1, <4>1 DEF IsValue
        <5> QED BY <1>0, <3>1, <3>11, <4>1, <5>1
      <4>3. v.next >= q + 1 /\ (MetricTok(w, q + 1) # "." => v.ok /\ v.next = q + 1)
        BY <3>3, <4>1, <4>2 DEF ValueRead
      <4>4. CASE q = j
        <5>1. r.next >= j + 1 BY <3>4, <3>7, <3>10, <4>2, <4>3, <4>4
        <5>2. ASSUME MetricTok(w, j + 1) \notin Continuations PROVE r.ok /\ r.next = j + 1
          <6>1. MetricTok(w, j + 1) # "." /\ MetricTok(w, j + 1) # "where" BY <5>2 DEF Continuations
          <6>2. v.ok /\ v.next = j + 1 BY <4>3, <4>4, <6>1
          <6>3. f = [ok |-> TRUE, node |-> {}, next |-> j + 1]
            BY <3>5, <6>1, <6>2 DEF ParseFilters, Made
          <6>4. f.ok /\ f.next = j + 1 BY <6>3
          <6> QED BY <3>10, <6>2, <6>4
        <5> QED BY <5>1, <5>2
      <4>5. CASE q # j
        <5>1. q + 1 \in 1..n /\ j \in q + 1..n BY <1>0, <3>1, <3>11, <4>1, <4>2, <4>5
        <5>2. w[q + 1] = "where" /\ IsFilters(w, q + 2, j) BY <4>1, <4>5
        <5>3. MetricTok(w, q + 1) = "where" BY <1>0, <5>1, <5>2
        <5>4. v.ok /\ v.next = q + 1 BY <4>3, <5>3
        <5>5. v.next + 1 = q + 2 BY <4>2, <5>4
        <5>6. w[v.next] = "where" /\ IsFilters(w, v.next + 1, j) BY <5>2, <5>4, <5>5
        <5>7. f.next >= j + 1 /\ (MetricTok(w, j + 1) \notin Connectives => f.ok /\ f.next = j + 1)
          BY <3>6, <5>1, <5>4, <5>6 DEF FiltersRead
        <5> QED BY <3>10, <5>4, <5>7 DEF Continuations
      <4> QED BY <4>4, <4>5
    <3>12. ASSUME r.ok
           PROVE  /\ r.next > i /\ IsComponent(w, i, r.next - 1)
                  /\ r.node = Meaning(w, i, r.next - 1)
                  /\ ~Occurs(w, i, r.next - 1, "/")
      <4>1. v.ok /\ f.ok /\ r.next = f.next /\ r.node = node BY <3>4, <3>7, <3>9, <3>10, <3>12 DEF Made
      <4>2. IsValue(w, i, k, v.next - 1) /\ \A x \in k + 1..v.next - 1 : w[x] \in ValueTokens
        BY <3>3, <4>1 DEF ValueRead
      <4>3. PICK u, e : u = v.next /\ e = f.next - 1 OBVIOUS
      <4>4. u \in Nat /\ u > k /\ e \in Nat /\ e >= u - 1 /\ e <= n /\ i < u /\ k <= e
        BY <1>0, <3>1, <3>4, <3>7, <4>3
      <4>5. IF MetricTok(w, u) = "where"
            THEN /\ u < e /\ IsFilters(w, u + 1, e) /\ node.filters = Conjunctions(w, u + 1, e)
                 /\ \A x \in u + 1..e : w[x] \in TestTokens \union Connectives
            ELSE e = u - 1 /\ node.filters = {}
        <5>1. node.filters = f.node BY <3>8
        <5>2. CASE MetricTok(w, u) = "where"
          <6>1. /\ f.next > u + 3 /\ IsFilters(w, u + 1, e) /\ f.node = Conjunctions(w, u + 1, e)
                /\ \A x \in u + 1..e : w[x] \in TestTokens \union Connectives
            BY <3>6, <4>1, <4>3, <5>2 DEF FiltersRead
          <6>2. u < e BY <3>7, <4>3, <4>4, <6>1
          <6> QED BY <5>1, <5>2, <6>1, <6>2
        <5>3. CASE MetricTok(w, u) # "where"
          <6>1. f.next = u /\ f.node = {} BY <3>6, <4>1, <4>3, <5>3 DEF FiltersRead
          <6> QED BY <4>3, <5>1, <5>3, <6>1
        <5> QED BY <5>2, <5>3
      <4>6. ASSUME NEW x \in i..e
            PROVE  \/ x \in i..k - 1 /\ w[x] \in Aggregations \union Sources \union Attributions
                   \/ x \in k..u - 1 /\ w[x] \in ValueTokens \union {"*"}
                   \/ x = u /\ u < e /\ w[x] = "where" /\ MetricTok(w, u) = "where"
                   \/ x \in u + 1..e /\ w[x] \in TestTokens \union Connectives
        <5>1. \/ x = i \/ x \in i + 1..k - 1 \/ x = k \/ x \in k + 1..u - 1
              \/ x = u \/ x \in u + 1..e
          BY <3>1, <4>4
        <5>2. x = i => x \in i..k - 1 BY <3>1
        <5>3. x = k => x \in k..u - 1 /\ w[x] \in {"name", "*"} BY <3>1, <4>4 DEF IsHead
        <5>4. x \in i + 1..k - 1 => x \in i..k - 1 BY <3>1
        <5>5. x \in k + 1..u - 1 => x \in k..u - 1 BY <3>1, <4>4
        <5>6. x >= u => MetricTok(w, u) = "where" /\ u < e BY <4>4, <4>5
        <5>7. x = u => w[x] = "where"
          <6>1. SUFFICES ASSUME x = u PROVE w[u] = "where" OBVIOUS
          <6>2. u \in 1..n BY <1>0, <3>1, <4>4, <6>1
          <6> QED BY <1>0, <4>4, <5>6, <6>1, <6>2
        <5>8. x = u => x >= u BY <4>4
        <5>9. x \in u + 1..e => x >= u BY <4>4
        <5> QED BY <2>1, <2>3, <4>2, <4>3, <4>5, <5>1, <5>2, <5>3, <5>4, <5>5, <5>6, <5>7, <5>8, <5>9
                DEF ValueTokens
      <4>7. ~Occurs(w, i, e, "/")
        BY <4>6 DEF Occurs, Aggregations, Sources, Attributions, ValueTokens, TestTokens, Connectives
      <4>8. \A x \in i..e : w[x] \in Sources \union Attributions => x \in i..k - 1
        BY <4>6 DEF Sources, Attributions, ValueTokens, TestTokens, Connectives
      <4>9. \A x \in i..k - 1 : x \in i..e BY <3>1, <4>4
      <4>10. \A type \in Sources \union Attributions : Occurs(w, i, e, type) <=> Occurs(w, i, k - 1, type)
        BY <4>8, <4>9 DEF Occurs
      <4>11. /\ Chosen(w, i, k - 1, "discarded", "duplicate", "events")
                  = Chosen(w, i, e, "discarded", "duplicate", "events")
             /\ Chosen(w, i, k - 1, "attributed", "unattributed", "all")
                  = Chosen(w, i, e, "attributed", "unattributed", "all")
        BY <4>10 DEF Chosen, Sources, Attributions
      <4>12. \A x \in i..e : x < u => w[x] \notin {"where", "and", "or"}
        <5>1. SUFFICES ASSUME NEW x \in i..e, x < u PROVE w[x] \notin {"where", "and", "or"} OBVIOUS
        <5>2. x # u /\ x \notin u + 1..e BY <4>4, <5>1
        <5> QED BY <4>6, <5>2 DEF Aggregations, Sources, Attributions, ValueTokens
      <4>13. node.filters = Conjunctions(w, i + 1, e)
        <5>1. CASE MetricTok(w, u) = "where"
          <6>1. u < e /\ node.filters = Conjunctions(w, u + 1, e) BY <4>5, <5>1
          <6>2. u \in i..e BY <3>1, <4>4, <6>1
          <6>3. w[u] = "where"
            <7>1. u \in 1..n BY <1>0, <3>1, <4>4, <6>1
            <7> QED BY <1>0, <5>1, <7>1
          <6>4. \A x \in i..u - 1 : w[x] \notin {"where", "and", "or"}
            <7>1. \A x \in i..u - 1 : x \in i..e /\ x < u BY <3>1, <4>4
            <7> QED BY <4>12, <7>1
          <6>5. u <= e BY <4>4, <6>1
          <6> QED BY <3>1, <4>4, <6>1, <6>3, <6>4, <6>5, FiltersOfComponent
        <5>2. CASE MetricTok(w, u) # "where"
          <6>1. e = u - 1 /\ node.filters = {} BY <4>5, <5>2
          <6>2. \A x \in i..e : w[x] \notin {"where", "and", "or"}
            <7>1. \A x \in i..e : x < u BY <3>1, <4>4, <6>1
            <7> QED BY <4>12, <7>1
          <6>3. i <= e BY <3>1, <4>4
          <6> QED BY <3>1, <4>4, <6>1, <6>2, <6>3, NoFilters
        <5> QED BY <5>1, <5>2
      <4>14. node = Meaning(w, i, e)
        <5>1. MetricTok(w, i) = w[i] BY <1>0, <2>1
        <5> QED BY <2>3, <3>8, <4>11, <4>13, <5>1 DEF Meaning
      <4>15. IsComponent(w, i, e)
        <5>1. PICK q : q = u - 1 OBVIOUS
        <5>2. q \in i + 1..e /\ k \in i + 1..e /\ q + 1 = u /\ q + 2 = u + 1 BY <3>1, <4>4, <5>1
        <5>3. IsValue(w, i, k, q) BY <4>2, <4>3, <5>1
        <5>4. q = e \/ (w[q + 1] = "where" /\ IsFilters(w, q + 2, e))
          <6>1. CASE MetricTok(w, u) = "where"
            <7>1. u < e /\ IsFilters(w, u + 1, e) BY <4>5, <6>1
            <7>2. u \in 1..n BY <1>0, <3>1, <4>4, <7>1
            <7>3. w[u] = "where" BY <1>0, <6>1, <7>2
            <7> QED BY <5>2, <7>1, <7>3
          <6>2. CASE MetricTok(w, u) # "where" BY <4>5, <5>1, <6>2
          <6> QED BY <6>1, <6>2
        <5> QED BY <3>1, <5>2, <5>3, <5>4 DEF IsComponent
      <4>16. r.next > i /\ r.next - 1 = e BY <3>7, <4>1, <4>3, <4>4
      <4> QED BY <4>1, <4>7, <4>14, <4>15, <4>16
    <3>13. r.ok \in BOOLEAN /\ r.next \in i..n + 1 BY <1>0, <3>1, <3>4, <3>7, <3>10
    <3> QED BY <1>1, <3>11, <3>12, <3>13 DEF ComponentRead
  <2> QED BY <2>5, <2>6
<1> QED BY <1>2, <1>3

LEMMA MetricFacts ==
    ASSUME NEW w \in Seq(MetricTokens), NEW n, n = Len(w), NEW r, r = ParseMetric(w)
    PROVE  IF ~r.ok THEN ~IsMetric(w, n)
           ELSE /\ IsMetric(w, r.next - 1)
                /\ \A j \in r.next..n : ~IsMetric(w, j)
                /\ IsMeaning(w, r.next - 1, r.node)
<1>0. /\ n \in Nat /\ \A x \in Nat : MetricTok(w, x) # "EOF" => x \in 1..n
      /\ \A x \in 1..n : MetricTok(w, x) = w[x]
      /\ MetricTok(w, n + 1) = "EOF"
  BY TokFacts
<1>1. PICK a : a = ParseComponent(w, 1) OBVIOUS
<1>2. PICK b : b = ParseComponent(w, a.next + 1) OBVIOUS
<1>3. ComponentRead(w, 1, a) BY <1>0, <1>1, ComponentFacts
<1>4. a.ok \in BOOLEAN /\ a.next \in 1..n + 1 /\ a.next \in Nat BY <1>0, <1>3 DEF ComponentRead
<1>5. r = IF ~a.ok THEN a
          ELSE IF MetricTok(w, a.next) # "/" THEN Made(<<a.node>>, a.next)
          ELSE IF ~b.ok THEN b ELSE Made(<<a.node, b.node>>, b.next)
  BY <1>1, <1>2 DEF ParseMetric, AfterNumerator
<1>6. MetricTok(w, a.next) = "/" =>
        /\ a.next \in 1..n /\ w[a.next] = "/" /\ ComponentRead(w, a.next + 1, b)
        /\ b.ok \in BOOLEAN /\ b.next \in a.next + 1..n + 1 /\ b.next \in Nat
  <2>1. SUFFICES ASSUME MetricTok(w, a.next) = "/"
                 PROVE  /\ a.next \in 1..n /\ w[a.next] = "/" /\ ComponentRead(w, a.next + 1, b)
                        /\ b.ok \in BOOLEAN /\ b.next \in a.next + 1..n + 1 /\ b.next \in Nat
    OBVIOUS
  <2>2. MetricTok(w, a.next) # "EOF" BY <2>1
  <2>3. a.next \in 1..n BY <1>0, <1>4, <2>2
  <2>4. w[a.next] = "/" BY <1>0, <2>1, <2>3
  <2>5. ComponentRead(w, a.next + 1, b)
    <3>1. a.next + 1 \in 1..n + 1 BY <1>0, <2>3
    <3> QED BY <1>2, <3>1, ComponentFacts
  <2>6. b.ok \in BOOLEAN /\ b.next \in a.next + 1..n + 1 BY <2>5 DEF ComponentRead
  <2> QED BY <1>0, <2>3, <2>4, <2>5, <2>6
<1>7. r.ok \in BOOLEAN /\ r.next \in Nat /\ r.next >= a.next
      /\ (r.ok <=> a.ok /\ (MetricTok(w, a.next) = "/" => b.ok))
      /\ (a.ok /\ MetricTok(w, a.next) = "/" => r.next = b.next)
  <2>1. CASE ~a.ok BY <1>4, <1>5, <2>1
  <2>2. CASE a.ok /\ MetricTok(w, a.next) # "/"
    <3>1. r = [ok |-> TRUE, node |-> <<a.node>>, next |-> a.next] BY <1>5, <2>2 DEF Made
    <3>2. r.ok /\ r.ok \in BOOLEAN /\ r.next = a.next BY <3>1
    <3> QED BY <1>4, <2>2, <3>2
  <2>3. CASE a.ok /\ MetricTok(w, a.next) = "/"
    <3>1. r.ok = b.ok /\ r.next = b.next
      <4>1. CASE ~b.ok BY <1>5, <2>3, <4>1
      <4>2. CASE b.ok
        <5>1. r = [ok |-> TRUE, node |-> <<a.node, b.node>>, next |-> b.next]
          BY <1>5, <2>3, <4>2 DEF Made
        <5>2. r.ok = TRUE /\ r.next = b.next BY <5>1
        <5>3. b.ok = TRUE BY <1>6, <2>3, <4>2
        <5> QED BY <5>2, <5>3
      <4> QED BY <4>1, <4>2
    <3> QED BY <1>4, <1>6, <2>3, <3>1
  <2> QED BY <1>4, <2>1, <2>2, <2>3
\* No sentence goes further, and none that is all there is remains unread.
<1>8. ASSUME NEW j \in 1..n, IsMetric(w, j) PROVE r.next >= j + 1 /\ (j = n => r.ok)
  <2>1. CASE IsComponent(w, 1, j)
    <3>1. a.next >= j + 1 /\ (MetricTok(w, j + 1) \notin Continuations => a.ok /\ a.next = j + 1)
      BY <1>3, <2>1 DEF ComponentRead
    <3>2. r.next >= j + 1 BY <1>0, <1>4, <1>7, <3>1
    <3>3. ASSUME j = n PROVE r.ok
      <4>1. MetricTok(w, j + 1) = "EOF" BY <1>0, <3>3
      <4>2. a.ok /\ a.next = j + 1 BY <3>1, <4>1 DEF Continuations, Connectives
      <4> QED BY <1>7, <4>1, <4>2
    <3> QED BY <3>2, <3>3
  <2>2. CASE \E k \in 2..j - 1 : w[k] = "/" /\ IsComponent(w, 1, k - 1) /\ IsComponent(w, k + 1, j)
    <3>1. PICK k \in 2..j - 1 : w[k] = "/" /\ IsComponent(w, 1, k - 1) /\ IsComponent(w, k + 1, j)
      BY <2>2
    <3>2. k \in 1..n /\ k - 1 \in 1..n /\ k - 1 + 1 = k /\ j \in k + 1..n BY <1>0, <1>8, <3>1
    <3>3. MetricTok(w, k) = "/" BY <1>0, <3>1, <3>2
    <3>4. a.ok /\ a.next = k
      <4>1. MetricTok(w, k - 1 + 1) \notin Continuations => a.ok /\ a.next = k - 1 + 1
        BY <1>3, <3>1, <3>2 DEF ComponentRead
      <4> QED BY <3>2, <3>3, <4>1 DEF Continuations, Connectives
    <3>5. b.next >= j + 1 /\ (MetricTok(w, j + 1) \notin Continuations => b.ok)
      <4>1. ComponentRead(w, k + 1, b) BY <1>6, <3>3, <3>4
      <4> QED BY <3>1, <3>2, <4>1 DEF ComponentRead
    <3>6. j = n => b.ok BY <1>0, <3>5 DEF Continuations, Connectives
    <3> QED BY <1>7, <3>3, <3>4, <3>5, <3>6
  <2> QED BY <1>8, <2>1, <2>2 DEF IsMetric
<1>9. CASE ~r.ok
  <2>1. ~IsMetric(w, n)
    <3>1. CASE n = 0
      <4>1. 2..n - 1 = {} /\ ~(n > 0) BY <3>1
      <4> QED BY <4>1 DEF IsMetric
    <3>2. CASE n # 0
      <4>1. n \in 1..n BY <1>0, <3>2
      <4> QED BY <1>8, <1>9, <4>1
    <3> QED BY <3>1, <3>2
  <2> QED BY <1>9, <2>1
<1>10. CASE r.ok
  <2>1. \A j \in r.next..n : ~IsMetric(w, j)
    <3>1. SUFFICES ASSUME NEW j \in r.next..n, IsMetric(w, j) PROVE FALSE OBVIOUS
    <3>2. j \in 1..n BY <1>0, <1>4, <1>7, <3>1
    <3>3. r.next >= j + 1 BY <1>8, <3>1, <3>2
    <3> QED BY <1>0, <1>7, <3>1, <3>2, <3>3
  <2>2. /\ a.ok /\ a.next > 1 /\ IsComponent(w, 1, a.next - 1)
        /\ a.node = Meaning(w, 1, a.next - 1) /\ ~Occurs(w, 1, a.next - 1, "/")
    BY <1>3, <1>7, <1>10 DEF ComponentRead
  <2>3. CASE MetricTok(w, a.next) # "/"
    <3>1. r = [ok |-> TRUE, node |-> <<a.node>>, next |-> a.next] BY <1>5, <2>2, <2>3 DEF Made
    <3>2. r.next = a.next /\ r.node = <<a.node>> BY <3>1
    <3>3. IsMetric(w, r.next - 1) BY <1>4, <2>2, <3>2 DEF IsMetric
    <3>4. IsMeaning(w, r.next - 1, r.node) BY <2>2, <3>2 DEF IsMeaning
    <3> QED BY <1>10, <2>1, <3>3, <3>4
  <2>4. CASE MetricTok(w, a.next) = "/"
    <3>1. b.ok BY <1>7, <1>10, <2>4
    <3>2. r = [ok |-> TRUE, node |-> <<a.node, b.node>>, next |-> b.next]
      BY <1>5, <2>2, <2>4, <3>1 DEF Made
    <3>3. PICK k, e : k = a.next /\ e = b.next - 1 OBVIOUS
    <3>4. b.next > k + 1 /\ IsComponent(w, k + 1, e) /\ b.node = Meaning(w, k + 1, e)
      BY <1>6, <2>4, <3>1, <3>3 DEF ComponentRead
    <3>5. r.next - 1 = e /\ r.node = <<a.node, b.node>> BY <3>2, <3>3
    <3>6. k \in 2..e - 1 /\ k \in 1..e /\ e \in Nat BY <1>4, <1>6, <2>2, <2>4, <3>3, <3>4
    <3>7. w[k] = "/" BY <1>6, <2>4, <3>3
    <3>8. IsMetric(w, e) BY <2>2, <3>3, <3>4, <3>6, <3>7 DEF IsMetric
    <3>9. r.node = <<Meaning(w, 1, k - 1), Meaning(w, k + 1, e)>> BY <2>2, <3>3, <3>4, <3>5
    <3>10. IsMeaning(w, e, r.node) BY <3>6, <3>7, <3>9 DEF IsMeaning, Occurs
    <3> QED BY <1>10, <2>1, <3>5, <3>8, <3>10
  <2> QED BY <2>3, <2>4
<1> QED BY <1>7, <1>9, <1>10

\* The sample is one of tokens.
\* Of a list of tokens of any length MetricDSLParser reads the longest sentence that it begins
\* with, and makes of it the components, with their filters, that the grammar gives it; it
\* fails only where the tokens are no sentence.
LEMMA MetricsFollowGrammar == ASSUME TokensTyped PROVE MetricsParseByGrammar
<1>1. ASSUME topic = "expression" PROVE MetricsParseByGrammar
  <2>1. PICK r : r = ParseMetric(sample) OBVIOUS
  <2>2. r.ok => Fragments(sample) = r.node BY <2>1 DEF Fragments
  <2>3. IF ~r.ok THEN ~IsMetric(sample, Len(sample))
        ELSE /\ IsMetric(sample, r.next - 1)
             /\ \A j \in r.next..Len(sample) : ~IsMetric(sample, j)
             /\ IsMeaning(sample, r.next - 1, r.node)
    BY <1>1, <2>1, MetricFacts DEF TokensTyped
  <2> QED BY <2>1, <2>2, <2>3 DEF MetricsParseByGrammar
<1> QED BY <1>1 DEF MetricsParseByGrammar

-----------------------------------------------------------------------------
\* Phrases of rules.

LEMMA RuleTokens ==
    ASSUME NEW w \in Seq(TokenTypes), NEW n, n = Len(w)
    PROVE  /\ n \in Nat
           /\ \A i \in 1..n : Tok(w, i) = w[i] /\ w[i] \in TokenTypes
           /\ \A i \in Nat : Tok(w, i) # "EOF" => i \in 1..n
           /\ Tok(w, n + 1) = "EOF"
<1>1. n \in Nat /\ w \in [1..n -> TokenTypes] /\ DOMAIN w = 1..n OBVIOUS
<1>2. \A i \in 1..n : Tok(w, i) = w[i] /\ w[i] \in TokenTypes BY <1>1 DEF Tok
<1>3. \A i : i \notin 1..n => Tok(w, i) = "EOF" BY <1>1 DEF Tok
<1> QED BY <1>1, <1>2, <1>3

DepthStep(d, type) == IF type = "(" THEN d + 1 ELSE IF type = ")" THEN d - 1 ELSE d

LEMMA DepthFacts ==
    ASSUME NEW w \in Seq(TokenTypes)
    PROVE  /\ \A k \in 0..Len(w) : Depth(w)[k] \in Int
           /\ \A k \in 1..Len(w) : Depth(w)[k] = DepthStep(Depth(w)[k - 1], w[k])
<1> DEFINE n == Len(w)
           DepthAt(f, k) == IF k = 0 THEN 0 ELSE DepthStep(f[k - 1], w[k])
           Good(f, m) == f = [k \in 0..n |-> f[k]] /\ \A k \in 0..n : k < m => f[k] = DepthAt(f, k)
           G == {m \in Nat : \E f : Good(f, m)}
<1>0. n \in Nat BY RuleTokens
<1>1. 0 \in G
  <2>1. PICK f : f = [k \in 0..n |-> 0] OBVIOUS
  <2>2. Good(f, 0) BY <1>0, <2>1
  <2> HIDE DEF Good
  <2> QED BY <2>2
<1>2. ASSUME NEW m \in G PROVE m + 1 \in G
  <2>1. PICK f : Good(f, m) OBVIOUS
  <2>2. PICK g : g = [k \in 0..n |-> DepthAt(f, k)] OBVIOUS
  <2>3. \A k \in 0..n : k < m => g[k] = f[k] BY <2>1, <2>2
  <2>4. ASSUME NEW k \in 0..n, k < m + 1 PROVE g[k] = DepthAt(g, k)
    <3>1. g[k] = DepthAt(f, k) BY <2>2
    <3>2. k # 0 => k - 1 \in 0..n /\ k - 1 < m BY <1>0, <2>4
    <3>3. k # 0 => f[k - 1] = g[k - 1] BY <2>3, <3>2
    <3> QED BY <3>1, <3>3
  <2>5. g = [k \in 0..n |-> g[k]] BY <2>2
  <2>6. Good(g, m + 1) BY <2>4, <2>5
  <2>7. m + 1 \in Nat OBVIOUS
  <2> HIDE DEF Good
  <2> QED BY <2>6, <2>7
<1>3. n + 1 \in G
  <2>1. G \in SUBSET Nat OBVIOUS
  <2> HIDE DEF G
  <2> QED BY <1>0, <1>1, <1>2, <2>1, ByNaturals
<1>4. PICK f : Good(f, n + 1) BY <1>3
<1>5. f = [k \in 0..n |-> DepthAt(f, k)]
  <2>1. \A k \in 0..n : f[k] = DepthAt(f, k) BY <1>0, <1>4
  <2>2. f = [k \in 0..n |-> f[k]] BY <1>4
  <2> HIDE DEF Good, G, n, DepthAt
  <2> QED BY ONLY <2>1, <2>2
<1>6. Depth(w) = [k \in 0..n |-> DepthAt(Depth(w), k)]
  <2>1. Depth(w) = CHOOSE h : h = [k \in 0..n |-> DepthAt(h, k)] BY DEF Depth, DepthStep
  <2> HIDE DEF Good, G, n, DepthAt
  <2> QED BY <1>5, <2>1
<1>7. \A k \in 0..n : Depth(w)[k] = IF k = 0 THEN 0 ELSE DepthStep(Depth(w)[k - 1], w[k])
  BY <1>6
<1>8. \A k \in 1..n : Depth(w)[k] = DepthStep(Depth(w)[k - 1], w[k]) BY <1>0, <1>7
<1> DEFINE I == {m \in Nat : m \in 0..n => Depth(w)[m] \in Int}
<1>9. 0 \in I BY <1>0, <1>7
<1>10. ASSUME NEW m \in I PROVE m + 1 \in I
  <2>1. SUFFICES ASSUME m + 1 \in 0..n PROVE Depth(w)[m + 1] \in Int OBVIOUS
  <2>2. PICK k : k = m + 1 OBVIOUS
  <2>3. k \in 1..n /\ k - 1 = m /\ m \in 0..n BY <1>0, <2>1, <2>2
  <2>4. Depth(w)[k] = DepthStep(Depth(w)[m], w[k]) BY <1>8, <2>3
  <2>5. Depth(w)[m] \in Int BY <2>3
  <2>6. Depth(w)[k] \in Int BY <2>4, <2>5 DEF DepthStep
  <2> QED BY <2>2, <2>6
<1>11. I = Nat
  <2>1. I \in SUBSET Nat OBVIOUS
  <2> HIDE DEF I
  <2> QED BY <1>9, <1>10, <2>1, ByNaturals
<1> QED BY <1>8, <1>11

\* The depth after the token at m, where a phrase begins.
LEMMA BalancedFrom ==
    ASSUME NEW d, NEW m \in Nat, NEW j
    PROVE  Balanced(d, m + 1, j) <=> d[j] = d[m] /\ \A k \in m + 1..j : d[k] >= d[m]
<1>1. PICK i : i = m + 1 OBVIOUS
<1>2. i - 1 = m BY <1>1
<1>3. Balanced(d, i, j) <=> d[j] = d[m] /\ \A k \in i..j : d[k] >= d[m] BY <1>2 DEF Balanced
<1> QED BY <1>1, <1>3

\* Tokens and the token after them, from i to j.
Adjoin(w, i, j) == \A k \in i..j - 1 : w[k + 1] \in Followers(w, k)

\* A rule after the token at m.
RuleAfter(w, m, j) ==
    /\ m + 1 <= j /\ w[m + 1] \in Openers /\ Adjoin(w, m + 1, j) /\ "end" \in Followers(w, j)
    /\ Depth(w)[j] = Depth(w)[m] /\ \A k \in m + 1..j : Depth(w)[k] >= Depth(w)[m]

LEMMA RuleIs ==
    ASSUME NEW w, NEW m \in Nat, NEW j
    PROVE  IsRule(w, m + 1, j) <=> RuleAfter(w, m, j)
BY BalancedFrom DEF IsRule, Adjoin, RuleAfter

LEMMA FollowersOfEnd ==
    ASSUME NEW w, NEW k, "end" \in Followers(w, k)
    PROVE  /\ Followers(w, k) = Binary \union {")", "end"}
           /\ w[k] \notin Binary \union {"NOT", "(", "[", "comma"}
BY DEF Followers, Openers, Binary

LEMMA FollowersOfOperator ==
    ASSUME NEW w, NEW k, w[k] \in Binary \union {"NOT", "("}
    PROVE  Followers(w, k) = Openers /\ "end" \notin Openers
BY DEF Followers, Openers, Binary

\* A rule that goes on after a rule goes on with an operator and a rule.
LEMMA RuleGoesOn ==
    ASSUME NEW w \in Seq(TokenTypes), NEW m \in Nat, NEW e \in Nat, NEW j \in Nat, j <= Len(w),
           IsRule(w, m + 1, e), IsRule(w, m + 1, j), e < j
    PROVE  /\ w[e + 1] \in Binary /\ Depth(w)[e + 1] = Depth(w)[m]
           /\ e + 2 <= j /\ IsRule(w, e + 2, j)
<1> DEFINE n == Len(w)
           d == Depth(w)
<1>0. /\ n \in Nat /\ (\A x \in 1..n : w[x] \in TokenTypes)
      /\ (\A k \in 0..n : d[k] \in Int) /\ (\A k \in 1..n : d[k] = DepthStep(d[k - 1], w[k]))
  BY RuleTokens, DepthFacts
<1>1. /\ m + 1 <= e /\ "end" \in Followers(w, e) /\ d[e] = d[m]
      /\ Adjoin(w, m + 1, j) /\ "end" \in Followers(w, j)
      /\ d[j] = d[m] /\ \A k \in m + 1..j : d[k] >= d[m]
  BY RuleIs DEF RuleAfter
<1>2. PICK k : k = e + 1 OBVIOUS
<1>3. k \in Nat /\ k - 1 = e /\ k \in m + 1..j /\ k \in 1..n /\ e \in m + 1..j - 1 BY <1>0, <1>1, <1>2
<1>4. w[k] \in Binary \union {")"}
  <2>1. w[e + 1] \in Followers(w, e) BY <1>1, <1>3 DEF Adjoin
  <2>2. w[k] # "end" BY <1>0, <1>3 DEF TokenTypes
  <2> QED BY <1>1, <1>2, <2>1, <2>2, FollowersOfEnd
<1>5. d[k] = DepthStep(d[e], w[k]) /\ d[k] >= d[m] /\ d[m] \in Int
  <2>1. d[k] = DepthStep(d[k - 1], w[k]) /\ d[k] >= d[m] BY <1>0, <1>1, <1>3
  <2>2. m \in 0..n BY <1>0, <1>1
  <2> QED BY <1>0, <1>3, <2>1, <2>2
<1>6. w[k] # ")" BY <1>1, <1>5 DEF DepthStep
<1>7. w[k] \in Binary /\ d[k] = d[m] BY <1>1, <1>4, <1>5, <1>6 DEF DepthStep, Binary
<1>8. Followers(w, k) = Openers /\ "end" \notin Openers BY <1>7, FollowersOfOperator
<1>9. k # j BY <1>1, <1>8
<1>10. k + 1 <= j /\ k \in m + 1..j - 1 BY <1>3, <1>9
<1>11. w[k + 1] \in Openers BY <1>1, <1>8, <1>10 DEF Adjoin
<1>12. Adjoin(w, k + 1, j) BY <1>1, <1>3 DEF Adjoin
<1>13. \A x \in k + 1..j : d[x] >= d[k] BY <1>1, <1>3, <1>7
<1>14. IsRule(w, k + 1, j) BY <1>1, <1>3, <1>7, <1>10, <1>11, <1>12, <1>13, RuleIs DEF RuleAfter
<1>15. e + 2 = k + 1 BY <1>2
<1> QED BY <1>2, <1>7, <1>10, <1>14, <1>15

\* Rules of rules.

LEMMA RuleAfterNot ==
    ASSUME NEW w \in Seq(TokenTypes), NEW i \in 1..Len(w), NEW j \in 1..Len(w), w[i] = "NOT"
    PROVE  IsRule(w, i, j) <=> IsRule(w, i + 1, j)
<1> DEFINE n == Len(w)
           d == Depth(w)
<1>0. /\ n \in Nat /\ (\A k \in 0..n : d[k] \in Int)
      /\ (\A k \in 1..n : d[k] = DepthStep(d[k - 1], w[k]))
  BY RuleTokens, DepthFacts
<1>1. d[i] = d[i - 1] /\ d[i] \in Int
  <2>1. d[i] = DepthStep(d[i - 1], w[i]) /\ i \in 0..n BY <1>0
  <2> QED BY <1>0, <2>1 DEF DepthStep
<1>2. Followers(w, i) = Openers /\ "end" \notin Openers /\ w[i] \in Openers
  BY FollowersOfOperator DEF Openers
<1>3. IsRule(w, i + 1, j) <=>
        /\ i + 1 <= j /\ w[i + 1] \in Openers /\ Adjoin(w, i + 1, j) /\ "end" \in Followers(w, j)
        /\ d[j] = d[i] /\ \A k \in i + 1..j : d[k] >= d[i]
  <2>1. i \in Nat BY <1>0
  <2>2. IsRule(w, i + 1, j) <=> RuleAfter(w, i, j) BY <2>1, RuleIs
  <2> QED BY <2>2 DEF RuleAfter
<1>4. IsRule(w, i, j) <=>
        /\ i <= j /\ w[i] \in Openers /\ Adjoin(w, i, j) /\ "end" \in Followers(w, j)
        /\ d[j] = d[i - 1] /\ \A k \in i..j : d[k] >= d[i - 1]
  BY DEF IsRule, Balanced, Adjoin
<1>5. ASSUME i + 1 <= j PROVE Adjoin(w, i, j) <=> w[i + 1] \in Openers /\ Adjoin(w, i + 1, j)
  <2>1. i \in i..j - 1 /\ \A k \in i..j - 1 : k = i \/ k \in i + 1..j - 1 BY <1>5
  <2>2. \A k \in i + 1..j - 1 : k \in i..j - 1 OBVIOUS
  <2> QED BY <1>2, <2>1, <2>2 DEF Adjoin
<1>6. "end" \in Followers(w, j) => j # i BY <1>2
<1>7. (\A k \in i..j : d[k] >= d[i]) <=> \A k \in i + 1..j : d[k] >= d[i]
  <2>1. \A k \in i..j : k = i \/ k \in i + 1..j OBVIOUS
  <2>2. \A k \in i + 1..j : k \in i..j OBVIOUS
  <2>3. d[i] >= d[i] BY <1>1
  <2> HIDE DEF d
  <2> QED BY <2>1, <2>2, <2>3
<1>8. i <= j /\ j # i => i + 1 <= j OBVIOUS
<1>9. i + 1 <= j => i <= j OBVIOUS
<1> HIDE DEF d
<1> QED BY <1>1, <1>2, <1>3, <1>4, <1>5, <1>6, <1>7, <1>8, <1>9

LEMMA RuleInBrackets ==
    ASSUME NEW w \in Seq(TokenTypes), NEW i \in 1..Len(w), NEW x \in 1..Len(w),
           w[i] = "(", w[x] = ")", IsRule(w, i + 1, x - 1)
    PROVE  IsRule(w, i, x) /\ \A k \in i..x - 1 : Depth(w)[k] > Depth(w)[i - 1]
<1> DEFINE n == Len(w)
           d == Depth(w)
<1>0. /\ n \in Nat /\ (\A k \in 0..n : d[k] \in Int)
      /\ (\A k \in 1..n : d[k] = DepthStep(d[k - 1], w[k]))
  BY RuleTokens, DepthFacts
<1>1. /\ i + 1 <= x - 1 /\ w[i + 1] \in Openers /\ Adjoin(w, i + 1, x - 1)
      /\ "end" \in Followers(w, x - 1)
      /\ d[x - 1] = d[i] /\ \A k \in i + 1..x - 1 : d[k] >= d[i]
  <2>1. i \in Nat BY <1>0
  <2>2. RuleAfter(w, i, x - 1) BY <2>1, RuleIs
  <2> QED BY <2>2 DEF RuleAfter
<1>2. d[i] = d[i - 1] + 1 /\ d[i - 1] \in Int
  <2>1. d[i] = DepthStep(d[i - 1], w[i]) /\ i - 1 \in 0..n BY <1>0
  <2> QED BY <1>0, <2>1 DEF DepthStep
<1>3. d[x] = d[i - 1]
  <2>1. d[x] = DepthStep(d[x - 1], w[x]) BY <1>0
  <2> QED BY <1>1, <1>2, <2>1 DEF DepthStep
<1>4. Adjoin(w, i, x)
  <2>1. SUFFICES ASSUME NEW k \in i..x - 1 PROVE w[k + 1] \in Followers(w, k) BY DEF Adjoin
  <2>2. CASE k = i BY <1>1, <2>2, FollowersOfOperator
  <2>3. CASE k \in i + 1..x - 1 - 1 BY <1>1, <2>3 DEF Adjoin
  <2>4. CASE k = x - 1
    <3>1. k + 1 = x BY <2>4
    <3> QED BY <1>1, <2>4, <3>1, FollowersOfEnd
  <2> QED BY <2>2, <2>3, <2>4
<1>5. "end" \in Followers(w, x) BY DEF Followers, Binary
<1>6. \A k \in i..x - 1 : d[k] > d[i - 1]
  <2>1. SUFFICES ASSUME NEW k \in i..x - 1 PROVE d[k] > d[i - 1] OBVIOUS
  <2>2. k = i \/ d[k] >= d[i]
    <3>1. k = i \/ k \in i + 1..x - 1 OBVIOUS
    <3> QED BY <1>1, <3>1
  <2>3. d[k] \in Int
    <3>1. k \in 0..n BY <1>0
    <3> QED BY <1>0, <3>1
  <2> QED BY <1>2, <2>2, <2>3
<1>7. \A k \in i..x : d[k] >= d[i - 1]
  <2>1. SUFFICES ASSUME NEW k \in i..x PROVE d[k] >= d[i - 1] OBVIOUS
  <2>2. k = x \/ k \in i..x - 1 OBVIOUS
  <2>3. d[k] \in Int
    <3>1. k \in 0..n BY <1>0
    <3> QED BY <1>0, <3>1
  <2> QED BY <1>2, <1>3, <1>6, <2>2, <2>3
<1>8. i <= x /\ w[i] \in Openers BY <1>1 DEF Openers
<1> QED BY <1>3, <1>4, <1>5, <1>6, <1>7, <1>8 DEF IsRule, Balanced, Adjoin

LEMMA BracketsClose ==
    ASSUME NEW w \in Seq(TokenTypes), NEW i \in 1..Len(w), NEW j \in 1..Len(w),
           w[i] = "(", IsRule(w, i, j)
    PROVE  \E x \in i + 1..j : w[x] = ")" /\ IsRule(w, i + 1, x - 1)
<1> DEFINE n == Len(w)
           d == Depth(w)
           T == {x \in i + 1..j : d[x] = d[i - 1]}
<1>0. /\ n \in Nat /\ (\A k \in 0..n : d[k] \in Int)
      /\ (\A k \in 1..n : d[k] = DepthStep(d[k - 1], w[k]))
  BY RuleTokens, DepthFacts
<1>1. /\ i <= j /\ Adjoin(w, i, j) /\ "end" \in Followers(w, j)
      /\ d[j] = d[i - 1] /\ \A k \in i..j : d[k] >= d[i - 1]
  BY DEF IsRule, Balanced, Adjoin
<1>2. Followers(w, i) = Openers /\ "end" \notin Openers BY FollowersOfOperator
<1>3. i + 1 <= j
  <2>1. i # j BY <1>1, <1>2
  <2> QED BY <1>1, <2>1
<1>4. d[i] = d[i - 1] + 1 /\ d[i - 1] \in Int
  <2>1. d[i] = DepthStep(d[i - 1], w[i]) /\ i - 1 \in 0..n BY <1>0
  <2> QED BY <1>0, <2>1 DEF DepthStep
<1>5. PICK x \in T : \A y \in T : x <= y
  <2>1. T \in SUBSET Nat /\ j \in T BY <1>1, <1>3
  <2> HIDE DEF T
  <2> QED BY <2>1, LeastOf
<1>6. x \in i + 1..j /\ d[x] = d[i - 1] BY <1>5
<1>7. \A y \in i..x - 1 : d[y] >= d[i]
  <2>1. SUFFICES ASSUME NEW y \in i..x - 1 PROVE d[y] >= d[i] OBVIOUS
  <2>2. CASE y = i BY <1>4, <2>2
  <2>3. CASE y \in i + 1..x - 1
    <3>1. y \in i + 1..j /\ y \in 0..n /\ y \in i..j /\ ~(x <= y) BY <1>0, <1>6, <2>3
    <3>2. y \notin T BY <1>5, <3>1
    <3>3. d[y] # d[i - 1] /\ d[y] >= d[i - 1] /\ d[y] \in Int BY <1>0, <1>1, <3>1, <3>2
    <3> QED BY <1>4, <3>3
  <2> QED BY <2>2, <2>3
<1>8. w[i + 1] \in Openers
  <2>1. i \in i..j - 1 BY <1>3
  <2> QED BY <1>1, <1>2, <2>1 DEF Adjoin
<1>9. w[x] = ")" /\ d[x - 1] = d[i]
  <2>1. x \in 1..n /\ x - 1 \in i..x - 1 /\ x - 1 \in 0..n BY <1>0, <1>6
  <2>2. d[x] = DepthStep(d[x - 1], w[x]) /\ d[x - 1] >= d[i] /\ d[x - 1] \in Int
    BY <1>0, <1>7, <2>1
  <2> QED BY <1>4, <1>6, <2>2 DEF DepthStep
<1>10. i + 1 <= x - 1
  <2>1. x # i + 1 BY <1>8, <1>9 DEF Openers
  <2> QED BY <1>6, <2>1
<1>11. "end" \in Followers(w, x - 1)
  <2>1. x - 1 \in i..j - 1 /\ x - 1 + 1 = x BY <1>6, <1>10
  <2>2. w[x] \in Followers(w, x - 1) BY <1>1, <2>1 DEF Adjoin
  <2> QED BY <1>9, <2>2 DEF Followers, Openers
<1>12. Adjoin(w, i + 1, x - 1)
  <2>1. \A k \in i + 1..x - 1 - 1 : k \in i..j - 1 BY <1>6
  <2> QED BY <1>1, <2>1 DEF Adjoin
<1>13. \A y \in i + 1..x - 1 : d[y] >= d[i] BY <1>7
<1>14. IsRule(w, i + 1, x - 1) BY <1>8, <1>9, <1>10, <1>11, <1>12, <1>13, RuleIs DEF RuleAfter
<1> QED BY <1>6, <1>9, <1>14

LEMMA RulesJoin ==
    ASSUME NEW w \in Seq(TokenTypes), NEW i \in 1..Len(w), NEW k \in 1..Len(w), NEW e \in 1..Len(w),
           IsRule(w, i, k - 1), w[k] \in Binary, IsRule(w, k + 1, e)
    PROVE  IsRule(w, i, e) /\ Depth(w)[k] = Depth(w)[i - 1] /\ i < k /\ k < e
<1> DEFINE n == Len(w)
           d == Depth(w)
<1>0. /\ n \in Nat /\ (\A x \in 0..n : d[x] \in Int)
      /\ (\A x \in 1..n : d[x] = DepthStep(d[x - 1], w[x]))
  BY RuleTokens, DepthFacts
<1>1. /\ i <= k - 1 /\ w[i] \in Openers /\ Adjoin(w, i, k - 1) /\ "end" \in Followers(w, k - 1)
      /\ d[k - 1] = d[i - 1] /\ \A x \in i..k - 1 : d[x] >= d[i - 1]
  BY DEF IsRule, Balanced, Adjoin
<1>2. /\ k + 1 <= e /\ w[k + 1] \in Openers /\ Adjoin(w, k + 1, e) /\ "end" \in Followers(w, e)
      /\ d[e] = d[k] /\ \A x \in k + 1..e : d[x] >= d[k]
  <2>1. k \in Nat BY <1>0
  <2>2. RuleAfter(w, k, e) BY <2>1, RuleIs
  <2> QED BY <2>2 DEF RuleAfter
<1>3. d[k] = d[i - 1] /\ d[i - 1] \in Int
  <2>1. d[k] = DepthStep(d[k - 1], w[k]) /\ i - 1 \in 0..n BY <1>0
  <2> QED BY <1>0, <1>1, <2>1 DEF DepthStep, Binary
<1>4. Adjoin(w, i, e)
  <2>1. SUFFICES ASSUME NEW x \in i..e - 1 PROVE w[x + 1] \in Followers(w, x) BY DEF Adjoin
  <2>2. CASE x \in i..k - 1 - 1 BY <1>1, <2>2 DEF Adjoin
  <2>3. CASE x = k - 1
    <3>1. x + 1 = k BY <2>3
    <3> QED BY <1>1, <2>3, <3>1, FollowersOfEnd
  <2>4. CASE x = k BY <1>2, <2>4, FollowersOfOperator
  <2>5. CASE x \in k + 1..e - 1 BY <1>2, <2>5 DEF Adjoin
  <2> QED BY <2>2, <2>3, <2>4, <2>5
<1>5. \A x \in i..e : d[x] >= d[i - 1]
  <2>1. SUFFICES ASSUME NEW x \in i..e PROVE d[x] >= d[i - 1] OBVIOUS
  <2>2. x \in i..k - 1 \/ x = k \/ x \in k + 1..e OBVIOUS
  <2> QED BY <1>1, <1>2, <1>3, <2>2
<1>6. i <= e /\ i < k /\ k < e BY <1>1, <1>2
<1> QED BY <1>1, <1>2, <1>3, <1>4, <1>5, <1>6 DEF IsRule, Balanced, Adjoin

\* Where there are no brackets the depth is the same.
LEMMA FlatDepth ==
    ASSUME NEW w \in Seq(TokenTypes), NEW i \in 1..Len(w), NEW j \in 1..Len(w),
           \A k \in i..j : w[k] \notin {"(", ")"}
    PROVE  \A k \in i..j : Depth(w)[k] = Depth(w)[i - 1]
<1> DEFINE n == Len(w)
           d == Depth(w)
           G == {m \in Nat : i - 1 + m <= j => d[i - 1 + m] = d[i - 1]}
<1>0. n \in Nat /\ (\A x \in 1..n : d[x] = DepthStep(d[x - 1], w[x])) BY RuleTokens, DepthFacts
<1>1. 0 \in G
  <2>1. i - 1 + 0 = i - 1 OBVIOUS
  <2> QED BY <2>1
<1>2. ASSUME NEW m \in G PROVE m + 1 \in G
  <2>1. SUFFICES ASSUME i - 1 + (m + 1) <= j PROVE d[i - 1 + (m + 1)] = d[i - 1] OBVIOUS
  <2>2. PICK x : x = i - 1 + (m + 1) OBVIOUS
  <2>3. x \in i..j /\ x \in 1..n /\ x - 1 = i - 1 + m /\ i - 1 + m <= j BY <1>0, <2>1, <2>2
  <2>4. d[x - 1] = d[i - 1] BY <2>3
  <2>5. d[x] = DepthStep(d[x - 1], w[x]) /\ w[x] \notin {"(", ")"} BY <1>0, <2>3
  <2>6. d[x] = d[i - 1] BY <2>4, <2>5 DEF DepthStep
  <2> QED BY <2>2, <2>6
<1>3. G = Nat
  <2>1. G \in SUBSET Nat OBVIOUS
  <2> HIDE DEF G
  <2> QED BY <1>1, <1>2, <2>1, ByNaturals
<1>4. ASSUME NEW k \in i..j PROVE d[k] = d[i - 1]
  <2>1. PICK m : m = k - (i - 1) OBVIOUS
  <2>2. m \in Nat /\ i - 1 + m = k /\ i - 1 + m <= j BY <2>1
  <2>3. m \in G BY <1>3, <2>2
  <2>4. d[i - 1 + m] = d[i - 1] BY <2>2, <2>3
  <2> QED BY <2>2, <2>4
<1> QED BY <1>4

LEMMA FlatRule ==
    ASSUME NEW w \in Seq(TokenTypes), NEW i \in 1..Len(w), NEW j \in 1..Len(w), i <= j,
           w[i] \in Openers, Adjoin(w, i, j), "end" \in Followers(w, j),
           \A k \in i..j : w[k] \notin {"(", ")"}
    PROVE  IsRule(w, i, j)
<1> DEFINE n == Len(w)
           d == Depth(w)
<1>1. \A k \in i..j : d[k] = d[i - 1] BY FlatDepth
<1>2. d[i - 1] \in Int
  <2>1. n \in Nat /\ (\A x \in 0..n : d[x] \in Int) BY RuleTokens, DepthFacts
  <2>2. i - 1 \in 0..n BY <2>1
  <2> QED BY <2>1, <2>2
<1>3. j \in i..j OBVIOUS
<1>4. \A k \in i..j : d[k] >= d[i - 1] BY <1>1, <1>2
<1>5. d[j] = d[i - 1] BY <1>1, <1>3
<1> QED BY <1>4, <1>5 DEF IsRule, Balanced, Adjoin

\* Collections.

ValuesStep(w, f, i) ==
    IF Tok(w, i) # "value" THEN Failed(i)
    ELSE IF Tok(w, i + 1) = "comma" THEN f[i + 2]
    ELSE IF Tok(w, i + 1) = "]" THEN Parsed({}, i + 2)
    ELSE Failed(i + 1)

LEMMA ValuesRecurs ==
    ASSUME NEW w \in Seq(TokenTypes), NEW i \in 1..Len(w) + 1
    PROVE  ParseValues(w, i) = ValuesStep(w, ValuesFrom(w), i)
<1> DEFINE n == Len(w)
           Good(f, m) == /\ f = [k \in 1..n + 1 |-> f[k]]
                         /\ \A k \in 1..n + 1 : n + 1 - k < m => f[k] = ValuesStep(w, f, k)
           G == {m \in Nat : \E f : Good(f, m)}
<1>0. n \in Nat /\ \A k \in Nat : Tok(w, k) # "EOF" => k \in 1..n BY RuleTokens
<1>1. 0 \in G
  <2>1. PICK f : f = [k \in 1..n + 1 |-> 0] OBVIOUS
  <2>2. Good(f, 0) BY <1>0, <2>1
  <2> HIDE DEF Good
  <2> QED BY <2>2
<1>2. ASSUME NEW m \in G PROVE m + 1 \in G
  <2>1. PICK f : Good(f, m) OBVIOUS
  <2>2. PICK g : g = [k \in 1..n + 1 |-> ValuesStep(w, f, k)] OBVIOUS
  <2>3. \A k \in 1..n + 1 : n + 1 - k < m => g[k] = f[k] BY <2>1, <2>2
  <2>4. ASSUME NEW k \in 1..n + 1, n + 1 - k < m + 1 PROVE g[k] = ValuesStep(w, g, k)
    <3>1. g[k] = ValuesStep(w, f, k) BY <2>2
    <3>2. Tok(w, k + 1) = "comma" => f[k + 2] = g[k + 2]
      <4>1. SUFFICES ASSUME Tok(w, k + 1) = "comma" PROVE f[k + 2] = g[k + 2] OBVIOUS
      <4>2. k + 1 \in Nat /\ Tok(w, k + 1) # "EOF" BY <4>1
      <4>3. k + 1 \in 1..n BY <1>0, <4>2
      <4>4. k + 2 \in 1..n + 1 /\ n + 1 - (k + 2) < m BY <1>0, <2>4, <4>3
      <4> QED BY <2>3, <4>4
    <3> QED BY <3>1, <3>2 DEF ValuesStep
  <2>5. g = [k \in 1..n + 1 |-> g[k]] BY <2>2
  <2>6. Good(g, m + 1) BY <2>4, <2>5
  <2>7. m + 1 \in Nat OBVIOUS
  <2> HIDE DEF Good
  <2> QED BY <2>6, <2>7
<1>3. n + 1 \in G
  <2>1. G \in SUBSET Nat OBVIOUS
  <2> HIDE DEF G
  <2> QED BY <1>0, <1>1, <1>2, <2>1, ByNaturals
<1>4. PICK f : Good(f, n + 1) BY <1>3
<1>5. f = [k \in 1..n + 1 |-> ValuesStep(w, f, k)]
  <2>1. \A k \in 1..n + 1 : f[k] = ValuesStep(w, f, k) BY <1>0, <1>4
  <2>2. f = [k \in 1..n + 1 |-> f[k]] BY <1>4
  <2> HIDE DEF Good, G, n
  <2> QED BY ONLY <2>1, <2>2
<1>6. ValuesFrom(w) = [k \in 1..n + 1 |-> ValuesStep(w, ValuesFrom(w), k)]
  <2>1. ValuesFrom(w) = CHOOSE h : h = [k \in 1..n + 1 |-> ValuesStep(w, h, k)]
    BY DEF ValuesFrom, ValuesStep
  <2> HIDE DEF Good, G, n
  <2> QED BY <1>5, <2>1
<1> QED BY <1>6 DEF ParseValues

\* A method of the parser that begins at i goes on, and not past the end.
Fine(w, i, r) == r.ok \in BOOLEAN /\ r.next \in i..Len(w) + 1 /\ (r.ok => r.next > i)

InCollection == {"value", "comma", "]"}

\* What is read of a collection from i on.
ValuesRead(w, i, r) ==
    /\ Fine(w, i, r)
    /\ r.ok /\ i > 1 /\ w[i - 1] \in {"[", "comma"} =>
         /\ r.tree = {} /\ Adjoin(w, i, r.next - 1) /\ w[i] = "value" /\ w[r.next - 1] = "]"
         /\ \A k \in i..r.next - 1 : w[k] \in InCollection
    /\ ~r.ok /\ i > 1 /\ w[i - 1] \in {"[", "comma"} =>
         \A j \in i..Len(w) : w[i] = "value" /\ Adjoin(w, i, j) => "end" \notin Followers(w, j)

LEMMA ValuesFacts ==
    ASSUME NEW w \in Seq(TokenTypes)
    PROVE  \A i \in 1..Len(w) + 1 : ValuesRead(w, i, ParseValues(w, i))
<1> DEFINE n == Len(w)
           G == {m \in Nat : \A i \in 1..n + 1 : n + 1 - i < m => ValuesRead(w, i, ParseValues(w, i))}
<1>0. /\ n \in Nat /\ \A k \in Nat : Tok(w, k) # "EOF" => k \in 1..n
      /\ \A k \in 1..n : Tok(w, k) = w[k]
  BY RuleTokens
<1>1. 0 \in G BY <1>0
<1>2. ASSUME NEW m \in G PROVE m + 1 \in G
  <2>1. SUFFICES ASSUME NEW i \in 1..n + 1, n + 1 - i < m + 1
                 PROVE  ValuesRead(w, i, ParseValues(w, i))
    BY DEF G
  <2>2. \A j \in 1..n + 1 : j > i => ValuesRead(w, j, ParseValues(w, j)) BY <1>0, <2>1
  <2> HIDE DEF G
  <2>3. PICK r : r = ParseValues(w, i) OBVIOUS
  <2>4. r = ValuesStep(w, ValuesFrom(w), i) BY <2>3, ValuesRecurs
  <2>5. CASE Tok(w, i) # "value"
    <3>1. r = [ok |-> FALSE, next |-> i] BY <2>4, <2>5 DEF ValuesStep, Failed
    <3>2. \A j \in i..n : w[i] # "value" BY <1>0, <2>5
    <3> QED BY <1>0, <2>3, <3>1, <3>2 DEF ValuesRead, Fine
  <2>6. CASE Tok(w, i) = "value"
    <3>1. i \in 1..n /\ w[i] = "value" /\ i + 1 \in Nat /\ i \in Nat
      <4>1. Tok(w, i) # "EOF" BY <2>6
      <4> QED BY <1>0, <2>6, <4>1
    <3>2. i > 1 /\ w[i - 1] \in {"[", "comma"} => Followers(w, i) = {"comma", "]"}
      BY <3>1 DEF Followers, Binary
    <3>3. CASE Tok(w, i + 1) = "comma"
      <4>1. r = ParseValues(w, i + 2) BY <2>4, <2>6, <3>3 DEF ValuesStep, ParseValues
      <4>2. i + 1 \in 1..n /\ w[i + 1] = "comma"
        <5>1. Tok(w, i + 1) # "EOF" BY <3>3
        <5> QED BY <1>0, <3>1, <3>3, <5>1
      <4>3. PICK x : x = i + 2 OBVIOUS
      <4>4. x \in 1..n + 1 /\ x > i /\ x > 1 /\ x - 1 = i + 1 BY <1>0, <4>2, <4>3
      <4>5. w[x - 1] = "comma" BY <4>2, <4>4
      <4>6. ValuesRead(w, x, r) BY <2>2, <4>1, <4>3, <4>4
      <4>7. r.ok \in BOOLEAN /\ r.next \in x..n + 1 /\ (r.ok => r.next > x)
        BY <4>6 DEF ValuesRead, Fine
      <4>8. Fine(w, i, r) BY <1>0, <4>4, <4>7 DEF Fine
      <4>9. Followers(w, i + 1) = {"value"} BY <4>2 DEF Followers, Binary
      <4>10. ASSUME r.ok, i > 1, w[i - 1] \in {"[", "comma"}
             PROVE  /\ r.tree = {} /\ Adjoin(w, i, r.next - 1) /\ w[r.next - 1] = "]"
                    /\ \A k \in i..r.next - 1 : w[k] \in InCollection
        <5>1. /\ r.tree = {} /\ Adjoin(w, x, r.next - 1) /\ w[x] = "value" /\ w[r.next - 1] = "]"
              /\ \A k \in x..r.next - 1 : w[k] \in InCollection
          BY <4>4, <4>5, <4>6, <4>10 DEF ValuesRead
        <5>2. ASSUME NEW k \in i..r.next - 1 - 1 PROVE w[k + 1] \in Followers(w, k)
          <6>1. CASE k = i BY <3>2, <4>2, <4>10, <6>1
          <6>2. CASE k = i + 1
            <7>1. k + 1 = x BY <4>3, <6>2
            <7> QED BY <4>9, <5>1, <6>2, <7>1
          <6>3. CASE k \in x..r.next - 1 - 1 BY <5>1, <6>3 DEF Adjoin
          <6> QED BY <4>3, <6>1, <6>2, <6>3
        <5>3. \A k \in i..r.next - 1 : k = i \/ k = i + 1 \/ k \in x..r.next - 1 BY <4>3
        <5>4. \A k \in i..r.next - 1 : w[k] \in InCollection
          BY <3>1, <4>2, <5>1, <5>3 DEF InCollection
        <5> QED BY <5>1, <5>2, <5>4 DEF Adjoin
      <4>11. ASSUME ~r.ok, i > 1, w[i - 1] \in {"[", "comma"}, NEW j \in i..n,
                    Adjoin(w, i, j), "end" \in Followers(w, j)
             PROVE  FALSE
        <5>1. j # i BY <3>2, <4>11
        <5>2. j # i + 1 BY <4>9, <4>11
        <5>3. j \in x..n /\ i + 1 \in i..j - 1 BY <4>3, <4>11, <5>1, <5>2
        <5>4. w[x] = "value"
          <6>1. w[i + 1 + 1] \in Followers(w, i + 1) BY <4>11, <5>3 DEF Adjoin
          <6>2. i + 1 + 1 = x BY <4>3
          <6> QED BY <4>9, <6>1, <6>2
        <5>5. Adjoin(w, x, j) BY <4>3, <4>11 DEF Adjoin
        <5> QED BY <4>4, <4>5, <4>6, <4>11, <5>3, <5>4, <5>5 DEF ValuesRead
      <4> QED BY <2>3, <3>1, <4>8, <4>10, <4>11 DEF ValuesRead
    <3>4. CASE Tok(w, i + 1) = "]"
      <4>1. r = [ok |-> TRUE, tree |-> {}, next |-> i + 2]
        BY <2>4, <2>6, <3>4 DEF ValuesStep, Parsed
      <4>2. i + 1 \in 1..n /\ w[i + 1] = "]"
        <5>1. Tok(w, i + 1) # "EOF" BY <3>4
        <5> QED BY <1>0, <3>1, <3>4, <5>1
      <4>3. r.ok /\ r.ok \in BOOLEAN /\ r.next = i + 2 /\ r.tree = {} /\ r.next - 1 = i + 1 BY <4>1
      <4>4. Fine(w, i, r) BY <1>0, <4>2, <4>3 DEF Fine
      <4>5. \A k \in i..i + 1 : k = i \/ k = i + 1 OBVIOUS
      <4>6. \A k \in i..i + 1 - 1 : k = i OBVIOUS
      <4>7. \A k \in i..r.next - 1 : w[k] \in InCollection
        BY <3>1, <4>2, <4>3, <4>5 DEF InCollection
      <4>8. i > 1 /\ w[i - 1] \in {"[", "comma"} => Adjoin(w, i, r.next - 1)
        BY <3>2, <4>2, <4>3, <4>6 DEF Adjoin
      <4> QED BY <2>3, <3>1, <4>2, <4>3, <4>4, <4>7, <4>8 DEF ValuesRead
    <3>5. CASE Tok(w, i + 1) \notin {"comma", "]"}
      <4>1. r = [ok |-> FALSE, next |-> i + 1] BY <2>4, <2>6, <3>5 DEF ValuesStep, Failed
      <4>2. ASSUME i > 1, w[i - 1] \in {"[", "comma"}, NEW j \in i..n,
                   Adjoin(w, i, j), "end" \in Followers(w, j)
            PROVE  FALSE
        <5>1. j # i BY <3>2, <4>2
        <5>2. i \in i..j - 1 /\ i + 1 \in 1..n BY <1>0, <4>2, <5>1
        <5>3. w[i + 1] \in {"comma", "]"} BY <3>2, <4>2, <5>2 DEF Adjoin
        <5> QED BY <1>0, <3>5, <5>2, <5>3
      <4>3. ~r.ok /\ r.ok \in BOOLEAN /\ r.next = i + 1 BY <4>1
      <4>4. Fine(w, i, r) BY <1>0, <3>1, <4>3 DEF Fine
      <4> QED BY <2>3, <4>2, <4>3, <4>4 DEF ValuesRead
    <3> QED BY <3>3, <3>4, <3>5
  <2> QED BY <2>5, <2>6
<1>3. G = Nat
  <2>1. G \in SUBSET Nat OBVIOUS
  <2> HIDE DEF G
  <2> QED BY <1>1, <1>2, <2>1, ByNaturals
<1>4. ASSUME NEW i \in 1..n + 1 PROVE ValuesRead(w, i, ParseValues(w, i))
  <2>1. n + 1 - i + 1 \in G
    <3>1. n + 1 - i + 1 \in Nat BY <1>0
    <3> HIDE DEF G
    <3> QED BY <1>3, <3>1
  <2>2. n + 1 - i < n + 1 - i + 1 BY <1>0
  <2> QED BY <2>1, <2>2
<1> QED BY <1>4

\* The levels.

Levels == 1..4
FineAt(w, f, i) == \A L \in Levels : Fine(w, i, f[i][L])

ParseStep(w, f, i) ==
    LET unary == Unary(w, f, i)
        cmp == Operators(w, f, 3, unary)
        conj == Operators(w, f, 2, cmp)
    IN  <<Operators(w, f, 1, conj), conj, cmp, unary>>

LEMMA ParseStepIs ==
    ASSUME NEW w, NEW f, NEW i
    PROVE  /\ ParseStep(w, f, i)[4] = Unary(w, f, i)
           /\ \A L \in 1..3 : ParseStep(w, f, i)[L] = Operators(w, f, L, ParseStep(w, f, i)[L + 1])
<1>1. PICK s : s = ParseStep(w, f, i) OBVIOUS
<1>2. /\ s[4] = Unary(w, f, i) /\ s[3] = Operators(w, f, 3, s[4])
      /\ s[2] = Operators(w, f, 2, s[3]) /\ s[1] = Operators(w, f, 1, s[2])
  BY <1>1 DEF ParseStep
<1>3. \A L \in 1..3 : L = 1 \/ L = 2 \/ L = 3 OBVIOUS
<1>4. \A L \in 1..3 : s[L] = Operators(w, f, L, s[L + 1])
  <2>1. 1 + 1 = 2 /\ 2 + 1 = 3 /\ 3 + 1 = 4 OBVIOUS
  <2> QED BY <1>2, <1>3, <2>1
<1> QED BY <1>1, <1>2, <1>4

LEMMA UnaryFine ==
    ASSUME NEW w \in Seq(TokenTypes), NEW i \in 1..Len(w) + 1, NEW f,
           i \in 1..Len(w) => FineAt(w, f, i + 1)
    PROVE  Fine(w, i, Unary(w, f, i))
<1> DEFINE n == Len(w)
<1>0. n \in Nat /\ \A k \in Nat : Tok(w, k) # "EOF" => k \in 1..n BY RuleTokens
<1>1. PICK r : r = Unary(w, f, i) OBVIOUS
<1>2. PICK arg : arg = f[i + 1][4] OBVIOUS
<1>3. PICK inner : inner = f[i + 1][1] OBVIOUS
<1>4. Tok(w, i) # "EOF" => i \in 1..n /\ Fine(w, i + 1, arg) /\ Fine(w, i + 1, inner)
  BY <1>0, <1>2, <1>3 DEF FineAt, Levels
<1>5. CASE Tok(w, i) = "NOT"
  <2>1. r = IF arg.ok THEN Parsed({<<i, arg.next - 1>>} \union arg.tree, arg.next) ELSE arg
    BY <1>1, <1>2, <1>5 DEF Unary
  <2>2. Fine(w, i + 1, arg) /\ i \in 1..n BY <1>4, <1>5
  <2>3. arg.ok \in BOOLEAN /\ arg.next \in i + 1..n + 1 BY <2>2 DEF Fine
  <2>4. r.ok = arg.ok /\ r.next = arg.next BY <2>1, <2>3 DEF Parsed
  <2> QED BY <1>0, <1>1, <2>2, <2>3, <2>4 DEF Fine
<1>6. CASE Tok(w, i) = "("
  <2>1. r = IF ~inner.ok THEN inner
            ELSE IF Tok(w, inner.next) = ")" THEN Parsed(inner.tree, inner.next + 1)
            ELSE Failed(inner.next)
    BY <1>1, <1>3, <1>6 DEF Unary
  <2>2. Fine(w, i + 1, inner) /\ i \in 1..n BY <1>4, <1>6
  <2>3. inner.ok \in BOOLEAN /\ inner.next \in i + 1..n + 1 /\ inner.next \in Nat
    BY <1>0, <2>2 DEF Fine
  <2>4. \/ r.ok \in BOOLEAN /\ ~r.ok /\ r.next = inner.next
        \/ /\ r.ok \in BOOLEAN /\ r.ok /\ r.next = inner.next + 1
           /\ Tok(w, inner.next) = ")"
    BY <2>1, <2>3 DEF Parsed, Failed
  <2>5. Tok(w, inner.next) = ")" => inner.next \in 1..n
    <3>1. Tok(w, inner.next) = ")" => Tok(w, inner.next) # "EOF" OBVIOUS
    <3> QED BY <1>0, <2>3, <3>1
  <2> QED BY <1>0, <1>1, <2>2, <2>3, <2>4, <2>5 DEF Fine
<1>7. CASE Tok(w, i) = "["
  <2>1. r = IF Tok(w, i + 1) = "]" THEN Parsed({}, i + 2) ELSE ParseValues(w, i + 1)
    BY <1>1, <1>7 DEF Unary
  <2>2. i \in 1..n /\ i + 1 \in 1..n + 1 /\ i + 1 \in Nat BY <1>0, <1>4, <1>7
  <2>3. CASE Tok(w, i + 1) = "]"
    <3>1. i + 1 \in 1..n
      <4>1. Tok(w, i + 1) # "EOF" BY <2>3
      <4> QED BY <1>0, <2>2, <4>1
    <3>2. r.ok \in BOOLEAN /\ r.next = i + 2 BY <2>1, <2>3 DEF Parsed
    <3> QED BY <1>0, <1>1, <2>2, <3>1, <3>2 DEF Fine
  <2>4. CASE Tok(w, i + 1) # "]"
    <3>1. Fine(w, i + 1, r) BY <2>1, <2>2, <2>4, ValuesFacts DEF ValuesRead
    <3> QED BY <1>0, <1>1, <2>2, <3>1 DEF Fine
  <2> QED BY <2>3, <2>4
<1>8. CASE Tok(w, i) \in {"name", "value"}
  <2>1. r = [ok |-> TRUE, tree |-> {}, next |-> i + 1] BY <1>1, <1>8 DEF Unary, Parsed
  <2>2. r.ok \in BOOLEAN /\ r.next = i + 1 BY <2>1
  <2> QED BY <1>0, <1>1, <1>4, <1>8, <2>2 DEF Fine
<1>9. CASE Tok(w, i) \notin Openers
  <2>1. r = [ok |-> FALSE, next |-> i] BY <1>1, <1>9 DEF Unary, Failed, Openers
  <2>2. r.ok \in BOOLEAN /\ ~r.ok /\ r.next = i BY <2>1
  <2> QED BY <1>0, <1>1, <2>2 DEF Fine
<1> QED BY <1>5, <1>6, <1>7, <1>8, <1>9 DEF Openers

LEMMA OperatorsFine ==
    ASSUME NEW w \in Seq(TokenTypes), NEW i \in 1..Len(w) + 1, NEW f, NEW L \in 1..3, NEW o,
           Fine(w, i, o), o.ok /\ o.next \in 1..Len(w) => FineAt(w, f, o.next + 1)
    PROVE  Fine(w, i, Operators(w, f, L, o))
<1> DEFINE n == Len(w)
<1>0. n \in Nat /\ \A k \in Nat : Tok(w, k) # "EOF" => k \in 1..n BY RuleTokens
<1>1. PICK r : r = Operators(w, f, L, o) OBVIOUS
<1>2. PICK rest : rest = f[o.next + 1][L] OBVIOUS
<1>3. o.ok \in BOOLEAN /\ o.next \in i..n + 1 /\ o.next \in Nat /\ (o.ok => o.next > i)
  BY <1>0 DEF Fine
<1>4. CASE ~o.ok \/ Tok(w, o.next) # OperatorOf[L]
  <2>1. r = o BY <1>1, <1>4 DEF Operators
  <2> QED BY <1>1, <2>1
<1>5. CASE o.ok /\ Tok(w, o.next) = OperatorOf[L]
  <2>1. Tok(w, o.next) # "EOF"
    <3>1. L = 1 \/ L = 2 \/ L = 3 OBVIOUS
    <3> QED BY <1>5, <3>1 DEF OperatorOf
  <2>2. o.next \in 1..n BY <1>0, <1>3, <2>1
  <2>3. Fine(w, o.next + 1, rest)
    <3>1. FineAt(w, f, o.next + 1) /\ L \in Levels BY <1>5, <2>2 DEF Levels
    <3> QED BY <1>2, <3>1 DEF FineAt
  <2>4. rest.ok \in BOOLEAN /\ rest.next \in o.next + 1..n + 1 BY <2>3 DEF Fine
  <2>5. r = IF ~rest.ok THEN rest
            ELSE Parsed(o.tree \union {<<o.next, f[o.next + 1][L + 1].next - 1>>} \union rest.tree,
                        rest.next)
    BY <1>1, <1>2, <1>5 DEF Operators
  <2>6. r.ok = rest.ok /\ r.next = rest.next BY <2>4, <2>5 DEF Parsed
  <2>7. r.next > i /\ r.next \in i..n + 1 BY <1>0, <1>3, <2>4, <2>6
  <2> QED BY <1>1, <2>4, <2>6, <2>7 DEF Fine
<1> QED BY <1>3, <1>4, <1>5

LEMMA StepFine ==
    ASSUME NEW w \in Seq(TokenTypes), NEW i \in 1..Len(w) + 1, NEW f,
           \A k \in 1..Len(w) + 1 : k > i => FineAt(w, f, k)
    PROVE  \A L \in Levels : Fine(w, i, ParseStep(w, f, i)[L])
<1> DEFINE n == Len(w)
<1>0. n \in Nat BY RuleTokens
<1>1. PICK s : s = ParseStep(w, f, i) OBVIOUS
<1>2. Fine(w, i, s[4])
  <2>1. i \in 1..n => FineAt(w, f, i + 1)
    <3>1. i \in 1..n => i + 1 \in 1..n + 1 /\ i + 1 > i BY <1>0
    <3> QED BY <3>1
  <2>2. Fine(w, i, Unary(w, f, i)) BY <2>1, UnaryFine
  <2> QED BY <1>1, <2>2, ParseStepIs
<1>3. ASSUME NEW L \in 1..3, Fine(w, i, s[L + 1]) PROVE Fine(w, i, s[L])
  <2>1. PICK o : o = s[L + 1] OBVIOUS
  <2>2. Fine(w, i, o) BY <1>3, <2>1
  <2>3. o.ok /\ o.next \in 1..n => FineAt(w, f, o.next + 1)
    <3>1. o.ok /\ o.next \in 1..n => o.next + 1 \in 1..n + 1 /\ o.next + 1 > i BY <1>0, <2>2 DEF Fine
    <3> QED BY <3>1
  <2>4. Fine(w, i, Operators(w, f, L, o)) BY <2>2, <2>3, OperatorsFine
  <2>5. s[L] = Operators(w, f, L, o) BY <1>1, <2>1, ParseStepIs
  <2> QED BY <2>4, <2>5
<1>4. Fine(w, i, s[3])
  <2>1. 3 \in 1..3 /\ 3 + 1 = 4 OBVIOUS
  <2> QED BY <1>2, <1>3, <2>1
<1>5. Fine(w, i, s[2])
  <2>1. 2 \in 1..3 /\ 2 + 1 = 3 OBVIOUS
  <2> QED BY <1>3, <1>4, <2>1
<1>6. Fine(w, i, s[1])
  <2>1. 1 \in 1..3 /\ 1 + 1 = 2 OBVIOUS
  <2> QED BY <1>3, <1>5, <2>1
<1>7. \A L \in Levels : L = 1 \/ L = 2 \/ L = 3 \/ L = 4 BY DEF Levels
<1> QED BY <1>1, <1>2, <1>4, <1>5, <1>6, <1>7

LEMMA StepAgrees ==
    ASSUME NEW w \in Seq(TokenTypes), NEW i \in 1..Len(w) + 1, NEW f, NEW g,
           \A k \in 1..Len(w) + 1 : k > i => FineAt(w, f, k) /\ f[k] = g[k]
    PROVE  ParseStep(w, f, i) = ParseStep(w, g, i)
<1> DEFINE n == Len(w)
<1>0. n \in Nat /\ \A k \in Nat : Tok(w, k) # "EOF" => k \in 1..n BY RuleTokens
<1>1. PICK s : s = ParseStep(w, f, i) OBVIOUS
<1>2. \A L \in Levels : Fine(w, i, s[L]) BY <1>1, StepFine
<1>3. Unary(w, f, i) = Unary(w, g, i)
  <2>1. CASE Tok(w, i) = "EOF" BY <2>1 DEF Unary
  <2>2. CASE Tok(w, i) # "EOF"
    <3>1. i \in 1..n BY <1>0, <2>2
    <3>2. i + 1 \in 1..n + 1 /\ i + 1 > i BY <1>0, <3>1
    <3>3. f[i + 1] = g[i + 1] BY <3>2
    <3> QED BY <3>3 DEF Unary
  <2> QED BY <2>1, <2>2
<1>4. ASSUME NEW L \in 1..3 PROVE Operators(w, f, L, s[L + 1]) = Operators(w, g, L, s[L + 1])
  <2>1. PICK o : o = s[L + 1] OBVIOUS
  <2>2. Fine(w, i, o)
    <3>1. L + 1 \in Levels BY SMTT(30) DEF Levels
    <3> QED BY <1>2, <2>1, <3>1
  <2>3. CASE ~o.ok \/ Tok(w, o.next) # OperatorOf[L] BY <2>1, <2>3 DEF Operators
  <2>4. CASE o.ok /\ Tok(w, o.next) = OperatorOf[L]
    <3>1. Tok(w, o.next) # "EOF"
      <4>1. L = 1 \/ L = 2 \/ L = 3 OBVIOUS
      <4> QED BY <2>4, <4>1 DEF OperatorOf
    <3>2. o.next \in Nat /\ o.next > i BY <1>0, <2>2, <2>4 DEF Fine
    <3>3. o.next \in 1..n BY <1>0, <3>1, <3>2
    <3>4. o.next + 1 \in 1..n + 1 /\ o.next + 1 > i BY <1>0, <3>2, <3>3
    <3>5. f[o.next + 1] = g[o.next + 1] BY <3>4
    <3> QED BY <2>1, <3>5 DEF Operators
  <2> QED BY <2>2, <2>3, <2>4 DEF Fine
<1>5. PICK t : t = ParseStep(w, g, i) OBVIOUS
<1>6. /\ s = <<s[1], s[2], s[3], s[4]>> /\ t = <<t[1], t[2], t[3], t[4]>>
  <2>1. s = <<s[1], s[2], s[3], s[4]>> BY <1>1 DEF ParseStep
  <2>2. t = <<t[1], t[2], t[3], t[4]>> BY <1>5 DEF ParseStep
  <2> QED BY <2>1, <2>2
<1>7. s[4] = t[4] BY <1>1, <1>3, <1>5, ParseStepIs
<1>8. \A L \in 1..3 : s[L + 1] = t[L + 1] => s[L] = t[L]
  <2>1. \A L \in 1..3 : s[L] = Operators(w, f, L, s[L + 1]) BY <1>1, ParseStepIs
  <2>2. \A L \in 1..3 : t[L] = Operators(w, g, L, t[L + 1]) BY <1>5, ParseStepIs
  <2> QED BY <1>4, <2>1, <2>2
<1>9. s[3] = t[3]
  <2>1. 3 \in 1..3 /\ 3 + 1 = 4 OBVIOUS
  <2> QED BY <1>7, <1>8, <2>1
<1>10. s[2] = t[2]
  <2>1. 2 \in 1..3 /\ 2 + 1 = 3 OBVIOUS
  <2> QED BY <1>8, <1>9, <2>1
<1>11. s[1] = t[1]
  <2>1. 1 \in 1..3 /\ 1 + 1 = 2 OBVIOUS
  <2> QED BY <1>8, <1>10, <2>1
<1> QED BY <1>1, <1>5, <1>6, <1>7, <1>9, <1>10, <1>11

LEMMA ParseRecurs ==
    ASSUME NEW w \in Seq(TokenTypes), NEW i \in 1..Len(w) + 1
    PROVE  ParseFrom(w)[i] = ParseStep(w, ParseFrom(w), i) /\ FineAt(w, ParseFrom(w), i)
<1> DEFINE n == Len(w)
           Good(f, m) == /\ f = [k \in 1..n + 1 |-> f[k]]
                         /\ \A k \in 1..n + 1 :
                              n + 1 - k < m => f[k] = ParseStep(w, f, k) /\ FineAt(w, f, k)
           G == {m \in Nat : \E f : Good(f, m)}
<1>0. n \in Nat BY RuleTokens
<1>1. 0 \in G
  <2>1. PICK f : f = [k \in 1..n + 1 |-> 0] OBVIOUS
  <2>2. Good(f, 0) BY <1>0, <2>1
  <2> HIDE DEF Good
  <2> QED BY <2>2
<1>2. ASSUME NEW m \in G PROVE m + 1 \in G
  <2>1. PICK f : Good(f, m) OBVIOUS
  <2>2. PICK g : g = [k \in 1..n + 1 |-> ParseStep(w, f, k)] OBVIOUS
  <2>3. \A k \in 1..n + 1 : n + 1 - k < m => f[k] = g[k] /\ FineAt(w, f, k) BY <2>1, <2>2
  <2>4. ASSUME NEW k \in 1..n + 1, n + 1 - k < m + 1
        PROVE  g[k] = ParseStep(w, g, k) /\ FineAt(w, g, k)
    <3>1. g[k] = ParseStep(w, f, k) BY <2>2
    <3>2. \A x \in 1..n + 1 : x > k => FineAt(w, f, x) /\ f[x] = g[x]
      <4>1. \A x \in 1..n + 1 : x > k => n + 1 - x < m BY <1>0, <2>4
      <4> QED BY <2>3, <4>1
    <3> HIDE DEF G, Good
    <3>3. ParseStep(w, f, k) = ParseStep(w, g, k) BY <3>2, StepAgrees
    <3>4. \A L \in Levels : Fine(w, k, ParseStep(w, f, k)[L]) BY <3>2, StepFine
    <3> QED BY <3>1, <3>3, <3>4 DEF FineAt
  <2>5. g = [k \in 1..n + 1 |-> g[k]] BY <2>2
  <2>6. Good(g, m + 1) BY <2>4, <2>5
  <2>7. m + 1 \in Nat OBVIOUS
  <2> HIDE DEF Good
  <2> QED BY <2>6, <2>7
<1>3. n + 1 \in G
  <2>1. G \in SUBSET Nat OBVIOUS
  <2> HIDE DEF G
  <2> QED BY <1>0, <1>1, <1>2, <2>1, ByNaturals
<1>4. PICK f : Good(f, n + 1) BY <1>3
<1>5. f = [k \in 1..n + 1 |-> ParseStep(w, f, k)]
  <2>1. \A k \in 1..n + 1 : f[k] = ParseStep(w, f, k) BY <1>0, <1>4
  <2>2. f = [k \in 1..n + 1 |-> f[k]] BY <1>4
  <2> HIDE DEF Good, G, n
  <2> QED BY ONLY <2>1, <2>2
<1>6. ParseFrom(w) = [k \in 1..n + 1 |-> ParseStep(w, ParseFrom(w), k)]
  <2>1. ParseFrom(w) = CHOOSE h : h = [k \in 1..n + 1 |-> ParseStep(w, h, k)]
    BY DEF ParseFrom, ParseStep
  <2> HIDE DEF Good, G, n
  <2> QED BY <1>5, <2>1
<1>7. \A k \in 1..n + 1 : ParseFrom(w)[k] = ParseStep(w, ParseFrom(w), k)
  <2> HIDE DEF Good, G
  <2> QED BY <1>6
<1> HIDE DEF Good, G
<1> DEFINE I == {m \in Nat : \A k \in 1..n + 1 : n + 1 - k < m => FineAt(w, ParseFrom(w), k)}
<1>8. 0 \in I BY <1>0
<1>9. ASSUME NEW m \in I PROVE m + 1 \in I
  <2>1. SUFFICES ASSUME NEW k \in 1..n + 1, n + 1 - k < m + 1 PROVE FineAt(w, ParseFrom(w), k)
    BY DEF I
  <2>2. \A x \in 1..n + 1 : x > k => FineAt(w, ParseFrom(w), x) BY <1>0, <2>1
  <2> HIDE DEF I
  <2>3. \A L \in Levels : Fine(w, k, ParseStep(w, ParseFrom(w), k)[L]) BY <2>2, StepFine
  <2>4. ParseFrom(w)[k] = ParseStep(w, ParseFrom(w), k) BY <1>7
  <2> QED BY <2>3, <2>4 DEF FineAt
<1>10. n + 2 \in I
  <2>1. I \in SUBSET Nat OBVIOUS
  <2> HIDE DEF I
  <2>2. I = Nat BY <1>8, <1>9, <2>1, ByNaturals
  <2> QED BY <1>0, <2>2
<1>11. FineAt(w, ParseFrom(w), i)
  <2>1. n + 1 - i < n + 2 BY <1>0
  <2> QED BY <1>10, <2>1
<1> QED BY <1>7, <1>11

\* The binary operators of a level and those that bind tighter.
AtLeast(L) ==
    IF L = 1 THEN Binary ELSE IF L = 2 THEN {"AND", "cmp"} ELSE IF L = 3 THEN {"cmp"} ELSE {}

LEMMA LevelFacts ==
    /\ AtLeast(1) = Binary /\ AtLeast(4) = {} /\ \A type : <<type, "NOT">> \notin Tighter
    /\ \A L \in 1..3 : /\ OperatorOf[L] \in Binary
                       /\ AtLeast(L) = AtLeast(L + 1) \union {OperatorOf[L]}
                       /\ \A type : <<type, OperatorOf[L]>> \in Tighter <=> type \in AtLeast(L + 1)
<1>1. AtLeast(1) = Binary /\ AtLeast(4) = {} BY DEF AtLeast
<1>2. \A type : <<type, "NOT">> \notin Tighter BY DEF Tighter
<1>3. ASSUME NEW L \in 1..3
      PROVE  /\ OperatorOf[L] \in Binary
             /\ AtLeast(L) = AtLeast(L + 1) \union {OperatorOf[L]}
             /\ \A type : <<type, OperatorOf[L]>> \in Tighter <=> type \in AtLeast(L + 1)
  <2>1. L = 1 \/ L = 2 \/ L = 3 OBVIOUS
  <2>2. OperatorOf[1] = "OR" /\ OperatorOf[2] = "AND" /\ OperatorOf[3] = "cmp" BY DEF OperatorOf
  <2>3. /\ AtLeast(1) = {"OR", "AND", "cmp"} /\ AtLeast(2) = {"AND", "cmp"}
        /\ AtLeast(3) = {"cmp"} /\ AtLeast(4) = {}
    BY DEF AtLeast, Binary
  <2>4. 1 + 1 = 2 /\ 2 + 1 = 3 /\ 3 + 1 = 4 OBVIOUS
  <2>5. AtLeast(L) = AtLeast(L + 1) \union {OperatorOf[L]} BY <2>1, <2>2, <2>3, <2>4
  <2>6. \A type : <<type, OperatorOf[L]>> \in Tighter <=> type \in AtLeast(L + 1)
    BY <2>1, <2>2, <2>3, <2>4 DEF Tighter
  <2> QED BY <2>1, <2>2, <2>5, <2>6 DEF Binary
<1> QED BY <1>1, <1>2, <1>3

\* A rule may begin here.
Begins(w, i) == i = 1 \/ w[i - 1] \in Binary \union {"NOT", "("}

LEMMA BeginsAfter ==
    ASSUME NEW w, NEW m \in Nat, w[m] \in Binary \union {"NOT", "("}
    PROVE  Begins(w, m + 1)
<1>1. PICK i : i = m + 1 OBVIOUS
<1>2. i - 1 = m BY <1>1
<1>3. Begins(w, i) BY <1>2 DEF Begins
<1> QED BY <1>1, <1>3

\* The binary operators outside the brackets of a rule are of these types.
Outermost(w, i, j, types) ==
    \A x \in i..j : w[x] \in Binary /\ Depth(w)[x] = Depth(w)[i - 1] => w[x] \in types

LEMMA OutermostAfter ==
    ASSUME NEW w, NEW m \in Nat, NEW j, NEW types, Outermost(w, m + 1, j, types)
    PROVE  \A x \in m + 1..j : w[x] \in Binary /\ Depth(w)[x] = Depth(w)[m] => w[x] \in types
<1>1. PICK i : i = m + 1 OBVIOUS
<1>2. i - 1 = m BY <1>1
<1>3. \A x \in i..j : w[x] \in Binary /\ Depth(w)[x] = Depth(w)[m] => w[x] \in types
  BY <1>1, <1>2 DEF Outermost
<1> QED BY <1>1, <1>3

IsOperator(w, k) == w[k] \in Binary \union {"NOT"}

\* Each operator of the rule is in the tree, with its right operand.
IsTree(w, i, j, tree) ==
    /\ \A p \in tree : /\ p[1] \in i..j /\ p[2] \in i..j /\ p = <<p[1], p[2]>>
                       /\ IsOperator(w, p[1]) /\ TakesTo(w, p[1], p[2])
    /\ \A k \in i..j : IsOperator(w, k) => \E e : <<k, e>> \in tree

LEMMA TreesJoin ==
    ASSUME NEW w, NEW i \in Nat, NEW k \in Nat, NEW j \in Nat, NEW e \in i..j, i <= k, k <= j,
           NEW s, NEW t, IsTree(w, i, k - 1, s), IsTree(w, k + 1, j, t),
           IsOperator(w, k), TakesTo(w, k, e)
    PROVE  IsTree(w, i, j, s \union {<<k, e>>} \union t)
<1> DEFINE all == s \union {<<k, e>>} \union t
<1>1. ASSUME NEW p \in all
      PROVE  /\ p[1] \in i..j /\ p[2] \in i..j /\ p = <<p[1], p[2]>>
             /\ IsOperator(w, p[1]) /\ TakesTo(w, p[1], p[2])
  <2>1. CASE p \in s
    <3>1. /\ p[1] \in i..k - 1 /\ p[2] \in i..k - 1 /\ p = <<p[1], p[2]>>
          /\ IsOperator(w, p[1]) /\ TakesTo(w, p[1], p[2])
      BY <2>1 DEF IsTree
    <3> QED BY <3>1
  <2>2. CASE p \in t
    <3>1. /\ p[1] \in k + 1..j /\ p[2] \in k + 1..j /\ p = <<p[1], p[2]>>
          /\ IsOperator(w, p[1]) /\ TakesTo(w, p[1], p[2])
      BY <2>2 DEF IsTree
    <3> QED BY <3>1
  <2>3. CASE p = <<k, e>>
    <3>1. p[1] = k /\ p[2] = e BY <2>3
    <3> QED BY <2>3, <3>1
  <2> QED BY <2>1, <2>2, <2>3
<1>2. ASSUME NEW x \in i..j, IsOperator(w, x) PROVE \E y : <<x, y>> \in all
  <2>1. x \in i..k - 1 \/ x = k \/ x \in k + 1..j OBVIOUS
  <2>2. x \in i..k - 1 => \E y : <<x, y>> \in s BY <1>2 DEF IsTree
  <2>3. x \in k + 1..j => \E y : <<x, y>> \in t BY <1>2 DEF IsTree
  <2>4. <<k, e>> \in all OBVIOUS
  <2> QED BY <2>1, <2>2, <2>3, <2>4
<1> HIDE DEF all
<1>3. IsTree(w, i, j, all) BY <1>1, <1>2 DEF IsTree
<1> QED BY <1>3 DEF all

LEMMA NoOperators ==
    ASSUME NEW w, NEW i, NEW j, \A k \in i..j : ~IsOperator(w, k)
    PROVE  IsTree(w, i, j, {})
BY DEF IsTree

\* What a level makes of the tokens from i on.
LevelRead(w, i, L, r) ==
    /\ r.ok => /\ IsRule(w, i, r.next - 1) /\ Tok(w, r.next) \notin AtLeast(L)
               /\ Outermost(w, i, r.next - 1, AtLeast(L))
               /\ IsTree(w, i, r.next - 1, r.tree)
    /\ ~r.ok => \A j \in i..Len(w) : IsRule(w, i, j) => Tok(w, j + 1) \in Binary

LEMMA NotRead ==
    ASSUME NEW w \in Seq(TokenTypes), NEW i \in 1..Len(w), w[i] = "NOT", NEW arg,
           Fine(w, i + 1, arg), LevelRead(w, i + 1, 4, arg), NEW r,
           r = IF arg.ok THEN Parsed({<<i, arg.next - 1>>} \union arg.tree, arg.next) ELSE arg
    PROVE  LevelRead(w, i, 4, r)
<1> DEFINE n == Len(w)
<1>0. /\ n \in Nat /\ (\A k \in 0..n : Depth(w)[k] \in Int)
      /\ (\A k \in 1..n : Depth(w)[k] = DepthStep(Depth(w)[k - 1], w[k]))
  BY RuleTokens, DepthFacts
<1>1. arg.ok \in BOOLEAN /\ arg.next \in i + 1..n + 1 BY DEF Fine
<1>2. CASE ~arg.ok
  <2>1. r = arg BY <1>2
  <2>2. ASSUME NEW j \in i..n, IsRule(w, i, j) PROVE Tok(w, j + 1) \in Binary
    <3>1. j \in 1..n BY <1>0
    <3>2. IsRule(w, i + 1, j) BY <2>2, <3>1, RuleAfterNot
    <3>3. i + 1 <= j BY <3>2 DEF IsRule
    <3>4. j \in i + 1..n BY <3>1, <3>3
    <3> QED BY <1>2, <3>2, <3>4 DEF LevelRead
  <2> QED BY <1>2, <2>1, <2>2 DEF LevelRead
<1>3. CASE arg.ok
  <2>1. PICK e : e = arg.next - 1 OBVIOUS
  <2>2. r = [ok |-> TRUE, tree |-> {<<i, e>>} \union arg.tree, next |-> arg.next]
    BY <1>3, <2>1 DEF Parsed
  <2>3. r.ok /\ r.tree = {<<i, e>>} \union arg.tree /\ r.next - 1 = e
    <3>1. PICK t : t = {<<i, e>>} \union arg.tree OBVIOUS
    <3>2. PICK x : x = arg.next OBVIOUS
    <3>3. r = [ok |-> TRUE, tree |-> t, next |-> x] BY <2>2, <3>1, <3>2, Zenon
    <3>4. r.ok /\ r.tree = t /\ r.next = x BY ONLY <3>3
    <3>5. r.next - 1 = e BY <2>1, <3>2, <3>4
    <3> QED BY <3>1, <3>4, <3>5, Zenon
  <2>4. /\ IsRule(w, i + 1, e) /\ Outermost(w, i + 1, e, AtLeast(4)) /\ IsTree(w, i + 1, e, arg.tree)
    BY <1>3, <2>1 DEF LevelRead
  <2>5. i + 1 <= e BY <2>4 DEF IsRule
  <2>6. e \in 1..n /\ e \in i..e /\ e \in Nat /\ i \in Nat BY <1>0, <1>1, <2>1, <2>5
  <2>7. IsRule(w, i, e) BY <2>4, <2>6, RuleAfterNot
  <2>8. AtLeast(4) = {} /\ \A type : <<type, "NOT">> \notin Tighter BY LevelFacts
  <2>9. \A x \in i + 1..e : ~(w[x] \in Binary /\ Depth(w)[x] = Depth(w)[i])
    BY <2>4, <2>6, <2>8, OutermostAfter
  <2>10. Depth(w)[i] = Depth(w)[i - 1]
    <3>1. Depth(w)[i] = DepthStep(Depth(w)[i - 1], w[i]) BY <1>0
    <3> QED BY <3>1 DEF DepthStep
  <2>11. Outermost(w, i, e, AtLeast(4))
    <3>1. \A x \in i..e : x = i \/ x \in i + 1..e OBVIOUS
    <3> QED BY <2>9, <2>10, <3>1 DEF Outermost, Binary
  <2>12. TakesTo(w, i, e) BY <2>4, <2>8, <2>9 DEF TakesTo
  <2>13. IsTree(w, i, e, r.tree)
    <3>1. IsTree(w, i, i - 1, {})
      <4>1. \A k \in i..i - 1 : ~IsOperator(w, k) OBVIOUS
      <4> QED BY <4>1, NoOperators
    <3>2. IsOperator(w, i) BY DEF IsOperator
    <3>3. i <= i /\ i <= e BY <2>6
    <3>4. IsTree(w, i, e, {} \union {<<i, e>>} \union arg.tree)
      BY <2>4, <2>6, <2>12, <3>1, <3>2, <3>3, TreesJoin
    <3>5. {} \union {<<i, e>>} \union arg.tree = r.tree BY <2>3
    <3> QED BY <3>4, <3>5
  <2>14. Tok(w, r.next) \notin AtLeast(4) BY <2>8
  <2> QED BY <2>3, <2>7, <2>11, <2>13, <2>14 DEF LevelRead
<1> QED BY <1>1, <1>2, <1>3

LEMMA BracketsRead ==
    ASSUME NEW w \in Seq(TokenTypes), NEW i \in 1..Len(w), w[i] = "(", NEW inner,
           Fine(w, i + 1, inner), LevelRead(w, i + 1, 1, inner), NEW r,
           r = IF ~inner.ok THEN inner
               ELSE IF Tok(w, inner.next) = ")" THEN Parsed(inner.tree, inner.next + 1)
               ELSE Failed(inner.next)
    PROVE  LevelRead(w, i, 4, r)
<1> DEFINE n == Len(w)
<1>0. /\ n \in Nat /\ (\A k \in Nat : Tok(w, k) # "EOF" => k \in 1..n)
      /\ \A k \in 1..n : Tok(w, k) = w[k]
  BY RuleTokens
<1>1. inner.ok \in BOOLEAN /\ inner.next \in i + 1..n + 1 /\ inner.next \in Nat /\ i \in Nat
  BY <1>0 DEF Fine
<1>2. AtLeast(1) = Binary /\ AtLeast(4) = {} BY LevelFacts
<1>3. CASE inner.ok /\ Tok(w, inner.next) = ")"
  <2>1. PICK x : x = inner.next OBVIOUS
  <2>2. x \in 1..n /\ w[x] = ")"
    <3>1. Tok(w, x) # "EOF" BY <1>3, <2>1
    <3> QED BY <1>0, <1>1, <1>3, <2>1, <3>1
  <2>3. r = [ok |-> TRUE, tree |-> inner.tree, next |-> x + 1] BY <1>3, <2>1 DEF Parsed
  <2>4. r.ok /\ r.tree = inner.tree /\ r.next - 1 = x BY <1>1, <2>1, <2>3
  <2>5. IsRule(w, i + 1, x - 1) /\ IsTree(w, i + 1, x - 1, inner.tree)
    BY <1>3, <2>1 DEF LevelRead
  <2>6. IsRule(w, i, x) /\ \A k \in i..x - 1 : Depth(w)[k] > Depth(w)[i - 1]
    BY <2>2, <2>5, RuleInBrackets
  <2>7. Outermost(w, i, x, AtLeast(4))
    <3>1. SUFFICES ASSUME NEW k \in i..x, w[k] \in Binary, Depth(w)[k] = Depth(w)[i - 1] PROVE FALSE
      BY DEF Outermost
    <3>2. k # x BY <2>2, <3>1 DEF Binary
    <3>3. k \in i..x - 1 /\ i - 1 \in 0..n BY <1>0, <2>2, <3>2
    <3>4. Depth(w)[k] > Depth(w)[i - 1] BY <2>6, <3>3
    <3>5. Depth(w)[i - 1] \in Int BY <3>3, DepthFacts
    <3> QED BY <3>1, <3>4, <3>5
  <2>8. IsTree(w, i, x, r.tree)
    <3>1. \A k \in i..x : IsOperator(w, k) => k \in i + 1..x - 1
      <4>1. \A k \in i..x : k = i \/ k = x \/ k \in i + 1..x - 1 BY <2>2
      <4> QED BY <2>2, <4>1 DEF IsOperator, Binary
    <3>2. \A k \in i + 1..x - 1 : k \in i..x BY <1>0, <1>1, <2>2
    <3> QED BY <2>4, <2>5, <3>1, <3>2 DEF IsTree
  <2> QED BY <1>2, <2>4, <2>6, <2>7, <2>8 DEF LevelRead
<1>4. CASE ~(inner.ok /\ Tok(w, inner.next) = ")")
  <2>1. ~r.ok BY <1>1, <1>4 DEF Failed
  <2>2. ASSUME NEW j \in i..n, IsRule(w, i, j) PROVE FALSE
    <3>1. j \in 1..n BY <1>0
    <3>2. PICK x \in i + 1..j : w[x] = ")" /\ IsRule(w, i + 1, x - 1) BY <2>2, <3>1, BracketsClose
    <3>3. i + 1 <= x - 1 BY <3>2 DEF IsRule
    <3>4. PICK y : y = x - 1 OBVIOUS
    <3>5. y \in i + 1..n /\ y \in Nat /\ x \in 1..n /\ y + 1 = x /\ y <= n BY <1>0, <3>3, <3>4
    <3>6. IsRule(w, i + 1, y) /\ Tok(w, y + 1) = ")" BY <1>0, <3>2, <3>4, <3>5
    <3>7. ")" \notin Binary BY DEF Binary
    <3>8. inner.ok BY <1>1, <3>5, <3>6, <3>7 DEF LevelRead
    <3>9. PICK e : e = inner.next - 1 OBVIOUS
    <3>10. e \in Nat /\ e <= n /\ inner.next = e + 1
      <4>1. inner.next >= i + 1 /\ inner.next <= n + 1 /\ inner.next \in Int BY <1>1
      <4>2. i \in Int /\ i >= 1 OBVIOUS
      <4>3. PICK y0 : y0 = inner.next OBVIOUS
      <4>4. y0 - 1 \in Nat /\ y0 - 1 <= n /\ y0 = y0 - 1 + 1 BY <1>0, <4>1, <4>2, <4>3
      <4> QED BY <3>9, <4>3, <4>4
    <3>11. IsRule(w, i + 1, e) /\ Tok(w, e + 1) \notin Binary
      <4>1. IsRule(w, i + 1, inner.next - 1) /\ Tok(w, inner.next) \notin AtLeast(1)
        BY <3>8 DEF LevelRead
      <4> QED BY <1>2, <3>9, <3>10, <4>1
    <3>12. CASE e < y
      <4>1. w[e + 1] \in Binary BY <1>1, <3>5, <3>6, <3>10, <3>11, <3>12, RuleGoesOn
      <4>2. e + 1 \in 1..n BY <1>0, <3>5, <3>10, <3>12
      <4> QED BY <1>0, <3>11, <4>1, <4>2
    <3>13. CASE y < e
      <4>1. w[y + 1] \in Binary BY <1>1, <3>5, <3>6, <3>10, <3>11, <3>13, RuleGoesOn
      <4> QED BY <3>2, <3>5, <3>7, <4>1
    <3>14. CASE e = y BY <1>4, <3>6, <3>8, <3>10, <3>14
    <3> QED BY <3>5, <3>10, <3>12, <3>13, <3>14
  <2> QED BY <2>1, <2>2 DEF LevelRead
<1> QED BY <1>3, <1>4

LEMMA CollectionRead ==
    ASSUME NEW w \in Seq(TokenTypes), NEW i \in 1..Len(w), w[i] = "[", NEW r,
           r = IF Tok(w, i + 1) = "]" THEN Parsed({}, i + 2) ELSE ParseValues(w, i + 1)
    PROVE  LevelRead(w, i, 4, r)
<1> DEFINE n == Len(w)
<1>0. /\ n \in Nat /\ (\A k \in Nat : Tok(w, k) # "EOF" => k \in 1..n)
      /\ \A k \in 1..n : Tok(w, k) = w[k]
  BY RuleTokens
<1>1. Followers(w, i) = {"value", "]"} BY DEF Followers, Binary
<1>2. PICK x : x = i + 1 OBVIOUS
<1>3. x \in Nat /\ x - 1 = i /\ x > 1 /\ x \in 1..n + 1 /\ w[x - 1] = "[" BY <1>0, <1>2
<1>4. ASSUME NEW e \in x..n, Adjoin(w, x, e), w[x] \in {"value", "]"}, w[e] = "]",
             \A k \in x..e : w[k] \in InCollection, r.ok, r.next - 1 = e, r.tree = {}
      PROVE  LevelRead(w, i, 4, r)
  <2>1. e \in 1..n /\ i <= e /\ \A k \in i..e : k = i \/ k \in x..e BY <1>0, <1>2
  <2>2. \A k \in i..e : w[k] \notin Binary \union {"NOT", "(", ")"}
    BY <1>4, <2>1 DEF InCollection, Binary
  <2>3. Adjoin(w, i, e)
    <3>1. SUFFICES ASSUME NEW k \in i..e - 1 PROVE w[k + 1] \in Followers(w, k) BY DEF Adjoin
    <3>2. CASE k = i BY <1>1, <1>2, <1>4, <3>2
    <3>3. CASE k # i
      <4>1. k \in x..e - 1 BY <1>2, <3>3
      <4> QED BY <1>4, <4>1 DEF Adjoin
    <3> QED BY <3>2, <3>3
  <2>4. "end" \in Followers(w, e) BY <1>4 DEF Followers, Binary
  <2>5. IsRule(w, i, e) BY <2>1, <2>2, <2>3, <2>4, FlatRule DEF Openers
  <2>6. IsTree(w, i, e, {})
    <3>1. \A k \in i..e : ~IsOperator(w, k) BY <2>2 DEF IsOperator
    <3> QED BY <3>1, NoOperators
  <2>7. Outermost(w, i, e, AtLeast(4)) BY <2>2 DEF Outermost
  <2>8. Tok(w, r.next) \notin AtLeast(4) BY LevelFacts
  <2> QED BY <1>4, <2>5, <2>6, <2>7, <2>8 DEF LevelRead
<1>5. CASE Tok(w, x) = "]"
  <2>1. r = [ok |-> TRUE, tree |-> {}, next |-> i + 2] BY <1>2, <1>5 DEF Parsed
  <2>2. r.ok /\ r.tree = {} /\ r.next - 1 = x BY <1>2, <2>1
  <2>3. x \in x..n /\ w[x] = "]"
    <3>1. Tok(w, x) # "EOF" BY <1>5
    <3> QED BY <1>0, <1>3, <1>5, <3>1
  <2>4. Adjoin(w, x, x) BY <1>3 DEF Adjoin
  <2>5. \A k \in x..x : w[k] \in InCollection BY <1>3, <2>3 DEF InCollection
  <2> QED BY <1>4, <2>2, <2>3, <2>4, <2>5
<1>6. CASE Tok(w, x) # "]"
  <2>1. r = ParseValues(w, x) BY <1>2, <1>6
  <2>2. ValuesRead(w, x, r) BY <1>3, <2>1, ValuesFacts
  <2>3. r.ok \in BOOLEAN /\ r.next \in x..n + 1 /\ (r.ok => r.next > x) BY <2>2 DEF ValuesRead, Fine
  <2>4. CASE r.ok
    <3>1. PICK e : e = r.next - 1 OBVIOUS
    <3>2. e \in x..n BY <1>0, <1>3, <2>3, <2>4, <3>1
    <3>3. /\ r.tree = {} /\ Adjoin(w, x, e) /\ w[x] = "value" /\ w[e] = "]"
          /\ \A k \in x..e : w[k] \in InCollection
      BY <1>3, <2>2, <2>4, <3>1 DEF ValuesRead
    <3> QED BY <1>4, <2>4, <3>1, <3>2, <3>3
  <2>5. CASE ~r.ok
    <3>1. ASSUME NEW j \in i..n, IsRule(w, i, j) PROVE FALSE
      <4>1. Adjoin(w, i, j) /\ "end" \in Followers(w, j) BY <3>1 DEF IsRule, Adjoin
      <4>2. j # i BY <1>1, <4>1
      <4>3. j \in x..n /\ i \in i..j - 1 /\ x \in 1..n BY <1>0, <1>2, <4>2
      <4>4. w[x] \in {"value", "]"} BY <1>1, <1>2, <4>1, <4>3 DEF Adjoin
      <4>5. w[x] = "value" BY <1>0, <1>6, <4>3, <4>4
      <4>6. Adjoin(w, x, j) BY <1>2, <4>1 DEF Adjoin
      <4> QED BY <1>3, <2>2, <2>5, <4>1, <4>3, <4>5, <4>6 DEF ValuesRead
    <3> QED BY <2>5, <3>1 DEF LevelRead
  <2> QED BY <2>3, <2>4, <2>5
<1> QED BY <1>5, <1>6

\* What all the levels make of the tokens from i on.
AllRead(w, f, i) == \A L \in Levels : LevelRead(w, i, L, f[i][L])

LEMMA OperandRead ==
    ASSUME NEW w \in Seq(TokenTypes), NEW i \in 1..Len(w), w[i] \in {"name", "value"}, Begins(w, i),
           NEW r, r = Parsed({}, i + 1)
    PROVE  LevelRead(w, i, 4, r)
<1>0. Len(w) \in Nat BY RuleTokens
<1>1. r = [ok |-> TRUE, tree |-> {}, next |-> i + 1] BY DEF Parsed
<1>2. r.ok /\ r.tree = {} /\ r.next - 1 = i
  <2>1. r.ok /\ r.tree = {} /\ r.next = i + 1 BY <1>1
  <2> QED BY <2>1
<1>3. "end" \in Followers(w, i) BY DEF Followers, Begins, Binary
<1>4. \A k \in i..i : k = i BY <1>0
<1>5. \A k \in i..i - 1 : FALSE BY <1>0
<1>6. Adjoin(w, i, i) BY <1>5 DEF Adjoin
<1>7. \A k \in i..i : w[k] \notin Binary \union {"NOT", "(", ")"} BY <1>4 DEF Binary
<1>8. i <= i /\ w[i] \in Openers BY DEF Openers
<1>9. IsRule(w, i, i) BY <1>3, <1>6, <1>7, <1>8, FlatRule
<1>10. IsTree(w, i, i, {})
  <2>1. \A k \in i..i : ~IsOperator(w, k) BY <1>7 DEF IsOperator
  <2> QED BY <2>1, NoOperators
<1>11. Outermost(w, i, i, AtLeast(4)) BY <1>7 DEF Outermost
<1>12. Tok(w, r.next) \notin AtLeast(4) BY LevelFacts
<1> QED BY <1>2, <1>9, <1>10, <1>11, <1>12 DEF LevelRead

LEMMA UnaryRead ==
    ASSUME NEW w \in Seq(TokenTypes), NEW i \in 1..Len(w) + 1, Begins(w, i), NEW f,
           i \in 1..Len(w) => FineAt(w, f, i + 1),
           i \in 1..Len(w) /\ Begins(w, i + 1) => AllRead(w, f, i + 1)
    PROVE  LevelRead(w, i, 4, Unary(w, f, i))
<1> DEFINE n == Len(w)
<1>0. /\ n \in Nat /\ (\A k \in Nat : Tok(w, k) # "EOF" => k \in 1..n)
      /\ (\A k \in 1..n : Tok(w, k) = w[k]) /\ i \in Nat
  BY RuleTokens
<1>1. PICK r : r = Unary(w, f, i) OBVIOUS
<1>2. PICK arg : arg = f[i + 1][4] OBVIOUS
<1>3. PICK inner : inner = f[i + 1][1] OBVIOUS
<1>4. Tok(w, i) # "EOF" =>
        i \in 1..n /\ w[i] = Tok(w, i) /\ Fine(w, i + 1, arg) /\ Fine(w, i + 1, inner)
  BY <1>0, <1>2, <1>3 DEF FineAt, Levels
<1>5. i \in 1..n /\ w[i] \in {"NOT", "("} =>
        LevelRead(w, i + 1, 4, arg) /\ LevelRead(w, i + 1, 1, inner)
  <2>1. SUFFICES ASSUME i \in 1..n, w[i] \in {"NOT", "("}
                 PROVE  LevelRead(w, i + 1, 4, arg) /\ LevelRead(w, i + 1, 1, inner)
    OBVIOUS
  <2>2. Begins(w, i + 1) BY <1>0, <2>1, BeginsAfter
  <2>3. AllRead(w, f, i + 1) BY <2>1, <2>2
  <2> QED BY <1>2, <1>3, <2>3 DEF AllRead, Levels
<1>6. CASE Tok(w, i) = "NOT"
  <2>1. r = IF arg.ok THEN Parsed({<<i, arg.next - 1>>} \union arg.tree, arg.next) ELSE arg
    BY <1>1, <1>2, <1>6 DEF Unary
  <2>2. i \in 1..n /\ w[i] = "NOT" /\ Fine(w, i + 1, arg) BY <1>4, <1>6
  <2>3. LevelRead(w, i + 1, 4, arg) BY <1>5, <2>2
  <2> QED BY <1>1, <2>1, <2>2, <2>3, NotRead
<1>7. CASE Tok(w, i) = "("
  <2>1. r = IF ~inner.ok THEN inner
            ELSE IF Tok(w, inner.next) = ")" THEN Parsed(inner.tree, inner.next + 1)
            ELSE Failed(inner.next)
    BY <1>1, <1>3, <1>7 DEF Unary
  <2>2. i \in 1..n /\ w[i] = "(" /\ Fine(w, i + 1, inner) BY <1>4, <1>7
  <2>3. LevelRead(w, i + 1, 1, inner) BY <1>5, <2>2
  <2> QED BY <1>1, <2>1, <2>2, <2>3, BracketsRead
<1>8. CASE Tok(w, i) = "["
  <2>1. r = IF Tok(w, i + 1) = "]" THEN Parsed({}, i + 2) ELSE ParseValues(w, i + 1)
    BY <1>1, <1>8 DEF Unary
  <2>2. i \in 1..n /\ w[i] = "[" BY <1>4, <1>8
  <2> QED BY <1>1, <2>1, <2>2, CollectionRead
<1>9. CASE Tok(w, i) \in {"name", "value"}
  <2>1. r = Parsed({}, i + 1) BY <1>1, <1>9 DEF Unary
  <2>2. i \in 1..n /\ w[i] \in {"name", "value"} BY <1>4, <1>9
  <2> QED BY <1>1, <2>1, <2>2, OperandRead
<1>10. CASE Tok(w, i) \notin Openers
  <2>1. r = [ok |-> FALSE, next |-> i] BY <1>1, <1>10 DEF Unary, Failed, Openers
  <2>2. ASSUME NEW j \in i..n, IsRule(w, i, j) PROVE FALSE
    <3>1. i \in 1..n BY <1>0, <2>2
    <3>2. w[i] \in Openers BY <2>2 DEF IsRule
    <3> QED BY <1>0, <1>10, <3>1, <3>2
  <2>3. ~r.ok BY <2>1
  <2> QED BY <1>1, <2>2, <2>3 DEF LevelRead
<1> QED BY <1>6, <1>7, <1>8, <1>9, <1>10 DEF Openers

\* A level that reads a rule has read its first operand.
LEMMA OperatorsOk ==
    ASSUME NEW w, NEW f, NEW L, NEW o, Operators(w, f, L, o).ok
    PROVE  o.ok
<1> SUFFICES ASSUME ~o.ok PROVE FALSE OBVIOUS
<1>1. Operators(w, f, L, o) = o BY DEF Operators
<1> QED BY <1>1

LEMMA OperatorsRead ==
    ASSUME NEW w \in Seq(TokenTypes), NEW i \in 1..Len(w) + 1, NEW f, NEW L \in 1..3, NEW o,
           Fine(w, i, o), LevelRead(w, i, L + 1, o),
           o.ok /\ o.next \in 1..Len(w) /\ w[o.next] \in Binary =>
             /\ FineAt(w, f, o.next + 1) /\ AllRead(w, f, o.next + 1)
             /\ f[o.next + 1][L].ok => f[o.next + 1][L + 1].ok
    PROVE  LevelRead(w, i, L, Operators(w, f, L, o))
<1> DEFINE n == Len(w)
<1>0. /\ n \in Nat /\ (\A k \in Nat : Tok(w, k) # "EOF" => k \in 1..n)
      /\ (\A k \in 1..n : Tok(w, k) = w[k]) /\ i \in Nat
  BY RuleTokens
<1>1. PICK r : r = Operators(w, f, L, o) OBVIOUS
<1>2. PICK k : k = o.next OBVIOUS
<1>3. o.ok \in BOOLEAN /\ k \in i..n + 1 /\ k \in Nat /\ (o.ok => k > i) BY <1>0, <1>2 DEF Fine
<1>4. /\ OperatorOf[L] \in Binary /\ AtLeast(L) = AtLeast(L + 1) \union {OperatorOf[L]}
      /\ \A type : <<type, OperatorOf[L]>> \in Tighter <=> type \in AtLeast(L + 1)
  BY LevelFacts
<1>5. CASE ~o.ok
  <2>1. r = o BY <1>1, <1>5 DEF Operators
  <2> QED BY <1>1, <1>5, <2>1 DEF LevelRead
<1>6. CASE o.ok /\ Tok(w, k) # OperatorOf[L]
  <2>1. r = o BY <1>1, <1>2, <1>6 DEF Operators
  <2>2. /\ IsRule(w, i, k - 1) /\ Tok(w, k) \notin AtLeast(L + 1)
        /\ Outermost(w, i, k - 1, AtLeast(L + 1)) /\ IsTree(w, i, k - 1, o.tree)
    BY <1>2, <1>6 DEF LevelRead
  <2>3. Tok(w, k) \notin AtLeast(L) BY <1>4, <1>6, <2>2
  <2>4. Outermost(w, i, k - 1, AtLeast(L)) BY <1>4, <2>2 DEF Outermost
  <2> QED BY <1>1, <1>2, <1>6, <2>1, <2>2, <2>3, <2>4 DEF LevelRead
<1>7. CASE o.ok /\ Tok(w, k) = OperatorOf[L]
  <2>1. k \in 1..n /\ w[k] = OperatorOf[L] /\ w[k] \in Binary /\ i \in 1..n
    <3>1. Tok(w, k) # "EOF" BY <1>4, <1>7 DEF Binary
    <3>2. k \in 1..n BY <1>0, <1>3, <3>1
    <3>3. i \in 1..n BY <1>0, <1>3, <1>7, <3>2
    <3> QED BY <1>0, <1>4, <1>7, <3>2, <3>3
  <2>2. /\ IsRule(w, i, k - 1) /\ Outermost(w, i, k - 1, AtLeast(L + 1))
        /\ IsTree(w, i, k - 1, o.tree)
    BY <1>2, <1>7 DEF LevelRead
  <2>3. PICK rest : rest = f[k + 1][L] OBVIOUS
  <2>4. PICK rhs : rhs = f[k + 1][L + 1] OBVIOUS
  <2>5. FineAt(w, f, k + 1) /\ AllRead(w, f, k + 1) /\ (rest.ok => rhs.ok)
    BY <1>2, <1>7, <2>1, <2>3, <2>4
  <2>6. L \in Levels /\ L + 1 \in Levels BY DEF Levels
  <2>7. Fine(w, k + 1, rest) /\ Fine(w, k + 1, rhs) BY <2>3, <2>4, <2>5, <2>6 DEF FineAt
  <2>8. LevelRead(w, k + 1, L, rest) /\ LevelRead(w, k + 1, L + 1, rhs)
    BY <2>3, <2>4, <2>5, <2>6 DEF AllRead
  <2>9. r = IF ~rest.ok THEN rest
            ELSE Parsed(o.tree \union {<<k, rhs.next - 1>>} \union rest.tree, rest.next)
    BY <1>1, <1>2, <1>7, <2>3, <2>4 DEF Operators
  <2>10. rest.ok \in BOOLEAN BY <2>7 DEF Fine
  <2>11. PICK m : m = i - 1 OBVIOUS
  <2>12. m \in Nat /\ m + 1 = i BY <1>0, <2>1, <2>11
  <2>13. PICK y : y = k - 1 OBVIOUS
  <2>14. y \in Nat /\ y + 1 = k /\ y <= n /\ IsRule(w, m + 1, y)
    BY <1>0, <2>1, <2>2, <2>12, <2>13
  <2>15. CASE ~rest.ok
    <3>1. r = rest BY <2>9, <2>15
    <3>2. ASSUME NEW j \in i..n, IsRule(w, i, j) PROVE Tok(w, j + 1) \in Binary
      <4>1. j \in Nat /\ j <= n /\ IsRule(w, m + 1, j) BY <1>0, <2>12, <3>2
      <4>2. CASE j < y
        <5>1. w[j + 1] \in Binary BY <2>12, <2>14, <4>1, <4>2, RuleGoesOn
        <5>2. j + 1 \in 1..n BY <1>0, <2>14, <4>1, <4>2
        <5> QED BY <1>0, <5>1, <5>2
      <4>3. CASE j = y BY <1>4, <1>7, <2>14, <4>3
      <4>4. CASE y < j
        <5>1. y + 2 <= j /\ IsRule(w, y + 2, j) BY <2>12, <2>14, <4>1, <4>4, RuleGoesOn
        <5>2. y + 2 = k + 1 BY <1>3, <2>13
        <5>3. j \in k + 1..n BY <1>0, <4>1, <5>1, <5>2
        <5>4. IsRule(w, k + 1, j) BY <5>1, <5>2
        <5> QED BY <2>8, <2>15, <5>3, <5>4 DEF LevelRead
      <4> QED BY <2>14, <4>1, <4>2, <4>3, <4>4
    <3> QED BY <1>1, <2>15, <3>1, <3>2 DEF LevelRead
  <2>16. CASE rest.ok
    <3>1. PICK e : e = rhs.next - 1 OBVIOUS
    <3>2. PICK j : j = rest.next - 1 OBVIOUS
    <3>3. rhs.next \in k + 1..n + 1 /\ rest.next \in k + 1..n + 1 BY <2>7 DEF Fine
    <3>4. e \in k..n /\ j \in k..n /\ rest.next = j + 1 /\ rhs.next = e + 1
      <4>1. PICK a : a = rhs.next OBVIOUS
      <4>2. PICK b : b = rest.next OBVIOUS
      <4>3. a - 1 \in k..n /\ b - 1 \in k..n /\ b = b - 1 + 1 /\ a = a - 1 + 1
        BY <1>0, <1>3, <3>3, <4>1, <4>2
      <4> QED BY <3>1, <3>2, <4>1, <4>2, <4>3
    <3>5. /\ IsRule(w, k + 1, e) /\ Tok(w, e + 1) \notin AtLeast(L + 1)
          /\ Outermost(w, k + 1, e, AtLeast(L + 1))
      <4>1. /\ IsRule(w, k + 1, rhs.next - 1) /\ Tok(w, rhs.next) \notin AtLeast(L + 1)
            /\ Outermost(w, k + 1, rhs.next - 1, AtLeast(L + 1))
        BY <2>5, <2>8, <2>16 DEF LevelRead
      <4> QED BY <3>1, <3>4, <4>1
    <3>6. /\ IsRule(w, k + 1, j) /\ Tok(w, j + 1) \notin AtLeast(L)
          /\ Outermost(w, k + 1, j, AtLeast(L)) /\ IsTree(w, k + 1, j, rest.tree)
      <4>1. /\ IsRule(w, k + 1, rest.next - 1) /\ Tok(w, rest.next) \notin AtLeast(L)
            /\ Outermost(w, k + 1, rest.next - 1, AtLeast(L))
            /\ IsTree(w, k + 1, rest.next - 1, rest.tree)
        BY <2>8, <2>16 DEF LevelRead
      <4> QED BY <3>2, <3>4, <4>1
    <3>7. \A x \in k + 1..e : w[x] \in Binary /\ Depth(w)[x] = Depth(w)[k] => w[x] \in AtLeast(L + 1)
      BY <1>3, <3>5, OutermostAfter
    <3>8. \A x \in k + 1..j : w[x] \in Binary /\ Depth(w)[x] = Depth(w)[k] => w[x] \in AtLeast(L)
      BY <1>3, <3>6, OutermostAfter
    <3>9. e \in Nat /\ j \in Nat /\ e \in 1..n /\ j \in 1..n BY <1>0, <2>1, <3>4
    <3>10. e <= j
      <4>1. SUFFICES ASSUME j < e PROVE FALSE BY <3>9
      <4>2. w[j + 1] \in Binary /\ Depth(w)[j + 1] = Depth(w)[k]
        BY <1>3, <3>5, <3>6, <3>9, <4>1, RuleGoesOn
      <4>3. j + 1 \in k + 1..e /\ j + 1 \in 1..n BY <1>0, <2>1, <3>4, <3>9, <4>1
      <4>4. w[j + 1] \in AtLeast(L + 1) BY <3>7, <4>2, <4>3
      <4> QED BY <1>0, <1>4, <3>6, <4>3, <4>4
    <3>11. TakesTo(w, k, e) BY <1>4, <2>1, <3>5, <3>7 DEF TakesTo
    <3>12. IsRule(w, i, j) /\ Depth(w)[k] = Depth(w)[i - 1] /\ i < k /\ k < j
      BY <2>1, <2>2, <3>6, <3>9, RulesJoin
    <3>13. Outermost(w, i, j, AtLeast(L))
      <4>1. SUFFICES ASSUME NEW x \in i..j, w[x] \in Binary, Depth(w)[x] = Depth(w)[i - 1]
                     PROVE  w[x] \in AtLeast(L)
        BY DEF Outermost
      <4>2. x \in i..k - 1 \/ x = k \/ x \in k + 1..j BY <1>0, <1>3, <3>9
      <4>3. CASE x \in i..k - 1 BY <1>4, <2>2, <4>1, <4>3 DEF Outermost
      <4>4. CASE x = k BY <1>4, <2>1, <4>4
      <4>5. CASE x \in k + 1..j BY <3>8, <3>12, <4>1, <4>5
      <4> QED BY <4>2, <4>3, <4>4, <4>5
    <3>14. PICK tree : tree = o.tree \union {<<k, e>>} \union rest.tree OBVIOUS
    <3>15. IsTree(w, i, j, tree)
      <4>1. IsOperator(w, k) BY <2>1 DEF IsOperator
      <4>2. e \in i..j /\ i <= k /\ k <= j BY <1>0, <1>3, <3>4, <3>9, <3>10, <3>12
      <4> QED BY <1>0, <1>3, <2>2, <3>6, <3>9, <3>11, <3>14, <4>1, <4>2, TreesJoin
    <3>16. r = Parsed(tree, j + 1) BY <2>9, <2>16, <3>1, <3>4, <3>14
    <3>17. r = [ok |-> TRUE, tree |-> tree, next |-> j + 1] BY <3>16 DEF Parsed
    <3>18. r.ok /\ r.tree = tree /\ r.next = j + 1 BY ONLY <3>17
    <3>19. r.next - 1 = j BY <3>9, <3>18
    <3> QED BY <1>1, <3>6, <3>12, <3>13, <3>15, <3>18, <3>19 DEF LevelRead
  <2> QED BY <2>10, <2>15, <2>16
<1> QED BY <1>3, <1>5, <1>6, <1>7

LEMMA ParseRead ==
    ASSUME NEW w \in Seq(TokenTypes), NEW i \in 1..Len(w) + 1, Begins(w, i),
           \A k \in 1..Len(w) + 1 : k > i /\ Begins(w, k) => AllRead(w, ParseFrom(w), k)
    PROVE  AllRead(w, ParseFrom(w), i)
<1> DEFINE n == Len(w)
<1>0. n \in Nat BY RuleTokens
<1>1. PICK f : f = ParseFrom(w) OBVIOUS
<1>2. \A k \in 1..n + 1 : f[k] = ParseStep(w, f, k) /\ FineAt(w, f, k) BY <1>1, ParseRecurs
<1>3. \A k \in 1..n + 1 : k > i /\ Begins(w, k) => AllRead(w, f, k) BY <1>1
<1>4. \A k \in 1..n + 1 : \A L \in 1..3 : f[k][L] = Operators(w, f, L, f[k][L + 1])
  <2>1. \A k \in 1..n + 1 : \A L \in 1..3 :
          ParseStep(w, f, k)[L] = Operators(w, f, L, ParseStep(w, f, k)[L + 1])
    BY ParseStepIs
  <2> QED BY <1>2, <2>1
<1>5. \A k \in 1..n + 1 : \A L \in 1..3 : f[k][L].ok => f[k][L + 1].ok
  <2>1. SUFFICES ASSUME NEW k \in 1..n + 1, NEW L \in 1..3, f[k][L].ok PROVE f[k][L + 1].ok
    OBVIOUS
  <2>2. Operators(w, f, L, f[k][L + 1]).ok BY <1>4, <2>1
  <2> QED BY <2>2, OperatorsOk
<1>6. LevelRead(w, i, 4, f[i][4])
  <2>1. f[i][4] = Unary(w, f, i)
    <3>1. f[i] = ParseStep(w, f, i) BY <1>2
    <3>2. ParseStep(w, f, i)[4] = Unary(w, f, i) BY ParseStepIs
    <3> QED BY <3>1, <3>2
  <2>2. i \in 1..n => i + 1 \in 1..n + 1 /\ i + 1 > i BY <1>0
  <2>3. i \in 1..n => FineAt(w, f, i + 1) BY <1>2, <2>2
  <2>4. i \in 1..n /\ Begins(w, i + 1) => AllRead(w, f, i + 1) BY <1>3, <2>2
  <2> QED BY <2>1, <2>3, <2>4, UnaryRead
<1>7. ASSUME NEW L \in 1..3, LevelRead(w, i, L + 1, f[i][L + 1]) PROVE LevelRead(w, i, L, f[i][L])
  <2>1. PICK o : o = f[i][L + 1] OBVIOUS
  <2>2. Fine(w, i, o)
    <3>1. L + 1 \in Levels BY DEF Levels
    <3> QED BY <1>2, <2>1, <3>1 DEF FineAt
  <2>3. LevelRead(w, i, L + 1, o) BY <1>7, <2>1
  <2>4. ASSUME o.ok, o.next \in 1..n, w[o.next] \in Binary
        PROVE  /\ FineAt(w, f, o.next + 1) /\ AllRead(w, f, o.next + 1)
               /\ f[o.next + 1][L].ok => f[o.next + 1][L + 1].ok
    <3>1. PICK k : k = o.next OBVIOUS
    <3>2. k > i /\ k \in 1..n BY <2>2, <2>4, <3>1 DEF Fine
    <3>3. k + 1 \in 1..n + 1 /\ k + 1 > i /\ k \in Nat BY <1>0, <3>2
    <3>4. Begins(w, k + 1) BY <2>4, <3>1, <3>3, BeginsAfter
    <3>5. FineAt(w, f, k + 1) BY <1>2, <3>3
    <3>6. AllRead(w, f, k + 1) BY <1>3, <3>3, <3>4
    <3>7. f[k + 1][L].ok => f[k + 1][L + 1].ok BY <1>5, <3>3
    <3> QED BY <3>1, <3>5, <3>6, <3>7
  <2>5. LevelRead(w, i, L, Operators(w, f, L, o)) BY <2>2, <2>3, <2>4, OperatorsRead
  <2>6. f[i][L] = Operators(w, f, L, o) BY <1>4, <2>1
  <2> QED BY <2>5, <2>6
<1>8. LevelRead(w, i, 3, f[i][3])
  <2>1. 3 \in 1..3 /\ 3 + 1 = 4 OBVIOUS
  <2> QED BY <1>6, <1>7, <2>1
<1>9. LevelRead(w, i, 2, f[i][2])
  <2>1. 2 \in 1..3 /\ 2 + 1 = 3 OBVIOUS
  <2> QED BY <1>7, <1>8, <2>1
<1>10. LevelRead(w, i, 1, f[i][1])
  <2>1. 1 \in 1..3 /\ 1 + 1 = 2 OBVIOUS
  <2> QED BY <1>7, <1>9, <2>1
<1>11. \A L \in Levels : L = 1 \/ L = 2 \/ L = 3 \/ L = 4 BY DEF Levels
<1> QED BY <1>1, <1>6, <1>8, <1>9, <1>10, <1>11 DEF AllRead

LEMMA RuleFacts ==
    ASSUME NEW w \in Seq(TokenTypes), NEW r, r = Parse(w)
    PROVE  Fine(w, 1, r) /\ LevelRead(w, 1, 1, r)
<1> DEFINE n == Len(w)
           G == {m \in Nat : \A i \in 1..n + 1 :
                   n + 1 - i < m /\ Begins(w, i) => AllRead(w, ParseFrom(w), i)}
<1>0. n \in Nat BY RuleTokens
<1>1. 0 \in G BY <1>0
<1>2. ASSUME NEW m \in G PROVE m + 1 \in G
  <2>1. SUFFICES ASSUME NEW i \in 1..n + 1, n + 1 - i < m + 1, Begins(w, i)
                 PROVE  AllRead(w, ParseFrom(w), i)
    BY DEF G
  <2>2. \A k \in 1..n + 1 : k > i /\ Begins(w, k) => AllRead(w, ParseFrom(w), k) BY <1>0, <2>1
  <2> HIDE DEF G
  <2> QED BY <2>1, <2>2, ParseRead
<1>3. n + 1 \in G
  <2>1. G \in SUBSET Nat OBVIOUS
  <2> HIDE DEF G
  <2>2. G = Nat BY <1>1, <1>2, <2>1, ByNaturals
  <2> QED BY <1>0, <2>2
<1>4. 1 \in 1..n + 1 /\ n + 1 - 1 < n + 1 BY <1>0
<1>5. Begins(w, 1) BY DEF Begins
<1>6. AllRead(w, ParseFrom(w), 1) BY <1>3, <1>4, <1>5
<1>7. FineAt(w, ParseFrom(w), 1) BY <1>4, ParseRecurs
<1>8. r = ParseFrom(w)[1][1] BY DEF Parse
<1> QED BY <1>6, <1>7, <1>8 DEF AllRead, FineAt, Levels

\* The right operand of an operator has one end.
LEMMA OneEnd ==
    ASSUME NEW w \in Seq(TokenTypes), NEW k \in 1..Len(w), NEW e \in 1..Len(w), NEW m \in 1..Len(w),
           TakesTo(w, k, e), TakesTo(w, k, m)
    PROVE  e = m
<1> DEFINE n == Len(w)
<1>0. n \in Nat /\ (\A x \in 1..n : Tok(w, x) = w[x]) /\ k \in Nat BY RuleTokens
<1>1. ASSUME NEW a \in 1..n, NEW b \in 1..n, TakesTo(w, k, a), TakesTo(w, k, b), a < b PROVE FALSE
  <2>1. IsRule(w, k + 1, a) /\ IsRule(w, k + 1, b) /\ <<Tok(w, a + 1), w[k]>> \notin Tighter
    BY <1>1 DEF TakesTo
  <2>2. a \in Nat /\ b \in Nat /\ b <= n BY <1>0
  <2>3. w[a + 1] \in Binary /\ Depth(w)[a + 1] = Depth(w)[k]
    BY <1>0, <1>1, <2>1, <2>2, RuleGoesOn
  <2>4. k + 1 <= a BY <2>1 DEF IsRule
  <2>5. a + 1 \in k + 1..b /\ a + 1 \in 1..n BY <1>0, <1>1, <2>2, <2>4
  <2>6. <<w[a + 1], w[k]>> \in Tighter BY <1>1, <2>3, <2>5 DEF TakesTo
  <2> QED BY <1>0, <2>1, <2>5, <2>6
<1>2. e < m \/ m < e \/ e = m BY <1>0
<1> QED BY <1>1, <1>2

LEMMA TheTree ==
    ASSUME NEW w \in Seq(TokenTypes), NEW j \in 1..Len(w), NEW tree, IsTree(w, 1, j, tree)
    PROVE  tree = Tree(w, j)
<1>0. Len(w) \in Nat /\ 1..j \in SUBSET (1..Len(w))
  <2>1. Len(w) \in Nat BY RuleTokens
  <2> QED BY <2>1
<1>1. \A p \in tree : /\ p[1] \in 1..j /\ p[2] \in 1..j /\ p = <<p[1], p[2]>>
                      /\ IsOperator(w, p[1]) /\ TakesTo(w, p[1], p[2])
  BY DEF IsTree
<1>2. \A k \in 1..j : IsOperator(w, k) => \E e : <<k, e>> \in tree BY DEF IsTree
<1>3. ASSUME NEW p \in tree PROVE p \in Tree(w, j)
  <2>1. p \in (1..j) \X (1..j) BY <1>1
  <2> QED BY <1>1, <2>1 DEF Tree, IsOperator
<1>4. ASSUME NEW p \in Tree(w, j) PROVE p \in tree
  <2>1. PICK k \in 1..j, m \in 1..j : p = <<k, m>> BY DEF Tree
  <2>2. p[1] = k /\ p[2] = m BY <2>1
  <2>3. IsOperator(w, k) /\ TakesTo(w, k, m) BY <2>2 DEF Tree, IsOperator
  <2>4. PICK e : <<k, e>> \in tree BY <1>2, <2>3
  <2>5. e \in 1..j /\ TakesTo(w, k, e)
    <3>1. PICK q : q = <<k, e>> OBVIOUS
    <3>2. q[1] = k /\ q[2] = e /\ q \in tree BY <2>4, <3>1
    <3> QED BY <1>1, <3>2
  <2>6. e = m BY <1>0, <2>3, <2>5, OneEnd
  <2> QED BY <2>1, <2>4, <2>6
<1> QED BY <1>3, <1>4

\* Of a list of tokens of any length TargetDSLParser reads the longest rule that it begins with,
\* and makes of it the one tree in which each operator's right operand goes on through just
\* what binds tighter; it fails only where the tokens are no rule.
LEMMA RulesFollowGrammar == ASSUME TokensTyped PROVE RulesParseByGrammar
<1>1. ASSUME topic = "rule" PROVE RulesParseByGrammar
  <2>1. PICK w : w = sample OBVIOUS
  <2>2. PICK n : n = Len(w) OBVIOUS
  <2>3. PICK r : r = Parse(w) OBVIOUS
  <2>4. w \in Seq(TokenTypes) BY <1>1, <2>1 DEF TokensTyped
  <2>5. n \in Nat /\ Tok(w, n + 1) = "EOF" /\ \A x \in 1..n : Tok(w, x) = w[x]
    BY <2>2, <2>4, RuleTokens
  <2>6. Fine(w, 1, r) /\ LevelRead(w, 1, 1, r) BY <2>3, <2>4, RuleFacts
  <2>7. r.ok \in BOOLEAN /\ r.next \in 1..n + 1 /\ (r.ok => r.next > 1) BY <2>2, <2>6 DEF Fine
  <2>8. ASSUME ~r.ok PROVE ~IsRule(w, 1, n)
    <3>1. SUFFICES ASSUME IsRule(w, 1, n) PROVE FALSE OBVIOUS
    <3>2. 1 <= n BY <3>1 DEF IsRule
    <3>3. Tok(w, n + 1) \in Binary BY <2>2, <2>5, <2>6, <2>8, <3>1, <3>2 DEF LevelRead
    <3> QED BY <2>5, <3>3 DEF Binary
  <2>9. ASSUME r.ok
        PROVE  /\ IsRule(w, 1, r.next - 1)
               /\ \A j \in r.next..n : ~IsRule(w, 1, j)
               /\ r.tree = Tree(w, r.next - 1)
    <3>1. PICK e : e = r.next - 1 OBVIOUS
    <3>2. PICK x : x = r.next OBVIOUS
    <3>3. x \in Nat /\ e \in 1..n /\ e \in Nat /\ x = e + 1 BY <2>5, <2>7, <2>9, <3>1, <3>2
    <3>4. IsRule(w, 1, e) /\ Tok(w, x) \notin AtLeast(1) /\ IsTree(w, 1, e, r.tree)
      BY <2>6, <2>9, <3>1, <3>2 DEF LevelRead
    <3>5. ASSUME NEW j \in x..n, IsRule(w, 1, j) PROVE FALSE
      <4>1. j \in Nat /\ j <= n /\ e < j /\ e + 1 \in 1..n /\ 0 + 1 = 1 BY <2>5, <3>3
      <4>2. IsRule(w, 0 + 1, e) /\ IsRule(w, 0 + 1, j) /\ 0 \in Nat BY <3>4, <3>5, <4>1
      <4>3. w[e + 1] \in Binary BY <2>2, <2>4, <3>3, <4>1, <4>2, RuleGoesOn
      <4>4. AtLeast(1) = Binary BY LevelFacts
      <4> QED BY <2>5, <3>3, <3>4, <4>1, <4>3, <4>4
    <3>6. r.tree = Tree(w, e)
      BY <2>2, <2>4, <3>3, <3>4, TheTree
    <3> QED BY <3>1, <3>2, <3>4, <3>5, <3>6
  <2>11. IF ~r.ok THEN ~IsRule(w, 1, n)
         ELSE /\ IsRule(w, 1, r.next - 1)
              /\ \A j \in r.next..n : ~IsRule(w, 1, j)
              /\ r.tree = Tree(w, r.next - 1)
    BY <2>7, <2>8, <2>9
  <2> QED BY <2>1, <2>2, <2>3, <2>11 DEF RulesParseByGrammar
<1> QED BY <1>1 DEF RulesParseByGrammar

\* TargetDSLParser and MetricDSLParser read of any list of tokens the longest phrase that it
\* begins with, into the tree and the filters of the grammar, and fail only where it is none.
THEOREM ParsersReadLanguages == AlgorithmsSpec => []ParsersFollowGrammars
<1>1. TokensTyped => ParsersFollowGrammars
  BY RulesFollowGrammar, MetricsFollowGrammar DEF ParsersFollowGrammars
<1> QED BY <1>1, SamplesAreTyped, PTL
=============================================================================
