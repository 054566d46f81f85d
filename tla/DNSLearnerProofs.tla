-------------------------- MODULE DNSLearnerProofs --------------------------
(* Theorems about DNSLearner, for any names, any answers of any length and   *)
(* any number of concurrent queries.  What the recursive functions of        *)
(* inspect compute is proved from their iterates, by a least-number argument *)
(* about intervals.                                                          *)
EXTENDS DNSLearner, NetworksProofs, FiniteSetTheorems, WellFoundedInduction

-----------------------------------------------------------------------------
(* The recursive functions of inspect *)

\* A set of numbers that holds 0, and each number of 1..n with the one
\* before it, holds all of 0..n: the least number it lacks cannot be.
LEMMA IntervalInduction ==
    ASSUME NEW n \in Nat, NEW S, 0 \in S, \A i \in 1..n : i - 1 \in S => i \in S
    PROVE  0..n \subseteq S
<1> DEFINE Less == {ss \in Nat \X Nat : ss[1] < ss[2]}
           Rest == (0..n) \ S
<1>1. IsWellFoundedOn(Less, Nat)
  BY NatLessThanWellFounded DEF OpToRel
<1>2. SUFFICES ASSUME Rest # {} PROVE FALSE
  OBVIOUS
<1>3. PICK x \in Rest : \A y \in Rest : ~(<<y, x>> \in Less)
  <2>1. Rest \subseteq Nat
    OBVIOUS
  <2> HIDE DEF Less, Rest
  <2> QED BY <1>1, <1>2, <2>1, WFMin
<1>4. x \in 1..n /\ x - 1 \in 0..n /\ x - 1 < x
  BY <1>3
<1>5. x - 1 \in Rest
  BY <1>3, <1>4
<1>6. <<x - 1, x>> \in Less
  BY <1>3, <1>4
<1> QED BY <1>3, <1>5, <1>6

\* Iterates of a function of a number and a value.
Iterates(n, x, F, g) ==
    g[0] = x /\ \A i \in 1..n : g[i] = F[<<i, g[i - 1]>>]

\* They exist for every number of steps.
LEMMA IteratesExist ==
    ASSUME NEW n \in Nat, NEW T, NEW x \in T, NEW F \in [(1..n) \X T -> T]
    PROVE  \E g \in [0..n -> T] : Iterates(n, x, F, g)
<1> DEFINE Done == {m \in 0..n : \E g \in [0..m -> T] : Iterates(m, x, F, g)}
<1>1. 0 \in Done
  <2> DEFINE g == [i \in 0..0 |-> x]
  <2>1. g \in [0..0 -> T] /\ g[0] = x /\ 0 \in 0..n
    OBVIOUS
  <2>2. Iterates(0, x, F, g)
    BY <2>1 DEF Iterates
  <2> QED BY <2>1, <2>2
<1>2. ASSUME NEW m \in 1..n, m - 1 \in Done
      PROVE  m \in Done
  <2>1. PICK g \in [0..(m - 1) -> T] : Iterates(m - 1, x, F, g)
    BY <1>2
  <2> DEFINE h == [i \in 0..m |-> IF i = m THEN F[<<m, g[m - 1]>>] ELSE g[i]]
  <2>2. g[m - 1] \in T /\ <<m, g[m - 1]>> \in (1..n) \X T
    BY <2>1
  <2>3. F[<<m, g[m - 1]>>] \in T
    BY <2>2
  <2>4. h \in [0..m -> T]
    BY <2>1, <2>3
  <2>5. h[0] = x
    BY <2>1 DEF Iterates
  <2>6. ASSUME NEW i \in 1..m PROVE h[i] = F[<<i, h[i - 1]>>]
    <3>1. CASE i = m
      <4>1. h[m] = F[<<m, g[m - 1]>>] /\ h[m - 1] = g[m - 1]
        OBVIOUS
      <4> QED BY <3>1, <4>1
    <3>2. CASE i # m
      <4>1. i \in 1..(m - 1) /\ h[i] = g[i] /\ h[i - 1] = g[i - 1]
        BY <3>2
      <4> QED BY <2>1, <4>1 DEF Iterates
    <3> QED BY <3>1, <3>2
  <2>7. Iterates(m, x, F, h)
    BY <2>5, <2>6 DEF Iterates
  <2> HIDE DEF h
  <2> QED BY <2>4, <2>7
<1>3. 0..n \subseteq Done
  <2> HIDE DEF Done
  <2> QED BY <1>1, <1>2, IntervalInduction
<1> QED BY <1>3

\* What a record adds to the names, and a pass over the records.
Led(answer, i, names) ==
    names \cup IF answer[i].type = "CNAME" /\ answer[i].owner \in names
               THEN {answer[i].target} ELSE {}
PassAfter(trusted, answer) ==
    CHOOSE f : f = [i \in 0..Len(answer) |->
                        IF i = 0 THEN trusted ELSE Led(answer, i, f[i - 1])]
PassSteps(trusted, answer, g) ==
    /\ g \in [0..Len(answer) -> SUBSET Names]
    /\ g[0] = trusted
    /\ \A i \in 1..Len(answer) : g[i] = Led(answer, i, g[i - 1])
    /\ Pass(trusted, answer) = g[Len(answer)]

\* A record of an answer.
LEMMA RecordTypes ==
    ASSUME NEW answer \in Answers
    PROVE  /\ Len(answer) \in Nat
           /\ \A i \in 1..Len(answer) : answer[i] \in CName \cup ARecord
           /\ {answer[i] : i \in DOMAIN answer} \subseteq CName \cup ARecord
           /\ \A i \in 1..Len(answer) :
                answer[i].type = "CNAME" => answer[i].owner \in Names /\ answer[i].target \in Names
<1>1. answer \in Seq(CName \cup ARecord)
  BY DNSAssumption
<1>2. /\ Len(answer) \in Nat /\ DOMAIN answer = 1..Len(answer)
      /\ \A i \in 1..Len(answer) : answer[i] \in CName \cup ARecord
  BY <1>1
<1>3. \A r \in CName \cup ARecord : r.type = "CNAME" => r.owner \in Names /\ r.target \in Names
  BY DEF CName, ARecord
<1> QED BY <1>2, <1>3

\* The recursive definition of a pass has the values it says.
LEMMA PassIs ==
    ASSUME NEW trusted \in SUBSET Names, NEW answer \in Answers
    PROVE  \E g : PassSteps(trusted, answer, g)
<1> DEFINE n == Len(answer)
           F == [p \in (1..n) \X (SUBSET Names) |-> Led(answer, p[1], p[2])]
<1>1. n \in Nat
  BY RecordTypes
<1>2. F \in [(1..n) \X (SUBSET Names) -> SUBSET Names]
  BY RecordTypes DEF Led
<1>3. PICK g \in [0..n -> SUBSET Names] : Iterates(n, trusted, F, g)
  <2> HIDE DEF n, F
  <2> QED BY <1>1, <1>2, IteratesExist
<1>4. ASSUME NEW i \in 1..n PROVE g[i] = Led(answer, i, g[i - 1])
  <2>1. g[i - 1] \in SUBSET Names /\ <<i, g[i - 1]>> \in (1..n) \X (SUBSET Names)
    BY <1>1, <1>3
  <2>2. F[<<i, g[i - 1]>>] = Led(answer, i, g[i - 1])
    BY <2>1
  <2> QED BY <1>3, <2>2 DEF Iterates
<1>5. g = [i \in 0..n |-> IF i = 0 THEN trusted ELSE Led(answer, i, g[i - 1])]
  <2>1. g = [i \in 0..n |-> g[i]]
    BY <1>3
  <2>2. \A i \in 0..n : g[i] = IF i = 0 THEN trusted ELSE Led(answer, i, g[i - 1])
    BY <1>1, <1>3, <1>4 DEF Iterates
  <2> QED BY <2>1, <2>2
<1> DEFINE f == PassAfter(trusted, answer)
<1>6. f = [i \in 0..n |-> IF i = 0 THEN trusted ELSE Led(answer, i, f[i - 1])]
  BY <1>5 DEF PassAfter
<1>7. Pass(trusted, answer) = f[n]
  BY DEF Pass, PassAfter, Led
<1>8. f[0] = trusted /\ \A i \in 1..n : f[i] = Led(answer, i, f[i - 1])
  <2> HIDE DEF f, F
  <2>1. 0 \in 0..n /\ \A i \in 1..n : i \in 0..n /\ i # 0
    BY <1>1
  <2> QED BY <1>6, <2>1
<1>9. f[n] = g[n]
  <2> DEFINE Same == {i \in 0..n : f[i] = g[i]}
  <2>1. 0 \in Same
    BY <1>1, <1>3, <1>8 DEF Iterates
  <2>2. ASSUME NEW i \in 1..n, i - 1 \in Same PROVE i \in Same
    <3>1. f[i] = Led(answer, i, f[i - 1]) /\ g[i] = Led(answer, i, g[i - 1])
      BY <1>4, <1>8
    <3> QED BY <2>2, <3>1
  <2>3. 0..n \subseteq Same
    <3> HIDE DEF Same, f, n
    <3> QED BY <1>1, <2>1, <2>2, IntervalInduction
  <2>4. n \in 0..n
    BY <1>1
  <2> QED BY <2>3, <2>4
<1> QED BY <1>3, <1>4, <1>7, <1>9 DEF PassSteps, Iterates

\* The same for the passes of inspect.
TrustedAfter(roots, answer) ==
    CHOOSE f : f = [n \in 0..Len(answer) |->
                        IF n = 0 THEN roots ELSE Pass(f[n - 1], answer)]
TrustedSteps(roots, answer, g) ==
    /\ g \in [0..Len(answer) -> SUBSET Names]
    /\ g[0] = roots
    /\ \A n \in 1..Len(answer) : g[n] = Pass(g[n - 1], answer)
    /\ Trusted(roots, answer) = g[Len(answer)]

\* The repeated passes have the values their definition says.
LEMMA TrustedIs ==
    ASSUME NEW roots \in SUBSET Names, NEW answer \in Answers
    PROVE  \E g : TrustedSteps(roots, answer, g)
<1> DEFINE n == Len(answer)
           F == [p \in (1..n) \X (SUBSET Names) |-> Pass(p[2], answer)]
<1>1. n \in Nat
  BY RecordTypes
<1>2. F \in [(1..n) \X (SUBSET Names) -> SUBSET Names]
  <2>1. ASSUME NEW p \in (1..n) \X (SUBSET Names) PROVE Pass(p[2], answer) \in SUBSET Names
    <3>1. p[2] \in SUBSET Names
      OBVIOUS
    <3>2. PICK h : PassSteps(p[2], answer, h)
      BY <3>1, PassIs
    <3> QED BY <1>1, <3>2 DEF PassSteps
  <2> QED BY <2>1
<1>3. PICK g \in [0..n -> SUBSET Names] : Iterates(n, roots, F, g)
  <2> HIDE DEF n, F
  <2> QED BY <1>1, <1>2, IteratesExist
<1>4. ASSUME NEW i \in 1..n PROVE g[i] = Pass(g[i - 1], answer)
  <2>1. g[i - 1] \in SUBSET Names
    <3> HIDE DEF n, F
    <3>1. i - 1 \in 0..n
      BY <1>1
    <3> QED BY <1>3, <3>1
  <2>2. F[<<i, g[i - 1]>>] = Pass(g[i - 1], answer)
    BY <2>1
  <2> QED BY <1>3, <2>2 DEF Iterates
<1>5. g = [i \in 0..n |-> IF i = 0 THEN roots ELSE Pass(g[i - 1], answer)]
  <2>1. g = [i \in 0..n |-> g[i]]
    BY <1>3
  <2>2. \A i \in 0..n : g[i] = IF i = 0 THEN roots ELSE Pass(g[i - 1], answer)
    BY <1>1, <1>3, <1>4 DEF Iterates
  <2> QED BY <2>1, <2>2
<1> DEFINE f == TrustedAfter(roots, answer)
<1>6. f = [i \in 0..n |-> IF i = 0 THEN roots ELSE Pass(f[i - 1], answer)]
  BY <1>5 DEF TrustedAfter
<1>7. Trusted(roots, answer) = f[n]
  BY DEF Trusted, TrustedAfter
<1>8. f[0] = roots /\ \A i \in 1..n : f[i] = Pass(f[i - 1], answer)
  <2> HIDE DEF f, F
  <2>1. 0 \in 0..n /\ \A i \in 1..n : i \in 0..n /\ i # 0
    BY <1>1
  <2> QED BY <1>6, <2>1
<1>9. f[n] = g[n]
  <2> DEFINE Same == {i \in 0..n : f[i] = g[i]}
  <2>1. 0 \in Same
    BY <1>1, <1>3, <1>8 DEF Iterates
  <2>2. ASSUME NEW i \in 1..n, i - 1 \in Same PROVE i \in Same
    <3>1. f[i] = Pass(f[i - 1], answer) /\ g[i] = Pass(g[i - 1], answer)
      BY <1>4, <1>8
    <3> QED BY <2>2, <3>1
  <2>3. 0..n \subseteq Same
    <3> HIDE DEF Same, f, n
    <3> QED BY <1>1, <2>1, <2>2, IntervalInduction
  <2>4. n \in 0..n
    BY <1>1
  <2> QED BY <2>3, <2>4
<1> QED BY <1>3, <1>4, <1>7, <1>9 DEF TrustedSteps, Iterates

\* A set of names is closed when it has the target of each CNAME whose owner
\* it has.
ClosedUnder(names, records) ==
    \A r \in CNames(records) : r.owner \in names => r.target \in names
Records(answer) == {answer[i] : i \in DOMAIN answer}

\* A pass goes no further than a closed set ...
LEMMA PassWithin ==
    ASSUME NEW trusted \in SUBSET Names, NEW answer \in Answers, NEW S,
           trusted \subseteq S, ClosedUnder(S, Records(answer))
    PROVE  Pass(trusted, answer) \in SUBSET (Names \cap S)
<1> DEFINE n == Len(answer)
<1>1. PICK g : PassSteps(trusted, answer, g)
  BY PassIs
<1> DEFINE Within == {i \in 0..n : g[i] \subseteq S}
<1>2. n \in Nat
  BY RecordTypes
<1>3. 0 \in Within
  BY <1>1, <1>2 DEF PassSteps
<1>4. ASSUME NEW i \in 1..n, i - 1 \in Within PROVE i \in Within
  <2>1. g[i] = Led(answer, i, g[i - 1]) /\ g[i - 1] \subseteq S
    BY <1>1, <1>4 DEF PassSteps
  <2>2. answer[i].type = "CNAME" /\ answer[i].owner \in S => answer[i].target \in S
    <3>1. answer[i] \in Records(answer)
      BY DNSAssumption DEF Records
    <3> QED BY <3>1 DEF ClosedUnder, CNames
  <2>3. g[i] \subseteq S
    BY <2>1, <2>2 DEF Led
  <2> QED BY <1>2, <2>3
<1>5. 0..n \subseteq Within
  <2> HIDE DEF Within, n
  <2> QED BY <1>2, <1>3, <1>4, IntervalInduction
<1>6. n \in 0..n
  BY <1>2
<1> QED BY <1>1, <1>5, <1>6 DEF PassSteps

\* ... keeps what it begins with, and adds the targets of what it begins with.
LEMMA PassAdds ==
    ASSUME NEW trusted \in SUBSET Names, NEW answer \in Answers
    PROVE  /\ trusted \subseteq Pass(trusted, answer)
           /\ \A r \in CNames(Records(answer)) :
                r.owner \in trusted => r.target \in Pass(trusted, answer)
<1> DEFINE n == Len(answer)
<1>1. PICK g : PassSteps(trusted, answer, g)
  BY PassIs
<1>2. n \in Nat
  BY RecordTypes
<1>3. \A i \in 1..n : g[i - 1] \subseteq g[i]
  BY <1>1 DEF PassSteps, Led
<1> DEFINE Keeps == {i \in 0..n : \A j \in 0..i : g[j] \subseteq g[i]}
<1>4. 0 \in Keeps
  BY <1>2
<1>5. ASSUME NEW i \in 1..n, i - 1 \in Keeps PROVE i \in Keeps
  <2>1. ASSUME NEW j \in 0..i PROVE g[j] \subseteq g[i]
    <3>1. CASE j = i
      BY <3>1
    <3>2. CASE j # i
      <4>1. j \in 0..(i - 1)
        BY <3>2
      <4> QED BY <1>3, <1>5, <4>1
    <3> QED BY <3>1, <3>2
  <2> QED BY <1>2, <2>1
<1>6. 0..n \subseteq Keeps
  <2> HIDE DEF Keeps, n
  <2> QED BY <1>2, <1>4, <1>5, IntervalInduction
<1>7. ASSUME NEW i \in 0..n PROVE g[0] \subseteq g[i] /\ g[i] \subseteq g[n]
  <2>1. i \in Keeps /\ n \in Keeps /\ 0 \in 0..i
    BY <1>2, <1>6
  <2> QED BY <2>1
<1>8. ASSUME NEW r \in CNames(Records(answer)), r.owner \in trusted
      PROVE  r.target \in g[n]
  <2>1. PICK i \in 1..n : r = answer[i]
    BY DNSAssumption DEF CNames, Records
  <2>2. r.type = "CNAME" /\ g[i] = Led(answer, i, g[i - 1])
    BY <1>1, <2>1 DEF PassSteps, CNames
  <2>3. i - 1 \in 0..n /\ i \in 0..n
    BY <1>2
  <2>4. r.owner \in g[i - 1]
    BY <1>1, <1>7, <1>8, <2>3 DEF PassSteps
  <2>5. r.target \in g[i]
    BY <2>1, <2>2, <2>4 DEF Led
  <2> QED BY <1>7, <2>3, <2>5
<1>9. 0 \in 0..n
  BY <1>2
<1> QED BY <1>1, <1>7, <1>8, <1>9 DEF PassSteps

\* Whatever the passes add lies in every closed set ...
LEMMA TrustedWithin ==
    ASSUME NEW roots \in SUBSET Names, NEW answer \in Answers, NEW S,
           roots \subseteq S, ClosedUnder(S, Records(answer))
    PROVE  Trusted(roots, answer) \in SUBSET (Names \cap S)
<1> DEFINE n == Len(answer)
<1>1. PICK g : TrustedSteps(roots, answer, g)
  BY TrustedIs
<1> DEFINE Within == {i \in 0..n : g[i] \subseteq S}
<1>2. n \in Nat
  BY RecordTypes
<1>3. 0 \in Within
  BY <1>1, <1>2 DEF TrustedSteps
<1>4. ASSUME NEW i \in 1..n, i - 1 \in Within PROVE i \in Within
  <2>1. i - 1 \in 0..n /\ i \in 0..n
    BY <1>2
  <2>2. g[i] = Pass(g[i - 1], answer) /\ g[i - 1] \subseteq S /\ g[i - 1] \in SUBSET Names
    BY <1>1, <1>4, <2>1 DEF TrustedSteps
  <2>3. g[i] \subseteq S
    BY <2>2, PassWithin
  <2> QED BY <2>1, <2>3
<1>5. 0..n \subseteq Within
  <2> HIDE DEF Within, n
  <2> QED BY <1>2, <1>3, <1>4, IntervalInduction
<1>6. n \in 0..n
  BY <1>2
<1> QED BY <1>1, <1>5, <1>6 DEF TrustedSteps

\* ... and it is itself closed.  A pass that adds a name adds the target of a
\* record whose target was not there, so after k passes that each added one,
\* k records have their targets; there are no more passes than records.
LEMMA TrustedClosed ==
    ASSUME NEW roots \in SUBSET Names, NEW answer \in Answers
    PROVE  /\ roots \subseteq Trusted(roots, answer)
           /\ ClosedUnder(Trusted(roots, answer), Records(answer))
<1> DEFINE n == Len(answer)
           Isc(i) == answer[i].type = "CNAME"
           Has(names) == {i \in 1..n : Isc(i) => answer[i].target \in names}
<1>1. PICK g : TrustedSteps(roots, answer, g)
  BY TrustedIs
<1>2. n \in Nat
  BY RecordTypes
<1>3. IsFiniteSet(1..n) /\ Cardinality(1..n) = n
  <2> HIDE DEF n
  <2>1. 1 \in Int /\ n \in Int
    BY <1>2
  <2>2. IsFiniteSet(1..n) /\ Cardinality(1..n) = IF 1 > n THEN 0 ELSE n - 1 + 1
    BY <2>1, FS_Interval, Zenon
  <2> QED BY <1>2, <2>2
<1>4. ASSUME NEW names \in SUBSET Names
      PROVE  IsFiniteSet(Has(names)) /\ Cardinality(Has(names)) \in Nat
  BY <1>3, FS_Subset, FS_CardinalityType
<1>5. ASSUME NEW names \in SUBSET Names, Pass(names, answer) # names
      PROVE  Cardinality(Has(names)) + 1 <= Cardinality(Has(Pass(names, answer)))
  <2> DEFINE more == Pass(names, answer)
             Targets == {answer[i].target : i \in {j \in 1..n : Isc(j)}}
  <2>1. names \subseteq more
    BY PassAdds
  <2>2. more \in SUBSET (Names \cap (names \cup Targets))
    <3>1. ClosedUnder(names \cup Targets, Records(answer))
      BY DNSAssumption DEF ClosedUnder, Records, CNames
    <3> HIDE DEF more, Targets
    <3> QED BY <3>1, PassWithin DEF more
  <2>3. PICK name \in more : name \notin names
    BY <1>5, <2>1
  <2>4. PICK i \in 1..n : Isc(i) /\ name = answer[i].target
    BY <2>2, <2>3
  <2>5. i \notin Has(names) /\ Has(names) \cup {i} \subseteq Has(more)
    BY <2>1, <2>3, <2>4
  <2> HIDE DEF Has, more
  <2>6. Cardinality(Has(names) \cup {i}) = Cardinality(Has(names)) + 1
    BY <1>4, <2>5, FS_AddElement
  <2>7. more \in SUBSET Names
    BY <2>2
  <2>8. Cardinality(Has(names) \cup {i}) <= Cardinality(Has(more))
    BY <1>4, <2>5, <2>7, FS_Subset
  <2> QED BY <2>6, <2>8 DEF more
<1> HIDE DEF Has
<1> DEFINE Fixed(names) == Pass(names, answer) = names
           Good == {i \in 0..n : /\ roots \subseteq g[i]
                                 /\ Fixed(g[i]) \/ i <= Cardinality(Has(g[i]))}
<1>6. \A i \in 0..n : g[i] \in SUBSET Names
  BY <1>1 DEF TrustedSteps
<1>7. 0 \in Good
  <2>1. 0 \in 0..n /\ g[0] = roots
    BY <1>1, <1>2 DEF TrustedSteps
  <2>2. Cardinality(Has(g[0])) \in Nat
    BY <1>4, <1>6, <2>1
  <2>3. 0 <= Cardinality(Has(g[0]))
    BY <2>2
  <2> QED BY <2>1, <2>3
<1>8. ASSUME NEW i \in 1..n, i - 1 \in Good PROVE i \in Good
  <2>1. i - 1 \in 0..n /\ i \in 0..n
    BY <1>2
  <2>2. g[i] = Pass(g[i - 1], answer)
    BY <1>1 DEF TrustedSteps
  <2>3. roots \subseteq g[i]
    <3>1. roots \subseteq g[i - 1] /\ g[i - 1] \in SUBSET Names
      BY <1>6, <1>8, <2>1
    <3>2. g[i - 1] \subseteq Pass(g[i - 1], answer)
      BY <3>1, PassAdds
    <3> QED BY <2>2, <3>1, <3>2
  <2>4. CASE Fixed(g[i - 1])
    <3>1. g[i] = g[i - 1]
      BY <2>2, <2>4
    <3> QED BY <2>1, <2>3, <2>4, <3>1
  <2>5. CASE ~Fixed(g[i - 1])
    <3>1. i - 1 <= Cardinality(Has(g[i - 1]))
      BY <1>8, <2>5
    <3>2. Cardinality(Has(g[i - 1])) + 1 <= Cardinality(Has(g[i]))
      BY <1>5, <1>6, <2>1, <2>2, <2>5
    <3>3. Cardinality(Has(g[i - 1])) \in Nat /\ Cardinality(Has(g[i])) \in Nat
      BY <1>4, <1>6, <2>1
    <3>4. i <= Cardinality(Has(g[i]))
      <4> HIDE DEF n
      <4>1. i \in Int
        BY <1>2
      <4> QED BY <4>1, <3>1, <3>2, <3>3
    <3> QED BY <2>1, <2>3, <3>4
  <2> QED BY <2>4, <2>5
<1>9. 0..n \subseteq Good
  <2> HIDE DEF Good, n
  <2> QED BY <1>2, <1>7, <1>8, IntervalInduction
<1>10. n \in Good /\ n \in 0..n
  BY <1>2, <1>9
<1> DEFINE last == g[n]
<1>11. last \in SUBSET Names /\ last = Trusted(roots, answer)
  BY <1>1, <1>6, <1>10 DEF TrustedSteps
<1>12. ASSUME NEW r \in CNames(Records(answer)), r.owner \in last
       PROVE  r.target \in last
  <2>1. CASE Fixed(last)
    BY <1>11, <1>12, <2>1, PassAdds
  <2>2. CASE n <= Cardinality(Has(last))
    <3>1. Has(last) \in SUBSET (1..n)
      BY DEF Has
    <3>2. Cardinality(Has(last)) \in Nat /\ Cardinality(Has(last)) <= n
      BY <1>3, <1>4, <1>11, <3>1, FS_Subset
    <3>3. Cardinality(Has(last)) = n
      BY <1>2, <2>2, <3>2
    <3>4. Has(last) = 1..n
      BY <1>3, <3>1, <3>3, FS_Subset
    <3>5. PICK i \in 1..n : r = answer[i] /\ r.type = "CNAME"
      BY DNSAssumption DEF CNames, Records
    <3> QED BY <3>4, <3>5 DEF Has
  <2> QED BY <1>10, <2>1, <2>2
<1>13. roots \subseteq last
  BY <1>10
<1> QED BY <1>11, <1>12, <1>13 DEF ClosedUnder

-----------------------------------------------------------------------------
(* Reach, Hosts and Merge *)

\* Reach is closed, and the least closed set with the roots.
LEMMA ReachClosed ==
    ASSUME NEW roots \in SUBSET Names, NEW records \in SUBSET (CName \cup ARecord)
    PROVE  /\ Reach(roots, records) \in SUBSET Names
           /\ roots \subseteq Reach(roots, records)
           /\ ClosedUnder(Reach(roots, records), records)
<1>1. \A r \in CNames(records) : r.target \in Names
  BY DEF CNames, CName, ARecord
<1> QED BY <1>1 DEF Reach, ClosedUnder

\* Reach lies in every closed set of names with the roots.
LEMMA ReachLeast ==
    ASSUME NEW roots, NEW records, NEW S \in SUBSET Names,
           roots \subseteq S, ClosedUnder(S, records)
    PROVE  Reach(roots, records) \subseteq S
BY DEF Reach, ClosedUnder

\* More roots and more records reach more.
LEMMA ReachGrows ==
    ASSUME NEW roots, NEW records, NEW more, NEW others,
           roots \subseteq more, records \subseteq others
    PROVE  Reach(roots, records) \subseteq Reach(more, others)
<1>1. CNames(records) \subseteq CNames(others)
  BY DEF CNames
<1> QED BY <1>1 DEF Reach

\* More names and more records have more networks.
LEMMA MergeGrows ==
    ASSUME NEW names, NEW records, NEW more, NEW others,
           names \subseteq more, records \subseteq others
    PROVE  Merge(Hosts(names, records)) \subseteq Merge(Hosts(more, others))
<1>1. Hosts(names, records) \subseteq Hosts(more, others)
  BY DEF Hosts, ARecords
<1> QED BY <1>1 DEF Merge

-----------------------------------------------------------------------------
\* Networks that CanonicalNetwork accepts as they are.
PublicHosts ==
    {v \in Value : v.ones = 32 /\ Accepted(v) /\ CanonicalNetwork(v) = v}

\* The networks that the records seen since the start justify.
Ours == Merge(Hosts(Reach(asked, seen), seen))

\* What a client can take for Netflix', so far: aliases and Netflix names.
Known == aliases \cup Netflix

\* A query at work has its name recorded and trusts no name that is not known;
\* what it learns is justified, and is all that it promises.
QueryInv(q) ==
    /\ query[q].phase = "exchange" =>
        /\ {query[q].name} \cap Netflix \subseteq asked
        /\ query[q].own \subseteq {query[q].name} \cap Known
    /\ query[q].phase = "learn" =>
        /\ query[q] = [phase |-> "learn", name |-> query[q].name,
                       networks |-> query[q].networks,
                       promised |-> query[q].promised, targets |-> query[q].targets]
        /\ query[q].networks \subseteq PublicHosts \cap Ours
        /\ \A host \in query[q].promised : CanonicalNetwork(host) \in query[q].networks
    /\ query[q].phase = "answer" =>
        \A host \in query[q].promised : CanonicalNetwork(host) \in acknowledged
    /\ query[q].phase \in {"learn", "answer"} => query[q].targets \subseteq Known

DNSInv ==
    /\ query = [q \in Queries |-> query[q]]
    /\ DNSTypeOK
    /\ aliases \subseteq Reach(asked, seen)
    /\ given \subseteq Known
    /\ \A q \in Queries : QueryInv(q)

\* What Merge makes of addresses of records.
LEMMA MergedHosts ==
    ASSUME NEW answer \in Answers, NEW names
    PROVE  Merge(Hosts(names, Records(answer))) \subseteq PublicHosts
<1>1. SUFFICES ASSUME NEW value \in Hosts(names, Records(answer)), Accepted(value)
               PROVE  CanonicalNetwork(value) \in PublicHosts
  BY DEF Merge
<1>2. PICK r \in Records(answer) :
          r.type = "A" /\ value = [ip |-> r.ip, ones |-> NoPrefix]
  BY DEF Hosts, ARecords
<1>3. r \in CName \cup ARecord
  BY RecordTypes DEF Records
<1>4. r.ip \in Address
  BY <1>2, <1>3 DEF CName, ARecord
<1>5. value \in Value /\ value.ones = NoPrefix
  BY <1>2, <1>4 DEF Value
<1>6. CanonicalNetwork(value) = [ip |-> value.ip, ones |-> 32]
  BY <1>5 DEF CanonicalNetwork
<1>7. CanonicalNetwork(value) \in Value /\ CanonicalNetwork(value).ones = 32
  BY <1>5, <1>6 DEF Value
<1> QED BY <1>1, <1>5, <1>7, CanonicalIdempotent DEF PublicHosts

\* A public address of a name that is reached is merged.
LEMMA PublicMerged ==
    ASSUME NEW names, NEW more, NEW records, names \subseteq more,
           NEW host \in Hosts(names, records), IsPublicIPv4(host.ip)
    PROVE  CanonicalNetwork(host) \in Merge(Hosts(more, records))
<1>1. host \in Hosts(more, records) /\ host.ones = NoPrefix
  BY DEF Hosts, ARecords
<1> QED BY <1>1 DEF Merge, Accepted

\* A step of one goroutine that leaves the shared state, or lets it grow,
\* leaves the other queries in order.
LEMMA OthersKept ==
    ASSUME DNSInv, NEW q \in Queries, query[q]' = query[q],
           aliases \subseteq aliases', acknowledged \subseteq acknowledged',
           asked \subseteq asked', seen \subseteq seen'
    PROVE  QueryInv(q)'
<1>1. Known \subseteq Known'
  BY DEF Known
<1>2. Reach(asked, seen) \subseteq Reach(asked', seen')
  BY ReachGrows
<1>3. Ours \subseteq Ours'
  BY <1>2, MergeGrows DEF Ours
<1> QED BY <1>1, <1>3 DEF DNSInv, QueryInv

\* What inspect trusts lies between what the client can take for Netflix' and
\* what the records justify, so the query and the aliases stay in order.
LEMMA InspectStep ==
    ASSUME DNSInv, NEW q \in Queries, NEW answer \in Answers, Inspect(q, answer)
    PROVE  DNSInv'
<1> DEFINE roots == Roots(q)
           records == Records(answer)
           trusted == Trusted(roots, answer)
           networks == Merge(Hosts(trusted, records))
           reached == Reach(query[q].own, records)
           promised == {h \in Hosts(reached, records) : IsPublicIPv4(h.ip)}
           phase == IF networks = {} THEN "answer" ELSE "learn"
           next == [phase |-> phase, name |-> query[q].name, networks |-> networks,
                    promised |-> promised, targets |-> reached]
<1>1. /\ query[q].phase = "exchange"
      /\ aliases' = aliases \cup (trusted \ roots)
      /\ seen' = seen \cup records
      /\ query' = [query EXCEPT ![q] = next]
      /\ UNCHANGED <<acknowledged, given, asked>>
  BY DEF Inspect, Remembered, Records
<1>2. /\ query = [p \in Queries |-> query[p]]
      /\ DNSTypeOK /\ QueryInv(q)
      /\ aliases \subseteq Reach(asked, seen) /\ given \subseteq Known
      /\ \A p \in Queries : QueryInv(p)
  BY DEF DNSInv
<1>3. /\ query[q].name \in Names /\ aliases \in SUBSET Names /\ asked \in SUBSET Names
      /\ seen \in SUBSET (CName \cup ARecord) /\ given \in SUBSET Names
  BY <1>1, <1>2, DNSAssumption DEF DNSTypeOK
<1>4. /\ roots \in SUBSET Names
      /\ {query[q].name} \cap Netflix \subseteq asked
      /\ query[q].own \subseteq roots
  BY <1>1, <1>2, <1>3 DEF Roots, QueryInv, Known
<1>5. records \in SUBSET (CName \cup ARecord)
  BY RecordTypes DEF Records
\* The passes end in a closed set of names, which lies in what is justified.
<1>6. roots \subseteq trusted /\ ClosedUnder(trusted, records)
  BY <1>4, TrustedClosed
<1>7. trusted \in SUBSET Names /\ trusted \in SUBSET Reach(asked, seen')
  <2>1. seen' \in SUBSET (CName \cup ARecord)
    BY <1>1, <1>3, <1>5
  <2> DEFINE all == Reach(asked, seen')
  <2>2. all \in SUBSET Names /\ asked \subseteq all /\ ClosedUnder(all, seen')
    BY <1>3, <2>1, ReachClosed
  <2>3. ClosedUnder(all, records)
    BY <1>1, <2>2 DEF ClosedUnder, CNames
  <2>4. Reach(asked, seen) \subseteq all
    BY <1>1, ReachGrows
  <2>5. roots \subseteq all
    BY <1>2, <1>4, <2>2, <2>4 DEF Roots
  <2> HIDE DEF all, records, roots
  <2>6. Trusted(roots, answer) \in SUBSET (Names \cap all)
    BY <1>4, <2>3, <2>5, TrustedWithin DEF records
  <2> QED BY <2>6 DEF all
<1> HIDE DEF trusted, records
<1>8. reached \subseteq trusted
  BY <1>4, <1>6, <1>7, ReachLeast
<1>9. aliases \subseteq aliases' /\ seen \subseteq seen' /\ trusted \subseteq Known'
  BY <1>1, <1>4 DEF Known, Roots
<1>10. DNSTypeOK'
  <2>1. aliases' \subseteq Names /\ seen' \subseteq CName \cup ARecord
    BY <1>1, <1>3, <1>5, <1>7
  <2>2. phase \in {"answer", "learn"} /\ next.phase = phase /\ next.name = query[q].name
    OBVIOUS
  <2> HIDE DEF next, phase
  <2>3. ASSUME NEW p \in Queries
        PROVE  /\ query'[p].phase \in Phases
               /\ query'[p].phase # "idle" => query'[p].name \in Names
    <3>1. CASE p = q
      BY <1>1, <1>2, <1>3, <2>2, <3>1 DEF Phases
    <3>2. CASE p # q
      BY <1>1, <1>2, <3>2 DEF DNSTypeOK
    <3> QED BY <3>1, <3>2
  <2> QED BY <1>1, <1>2, <2>1, <2>3 DEF DNSTypeOK
<1>11. aliases' \subseteq Reach(asked', seen')
  <2>1. Reach(asked, seen) \subseteq Reach(asked', seen')
    BY <1>1, ReachGrows
  <2> QED BY <1>1, <1>2, <1>7, <2>1
<1>12. QueryInv(q)'
  <2>1. networks \subseteq PublicHosts
    BY MergedHosts DEF records
  <2>2. networks \subseteq Ours'
    <3>1. records \subseteq seen' /\ trusted \subseteq Reach(asked', seen')
      BY <1>1, <1>7
    <3> QED BY <3>1, MergeGrows DEF Ours
  <2>3. \A host \in promised : CanonicalNetwork(host) \in networks
    BY <1>8, PublicMerged
  <2>4. reached \subseteq Known'
    BY <1>8, <1>9
  <2>5. /\ query'[q] = next /\ phase \in {"answer", "learn"}
        /\ phase = "answer" => networks = {}
    BY <1>1, <1>2
  <2>6. /\ query'[q].phase = phase /\ query'[q].networks = networks
        /\ query'[q].promised = promised /\ query'[q].targets = reached
        /\ query'[q] = [phase |-> phase, name |-> query'[q].name, networks |-> networks,
                        promised |-> promised, targets |-> reached]
    BY <2>5
  <2> HIDE DEF next, phase, networks, promised, reached
  <2> QED BY <2>1, <2>2, <2>3, <2>4, <2>5, <2>6 DEF QueryInv
<1>13. ASSUME NEW p \in Queries, p # q PROVE QueryInv(p)'
  <2>1. query[p]' = query[p]
    BY <1>1, <1>13
  <2>2. acknowledged \subseteq acknowledged' /\ asked \subseteq asked'
    BY <1>1
  <2> QED BY <1>9, <2>1, <2>2, OthersKept
<1>14. query' = [p \in Queries |-> query'[p]]
  BY <1>1, <1>2
<1>15. given' \subseteq Known'
  BY <1>1, <1>2, <1>9 DEF Known
<1> QED BY <1>10, <1>11, <1>12, <1>13, <1>14, <1>15 DEF DNSInv

\* Any other step of a goroutine puts some record in the place of its query,
\* and takes back no alias, no learned network and no history.
LEMMA OtherStep ==
    ASSUME DNSInv, NEW q \in Queries, NEW next, query' = [query EXCEPT ![q] = next],
           next.phase \in Phases, next.phase # "idle" => next.name \in Names,
           aliases' = aliases,
           acknowledged \subseteq acknowledged', acknowledged' \subseteq PublicHosts,
           asked \subseteq asked', asked' \subseteq Netflix, seen' = seen,
           given' \subseteq Known \cap Names, QueryInv(q)'
    PROVE  DNSInv'
<1>1. ASSUME NEW p \in Queries, p # q
      PROVE  QueryInv(p)' /\ query[p]' = query[p]
  <2>1. query[p]' = query[p]
    BY <1>1 DEF DNSInv
  <2> QED BY <2>1, OthersKept
<1>2. query'[q] = next /\ query' = [p \in Queries |-> query'[p]]
  BY DEF DNSInv
<1>3. aliases' \subseteq Reach(asked', seen')
  <2>1. Reach(asked, seen) \subseteq Reach(asked', seen')
    BY ReachGrows
  <2> QED BY <2>1 DEF DNSInv
<1>4. DNSTypeOK'
  BY <1>1, <1>2 DEF DNSInv, DNSTypeOK, PublicHosts
<1> QED BY <1>1, <1>2, <1>3, <1>4 DEF DNSInv, Known

\* A question is recorded, and trusts what is known.
LEMMA RequestStep ==
    ASSUME DNSInv, NEW q \in Queries, NEW name \in Names, Request(q, name)
    PROVE  DNSInv'
<1> DEFINE next == [phase |-> "exchange", name |-> name,
                    own |-> {name} \cap (Netflix \cup given)]
<1>1. /\ query' = [query EXCEPT ![q] = next]
      /\ asked' = asked \cup ({name} \cap Netflix)
      /\ UNCHANGED <<aliases, acknowledged, given, seen>>
  BY DEF Request
<1>2. /\ next.phase = "exchange" /\ next.name = name
      /\ next.own = {name} \cap (Netflix \cup given)
  OBVIOUS
<1> HIDE DEF next
<1>3. query'[q] = next
  BY <1>1 DEF DNSInv
<1>4. given \subseteq Known /\ acknowledged \subseteq PublicHosts /\ given \subseteq Names
      /\ asked \subseteq Netflix
  BY DEF DNSInv, DNSTypeOK, PublicHosts
<1>5. QueryInv(q)'
  BY <1>1, <1>2, <1>3, <1>4 DEF QueryInv, Known
<1> QED BY <1>1, <1>2, <1>4, <1>5, OtherStep DEF Phases

\* What learn has acknowledged is what the query promised.
LEMMA LearnedStep ==
    ASSUME DNSInv, NEW q \in Queries, Learned(q)
    PROVE  DNSInv'
<1> DEFINE next == [phase |-> "answer", name |-> query[q].name, networks |-> {},
                    promised |-> query[q].promised, targets |-> query[q].targets]
<1>1. /\ query[q].phase = "learn"
      /\ acknowledged' = acknowledged \cup query[q].networks
      /\ UNCHANGED <<aliases, given, asked, seen>>
  BY DEF Learned
<1>2. QueryInv(q) /\ query = [p \in Queries |-> query[p]]
  BY DEF DNSInv
<1>3. query' = [query EXCEPT ![q] = next]
  <2>1. query' = [query EXCEPT ![q] = [query[q] EXCEPT !.phase = "answer", !.networks = {}]]
    BY DEF Learned
  <2>2. query[q] = [phase |-> "learn", name |-> query[q].name,
                    networks |-> query[q].networks,
                    promised |-> query[q].promised, targets |-> query[q].targets]
    BY <1>1, <1>2 DEF QueryInv
  <2> DEFINE old == query[q]
             new == [old EXCEPT !.phase = "answer", !.networks = {}]
  <2>3. old \in [phase : {"learn"}, name : {old.name}, networks : {old.networks},
                 promised : {old.promised}, targets : {old.targets}]
    BY <2>2
  <2> HIDE DEF old
  <2>4. new \in [phase : {"answer"}, name : {old.name}, networks : {{}},
                 promised : {old.promised}, targets : {old.targets}]
    BY <2>3
  <2> HIDE DEF new
  <2>5. new = [phase |-> "answer", name |-> old.name, networks |-> {},
               promised |-> old.promised, targets |-> old.targets]
    BY <2>4
  <2> QED BY <2>1, <2>5 DEF old, new
<1>4. /\ next.phase = "answer" /\ next.name = query[q].name
      /\ next.promised = query[q].promised /\ next.targets = query[q].targets
  OBVIOUS
<1> HIDE DEF next
<1>5. query'[q] = next
  BY <1>2, <1>3
<1>6. /\ query[q].name \in Names /\ given \subseteq Known \cap Names
      /\ acknowledged' \subseteq PublicHosts /\ asked \subseteq Netflix
  BY <1>1, <1>2 DEF DNSInv, DNSTypeOK, PublicHosts, QueryInv
<1>7. QueryInv(q)'
  BY <1>1, <1>2, <1>4, <1>5 DEF QueryInv, Known
<1> QED BY <1>1, <1>3, <1>4, <1>6, <1>7, OtherStep DEF Phases

\* SERVFAIL, and the answer.
LEMMA EndStep ==
    ASSUME DNSInv, NEW q \in Queries, ExchangeFails(q) \/ LearnFails(q) \/ Answer(q)
    PROVE  DNSInv'
<1>1. /\ query' = [query EXCEPT ![q] = NoQuery]
      /\ UNCHANGED <<aliases, acknowledged, asked, seen>>
  BY DEF ExchangeFails, LearnFails, Answer
<1>2. /\ QueryInv(q) /\ query = [p \in Queries |-> query[p]]
      /\ given \subseteq Known \cap Names /\ aliases \subseteq Names
      /\ acknowledged \subseteq PublicHosts /\ asked \subseteq Netflix
  BY DEF DNSInv, DNSTypeOK, PublicHosts
<1>3. query'[q] = NoQuery /\ NoQuery.phase = "idle"
  BY <1>1, <1>2 DEF NoQuery
<1>4. given' \subseteq Known \cap Names
  <2>1. CASE Answer(q)
    <3>1. given' = given \cup query[q].targets /\ query[q].targets \subseteq Known
      BY <1>2, <2>1 DEF Answer, QueryInv
    <3>2. Known \subseteq Names
      BY <1>2, DNSAssumption DEF Known
    <3> QED BY <1>2, <3>1, <3>2
  <2>2. CASE ExchangeFails(q) \/ LearnFails(q)
    BY <1>2, <2>2 DEF ExchangeFails, LearnFails
  <2> QED BY <2>1, <2>2
<1>5. QueryInv(q)'
  BY <1>3 DEF QueryInv
<1> QED BY <1>1, <1>2, <1>3, <1>4, <1>5, OtherStep DEF Phases

\* A restart forgets the aliases together with what rests on them.
LEMMA RestartStep ==
    ASSUME DNSInv, Restart
    PROVE  DNSInv'
<1>1. /\ aliases' = {} /\ given' = {} /\ asked' = {} /\ seen' = {}
      /\ query' = [q \in Queries |-> NoQuery] /\ acknowledged' = acknowledged
  BY DEF Restart
<1>2. \A q \in Queries : query'[q].phase = "idle"
  BY <1>1 DEF NoQuery
<1>3. DNSTypeOK'
  BY <1>1, <1>2 DEF DNSInv, DNSTypeOK, Phases
<1>4. \A q \in Queries : QueryInv(q)'
  BY <1>2 DEF QueryInv
<1> QED BY <1>1, <1>3, <1>4 DEF DNSInv

\* Every step keeps the invariant.
LEMMA DNSStep ==
    ASSUME DNSInv, [DNSNext]_dnsVars
    PROVE  DNSInv'
<1>1. CASE UNCHANGED dnsVars
  BY <1>1 DEF dnsVars, DNSInv, DNSTypeOK, QueryInv, Known, Ours
<1> QED BY <1>1, RequestStep, InspectStep, LearnedStep, EndStep, RestartStep DEF DNSNext

\* What inspect remembers of concurrent queries stays justified, and what a
\* client was promised stays in the query until it is acknowledged.
THEOREM DNSCorrect == DNSSpec => []DNSInv
<1>1. DNSInit => DNSInv
  BY DEF DNSInit, DNSInv, DNSTypeOK, QueryInv, Phases, NoQuery
<1> QED BY <1>1, DNSStep, PTL DEF DNSSpec

\* The type invariant: an alias is a name, and what learn was called with is a
\* host that Merge leaves as it is.
THEOREM DNSTypeCorrect == DNSSpec => []DNSTypeOK
<1>1. DNSInv => DNSTypeOK
  BY DEF DNSInv
<1> QED BY <1>1, DNSCorrect, PTL

\* No address of a Netflix name, or of a CNAME target that the proxy has given
\* out, reaches a client before it is learned: inspect's passes go far enough
\* for every order of the records, and a concurrent query takes nothing away.
THEOREM AnswersLearnedHolds == DNSSpec => []AnswersLearned
<1>1. DNSInv => AnswersLearned
  BY DEF DNSInv, QueryInv, AnswersLearned
<1> QED BY <1>1, DNSCorrect, PTL

\* inspect's passes go no further than the records lead: nothing is learned
\* that a Netflix name somebody asked for does not lead to.
THEOREM LearnsOnlyNetflixHolds == DNSSpec => []LearnsOnlyNetflix
<1>1. DNSInv => LearnsOnlyNetflix
  BY DEF DNSInv, QueryInv, LearnsOnlyNetflix, Ours
<1> QED BY <1>1, DNSCorrect, PTL

\* Whatever addresses an answer holds, private ones too, learn is called with
\* networks that its check accepts: no answer fails for what is in it.
THEOREM LearnsValidHolds == DNSSpec => []LearnsValid
<1>1. DNSInv => LearnsValid
  <2> SUFFICES ASSUME DNSInv, NEW q \in Queries, query[q].phase = "learn",
                      NEW value \in query[q].networks
               PROVE  Accepted(value) /\ CanonicalNetwork(value).ones = 32
    BY DEF LearnsValid, ValidateNetworks
  <2> QED BY DEF DNSInv, QueryInv, PublicHosts
<1> QED BY <1>1, DNSCorrect, PTL
=============================================================================
