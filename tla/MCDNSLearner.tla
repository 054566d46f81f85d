---------------------------- MODULE MCDNSLearner ----------------------------
(* Instances of DNSLearner for TLC.                                         *)
EXTENDS DNSLearner, SequencesExt, TLC

CONSTANTS q1, q2, netflix, cdn, edge

TwoQueries == {q1, q2}
ThreeNames == {netflix, cdn, edge}
OneNetflix == {netflix}

Alias(owner, target) == [type |-> "CNAME", owner |-> owner, target |-> target]
Is(owner, ip) == [type |-> "A", owner |-> owner, ip |-> ip]

\* Addresses of each name, one of them private.
SomeRecords ==
    {Alias(netflix, cdn), Alias(cdn, edge), Alias(edge, cdn),
     Is(netflix, <<45, 57, 22, 134>>),
     Is(edge, <<54, 84, 54, 3>>), Is(edge, <<192, 168, 8, 1>>)}
Chain == {Alias(netflix, cdn), Alias(cdn, edge), Is(edge, <<54, 84, 54, 3>>)}

\* Up to two records, one of them a CNAME, or a chain of two CNAMEs, in every
\* order.
SomeAnswers ==
    {<<>>} \cup {<<r>> : r \in SomeRecords}
    \cup {<<r, s>> : r \in CNames(SomeRecords), s \in SomeRecords}
    \cup {<<r, s>> : r \in ARecords(SomeRecords), s \in CNames(SomeRecords)}
    \cup SetToSeqs(Chain)

QuerySymmetry == Permutations(Queries)
=============================================================================
