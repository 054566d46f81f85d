\* Two concurrent queries, three names, answers of up to two records and a chain of
\* CNAMEs in every order.
SPECIFICATION DNSSpec
CONSTANTS
    q1 = q1
    q2 = q2
    netflix = netflix
    cdn = cdn
    edge = edge
    Queries <- TwoQueries
    Names <- ThreeNames
    Netflix <- OneNetflix
    Answers <- SomeAnswers
SYMMETRY QuerySymmetry
INVARIANTS DNSTypeOK AnswersLearned LearnsOnlyNetflix LearnsValid
