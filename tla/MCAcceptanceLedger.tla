---- MODULE MCAcceptanceLedger ----
\* Finite instances of AcceptanceLedger: participant k1 signs two records for
\* its cohort, the others one each.
EXTENDS AcceptanceLedger, TLC

CONSTANTS k1, k2, k3, h1a, h1b, h2, h3

MCKeyOf == h1a :> k1 @@ h1b :> k1 @@ h2 :> k2 @@ h3 :> k3

RequestSymmetry == Permutations(Request)
====
