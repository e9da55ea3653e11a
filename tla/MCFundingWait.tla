---- MODULE MCFundingWait ----
\* Finite instances of FundingWait.
EXTENDS FundingWait

CONSTANTS dust, short, enough, more

\* The values that tell the predicate's cases apart; the change is worth a
\* dead end.
MCSats == [d \in {dust, short, enough, more} |->
              CASE d = dust -> 1 [] d \in {short, more} -> 2 [] OTHER -> 3]
MCDeposit == {dust, short, enough}
====
