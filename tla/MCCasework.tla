------------------------------ MODULE MCCasework ------------------------------
(* Instances of Casework for TLC: two required workstreams, three entities. *)
EXTENDS Casework, TLC

MCRequired == <<"legal", "finance">>

MCOwner    == [contracts |-> "legal", financials |-> "finance"]

Cite(category, d) == [category |-> category, document |-> d]

ClaimOf(n, ws, es, cites) ==
  [kind |-> "claim", name |-> n, ws |-> ws, entities |-> es, critical |-> TRUE,
   sure |-> TRUE, offline |-> TRUE, contract |-> TRUE, cites |-> cites]

\* An offline claim, a live candidate that converges with it, and a claim and a
\* reading of what another workstream owns.
Msa == Cite("contracts", "msa")
Fy27 == Cite("financials", "fy27")

Clause    == ClaimOf(1, "legal", {1, 2}, <<Msa>>)
Revenue   == [ClaimOf(2, "finance", {1}, <<Fy27>>) EXCEPT !.critical = FALSE]
Suspicion == [ClaimOf(3, "finance", {1, 3}, <<Fy27>>)
                EXCEPT !.sure = FALSE, !.offline = FALSE]
Trespass  == [ClaimOf(4, "finance", {2}, <<Fy27, Msa>>) EXCEPT !.offline = FALSE]
Peek      == [kind |-> "reading", name |-> 5, ws |-> "legal", cite |-> Fy27]

MCDocuments == {"msa", "fy27"}
MCPlan   == <<Clause, Trespass, Peek, Suspicion, Synthesize>>
MCResume == <<Clause, Revenue, Synthesize>>

Symmetry == Permutations(Workers)
=============================================================================
