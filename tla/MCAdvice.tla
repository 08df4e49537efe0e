------------------------------ MODULE MCAdvice ------------------------------
(***************************************************************************)
(* An instance of Advice for TLC: two funders, and a policy file that is   *)
(* replaced by one with other terms and without the second; two facts are  *)
(* read from the documents, and with the one file or the other both        *)
(* funders, either or nobody is eligible; three precedents, of which two   *)
(* are tied on one vector.                                                 *)
(***************************************************************************)
EXTENDS Advice, TLC

CONSTANTS Northstar, Harbour

Lends(dscr, regions) ==
  [industry |-> {"textiles", "retail"}, region |-> regions, loan_type |-> {"term_loan"},
   requested_amount |-> [min |-> 1, max |-> 50], dscr |-> dscr, debt_to_ebitda |-> 4,
   collateral_cover |-> 1, years_operating |-> 3]

Before2025 == (Northstar :> Lends(2, {"west"})) @@ (Harbour :> Lends(1, {"west", "south"}))
From2025 == Northstar :> Lends(2, {"south"})
TheBooks == {Before2025, From2025}

TheFacts == <<"years_operating", "region">>
TheAnswers == [years_operating |-> {3, Padded, Missing}, region |-> {"west", "south", Foreign, Invalid}]
TheRest == [industry |-> "textiles", loan_type |-> "term_loan", requested_amount |-> 50,
            debt_to_ebitda |-> 4, collateral_cover |-> 1, dscr |-> 2]

Funder == <<Northstar, Northstar, Harbour>>
OnProfile == <<60, 60, 40>>
OnComments == <<20, 40, 90>>
=============================================================================
