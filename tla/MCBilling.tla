----------------------------- MODULE MCBilling -----------------------------
EXTENDS Billing

MCAllowance == [p \in {"free", "plus", "pro"} |-> IF p = "free" THEN 0 ELSE IF p = "plus" THEN 1 ELSE 2]
MCPrices    == {<<"plus", "annually">>, <<"pro", "monthly">>}
=============================================================================
