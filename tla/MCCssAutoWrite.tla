--------------------------- MODULE MCCssAutoWrite ---------------------------
\* A sheet of three rules; the long value shifts what follows by one rule, so
\* that a range of the text before it falls on another rule of the text after.
EXTENDS CssAutoWrite

CONSTANTS k1, k2, k3

ValueWidth == [v \in Values |-> IF v = "short" THEN 1 ELSE 4]

StartSheet == RuleText(k1, "short") \o RuleText(k2, "short") \o RuleText(k3, "short")

\* Another program writes the rules in another order, one of them gone.
OutsideSheets == {RuleText(k3, "short") \o RuleText(k1, "long")}

Edited == {<<k1, "long">>, <<k1, "short">>, <<k3, "long">>}
=============================================================================
