------------------------------- MODULE MCPull -------------------------------
EXTENDS Pull, TLC

CONSTANTS a, b, doc, log

TwoLines == {{a}, {b}, {a, b}}
Lines == Permutations({a, b})
=============================================================================
