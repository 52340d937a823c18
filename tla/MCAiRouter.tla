----------------------------- MODULE MCAiRouter -----------------------------
EXTENDS AiRouter
CONSTANTS c1, c2, c3, i1, i2
=============================================================================
