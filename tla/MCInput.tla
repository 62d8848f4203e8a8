------------------------------ MODULE MCInput ------------------------------
EXTENDS Input

Codes == [d \in Rings |-> IF d = "kb" THEN 6 ELSE 4]
=============================================================================
