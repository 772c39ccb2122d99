------------------------------ MODULE MCNvram ------------------------------
EXTENDS Nvram

MCDefault == [v \in Vars |-> "short"]
\* Records of whole sevens of bytes, or of any length.
Sevens == [x \in Values |-> CASE x = "short" -> 4 [] x = "middle" -> 7 [] x = "long" -> 14]
Others == [x \in Values |-> CASE x = "short" -> 4 [] x = "middle" -> 5 [] x = "long" -> 9]
=============================================================================
