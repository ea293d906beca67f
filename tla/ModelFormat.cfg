\* Four elements fill the memory of a list; the code has room for 256, and prints six decimals.
SPECIFICATION Spec
CONSTANTS
  ListCapacity = 4
  Decimals = 2
  Documents <- MCDocuments
  Sources <- MCSources
INVARIANTS  AcceptsGrammar
\* The program ends.
CHECK_DEADLOCK FALSE
