\* Three reviewers; the rounds and the limit are those of the code.
CONSTANTS
  product = product
  qa = qa
  security = security
  Reviewers = {product, qa, security}
  Product = product
  Qa = qa
  MaxRounds = 2
  RecursionLimit = 25
SPECIFICATION Spec
INVARIANTS OneRound NeverCutOff ReportExplained
PROPERTIES RunEnds
\* A review stops when its report is written, or has failed.
CHECK_DEADLOCK FALSE
