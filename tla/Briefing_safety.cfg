CONSTANTS
  a1 = a1
  a2 = a2
  bill = bill
  form = form
  promo = promo
  q1 = q1
  q2 = q2
  Artifact = {a1, a2}
  Request = {r1, r2}
  Thread = {t1, t2}
  Text <- MCText
  NoText = NoText
  Foreign = Foreign
  Quote = {q1, q2}
  NoQuote = NoQuote
  Says <- MCSays
  Scoring <- MCScoring
  Extracted <- MCExtracted
  Answers <- MCAnswers
  NoRequest = NoRequest
  NoThread = NoThread
  Faults <- AnyFault
SPECIFICATION Spec
SYMMETRY Symmetry
INVARIANTS
  ItemsAreCited
  VerifiedWasShown
PROPERTIES
  ImplementsPublication
