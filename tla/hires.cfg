SPECIFICATION FairSpec
CONSTANTS
  c1 = c1
  o1 = o1
  o2 = o2
  e1 = e1
  Candidates = {c1}
  Offers = {o1, o2, o3}
  Staff = {ana, budi}
  Crons = {k1}
  Workers = {w1}
  Clerks = {h1}
  Emails = {e1}
  Email <- MCEmail
  NoCandidate = NoCandidate
  NoOffer = NoOffer
  NoEmail = NoEmail
  Starts <- MCStarts
  Menu <- AllRequests
  MaxOps = 2
  MaxNews = 2
  MaxFaults = 1
  MaxDeliver = 2
INVARIANTS TypeOK EmployedOnce NewsIsTrue TermsAreAgreed OneOpenOffer
PROPERTIES FinalStays HiredIsTakenOver
CHECK_DEADLOCK FALSE
