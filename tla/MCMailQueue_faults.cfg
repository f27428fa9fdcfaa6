CONSTANTS
  m1 = m1  m2 = m2  m3 = m3  m4 = m4  w1 = w1
  NoMail = NoMail
  Mails = {m1, m2, m3, m4}
  Recorded = {m1, m2}
  Silent = {m3}
  Workers = {w1}
  Attempts = 2
  MaxStalls = 1
  Faults = {"queue", "send", "database"}
  MaxCrashes = 1
SPECIFICATION FairSpec
INVARIANTS SentIsTrue CompletionIsEarned 
PROPERTIES OutcomeIsFinal  JobsSettle
CHECK_DEADLOCK FALSE
