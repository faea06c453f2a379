SPECIFICATION Spec
CONSTANTS
  r1 = r1
  r2 = r2
  r3 = r3
  s1 = s1
  s2 = s2
  q1 = q1
  q2 = q2
  q3 = q3
  a1 = a1
  a2 = a2
  NoAnswer = NoAnswer
  Run = {r1, r2, r3}
  Session = {s1, s2}
  SessionOf <- MCSessionOf
  Question = {q1, q2, q3}
  Score <- MCScore
  Threshold = 85
  Timely = {q3}
  Answer = {a1, a2}
PROPERTY
  FollowUpIsResearched
