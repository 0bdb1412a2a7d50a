SPECIFICATION LiveSpec
CONSTANTS
  s1 = s1
  s2 = s2
  r1 = r1
  r2 = r2
  k1 = k1
  k2 = k2
  m1 = m1
  m2 = m2
  m3 = m3
  Session = {s1}
  Reviewer = {r1, r2}
  Key = {k1, k2}
  Msg = {m1}
  SessionOf <- OneSession
  MaxPauses = 2
  DraftCap = 1
  Envs = {{"timeout", "fail"}, {"edit", "fail"}}
PROPERTIES LogSpec RequestsEnd
CHECK_DEADLOCK FALSE
