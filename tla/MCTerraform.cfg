SPECIFICATION Spec
CONSTANTS
  a = a  b = b  c = c  d = d
  p1 = p1  p2 = p2  p3 = p3
  x = x  y = y  m = m  f1 = f1  f2 = f2
  Empty = Empty  None = None
  File = {f1, f2}
  Name = {a, b, c, d}
  Port = {p1, p2, p3}
  FloatingIp = {x, y}
  Group = {m, "all"}
  Content <- MCContent
  MaxContents = 3
INVARIANTS TypeOK AnswerIsTrue OneHostPerAddress InternalTraffic SteadyMember
