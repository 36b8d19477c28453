SPECIFICATION FairSpec
CONSTANTS
  o1 = o1
  o2 = o2
  o3 = o3
  i = i
  j = j
  None = None
  Owners = {o1, o2, o3}
  PublicId <- MCPublicId
  Ports = {p1}
  Callers = {c1, c2}
PROPERTIES RouteIsAdmitted WaitersAnswered
