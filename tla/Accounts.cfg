SPECIFICATION Spec
CONSTANTS
  u1 = u1
  u2 = u2
  i1 = i1
  r1 = r1
  r2 = r2
  k1 = k1
  k2 = k2
  q1 = q1
  q2 = q2
  q3 = q3
  b1 = b1
  Nobody = Nobody
  Users = {u1, u2}
  Codes = {i1}
  Registrations = {r1, r2}
  Clients = {k1, k2}
  Requests = {q1, q2, q3, b1}
  Binders = {b1}
  DefaultLimit = 1
  Limits = {1, 2}
  NameOf <- MCNameOf
  CodeOf <- MCCodeOf
  OwnerOf <- MCOwnerOf
  ClientOf <- MCClientOf
INVARIANTS
  TypeOK
  InviteOnce
  RevokedLeaves
PROPERTIES
  WithinLimit
