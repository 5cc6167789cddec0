\* Two people, one project that moves between two programs, two requests in flight, three acts,
\* and every pair may have history from before there were records.
SPECIFICATION Spec
CONSTANTS
  Users = {u1, u2}
  Programs = {p1, p2}
  Projects = {j1}
  NoProgram = NoProgram
  Slots = {s1, s2}
  MaxActs = 3
  Items = {e1}
  Former <- Pairs
SYMMETRY Symmetry
INVARIANTS TypeOK ChainIntact
PROPERTIES ImplementsHistory FinalTeamKept
CHECK_DEADLOCK FALSE
