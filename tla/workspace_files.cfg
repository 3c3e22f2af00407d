\* Three commits: one in the original, one in the database that replaced it,
\* one in the backup.  Two failures in a call reach the paths where putting
\* the original back fails as well.
SPECIFICATION Spec
CONSTANTS
  Creators = {c1, c2}
  CommitMax = 3
  FaultMax = 2
SYMMETRY Symmetry
INVARIANTS TypeOK NothingLost DatabaseWhole SumMatches NoResidue AllOrNothing
