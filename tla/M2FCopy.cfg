SPECIFICATION Spec
CONSTANTS
  Kinds <- MCKinds
  MaxMembers = 3
  MaxTextFileSize = 4
INVARIANTS FileIsMember EveryMemberTried
