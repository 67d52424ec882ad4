SPECIFICATION FairSpec
CONSTANTS
    c1 = c1  c2 = c2  c3 = c3
    Clones <- MCClones
    Slots = {1, 2, 3}
    MaxRestarts = 1
INVARIANT TypeOK
INVARIANT OneCandidatePerSlot
PROPERTY ConsensusLatch
PROPERTY TakenSlotIsWorked
