CONSTANT MaxStarts = 1
SPECIFICATION FairSpec
PROPERTY StartEnds
