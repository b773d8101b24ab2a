SPECIFICATION FairSpec
CONSTANT NUM = 5
PROPERTY SomeoneEats
CHECK_DEADLOCK FALSE
