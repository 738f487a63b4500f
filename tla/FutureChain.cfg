\* Every chain of four entries.
SPECIFICATION FFairSpec
CONSTANT N = 4
INVARIANTS InputKept InSequence
PROPERTY ChainCompletes
