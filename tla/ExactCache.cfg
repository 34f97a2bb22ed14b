\* Two tenants asking the same two questions, and room for three answers.
CONSTANTS
    ten1 = ten1
    ten2 = ten2
    h1 = h1
    h2 = h2
    a1 = a1
    a2 = a2
    Nil = Nil
    Tenants = {ten1, ten2}
    Hashes = {h1, h2}
    Answers = {a1, a2}
    MaxEntries = 3
    TTL = 2
SPECIFICATION Spec
INVARIANTS
    ListIntact
PROPERTIES
    ImplementsLru
