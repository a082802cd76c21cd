------------------------------ MODULE MCSQHeap ------------------------------
EXTENDS SQHeap, TLC

\* Objects without a hook, and weak references, are interchangeable.
Symmetric == Permutations(Ids \ (Hooked \cup Hidden)) \cup Permutations(WIds)

\* What is neither hooked nor hidden is a closure, whose member is its
\* prototype.
Closures == Ids \ (Hooked \cup Hidden)
ClosureSlots == Closures \X Fields
ClosureKeeps == Closures \X Hidden
NoPairs == {}
=============================================================================
