------------------------- MODULE MCIngressReconcile --------------------------
EXTENDS IngressReconcile, TLC

CONSTANTS i1, i2

Rev(phase, class, lb, empty) == [phase |-> phase, class |-> class, lb |-> lb, empty |-> empty]

Gone == Rev("absent", "other", "unset", FALSE)

\* Both modes, the class-less form the IngressClass decides on, and the end of an
\* Ingress, also of one that has left the class before.
MCRevisions ==
    {Rev("live", "dolphin", "dedicated", FALSE), Rev("live", "dolphin", "unset", FALSE),
     Rev("live", "empty", "dedicated", FALSE), Rev("live", "other", "unset", FALSE),
     Rev("deleting", "other", "unset", FALSE), Gone}
\* Also one of the class that waits for its deletion, one without listeners, one with an
\* explicit mode and one that names no class at all.
MoreRevisions ==
    MCRevisions \cup {Rev("deleting", "dolphin", "unset", FALSE), Rev("live", "dolphin", "dedicated", TRUE),
                     Rev("live", "empty", "shared", FALSE), Rev("live", "nil", "unset", FALSE)}

MCInit == {Rev("live", "dolphin", "dedicated", FALSE), Rev("live", "dolphin", "unset", FALSE)}
\* Names of Ingresses are interchangeable.
Symmetric == Permutations({i1, i2})
=============================================================================
