--------------------------- MODULE MCLinkedQueue ----------------------------
\* Two queues that share three elements: the checked instance of LinkedQueue.
EXTENDS LinkedQueue
=============================================================================
