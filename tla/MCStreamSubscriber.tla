------------------------- MODULE MCStreamSubscriber -------------------------
EXTENDS StreamSubscriber

MCPublished == <<<<3, 1, 2, 4>>, <<6, 1, 5>>, <<5, 1, 1>>>>
=============================================================================
