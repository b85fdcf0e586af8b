-------------------------- MODULE MCWatchController --------------------------
EXTENDS WatchController

CONSTANTS h1, h2, c1, c2, e1, e2

=============================================================================
