------------------------- MODULE MCRequesterSession -------------------------
EXTENDS RequesterSession

CONSTANTS h1, h2

=============================================================================
