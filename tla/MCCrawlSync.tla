----------------------------- MODULE MCCrawlSync -----------------------------
EXTENDS CrawlSync, TLC

CONSTANTS a, b

\* Topics are interchangeable.
Symmetry == Permutations({a, b})

=============================================================================
