--------------------------- MODULE MCRateLimitWindow ---------------------------
\* A day of two time units seen over two and a half days, amounts and limits that fill a
\* period exactly, overflow it by one, and exceed twice the limit.
EXTENDS RateLimitWindow

MCAmounts == 0..5
MCLimits == 0..3
MCTimes == 0..6
=============================================================================
