--------------------------- MODULE MCRateLimiter ---------------------------
(* RateLimiter for TLC: interchangeable callers and a window that slides.  *)
EXTENDS RateLimiter, TLC

Sliding == <<<<1>>, <<1, 2>>, <<2, 3>>>>
Growing == <<<<1>>, <<1, 2>>>>

Symmetric == Permutations(Callers)
=============================================================================
