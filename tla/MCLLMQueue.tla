----------------------------- MODULE MCLLMQueue -----------------------------
(* LLMQueue, and its refinement of JobLedger, on small instances.           *)
EXTENDS LLMQueueLedger

CONSTANTS a1, a2, p1, p2, s1, s2

\* One tick before the second attempt, two before every later one.
ShortBackoffs == <<1, 2>>

\* New York: local time is behind UTC by more than any backoff.
WestOfGreenwich == -5
=============================================================================
