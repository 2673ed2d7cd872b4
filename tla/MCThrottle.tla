----------------------------- MODULE MCThrottle -----------------------------
EXTENDS Throttle

CONSTANTS q1, q2, q3

ThreeRequests == {q1, q2, q3}
=============================================================================
