------------------------------- MODULE MCGame -------------------------------
EXTENDS Game

\* Left, and up to the right.
TwoKeys == {4, 9}

\* 0 is a column of its own, a chance taken and CLEAR_MAP; 7 another column,
\* no item and BOMB.  After the first calls the sequence is fixed, which
\* bounds the number of games.
ZeroOrSeven(n, r) == r \in {0, 7} /\ (n > 7 => r = 0)
=============================================================================
