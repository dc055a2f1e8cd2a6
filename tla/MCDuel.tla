------------------------------- MODULE MCDuel -------------------------------
EXTENDS Duel

Still == {5}

\* The columns of the obstacles alternate; no item ever comes.
OddEven(n, r) == r = 1 + ((n \div 2) % 2)
=============================================================================
