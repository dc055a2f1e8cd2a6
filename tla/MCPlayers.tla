----------------------------- MODULE MCPlayers -----------------------------
EXTENDS Players, TLC

CONSTANTS s1, s2

TwoSockets == {s1, s2}
Symmetry2 == Permutations(TwoSockets)

OneScore == {0}
TwoScores == 0 .. 1
OneSeed == {7}

\* Fingerprints leave out what no step reads again: everything once the
\* server has been ended, the request of a thread
\* that waits for the next one, the return point of a thread in no call, and
\* the locals and the stream of a thread that has ended.
Live(k) == pc[k] \notin {"new", "refused", "done"}
LiveState ==
    IF ~alive THEN <<>> ELSE
    <<clients, lobby, lobby_mutex, pc, result,
      [k \in Conn |-> IF Live(k)
         THEN <<client_idx[k], client_fd[k], sent[k]>> ELSE <<>>],
      [k \in Conn |-> IF Live(k) /\ pc[k] # "recv" THEN msg[k] ELSE Eof],
      [k \in Conn |-> IF pc[k] \in {"game_end", "game_end_commit", "broadcast"}
         THEN ret[k] ELSE "recv"],
      [k \in Conn |-> IF Live(k) THEN <<peer[k], closed[k]>> ELSE <<>>]>>
=============================================================================
