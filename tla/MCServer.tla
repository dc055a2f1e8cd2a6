------------------------------ MODULE MCServer ------------------------------
EXTENDS ServerProofs, TLC

CONSTANTS s1, s2, s3

ThreeSockets == {s1, s2, s3}
Symmetry3 == Permutations(ThreeSockets)
OneScore == {0}
OneSeed == {0}

\* No property of Server.tla depends on what has been sent.
Forget(str, m) == str

\* Fingerprints leave out what no step reads again: everything once the
\* server has been ended, the locals of a thread that has ended, the fields a request does not use, the return point of a
\* thread in no call.
Live(k) == pc[k] \notin {"new", "refused", "done"}
LiveState ==
    IF ~alive THEN <<>> ELSE
    <<clients, lobby, lobby_mutex, pc, result, sent,
      [k \in Conn |-> IF Live(k) THEN <<client_idx[k], client_fd[k]>> ELSE <<>>],
      [k \in Conn |->
         CASE pc[k] \in {"leave", "leave2"} \/ ret[k] = "leave2" -> msg[k].type
           [] pc[k] = "ready" -> msg[k].ready
           [] pc[k] \in {"status", "score_stored", "over_stored", "forward"} ->
                <<msg[k].score, msg[k].game_over>>
           [] OTHER -> <<>>],
      [k \in Conn |-> IF pc[k] \in {"game_end", "game_end_commit", "broadcast"}
         THEN ret[k] ELSE "recv"]>>
=============================================================================
