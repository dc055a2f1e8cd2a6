------------------------------- MODULE Match -------------------------------
(***************************************************************************)
(* What the match server promises its players, without threads, messages   *)
(* or a mutex: people sit down at a table, say they are ready, a match     *)
(* begins, each reports the end of its own game, and the match is settled  *)
(* and ended.  Server.tla implements this module: ServerProofs.tla and     *)
(* MatchProofs.tla hold the proof, MCServer.cfg a check.                   *)
(***************************************************************************)
EXTENDS Integers

CONSTANTS
    Person,     \* those who may sit down
    Place,      \* the places at the table, a set of integers
    Nobody      \* who sits at an empty place

VARIABLES
    seat,       \* who sits where
    ready,      \* the places whose player wants to begin
    over,       \* the people who have reported the end of their game
    starting,   \* the people whose "ready" was the last one needed
    playing,    \* a match is on
    settled     \* its outcome is fixed and about to be announced

vars == <<seat, ready, over, starting, playing, settled>>

Free(s) == seat[s] = Nobody
Standing(p) == \A s \in Place : seat[s] # p
\* Nobody is left to play against.
Deserted == \A s, t \in Place : s # t => Free(s) \/ Free(t)
EveryoneOver == \A s \in Place : ~Free(s) => over[seat[s]]

Init ==
    /\ seat = [s \in Place |-> Nobody]
    /\ ready = [s \in Place |-> FALSE]
    /\ over = [p \in Person |-> FALSE]
    /\ starting = {}
    /\ ~playing
    /\ ~settled

-----------------------------------------------------------------------------
\* Someone who stands takes the lowest free place, and is not ready.
Sit(p) ==
    /\ ~settled
    /\ Standing(p)
    /\ \E s \in Place :
        /\ Free(s)
        /\ \A t \in Place : t < s => ~Free(t)
        /\ seat' = [seat EXCEPT ![s] = p]
        /\ ready' = [ready EXCEPT ![s] = FALSE]
    /\ UNCHANGED <<over, starting, playing, settled>>

\* A player leaves its place, in or out of a match.  In a match its report
\* counts until the match has ended.
Stand(p) ==
    /\ ~settled
    /\ \E s \in Place :
        /\ seat[s] = p
        /\ seat' = [seat EXCEPT ![s] = Nobody]
        /\ ready' = [ready EXCEPT ![s] = FALSE]
    /\ over' = IF playing THEN over ELSE [over EXCEPT ![p] = FALSE]
    /\ UNCHANGED <<starting, playing, settled>>

\* A player changes its mind.  The one that completes a full table of ready
\* players, with no match on, may start one.
Toggle(p, b) ==
    /\ ~settled
    /\ \E s \in Place :
        /\ seat[s] = p
        /\ ready' = [ready EXCEPT ![s] = b]
    /\ starting' = IF ~playing /\ \A s \in Place : ~Free(s) /\ ready'[s]
                   THEN starting \cup {p} ELSE starting
    /\ UNCHANGED <<seat, over, playing, settled>>

\* The match begins.  Nothing says the table is still full and ready.
Begin(p) ==
    /\ ~settled
    /\ p \in starting
    /\ playing' = TRUE
    /\ starting' = starting \ {p}
    /\ UNCHANGED <<seat, ready, over, settled>>

\* Someone reports whether its game is over, at any time.
Report(p, o) ==
    /\ over' = [over EXCEPT ![p] = o]
    /\ UNCHANGED <<seat, ready, starting, playing, settled>>

\* A match is settled once every player's game is over or one is left.
Settle ==
    /\ playing
    /\ ~settled
    /\ EveryoneOver \/ Deserted
    /\ settled' = TRUE
    /\ UNCHANGED <<seat, ready, over, starting, playing>>

\* A settled match ends, and those at the table begin afresh.
End ==
    /\ settled
    /\ playing' = FALSE
    /\ settled' = FALSE
    /\ ready' = [s \in Place |-> FALSE]
    /\ over' = [p \in Person |-> IF Standing(p) THEN over[p] ELSE FALSE]
    /\ UNCHANGED <<seat, starting>>

\* Someone who stands is forgotten; a match begun for a deserted table may
\* be called off then, without an outcome.
Depart(p) ==
    /\ Standing(p)
    /\ over' = [over EXCEPT ![p] = FALSE]
    /\ \/ UNCHANGED playing
       \/ Deserted /\ ~settled /\ playing' = FALSE
    /\ UNCHANGED <<seat, ready, starting, settled>>

Next ==
    \/ \E p \in Person : Sit(p) \/ Stand(p) \/ Begin(p) \/ Depart(p)
    \/ \E p \in Person, b \in BOOLEAN : Toggle(p, b) \/ Report(p, b)
    \/ Settle \/ End

Spec == Init /\ [][Next]_vars
=============================================================================
