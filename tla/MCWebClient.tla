---------------------------- MODULE MCWebClient ----------------------------
(* WebClient for TLC. *)
EXTENDS WebClient

R(rm, ts, id) == [room |-> rm, ts |-> ts, id |-> id]

\* Three rows of one room, two of them in one grain of the clock, whose
\* timestamps and ids disagree, and a row of another room.
MCHistories ==
    {{R("general", 0, 1), R("general", 2, 2), R("general", 1, 3),
      R("engineering", 1, 4)}}
MCLateRows == {R("general", 0, 0)}

\* A room of two pages, for the run about reconnecting.
MCTwoPages == {{R("general", 0, 1), R("general", 0, 2)}}
=============================================================================
