----------------------------- MODULE MCSession -----------------------------
(* Session for TLC. *)
EXTENDS Session

AliceGrants == [alice |-> {"general"}]

SessionConfig ==
    [mode |-> "session", secret |-> "s1", ttl |-> 5, grants |-> AliceGrants,
     origins |-> {"https://chat"}, limits |-> TRUE]

\* The secret rotated and the lifetime shortened, each alone, and a server
\* that is open to everyone.
MCConfigs ==
    {SessionConfig,
     [SessionConfig EXCEPT !.secret = "s2"],
     [SessionConfig EXCEPT !.ttl = 2],
     [SessionConfig EXCEPT !.mode = "anonymous", !.origins = {},
                           !.limits = FALSE]}

MCRoomNames ==
    {[room |-> "general", form |-> "empty"],
     [room |-> "private", form |-> "mixed"],
     [room |-> "private", form |-> "characters"]}

MCOrigins == {None, "https://chat", "https://other"}

FrameOf(type, content, valid) ==
    [type |-> type, content |-> content, valid |-> valid]

PongFrame == FrameOf("pong", "", TRUE)
Rename == FrameOf("username", "carol", TRUE)
Text == FrameOf("message", "text", TRUE)
Blank == FrameOf("other", "", FALSE)

MCBatches == {<<PongFrame>>, <<Text>>, <<Text, Text>>, <<Rename, Text>>, <<Blank, PongFrame>>}
=============================================================================
