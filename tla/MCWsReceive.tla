---------------------------- MODULE MCWsReceive -----------------------------
(* A small instance of WsReceive: rxbuf has room for 4 + 6 bytes.  Payloads *)
(* are short, as long as allowed, longer by one, and longer than rxbuf; one *)
(* of 4 bytes or more has the longer header.                                *)
EXTENDS WsReceive

Head4(n) == IF n < 4 THEN 2 ELSE 4
Msg(op, fin, n) == [op |-> op, fin |-> fin, head |-> Head4(n), len |-> n]

Singles   == {Msg("TEXT", TRUE, n) : n \in {1, 4, 5, 9}}
Firsts    == {Msg("BINARY", FALSE, n) : n \in {1, 9}}
Lasts     == {Msg("CONTINUATION", TRUE, n) : n \in {1, 9}}
Middles   == {Msg("CONTINUATION", FALSE, n) : n \in {1, 4}}
Pings     == {Msg("PING", TRUE, 0)}
Closes    == {Msg("CLOSE", TRUE, 0)}

MCStreams ==
    [1..3 -> Singles]
    \cup {<<a, b, c>> : a \in Singles, b \in Pings, c \in Singles}
    \cup {<<a, b>> : a \in Singles, b \in Closes}
    \cup {<<a, b, c, d>> : a \in Firsts, b \in Middles, c \in Lasts, d \in Singles}
    \cup {<<a, b, c, d>> : a \in Firsts, b \in Pings, c \in Lasts, d \in Closes}
=============================================================================
