------------------------------ MODULE TlsStream ------------------------------
(***************************************************************************)
(* What a TLS channel promises to the script that uses it, whatever the    *)
(* driver does inside: a secured, ordered and lossless stream in each      *)
(* direction that is established once, may end or fail, and never comes    *)
(* back.                                                                   *)
(***************************************************************************)
EXTENDS Integers

VARIABLES
    up,     \* the session was established
    stage,  \* "running"; "ended": no more input; "failed": no more of anything
    open,   \* the script may use the channel
    sent,   \* units the peer sent
    ready,  \* units decrypted and waiting for the script
    rx,     \* units the script received
    wr,     \* units the script wrote
    tx,     \* units put on the wire
    lost    \* units given up after a failure

vars == <<up, stage, open, sent, ready, rx, wr, tx, lost>>

Stages == {"running", "ended", "failed"}
Rank(s) == CASE s = "running" -> 0 [] s = "ended" -> 1 [] s = "failed" -> 2

Init ==
    /\ up = FALSE /\ stage = "running" /\ open = TRUE
    /\ sent = 0 /\ ready = 0 /\ rx = 0 /\ wr = 0 /\ tx = 0 /\ lost = 0

\* A call may complete the handshake before it does anything else, unless the
\* session has ended.
Established(b) == b = up \/ (b /\ stage = "running")

PeerSends ==
    /\ sent' >= sent
    /\ UNCHANGED <<up, stage, open, ready, rx, wr, tx, lost>>

Establish ==
    /\ Established(up')
    /\ UNCHANGED <<stage, open, sent, ready, rx, wr, tx, lost>>

\* Input is taken from an established session that has not ended, and only what
\* was sent; a unit of it goes to the script.
Input ==
    /\ open /\ ready = 0 /\ stage = "running"
    /\ up' = TRUE
    /\ rx' = rx + 1
    /\ ready' >= 0 /\ rx' + ready' <= sent
    /\ UNCHANGED <<stage, open, sent, wr, tx, lost>>

Take ==
    /\ open /\ ready > 0
    /\ ready' = ready - 1 /\ rx' = rx + 1
    /\ UNCHANGED <<up, stage, open, sent, wr, tx, lost>>

Accept ==
    /\ open
    /\ wr' = wr + 1
    /\ UNCHANGED <<up, stage, open, sent, ready, rx, tx, lost>>

\* Output goes to the wire once, over an established session, also after the
\* input ended.
Output ==
    /\ stage # "failed"
    /\ up' = TRUE /\ Established(up')
    /\ tx' = tx + 1 /\ tx' + lost <= wr
    /\ UNCHANGED <<stage, open, sent, ready, rx, wr, lost>>

\* The session ends or fails.  Only a failure gives up what was to be written.
Stop ==
    /\ stage' \in Stages /\ Rank(stage') >= Rank(stage)
    /\ Established(up')
    /\ lost' = lost \/ (stage' = "failed" /\ lost' = wr - tx)
    /\ UNCHANGED <<open, sent, ready, rx, wr, tx>>

Close ==
    /\ open' = FALSE /\ ready' = 0
    /\ UNCHANGED <<up, stage, sent, rx, wr, tx, lost>>

Next == \/ PeerSends \/ Establish \/ Input \/ Take \/ Accept \/ Output \/ Stop \/ Close

Spec == Init /\ [][Next]_vars

=============================================================================
