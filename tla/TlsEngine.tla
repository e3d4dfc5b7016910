------------------------------ MODULE TlsEngine ------------------------------
(***************************************************************************)
(* The part of OpenSSL the driver depends on, as the driver sees it: the   *)
(* handshake, SSL_read and SSL_write through the f_ssl BIO, SSL_shutdown,  *)
(* and the SSL_get_error code that follows.  OpenSSL is not part of the    *)
(* repository; this module is derived from how tlsIO.c and tls.c use it.   *)
(*                                                                         *)
(* The SSL object is a record `ssl':                                       *)
(*   hs      handshake steps done, 0 .. 2 (2: handshake complete)          *)
(*   pend    units decrypted and not read yet (SSL_pending)                *)
(*   failed  a fatal error happened inside the library                     *)
(*   got     close_notify received (SSL_RECEIVED_SHUTDOWN)                 *)
(*   sent    close_notify sent (SSL_SENT_SHUTDOWN)                         *)
(*   part    a record was cut short by a full send buffer and is kept for  *)
(*           the retry                                                     *)
(*   tx      units of application data put on the wire                     *)
(*   shuts   number of SSL_shutdown calls so far                           *)
(***************************************************************************)
EXTENDS TlsBio

CONSTANTS
    Server,       \* TRUE: the accepting side, which reads first
    OpenSSL3,     \* TRUE: an unexpected EOF is an error of the SSL library
    RecordUnits   \* units of application data in one record of the peer

ASSUME EngineAssumption ==
    /\ Server \in BOOLEAN
    /\ OpenSSL3 \in BOOLEAN
    /\ RecordUnits \in Nat \ {0}

Codes == {"NONE", "SSL", "WANT_READ", "WANT_WRITE", "WANT_CLIENT_HELLO_CB",
          "SYSCALL", "ZERO_RETURN"}

Ssl == [hs: 0..2, pend: Nat, failed: BOOLEAN, got: BOOLEAN, sent: BOOLEAN,
        part: BOOLEAN, tx: Nat, shuts: Nat]

NewSsl == [hs |-> 0, pend |-> 0, failed |-> FALSE, got |-> FALSE, sent |-> FALSE,
           part |-> FALSE, tx |-> 0, shuts |-> 0]

\* The answer of one call: the new SSL object and channel below, the
\* SSL_get_error code, the number of units moved, errno, and whether the reason
\* is SSL_R_UNEXPECTED_EOF_WHILE_READING.
Answer(ssl, wire, rc, n, errno, eof) ==
    [ssl |-> ssl, wire |-> wire, rc |-> rc, n |-> n, errno |-> errno, eof |-> eof]

Done(ssl, wire, n) == Answer(ssl, wire, "NONE", n, "none", FALSE)

LibraryError(ssl, wire) ==
    Answer([ssl EXCEPT !.failed = TRUE], wire, "SSL", -1, "none", FALSE)

\* A call that the BIO could not serve: blocked, at EOF, or broken.
Blocked(ssl, wire, bio, want) ==
    IF bio.retry THEN Answer(ssl, wire, want, -1, "EAGAIN", FALSE)
    ELSE IF ssl.got THEN Answer(ssl, wire, "ZERO_RETURN", bio.ret, bio.errno, FALSE)
    ELSE IF bio.inEof /\ OpenSSL3
    THEN Answer([ssl EXCEPT !.failed = TRUE], wire, "SSL", -1, "none", TRUE)
    ELSE Answer(ssl, wire, "SYSCALL", bio.ret, bio.errno, FALSE)

-----------------------------------------------------------------------------
\* Our flight of the handshake.
SendFlight(ssl, wire) ==
    LET bio == BioOutput(WriteRaw(wire)) IN
    IF bio.ret > 0
    THEN Done([ssl EXCEPT !.hs = @ + 1], [wire EXCEPT !.room = @ - 1], 0)
    ELSE Blocked(ssl, wire, bio, "WANT_WRITE")

\* The peer's flight.  A server may be told by its client hello callback to ask
\* again later (`again'), which leaves the record unread.
ReceiveFlight(ssl, wire, again) ==
    LET bio  == BioInput(ReadRaw(wire))
        rest == [wire EXCEPT !.in = Tail(@)]
    IN  IF ssl.got THEN Answer(ssl, wire, "ZERO_RETURN", 0, "none", FALSE)
        ELSE IF bio.ret <= 0 THEN [Blocked(ssl, wire, bio, "WANT_READ") EXCEPT !.n = -1]
        ELSE CASE Head(wire.in) = "hs" /\ Server /\ again ->
                    Answer(ssl, wire, "WANT_CLIENT_HELLO_CB", -1, "none", FALSE)
               [] Head(wire.in) = "hs" /\ ~(Server /\ again) ->
                    Done([ssl EXCEPT !.hs = @ + 1], rest, 0)
               [] Head(wire.in) = "close_notify" ->
                    Answer([ssl EXCEPT !.got = TRUE], rest, "ZERO_RETURN", 0, "none", FALSE)
               [] OTHER -> LibraryError(ssl, rest)

\* One flight; a server receives first, a client sends first.
Flight(ssl, wire, again) ==
    IF ssl.failed THEN LibraryError(ssl, wire)
    ELSE IF ssl.hs = 2 THEN Done(ssl, wire, 0)
    ELSE IF (ssl.hs = 0) = Server THEN ReceiveFlight(ssl, wire, again)
    ELSE SendFlight(ssl, wire)

\* SSL_accept / SSL_connect: goes on until it is complete or cannot.
Continue(first, again) ==
    IF first.rc = "NONE" THEN Flight(first.ssl, first.wire, again) ELSE first

DoHandshake(ssl, wire, again) == Continue(Flight(ssl, wire, again), again)

-----------------------------------------------------------------------------
\* How many units SSL_read hands over of the `have' it holds.
Taken(have, size) == IF have < size THEN have ELSE size

\* SSL_read of at most `size' units: what is decrypted comes first, and a
\* record is read from the BIO only when nothing is.
SslRead(ssl, wire, size) ==
    LET bio  == BioInput(ReadRaw(wire))
        rest == [wire EXCEPT !.in = Tail(@)]
    IN  IF ssl.pend > 0
        THEN Done([ssl EXCEPT !.pend = @ - Taken(ssl.pend, size)], wire, Taken(ssl.pend, size))
        ELSE IF ssl.got THEN Answer(ssl, wire, "ZERO_RETURN", 0, "none", FALSE)
        ELSE IF ssl.failed THEN LibraryError(ssl, wire)
        ELSE IF bio.ret <= 0 THEN Blocked(ssl, wire, bio, "WANT_READ")
        ELSE CASE Head(wire.in) = "data" ->
                    Done([ssl EXCEPT !.pend = RecordUnits - Taken(RecordUnits, size)], rest,
                         Taken(RecordUnits, size))
               [] Head(wire.in) = "close_notify" ->
                    Answer([ssl EXCEPT !.got = TRUE], rest, "ZERO_RETURN", 0, "none", FALSE)
               [] OTHER -> LibraryError(ssl, rest)

\* SSL_write of one unit.  A record cut short is kept, and is the one the next
\* call finishes.
SslWrite(ssl, wire) ==
    LET bio == BioOutput(WriteRaw(wire)) IN
    IF ssl.failed \/ ssl.sent THEN LibraryError(ssl, wire)
    ELSE IF bio.ret > 0
    THEN Done([ssl EXCEPT !.part = FALSE, !.tx = @ + 1], [wire EXCEPT !.room = @ - 1], 1)
    ELSE [Blocked([ssl EXCEPT !.part = TRUE], wire, bio, "WANT_WRITE") EXCEPT !.n = -1]

\* SSL_shutdown: sends close_notify unless the handshake is not complete or the
\* library failed.
SslShutdown(ssl) ==
    IF ssl.hs = 2 /\ ~ssl.failed THEN [ssl EXCEPT !.shuts = @ + 1, !.sent = TRUE]
    ELSE [ssl EXCEPT !.shuts = @ + 1]

=============================================================================
